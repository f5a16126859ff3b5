------------------------- MODULE TabSessionsProofs -------------------------
(***************************************************************************)
(* The server's tab registry and what the connections of a window do to    *)
(* it, for any number of connections, losses, sweeps and restarts.         *)
(***************************************************************************)
EXTENDS TabSessions, FiniteSetTheorems, TLAPS

-----------------------------------------------------------------------------
(* The rows of a registry.                                                 *)

TabOrNone == TabIdSet \union {NoTab}
Row == [tab : TabIdSet, root : Roots, client : Conns]
Snapshot == [tabs : Seq(Row), active : TabOrNone, revision : Nat]
Registry == [tabs : Seq(Row), active : TabOrNone, next : Nat \ {0}, revision : Nat]

(* No two rows have the same tab, or the same client.                      *)
Distinct(rows) ==
    \A i, j \in DOMAIN rows : i # j => /\ rows[i].tab # rows[j].tab
                                       /\ rows[i].client # rows[j].client

ActiveIsRegistered(r) == r.active \in TabIds(r.tabs) \/ (r.tabs = <<>> /\ r.active = NoTab)

(* Every row of new is a row of old, and no row is there twice.            *)
Picks(new, old) ==
    \E p \in [DOMAIN new -> DOMAIN old] :
        /\ \A i, j \in DOMAIN new : i # j => p[i] # p[j]
        /\ \A i \in DOMAIN new : new[i] = old[p[i]]

(* r becomes s, without the tabs of gone.                                  *)
Trims(r, s, gone) ==
    /\ s \in Registry /\ s.next = r.next /\ ActiveIsRegistered(s)
    /\ Picks(s.tabs, r.tabs)
    /\ TabIds(s.tabs) = TabIds(r.tabs) \ gone

(* A nonempty set of natural numbers has a least element.                  *)
LEMMA LeastNatural ==
    ASSUME NEW S \in SUBSET Nat, S # {}
    PROVE  Min(S) \in S /\ \A y \in S : Min(S) <= y
<1>1. \E x \in S : \A y \in S : ~(<<y, x>> \in OpToRel(<, Nat))
  BY NatLessThanWellFounded, WFMin
<1>2. PICK x \in S : \A y \in S : ~(<<y, x>> \in OpToRel(<, Nat))
  BY <1>1
<1>3. \A y \in S : ~(y < x)
  BY <1>2 DEF OpToRel
<1>4. \A y \in S : x <= y
  BY <1>3
<1> QED
  BY <1>4 DEF Min

(* Where a tab is, and which tab a client has.                             *)
LEMMA PositionIs ==
    ASSUME NEW r, r.tabs \in Seq(Row), NEW t
    PROVE  \/ PositionOf(r, t) = 0 /\ \A j \in 1..Len(r.tabs) : r.tabs[j].tab # t
           \/ PositionOf(r, t) \in 1..Len(r.tabs) /\ r.tabs[PositionOf(r, t)].tab = t
<1> DEFINE I == {i \in 1..Len(r.tabs) : r.tabs[i].tab = t}
<1>1. I \in SUBSET Nat
  OBVIOUS
<1>2. PositionOf(r, t) = IF I # {} THEN Min(I) ELSE 0
  BY DEF PositionOf, SelectInSeq
<1>3. CASE I = {}
  BY <1>2, <1>3
<1>4. CASE I # {}
  BY <1>1, <1>2, <1>4, LeastNatural
<1> QED
  BY <1>3, <1>4

LEMMA ClientTabIs ==
    ASSUME NEW r, r.tabs \in Seq(Row), NEW c
    PROVE  \/ tab_for_client(r, c) = NoTab /\ \A j \in 1..Len(r.tabs) : r.tabs[j].client # c
           \/ \E i \in 1..Len(r.tabs) : r.tabs[i].client = c /\ tab_for_client(r, c) = r.tabs[i].tab
<1> DEFINE I == {i \in 1..Len(r.tabs) : r.tabs[i].client = c}
           first == IF I # {} THEN Min(I) ELSE 0
<1>1. I \in SUBSET Nat /\ 0 \notin I
  OBVIOUS
<1>2. tab_for_client(r, c) = IF first = 0 THEN NoTab ELSE r.tabs[first].tab
  BY DEF tab_for_client, SelectInSeq
<1>3. CASE I = {}
  BY <1>2, <1>3
<1>4. CASE I # {}
  <2>1. first \in I
    BY <1>1, <1>4, LeastNatural
  <2> HIDE DEF first
  <2> QED
    BY <1>1, <1>2, <2>1
<1> QED
  BY <1>3, <1>4

LEMMA PicksDistinct ==
    ASSUME NEW old, NEW new, Picks(new, old), Distinct(old)
    PROVE  Distinct(new)
BY DEF Picks, Distinct

LEMMA PicksRows ==
    ASSUME NEW old, NEW new, Picks(new, old), NEW i \in DOMAIN new
    PROVE  \E j \in DOMAIN old : new[i] = old[j]
BY DEF Picks

(* Vec::retain keeps the rows of the other tabs, each of them once.        *)
LEMMA RetainedRows ==
    ASSUME NEW rows \in Seq(Row), NEW gone
    PROVE  /\ Retained(rows, gone) \in Seq(Row)
           /\ Picks(Retained(rows, gone), rows)
           /\ TabIds(Retained(rows, gone)) = TabIds(rows) \ gone
<1> DEFINE kept == {i \in DOMAIN rows : rows[i].tab \notin gone}
           Below(i) == {j \in kept : j <= i}
           size == Cardinality(kept)
           rank == [i \in kept |-> Cardinality(Below(i))]
           at(n) == CHOOSE i \in kept : Cardinality(Below(i)) = n
<1>1. Len(rows) \in Nat /\ DOMAIN rows = 1..Len(rows)
  OBVIOUS
<1>2. IsFiniteSet(kept) /\ size \in Nat /\ kept \in SUBSET Nat
  <2>1. IsFiniteSet(1..Len(rows)) /\ kept \in SUBSET (1..Len(rows))
    BY <1>1, FS_Interval
  <2>2. IsFiniteSet(kept)
    BY <2>1, FS_Subset
  <2> QED
    BY <2>1, <2>2, FS_CardinalityType
<1>3. ASSUME NEW i \in kept
      PROVE  IsFiniteSet(Below(i)) /\ Cardinality(Below(i)) \in 1..size
  <2>1. Below(i) \in SUBSET kept /\ i \in Below(i)
    BY <1>2
  <2>2. IsFiniteSet(Below(i)) /\ Cardinality(Below(i)) \in Nat /\ Cardinality(Below(i)) <= size
    BY <1>2, <2>1, FS_Subset, FS_CardinalityType
  <2>3. Cardinality(Below(i)) # 0
    BY <2>1, <2>2, FS_EmptySet
  <2> QED
    BY <2>2, <2>3
<1>4. ASSUME NEW i \in kept, NEW j \in kept, i < j
      PROVE  Cardinality(Below(i)) # Cardinality(Below(j))
  <2>1. Below(i) \in SUBSET Below(j) /\ j \in Below(j) /\ j \notin Below(i)
    BY <1>2, <1>4
  <2> QED
    BY <1>3, <2>1, FS_Subset
<1>5. ASSUME NEW i \in kept, NEW j \in kept, i # j
      PROVE  Cardinality(Below(i)) # Cardinality(Below(j))
  <2>1. i < j \/ j < i
    BY <1>2, <1>5
  <2> HIDE DEF Below
  <2> QED
    BY <1>4, <2>1
<1>6. ASSUME NEW n \in 1..size PROVE at(n) \in kept /\ Cardinality(Below(at(n))) = n
  <2>1. rank \in Injection(kept, 1..size)
    <3>1. rank \in [kept -> 1..size]
      BY <1>3
    <3>2. \A i, j \in kept : rank[i] = rank[j] => i = j
      BY <1>5
    <3> QED
      BY <3>1, <3>2 DEF Injection, IsInjective
  <2>2. IsFiniteSet(1..size) /\ Cardinality(1..size) = size
    BY <1>2, FS_Interval
  <2>3. rank \in Surjection(kept, 1..size)
    <3> HIDE DEF rank
    <3> QED
      BY <2>1, <2>2, FS_Injection
  <2>4. \E i \in kept : Cardinality(Below(i)) = n
    BY <2>3 DEF Surjection
  <2> QED
    BY <2>4
<1>7. Retained(rows, gone) = [n \in 1..size |-> rows[at(n)]]
  BY DEF Retained
<1> DEFINE new == [n \in 1..size |-> rows[at(n)]]
<1> HIDE DEF kept, size, Below, rank, at
<1>8. new \in Seq(Row)
  <2>1. \A n \in 1..size : rows[at(n)] \in Row
    BY <1>1, <1>6 DEF kept
  <2> QED
    BY <1>2, <2>1
<1>9. Picks(new, rows)
  <2> DEFINE p == [n \in 1..size |-> at(n)]
  <2>1. p \in [DOMAIN new -> DOMAIN rows]
    BY <1>6 DEF kept
  <2>2. \A i, j \in DOMAIN new : i # j => p[i] # p[j]
    BY <1>6
  <2>3. \A i \in DOMAIN new : new[i] = rows[p[i]]
    OBVIOUS
  <2> QED
    BY <2>1, <2>2, <2>3 DEF Picks
<1>10. TabIds(new) = TabIds(rows) \ gone
  <2>1. ASSUME NEW n \in 1..size PROVE new[n].tab \in TabIds(rows) \ gone
    BY <1>6 DEF TabIds, kept
  <2>2. ASSUME NEW i \in DOMAIN rows, rows[i].tab \notin gone
        PROVE  \E n \in 1..size : new[n] = rows[i]
    <3>1. i \in kept
      BY <2>2 DEF kept
    <3> DEFINE n == Cardinality(Below(i))
    <3>2. n \in 1..size
      BY <1>3, <3>1
    <3>3. at(n) = i
      BY <1>5, <1>6, <3>1, <3>2
    <3> QED
      BY <3>2, <3>3
  <2>3. DOMAIN new = 1..size
    OBVIOUS
  <2> HIDE DEF new
  <2>4. ASSUME NEW t \in TabIds(new) PROVE t \in TabIds(rows) \ gone
    <3>1. PICK n \in 1..size : t = new[n].tab
      BY <2>3 DEF TabIds
    <3> QED
      BY <2>1, <3>1
  <2>5. ASSUME NEW t \in TabIds(rows) \ gone PROVE t \in TabIds(new)
    <3>1. PICK i \in DOMAIN rows : t = rows[i].tab
      BY DEF TabIds
    <3>2. PICK n \in 1..size : new[n] = rows[i]
      BY <2>2, <3>1
    <3> QED
      BY <2>3, <3>1, <3>2 DEF TabIds
  <2> QED
    BY <2>4, <2>5
<1> QED
  BY <1>7, <1>8, <1>9, <1>10

(* A sequence followed by another.                                         *)
LEMMA Joined ==
    ASSUME NEW T, NEW u \in Seq(T), NEW v \in Seq(T)
    PROVE  /\ u \o v \in Seq(T) /\ Len(u \o v) = Len(u) + Len(v)
           /\ \A j \in 1..Len(u) : (u \o v)[j] = u[j]
           /\ \A j \in 1..Len(v) : (u \o v)[Len(u) + j] = v[j]
OBVIOUS

(* Vec::remove.                                                            *)
LEMMA RemovedRow ==
    ASSUME NEW rows \in Seq(Row), NEW i \in 1..Len(rows)
    PROVE  /\ RemoveAt(rows, i) \in Seq(Row)
           /\ Len(RemoveAt(rows, i)) = Len(rows) - 1
           /\ \A j \in 1..(Len(rows) - 1) :
                 RemoveAt(rows, i)[j] = rows[IF j < i THEN j ELSE j + 1]
<1> DEFINE head == SubSeq(rows, 1, i - 1)
           tail == SubSeq(rows, i + 1, Len(rows))
<1>1. head \in Seq(Row) /\ Len(head) = i - 1 /\ \A j \in 1..(i - 1) : head[j] = rows[j]
  OBVIOUS
<1>2. /\ tail \in Seq(Row) /\ Len(tail) = Len(rows) - i
      /\ \A j \in 1..(Len(rows) - i) : tail[j] = rows[i + j]
  OBVIOUS
<1>3. RemoveAt(rows, i) = head \o tail
  BY DEF RemoveAt
<1> HIDE DEF head, tail
<1>4. head \o tail \in Seq(Row) /\ Len(head \o tail) = Len(rows) - 1
  <2>1. head \o tail \in Seq(Row) /\ Len(head \o tail) = Len(head) + Len(tail)
    BY <1>1, <1>2, Joined
  <2>2. Len(rows) \in Nat
    OBVIOUS
  <2> QED
    BY <1>1, <1>2, <2>1, <2>2
<1>5. ASSUME NEW j \in 1..(Len(rows) - 1)
      PROVE  (head \o tail)[j] = rows[IF j < i THEN j ELSE j + 1]
  BY <1>1, <1>2
<1> QED
  BY <1>3, <1>4, <1>5

(* A row that moves from i to p.                                           *)
MovedFrom(i, p, j) ==
    IF j = p THEN i
    ELSE LET m == IF j < p THEN j ELSE j - 1
         IN  IF m < i THEN m ELSE m + 1

LEMMA MovedRow ==
    ASSUME NEW rows \in Seq(Row), NEW i \in 1..Len(rows), NEW p \in 1..Len(rows)
    PROVE  LET new == InsertAt(RemoveAt(rows, i), p, rows[i])
           IN  /\ new \in Seq(Row) /\ Len(new) = Len(rows)
               /\ \A j \in 1..Len(rows) : new[j] = rows[MovedFrom(i, p, j)]
<1> DEFINE less == RemoveAt(rows, i)
           head == SubSeq(less, 1, p - 1)
           tail == SubSeq(less, p, Len(less))
           new == InsertAt(less, p, rows[i])
<1>1. /\ less \in Seq(Row) /\ Len(less) = Len(rows) - 1
      /\ \A j \in 1..(Len(rows) - 1) : less[j] = rows[IF j < i THEN j ELSE j + 1]
  BY RemovedRow
<1>2. Len(rows) \in Nat /\ rows[i] \in Row
  OBVIOUS
<1> HIDE DEF less
<1>3. head \in Seq(Row) /\ Len(head) = p - 1 /\ \A j \in 1..(p - 1) : head[j] = less[j]
  BY <1>1, <1>2
<1>4. /\ tail \in Seq(Row) /\ Len(tail) = Len(rows) - p
      /\ \A j \in 1..(Len(rows) - p) : tail[j] = less[p + j - 1]
  BY <1>1, <1>2
<1>5. new = head \o <<rows[i]>> \o tail
  BY DEF InsertAt
<1> DEFINE one == <<rows[i]>>
<1>6. one \in Seq(Row) /\ Len(one) = 1 /\ one[1] = rows[i]
  BY <1>2
<1> HIDE DEF head, tail, one, new
<1> DEFINE front == head \o one
<1>7. front \in Seq(Row) /\ Len(front) = p
  <2>1. front \in Seq(Row) /\ Len(front) = Len(head) + Len(one)
    BY <1>3, <1>6, Joined
  <2> QED
    BY <1>3, <1>6, <2>1
<1>8. (\A n \in 1..(p - 1) : front[n] = head[n]) /\ front[p] = rows[i]
  <2>1. \A n \in 1..(p - 1) : front[n] = head[n]
    BY <1>3, <1>6
  <2>2. 1 \in 1..Len(one)
    BY <1>6
  <2>3. front[Len(head) + 1] = one[1]
    <3>1. \A j \in 1..Len(one) : (head \o one)[Len(head) + j] = one[j]
      BY <1>3, <1>6, Joined
    <3> QED
      BY <2>2, <3>1
  <2>4. Len(head) + 1 = p
    BY <1>3
  <2> QED
    BY <1>6, <2>1, <2>3, <2>4
<1>9. new = front \o tail
  BY <1>5 DEF one
<1> HIDE DEF front
<1>10. new \in Seq(Row) /\ Len(new) = Len(rows)
  <2>1. new \in Seq(Row) /\ Len(new) = Len(front) + Len(tail)
    BY <1>4, <1>7, <1>9
  <2> QED
    BY <1>2, <1>4, <1>7, <2>1
<1>11. ASSUME NEW j \in 1..Len(rows) PROVE new[j] = rows[MovedFrom(i, p, j)]
  <2>1. CASE j < p
    <3>1. new[j] = front[j] /\ front[j] = head[j] /\ head[j] = less[j]
      BY <1>2, <1>3, <1>4, <1>7, <1>8, <1>9, <2>1
    <3>2. less[j] = rows[IF j < i THEN j ELSE j + 1]
      BY <1>1, <1>2, <2>1
    <3> QED
      BY <2>1, <3>1, <3>2 DEF MovedFrom
  <2>2. CASE j = p
    <3>1. new[j] = front[j]
      BY <1>2, <1>4, <1>7, <1>9, <2>2
    <3> QED
      BY <1>8, <2>2, <3>1 DEF MovedFrom
  <2>3. CASE j > p
    <3>1. new[j] = tail[j - p]
      BY <1>2, <1>4, <1>7, <1>9, <2>3
    <3>2. tail[j - p] = less[p + (j - p) - 1]
      BY <1>2, <1>4, <2>3
    <3>3. less[j - 1] = rows[IF j - 1 < i THEN j - 1 ELSE (j - 1) + 1] /\ p + (j - p) - 1 = j - 1
      BY <1>1, <1>2, <2>3
    <3>4. MovedFrom(i, p, j) = IF j - 1 < i THEN j - 1 ELSE (j - 1) + 1
      BY <2>3 DEF MovedFrom
    <3> QED
      BY <3>1, <3>2, <3>3, <3>4
  <2> QED
    BY <2>1, <2>2, <2>3
<1> QED
  BY <1>10, <1>11 DEF new, less

-----------------------------------------------------------------------------
(* The operations of the registry.                                         *)

GoodRegistry(r) == r \in Registry /\ Distinct(r.tabs) /\ ActiveIsRegistered(r)

(* A mutation counts.                                                      *)
LEMMA AppliedIs ==
    ASSUME NEW r \in Registry
    PROVE  /\ Applied(r) \in Registry /\ Applied(r).tabs = r.tabs
           /\ Applied(r).active = r.active /\ Applied(r).next = r.next
BY DEF Applied, Registry

LEMMA PicksSelf == ASSUME NEW rows PROVE Picks(rows, rows)
<1> DEFINE p == [i \in DOMAIN rows |-> i]
<1>1. p \in [DOMAIN rows -> DOMAIN rows] /\ \A i \in DOMAIN rows : p[i] = i
  OBVIOUS
<1> HIDE DEF p
<1> QED
  BY <1>1 DEF Picks

LEMMA SameRegistry == ASSUME NEW r, GoodRegistry(r) PROVE Trims(r, r, {})
BY PicksSelf DEF GoodRegistry, Trims

(* A row of the registry.                                                  *)
LEMMA RowIs ==
    ASSUME NEW rows \in Seq(Row), NEW i \in DOMAIN rows
    PROVE  /\ rows[i] \in Row /\ i \in 1..Len(rows)
           /\ rows[i].tab \in TabIdSet /\ rows[i].tab # NoTab /\ rows[i].tab \in TabIds(rows)
           /\ rows[i].root \in Roots /\ rows[i].client \in Conns
<1>1. rows[i] \in Row /\ i \in 1..Len(rows)
  OBVIOUS
<1>2. rows[i].tab \in TabIdSet /\ rows[i].root \in Roots /\ rows[i].client \in Conns
  BY <1>1 DEF Row
<1>3. 0 \notin TabIdSet
  BY DEF TabIdSet
<1> QED
  BY <1>1, <1>2, <1>3 DEF TabIds, NoTab

LEMMA LastTabIs ==
    ASSUME NEW rows \in Seq(Row)
    PROVE  /\ LastTab(rows) \in TabOrNone
           /\ LastTab(rows) \in TabIds(rows) \/ (rows = <<>> /\ LastTab(rows) = NoTab)
<1>1. CASE rows = <<>>
  BY <1>1 DEF LastTab, TabOrNone
<1>2. CASE rows # <<>>
  <2>1. Len(rows) \in DOMAIN rows
    BY <1>2
  <2> QED
    BY <1>2, <2>1, RowIs DEF LastTab, Last, TabOrNone
<1> QED
  BY <1>1, <1>2

LEMMA KeepRowsTrims ==
    ASSUME NEW r \in Registry, ActiveIsRegistered(r), NEW gone, NEW rows \in Seq(Row),
           Picks(rows, r.tabs), TabIds(rows) = TabIds(r.tabs) \ gone
    PROVE  Trims(r, KeepRows(r, rows), gone)
<1> DEFINE act == IF r.active \in TabIds(r.tabs) \ TabIds(rows) THEN LastTab(rows) ELSE r.active
           s == KeepRows(r, rows)
<1>1. r.revision \in Nat /\ r.next \in Nat \ {0} /\ r.active \in TabOrNone /\ r.tabs \in Seq(Row)
  BY DEF Registry
<1>2. act \in TabOrNone
  BY <1>1, LastTabIs
<1>3. act \in TabIds(rows) \/ (rows = <<>> /\ act = NoTab)
  <2>1. CASE r.active \in TabIds(r.tabs) \ TabIds(rows)
    BY <2>1, LastTabIs
  <2>2. CASE r.active \in TabIds(rows)
    BY <2>2
  <2>3. CASE r.active \notin TabIds(r.tabs)
    <3>1. r.tabs = <<>> /\ r.active = NoTab
      BY <2>3 DEF ActiveIsRegistered
    <3>2. DOMAIN rows = {}
      BY <3>1 DEF Picks
    <3>3. rows = <<>>
      BY <3>2
    <3> QED
      BY <2>3, <3>1, <3>3
  <2> QED
    BY <2>1, <2>2, <2>3
<1>4. s = [[r EXCEPT !.tabs = rows, !.active = act] EXCEPT !.revision = @ + 1]
  BY DEF KeepRows, Applied
<1> HIDE DEF act
<1>5. s.tabs = rows /\ s.active = act /\ s.next = r.next /\ s \in Registry
  <2> DEFINE kept == [r EXCEPT !.tabs = rows, !.active = act]
  <2>1. kept \in Registry /\ kept.tabs = rows /\ kept.active = act /\ kept.next = r.next
    BY <1>1, <1>2 DEF Registry
  <2>2. s = [kept EXCEPT !.revision = kept.revision + 1]
    BY <1>4
  <2> HIDE DEF kept, s
  <2> QED
    BY <2>1, <2>2 DEF Registry
<1> HIDE DEF s
<1> QED
  BY <1>3, <1>5 DEF Trims, ActiveIsRegistered, s

(* Only the row that is removed goes.                                      *)
LEMMA RemovedTrims ==
    ASSUME NEW rows \in Seq(Row), Distinct(rows), NEW i \in 1..Len(rows)
    PROVE  /\ RemoveAt(rows, i) \in Seq(Row) /\ Picks(RemoveAt(rows, i), rows)
           /\ TabIds(RemoveAt(rows, i)) = TabIds(rows) \ {rows[i].tab}
<1> DEFINE new == RemoveAt(rows, i)
           from(j) == IF j < i THEN j ELSE j + 1
<1>1. /\ new \in Seq(Row) /\ Len(new) = Len(rows) - 1
      /\ \A j \in 1..(Len(rows) - 1) : new[j] = rows[from(j)]
  BY RemovedRow
<1>2. /\ Len(rows) \in Nat /\ DOMAIN rows = 1..Len(rows)
  OBVIOUS
<1> HIDE DEF new
<1>3. DOMAIN new = 1..(Len(rows) - 1)
  BY <1>1, <1>2
<1>4. /\ \A j \in DOMAIN new : from(j) \in DOMAIN rows /\ from(j) # i
      /\ \A j, k \in DOMAIN new : j # k => from(j) # from(k)
      /\ \A n \in DOMAIN rows \ {i} : \E j \in DOMAIN new : from(j) = n
  <2>1. \A j \in DOMAIN new : from(j) \in DOMAIN rows /\ from(j) # i
    BY <1>2, <1>3
  <2>2. \A j, k \in DOMAIN new : j # k => from(j) # from(k)
    BY <1>2, <1>3
  <2>3. ASSUME NEW n \in DOMAIN rows \ {i} PROVE \E j \in DOMAIN new : from(j) = n
    <3>1. CASE n < i
      BY <1>2, <1>3, <3>1
    <3>2. CASE n > i
      <4>1. n - 1 \in DOMAIN new /\ from(n - 1) = n
        BY <1>2, <1>3, <3>2
      <4> QED
        BY <4>1
    <3> QED
      BY <1>2, <3>1, <3>2
  <2> QED
    BY <2>1, <2>2, <2>3
<1> DEFINE p == [j \in DOMAIN new |-> from(j)]
<1>5. p \in [DOMAIN new -> DOMAIN rows] /\ \A j \in DOMAIN new : p[j] = from(j)
  BY <1>4
<1> HIDE DEF from, p
<1>6. Picks(new, rows)
  BY <1>1, <1>3, <1>4, <1>5, SMTT(30) DEF Picks
<1>7. TabIds(new) = TabIds(rows) \ {rows[i].tab}
  <2>1. ASSUME NEW j \in DOMAIN new PROVE new[j].tab \in TabIds(rows) \ {rows[i].tab}
    <3>1. new[j] = rows[from(j)] /\ from(j) \in DOMAIN rows /\ from(j) # i /\ i \in DOMAIN rows
      BY <1>1, <1>2, <1>3, <1>4
    <3> QED
      BY <3>1 DEF TabIds, Distinct
  <2>2. ASSUME NEW n \in DOMAIN rows, rows[n].tab # rows[i].tab
        PROVE  \E j \in DOMAIN new : new[j].tab = rows[n].tab
    <3>1. PICK j \in DOMAIN new : from(j) = n
      BY <1>4, <2>2
    <3> QED
      BY <1>1, <1>3, <3>1
  <2> QED
    BY <2>1, <2>2 DEF TabIds
<1> QED
  BY <1>1, <1>6, <1>7 DEF new

(* A move keeps all rows.                                                  *)
LEMMA MovedTrims ==
    ASSUME NEW rows \in Seq(Row), NEW i \in 1..Len(rows), NEW q \in 1..Len(rows)
    PROVE  LET new == InsertAt(RemoveAt(rows, i), q, rows[i])
           IN  new \in Seq(Row) /\ Picks(new, rows) /\ TabIds(new) = TabIds(rows)
<1> DEFINE new == InsertAt(RemoveAt(rows, i), q, rows[i])
           from(j) == MovedFrom(i, q, j)
<1>1. /\ new \in Seq(Row) /\ Len(new) = Len(rows)
      /\ \A j \in 1..Len(rows) : new[j] = rows[from(j)]
  BY MovedRow
<1>2. Len(rows) \in Nat /\ DOMAIN rows = 1..Len(rows)
  OBVIOUS
<1> HIDE DEF new
<1>3. DOMAIN new = DOMAIN rows
  BY <1>1, <1>2
<1>4. \A j \in DOMAIN rows : from(j) \in DOMAIN rows
  BY <1>2 DEF MovedFrom
<1>5. \A j, k \in DOMAIN rows : j # k => from(j) # from(k)
  BY <1>2 DEF MovedFrom
<1>6. ASSUME NEW n \in DOMAIN rows PROVE \E j \in DOMAIN rows : from(j) = n
  <2> DEFINE m == IF n < i THEN n ELSE n - 1
             j == IF n = i THEN q ELSE IF m < q THEN m ELSE m + 1
  <2>1. j \in DOMAIN rows /\ from(j) = n
    BY <1>2 DEF MovedFrom
  <2> QED
    BY <2>1
<1> DEFINE p == [j \in DOMAIN new |-> from(j)]
<1>7. p \in [DOMAIN new -> DOMAIN rows] /\ \A j \in DOMAIN new : p[j] = from(j)
  BY <1>3, <1>4
<1> HIDE DEF from, p
<1>8. Picks(new, rows)
  <2>1. \A j \in DOMAIN new : new[j] = rows[p[j]]
    BY <1>1, <1>2, <1>3, <1>7
  <2>2. \A j, k \in DOMAIN new : j # k => p[j] # p[k]
    BY <1>3, <1>5, <1>7
  <2> QED
    BY <1>7, <2>1, <2>2 DEF Picks
<1>9. TabIds(new) = TabIds(rows)
  <2>1. \A j \in DOMAIN rows : new[j] = rows[from(j)]
    BY <1>1, <1>2
  <2>2. \A j \in DOMAIN new : new[j].tab \in TabIds(rows)
    BY <1>3, <1>4, <2>1 DEF TabIds
  <2>3. \A n \in DOMAIN rows : rows[n].tab \in TabIds(new)
    BY <1>3, <1>6, <2>1 DEF TabIds
  <2> QED
    BY <2>2, <2>3 DEF TabIds
<1> QED
  BY <1>1, <1>8, <1>9 DEF new

LEMMA CloseTrims ==
    ASSUME NEW r, GoodRegistry(r), NEW t, NEW c
    PROVE  Trims(r, close_tab(r, t, c), IF BoundTo(r, t, c) THEN {t} ELSE {})
<1> DEFINE i == PositionOf(r, t)
<1>1. r \in Registry /\ r.tabs \in Seq(Row) /\ Distinct(r.tabs) /\ ActiveIsRegistered(r)
  BY DEF GoodRegistry, Registry
<1>2. CASE BoundTo(r, t, c)
  <2>1. i \in 1..Len(r.tabs) /\ r.tabs[i].tab = t
    BY <1>1, <1>2, PositionIs DEF BoundTo, Registered
  <2>2. close_tab(r, t, c) = KeepRows(r, RemoveAt(r.tabs, i))
    BY <1>2 DEF close_tab
  <2> HIDE DEF i
  <2>3. /\ RemoveAt(r.tabs, i) \in Seq(Row) /\ Picks(RemoveAt(r.tabs, i), r.tabs)
        /\ TabIds(RemoveAt(r.tabs, i)) = TabIds(r.tabs) \ {t}
    BY <1>1, <2>1, RemovedTrims
  <2> QED
    BY <1>1, <1>2, <2>2, <2>3, KeepRowsTrims
<1>3. CASE ~BoundTo(r, t, c)
  BY <1>3, SameRegistry DEF close_tab
<1> QED
  BY <1>2, <1>3

LEMMA SweepTrims ==
    ASSUME NEW r, GoodRegistry(r), NEW old, NEW alive
    PROVE  Trims(r, sweep_expired(r, old, alive), Expired(r, old, alive))
<1> DEFINE gone == Expired(r, old, alive)
<1>1. r \in Registry /\ r.tabs \in Seq(Row) /\ ActiveIsRegistered(r)
  BY DEF GoodRegistry, Registry
<1>2. CASE gone = {}
  BY <1>2, SameRegistry DEF sweep_expired
<1>3. CASE gone # {}
  <2>1. sweep_expired(r, old, alive) = KeepRows(r, Retained(r.tabs, gone))
    BY <1>3 DEF sweep_expired
  <2> HIDE DEF gone
  <2> QED
    BY <1>1, <2>1, RetainedRows, KeepRowsTrims DEF gone
<1> QED
  BY <1>2, <1>3

LEMMA ActivateTrims ==
    ASSUME NEW r, GoodRegistry(r), NEW t, NEW c
    PROVE  Trims(r, activate(r, t, c), {})
<1>1. CASE BoundTo(r, t, c) /\ r.active # t
  <2> DEFINE q == [r EXCEPT !.active = t]
             s == Applied(q)
  <2>1. r \in Registry /\ r.tabs \in Seq(Row)
    BY DEF GoodRegistry, Registry
  <2>2. \E i \in DOMAIN r.tabs : r.tabs[i].tab = t
    BY <1>1, <2>1, PositionIs DEF BoundTo, Registered
  <2>3. t \in TabIds(r.tabs) /\ t \in TabOrNone
    BY <2>1, <2>2, RowIs DEF TabIds, TabOrNone
  <2>4. activate(r, t, c) = s
    BY <1>1 DEF activate
  <2>5. s \in Registry /\ s.tabs = r.tabs /\ s.active = t /\ s.next = r.next
    <3>1. q \in Registry /\ q.tabs = r.tabs /\ q.active = t /\ q.next = r.next
      BY <2>1, <2>3 DEF Registry
    <3> HIDE DEF q
    <3> QED
      BY <3>1, AppliedIs
  <2> HIDE DEF s
  <2> QED
    BY <2>3, <2>4, <2>5, PicksSelf DEF Trims, ActiveIsRegistered
<1>2. CASE ~(BoundTo(r, t, c) /\ r.active # t)
  BY <1>2, SameRegistry DEF activate
<1> QED
  BY <1>1, <1>2

LEMMA MoveTrims ==
    ASSUME NEW r, GoodRegistry(r), NEW t, NEW c, NEW position
    PROVE  Trims(r, move_to(r, t, c, position), {})
<1> DEFINE i == PositionOf(r, t)
           moves == /\ BoundTo(r, t, c)
                    /\ position \in DOMAIN r.tabs
                    /\ position # i
<1>1. r \in Registry /\ r.tabs \in Seq(Row) /\ ActiveIsRegistered(r)
  BY DEF GoodRegistry, Registry
<1>2. CASE moves
  <2> DEFINE new == InsertAt(RemoveAt(r.tabs, i), position, r.tabs[i])
             q == [r EXCEPT !.tabs = new]
             s == Applied(q)
  <2>1. i \in 1..Len(r.tabs) /\ position \in 1..Len(r.tabs)
    BY <1>1, <1>2, PositionIs DEF BoundTo, Registered
  <2>2. move_to(r, t, c, position) = s
    BY <1>2 DEF move_to
  <2> HIDE DEF i
  <2>3. new \in Seq(Row) /\ Picks(new, r.tabs) /\ TabIds(new) = TabIds(r.tabs)
    BY <1>1, <2>1, MovedTrims
  <2> HIDE DEF new
  <2>4. s \in Registry /\ s.tabs = new /\ s.active = r.active /\ s.next = r.next
    <3>1. q \in Registry /\ q.tabs = new /\ q.active = r.active /\ q.next = r.next
      BY <1>1, <2>3 DEF Registry
    <3> HIDE DEF q
    <3> QED
      BY <3>1, AppliedIs
  <2>5. r.tabs # <<>>
    BY <1>1, <2>1
  <2> HIDE DEF s
  <2> QED
    BY <1>1, <2>2, <2>3, <2>4, <2>5 DEF Trims, ActiveIsRegistered
<1>3. CASE ~moves
  <2>1. move_to(r, t, c, position) = r
    BY <1>3 DEF move_to
  <2> QED
    BY <2>1, SameRegistry
<1> QED
  BY <1>2, <1>3

(* A new tab gets an id that no row has.                                   *)
LEMMA CreateGood ==
    ASSUME NEW r, GoodRegistry(r), r.next \in TabIdSet, NEW c \in Conns, NEW root \in Roots,
           \A i \in DOMAIN r.tabs : r.tabs[i].tab # r.next /\ r.tabs[i].client # c
    PROVE  LET s == create_tab(r, c, root)
           IN  /\ GoodRegistry(s) /\ s.next = r.next + 1
               /\ s.tabs = Append(r.tabs, [tab |-> r.next, root |-> root, client |-> c])
               /\ TabIds(s.tabs) = TabIds(r.tabs) \union {r.next}
<1> DEFINE row == [tab |-> r.next, root |-> root, client |-> c]
           rows == Append(r.tabs, row)
           s == create_tab(r, c, root)
<1>1. r \in Registry /\ r.tabs \in Seq(Row) /\ Distinct(r.tabs) /\ r.next \in Nat
  BY DEF GoodRegistry, Registry
<1>2. row \in Row /\ row.tab = r.next /\ row.client = c
  BY DEF Row
<1> DEFINE q == [r EXCEPT !.tabs = rows, !.active = r.next, !.next = r.next + 1]
<1>3. s = Applied(q)
  BY DEF create_tab
<1> HIDE DEF row
<1>4. /\ rows \in Seq(Row) /\ Len(rows) = Len(r.tabs) + 1 /\ Len(r.tabs) \in Nat
      /\ rows[Len(r.tabs) + 1] = row /\ \A i \in 1..Len(r.tabs) : rows[i] = r.tabs[i]
  BY <1>1, <1>2
<1> HIDE DEF rows
<1>5. s \in Registry /\ s.tabs = rows /\ s.active = r.next /\ s.next = r.next + 1
  <2>1. r.next \in TabOrNone /\ r.next + 1 \in Nat \ {0}
    BY <1>1 DEF TabOrNone
  <2>2. q \in Registry /\ q.tabs = rows /\ q.active = r.next /\ q.next = r.next + 1
    BY <1>1, <1>4, <2>1 DEF Registry
  <2> HIDE DEF q
  <2> QED
    BY <1>3, <2>2, AppliedIs
<1>6. DOMAIN rows = 1..(Len(r.tabs) + 1) /\ DOMAIN r.tabs = 1..Len(r.tabs)
  BY <1>1, <1>4
<1>7. Distinct(rows)
  <2>1. ASSUME NEW i \in DOMAIN rows, NEW j \in DOMAIN rows, i # j
        PROVE  rows[i].tab # rows[j].tab /\ rows[i].client # rows[j].client
    <3>1. /\ i \in DOMAIN r.tabs \/ i = Len(r.tabs) + 1
          /\ j \in DOMAIN r.tabs \/ j = Len(r.tabs) + 1
      BY <1>4, <1>6
    <3>2. CASE i \in DOMAIN r.tabs /\ j \in DOMAIN r.tabs
      BY <1>1, <1>4, <1>6, <2>1, <3>2 DEF Distinct
    <3> QED
      BY <1>2, <1>4, <1>6, <2>1, <3>1, <3>2
  <2> QED
    BY <2>1 DEF Distinct
<1>8. TabIds(rows) = TabIds(r.tabs) \union {r.next}
  <2>1. ASSUME NEW i \in DOMAIN rows PROVE rows[i].tab \in TabIds(r.tabs) \union {r.next}
    <3>1. i \in 1..Len(r.tabs) \/ i = Len(r.tabs) + 1
      BY <1>4, <1>6
    <3> QED
      BY <1>2, <1>4, <1>6, <3>1 DEF TabIds
  <2>2. ASSUME NEW i \in DOMAIN r.tabs PROVE r.tabs[i].tab \in TabIds(rows)
    <3>1. rows[i] = r.tabs[i] /\ i \in DOMAIN rows
      BY <1>4, <1>6
    <3> QED
      BY <3>1 DEF TabIds
  <2>3. r.next \in TabIds(rows)
    <3>1. Len(r.tabs) + 1 \in DOMAIN rows
      BY <1>4, <1>6
    <3> QED
      BY <1>2, <1>4, <3>1 DEF TabIds
  <2> QED
    BY <2>1, <2>2, <2>3 DEF TabIds
<1> QED
  BY <1>5, <1>7, <1>8 DEF GoodRegistry, ActiveIsRegistered, rows, row, s

(* A reclaim changes the client of one row.                                *)
LEMMA ReclaimGood ==
    ASSUME NEW r, GoodRegistry(r), NEW t, Registered(r, t), NEW c \in Conns,
           \A i \in DOMAIN r.tabs : r.tabs[i].client # c
    PROVE  LET s == reclaim(r, t, c)
           IN  /\ GoodRegistry(s) /\ s.next = r.next /\ DOMAIN s.tabs = DOMAIN r.tabs
               /\ TabIds(s.tabs) = TabIds(r.tabs)
               /\ \A i \in DOMAIN r.tabs :
                     /\ s.tabs[i].tab = r.tabs[i].tab /\ s.tabs[i].root = r.tabs[i].root
                     /\ s.tabs[i].client = IF r.tabs[i].tab = t THEN c ELSE r.tabs[i].client
<1> DEFINE n == PositionOf(r, t)
           s == reclaim(r, t, c)
           row == [r.tabs[n] EXCEPT !.client = c]
           rows == [r.tabs EXCEPT ![n] = row]
<1>1. /\ r \in Registry /\ r.tabs \in Seq(Row) /\ Distinct(r.tabs) /\ ActiveIsRegistered(r)
      /\ Len(r.tabs) \in Nat /\ DOMAIN r.tabs = 1..Len(r.tabs)
  <2>1. r \in Registry /\ r.tabs \in Seq(Row) /\ Distinct(r.tabs) /\ ActiveIsRegistered(r)
    BY DEF GoodRegistry, Registry
  <2> QED
    BY <2>1
<1>2. n \in 1..Len(r.tabs) /\ r.tabs[n].tab = t
  BY <1>1, PositionIs DEF Registered
<1>3. ~BoundTo(r, t, c)
  BY <1>1, <1>2 DEF BoundTo
<1>4. s = Applied([r EXCEPT !.tabs[n].client = c])
  BY <1>3 DEF reclaim
<1>5. [r EXCEPT !.tabs[n].client = c] = [r EXCEPT !.tabs = rows]
  BY <1>1, <1>2 DEF Registry
<1> HIDE DEF n
<1>6. row \in Row /\ row.tab = t /\ row.client = c /\ row.root = r.tabs[n].root
  <2>1. r.tabs[n] \in Row
    BY <1>1, <1>2
  <2> QED
    BY <1>2, <2>1 DEF Row
<1> HIDE DEF row
<1>7. /\ rows \in Seq(Row) /\ DOMAIN rows = DOMAIN r.tabs /\ rows[n] = row
      /\ \A i \in DOMAIN r.tabs : i # n => rows[i] = r.tabs[i]
  BY <1>1, <1>2, <1>6
<1> HIDE DEF rows
<1>8. s \in Registry /\ s.tabs = rows /\ s.active = r.active /\ s.next = r.next
  <2> DEFINE q == [r EXCEPT !.tabs = rows]
  <2>1. q \in Registry /\ q.tabs = rows /\ q.active = r.active /\ q.next = r.next
    BY <1>1, <1>7 DEF Registry
  <2>2. s = Applied(q)
    BY <1>4, <1>5
  <2> HIDE DEF q
  <2> QED
    BY <2>1, <2>2, AppliedIs
<1>9. ASSUME NEW i \in DOMAIN r.tabs
      PROVE  /\ rows[i].tab = r.tabs[i].tab /\ rows[i].root = r.tabs[i].root
             /\ rows[i].client = IF r.tabs[i].tab = t THEN c ELSE r.tabs[i].client
  <2>1. n \in DOMAIN r.tabs /\ (i # n => r.tabs[i].tab # t)
    BY <1>1, <1>2 DEF Distinct
  <2> QED
    BY <1>2, <1>6, <1>7, <2>1
<1>10. Distinct(rows)
  BY <1>1, <1>7, <1>9 DEF Distinct
<1>11. TabIds(rows) = TabIds(r.tabs)
  BY <1>7, <1>9 DEF TabIds
<1>12. ActiveIsRegistered(s)
  <2>1. r.tabs # <<>>
    BY <1>1, <1>2
  <2> QED
    BY <1>1, <1>8, <1>11, <2>1 DEF ActiveIsRegistered
<1> QED
  BY <1>7, <1>8, <1>9, <1>10, <1>11, <1>12 DEF GoodRegistry

-----------------------------------------------------------------------------
(* The server's side.                                                      *)

Phases == Handling \union {"closed", "closing", "leaving"}
Early == {"arrived", "ready", "looked", "ensured"}
Unbound == {"arrived", "ready"}
Holding == Handling \union {"closed", "closing"}

Bindings == [op : {"new", "reclaim"}, tab : TabOrNone, root : Roots]
Session == [phase : Phases, id : Conns, bind : Bindings, seen : BOOLEAN, bound : TabOrNone,
            state : TabOrNone, snap : Snapshot, cut : BOOLEAN]
Left == [phase : {"gone"}, id : Conns]
Connection == Session \union Left \union {Off}

Waiting == {k \in Conns : conn[k].phase \in Unbound}

(* Registry r after n clients.                                             *)
RegistryInv(r, n) ==
    /\ GoodRegistry(r)
    /\ \A i \in DOMAIN r.tabs : r.tabs[i].tab < r.next /\ r.tabs[i].client <= n

(* A connection x: its client has no tab but the one it is bound to, none  *)
(* before it binds one, and none after it closed it.                       *)
ConnectionInv(x, r, n) ==
    x \in Session =>
        /\ x.id <= n
        /\ \A i \in DOMAIN r.tabs : r.tabs[i].client = x.id => r.tabs[i].tab = x.bound
        /\ x.phase \in Early => x.bound = NoTab
        /\ x.seen => x.bind.tab \in TabIdSet
        /\ x.phase = "closed" => x.bound \notin TabIds(r.tabs) /\ x.bound < r.next

(* A grant is held by the connection that routes to its tab.               *)
GrantInv(g, x) ==
    x \in Session /\ x.phase \in Holding /\ x.bound = g[1] /\ x.state = g[1]

CountInv ==
    /\ count \in [conns : Nat, roots : Nat, clients : Nat, commands : Nat, losses : Nat,
                  restarts : Nat, expiries : Nat]
    /\ count.clients <= count.conns /\ count.conns <= MaxConns /\ count.roots \in Roots

(* Clients have ids of their own.                                          *)
IdsDiffer ==
    \A j, k \in Conns :
        j # k /\ conn[j] \in Session /\ conn[k] \in Session => conn[j].id # conn[k].id

(* There is a tab id for each connection that may still ask for one.       *)
IdsSuffice == reg.next + Cardinality(Waiting) <= count.clients + 1

ServerInv ==
    /\ conn \in [Conns -> Connection]
    /\ CountInv
    /\ RegistryInv(reg, count.clients)
    /\ idle \subseteq TabIds(reg.tabs)
    /\ TabIds(reg.tabs) \subseteq states
    /\ states \subseteq TabIdSet
    /\ live \subseteq Conns
    /\ grants \subseteq TabIdSet \X Conns
    /\ \A k \in Conns : ConnectionInv(conn[k], reg, count.clients)
    /\ \A k \in Conns : k > count.conns => conn[k] = Off
    /\ \A g \in grants : GrantInv(g, conn[g[2]])
    /\ IdsDiffer
    /\ IdsSuffice

LEMMA ConnectionIs ==
    ASSUME NEW x \in Connection
    PROVE  /\ x.phase \notin {"off", "gone"} => x \in Session
           /\ x \in Session => x.phase \in Phases /\ x.phase \notin {"off", "gone"}
           /\ x.phase \in Phases => x \in Session
           /\ x = Off <=> x.phase = "off"
           /\ x # Off => x.id \in Conns
<1>1. CASE x \in Session
  BY <1>1 DEF Session, Phases, Handling, Off
<1>2. CASE x \in Left
  <2>1. x.phase = "gone" /\ x.id \in Conns
    BY <1>2 DEF Left
  <2> QED
    BY <2>1 DEF Session, Phases, Handling, Off
<1>3. CASE x = Off
  <2>1. x.phase = "off"
    BY <1>3 DEF Off
  <2> QED
    BY <1>3, <2>1 DEF Session, Phases, Handling
<1> QED
  BY <1>1, <1>2, <1>3 DEF Connection

(* The registry that a step leaves keeps its promises to clients.          *)
LEMMA TrimsKeeps ==
    ASSUME NEW r, NEW s, NEW gone, NEW n \in Nat, NEW m \in Nat, n <= m,
           RegistryInv(r, n), Trims(r, s, gone)
    PROVE  /\ RegistryInv(s, m)
           /\ \A x : ConnectionInv(x, r, n) => ConnectionInv(x, s, m)
<1>1. s \in Registry /\ s.next = r.next /\ ActiveIsRegistered(s) /\ Picks(s.tabs, r.tabs)
  BY DEF Trims
<1>2. r \in Registry /\ r.tabs \in Seq(Row) /\ Distinct(r.tabs)
  BY DEF RegistryInv, GoodRegistry, Registry
<1>3. GoodRegistry(s)
  BY <1>1, <1>2, PicksDistinct DEF GoodRegistry
<1>4. ASSUME NEW i \in DOMAIN s.tabs
      PROVE  s.tabs[i].tab < s.next /\ s.tabs[i].client <= m
  <2>1. PICK j \in DOMAIN r.tabs : s.tabs[i] = r.tabs[j]
    BY <1>1, PicksRows
  <2>2. r.tabs[j].tab < r.next /\ r.tabs[j].client <= n
    BY DEF RegistryInv
  <2>3. r.tabs[j].client \in Nat
    <3>1. r.tabs[j].client \in Conns
      BY <1>2, RowIs
    <3> QED
      BY <3>1 DEF Conns
  <2> QED
    BY <1>1, <2>1, <2>2, <2>3
<1>5. ASSUME NEW x, ConnectionInv(x, r, n) PROVE ConnectionInv(x, s, m)
  <2> SUFFICES ASSUME x \in Session PROVE ConnectionInv(x, s, m)
    BY DEF ConnectionInv
  <2>1. x.id \in Nat /\ x.id <= n
    BY <1>5 DEF ConnectionInv, Session, Conns
  <2>2. x.id <= m
    BY <2>1
  <2>3. \A i \in DOMAIN s.tabs : s.tabs[i].client = x.id => s.tabs[i].tab = x.bound
    <3>1. \A i \in DOMAIN s.tabs : \E j \in DOMAIN r.tabs : s.tabs[i] = r.tabs[j]
      BY <1>1, PicksRows
    <3> QED
      BY <1>5, <3>1 DEF ConnectionInv
  <2>4. TabIds(s.tabs) \subseteq TabIds(r.tabs)
    BY DEF Trims
  <2> QED
    BY <1>1, <1>5, <2>2, <2>3, <2>4 DEF ConnectionInv
<1> QED
  BY <1>3, <1>4, <1>5 DEF RegistryInv

(* A connection goes on, or leaves.                                        *)
Alike(k) ==
    \/ conn'[k] = conn[k]
    \/ /\ conn[k] \in Session /\ conn'[k] \in Session
       /\ conn'[k].id = conn[k].id
       /\ conn'[k].phase \in Unbound => conn[k].phase \in Unbound
    \/ conn[k] \in Session /\ conn'[k] \in Left

(* A connection whose binding a step leaves alone.                         *)
Follows(x, y) ==
    /\ x \in Session /\ y \in Session
    /\ y.id = x.id /\ y.bound = x.bound /\ y.state \in {x.state, x.bound}
    /\ y.phase \in Early => x.phase \in Early
    /\ y.phase \in Unbound => x.phase \in Unbound
    /\ y.phase = "closed" => x.phase = "closed"
    /\ y.bind = x.bind /\ (y.seen => x.seen \/ y.bind.tab \in TabIdSet)

Same(k) ==
    \/ conn'[k] = conn[k]
    \/ Follows(conn[k], conn'[k])
    \/ conn[k] \in Session /\ conn'[k] \in Left

Holds(k) == conn'[k].phase = conn[k].phase \/ conn'[k].phase \in Holding

LEMMA LeftIsNoSession == \A x \in Left : x \notin Session /\ x.phase \notin Phases
BY DEF Left, Session, Phases, Handling

LEMMA SameKeeps ==
    ASSUME NEW k \in Conns, Same(k), NEW r, NEW n, ConnectionInv(conn[k], r, n)
    PROVE  ConnectionInv(conn'[k], r, n)
BY LeftIsNoSession DEF Same, Follows, ConnectionInv

LEMMA SameIsAlike == ASSUME NEW k \in Conns, Same(k) PROVE Alike(k)
BY DEF Same, Follows, Alike

(* The connections that may ask for a tab are finitely many.               *)
LEMMA WaitingIsFinite == IsFiniteSet(Waiting) /\ Cardinality(Waiting) \in Nat
<1>1. MaxConns \in Nat
  BY TabConstants
<1>2. IsFiniteSet(Conns)
  BY <1>1, FS_Interval DEF Conns
<1>3. IsFiniteSet(Waiting)
  BY <1>2, FS_Subset DEF Waiting
<1> QED
  BY <1>3, FS_CardinalityType

LEMMA FewerWait ==
    ASSUME Waiting' \subseteq Waiting
    PROVE  Cardinality(Waiting') \in Nat /\ Cardinality(Waiting') <= Cardinality(Waiting)
BY WaitingIsFinite, FS_Subset, FS_CardinalityType

(* A step that keeps the promises to each connection.                      *)
LEMMA ServerGoesOn ==
    ASSUME ServerInv, conn' \in [Conns -> Connection], \A k \in Conns : Alike(k),
           RegistryInv(reg', count.clients), IdsSuffice',
           \A k \in Conns : ConnectionInv(conn'[k], reg', count.clients),
           idle' \subseteq TabIds(reg'.tabs), TabIds(reg'.tabs) \subseteq states',
           states' \subseteq TabIdSet, live' \subseteq Conns,
           grants' \subseteq TabIdSet \X Conns, \A g \in grants' : GrantInv(g, conn'[g[2]]),
           CountInv', count'.clients = count.clients, count'.conns = count.conns
    PROVE  ServerInv'
<1>1. \A k \in Conns : k > count'.conns => conn'[k] = Off
  <2>1. Off \notin Session
    BY DEF Off, Session, Phases, Handling
  <2> QED
    BY <2>1 DEF ServerInv, Alike
<1>2. IdsDiffer'
  BY LeftIsNoSession DEF ServerInv, IdsDiffer, Alike
<1> QED
  BY <1>1, <1>2 DEF ServerInv

LEMMA NobodyWaitsMore ==
    ASSUME ServerInv, \A k \in Conns : Alike(k), reg'.next = reg.next,
           count'.clients = count.clients
    PROVE  IdsSuffice'
<1>1. count.clients \in Nat /\ reg.next \in Nat
  <2>1. count.clients \in Nat /\ reg \in Registry
    BY DEF ServerInv, CountInv, RegistryInv, GoodRegistry
  <2> QED
    BY <2>1 DEF Registry
<1>2. Waiting' \subseteq Waiting
  <2>1. Unbound \subseteq Phases
    BY DEF Unbound, Phases, Handling
  <2> QED
    BY <2>1, LeftIsNoSession DEF Waiting, Alike
<1>3. Cardinality(Waiting') \in Nat /\ Cardinality(Waiting') <= Cardinality(Waiting)
  BY <1>2, FewerWait
<1>4. reg.next + Cardinality(Waiting) <= count.clients + 1
  BY DEF ServerInv, IdsSuffice
<1>5. reg'.next + Cardinality(Waiting') <= count'.clients + 1
  BY <1>1, <1>3, <1>4, WaitingIsFinite
<1> QED
  BY <1>5 DEF IdsSuffice

(* A step that changes no binding.                                         *)
LEMMA ServerKept ==
    ASSUME ServerInv, NEW gone, Trims(reg, reg', gone), conn' \in [Conns -> Connection],
           \A k \in Conns : Same(k),
           grants' \subseteq TabIdSet \X Conns, \A g \in grants' : GrantInv(g, conn'[g[2]]),
           idle' \subseteq TabIds(reg'.tabs), TabIds(reg'.tabs) \subseteq states',
           states' \subseteq TabIdSet, live' \subseteq Conns, CountInv',
           count'.clients = count.clients, count'.conns = count.conns
    PROVE  ServerInv'
<1>1. count.clients \in Nat /\ reg'.next = reg.next
  BY DEF ServerInv, CountInv, Trims
<1>2. /\ RegistryInv(reg', count.clients)
      /\ \A x : ConnectionInv(x, reg, count.clients) => ConnectionInv(x, reg', count.clients)
  <2>1. count.clients <= count.clients
    BY <1>1
  <2> QED
    BY <1>1, <2>1, TrimsKeeps DEF ServerInv
<1>3. \A k \in Conns : ConnectionInv(conn'[k], reg', count.clients)
  BY <1>2, SameKeeps DEF ServerInv
<1>4. \A k \in Conns : Alike(k)
  BY SameIsAlike
<1>5. IdsSuffice'
  BY <1>1, <1>4, NobodyWaitsMore
<1> QED
  BY <1>2, <1>3, <1>4, <1>5, ServerGoesOn

(* The grants of a step that leaves them, and who holds them, alone.       *)
LEMMA GrantsKept ==
    ASSUME ServerInv, \A k \in Conns : Same(k) /\ Holds(k), grants' = grants
    PROVE  grants' \subseteq TabIdSet \X Conns /\ \A g \in grants' : GrantInv(g, conn'[g[2]])
<1>1. \A g \in grants : g[2] \in Conns
  BY DEF ServerInv
<1>2. ASSUME NEW g \in grants, NEW k \in Conns, g[2] = k PROVE GrantInv(g, conn'[k])
  <2>1. GrantInv(g, conn[k]) /\ Same(k) /\ Holds(k)
    BY <1>2 DEF ServerInv
  <2>2. Holding \subseteq Phases
    BY DEF Holding, Phases
  <2>3. conn'[k].phase \in Holding
    BY <2>1 DEF Holds, GrantInv
  <2>4. conn'[k] \notin Left
    BY <2>2, <2>3, LeftIsNoSession
  <2> QED
    BY <2>1, <2>3, <2>4 DEF Same, Follows, GrantInv
<1> QED
  BY <1>1, <1>2 DEF ServerInv

-----------------------------------------------------------------------------
(* The window, and what is on its way between it and the server.           *)

Relayed == Snapshot \union {Lost}
Ops == {"activate", "close", "left", "right", "to"}
Task == [for : Conns, tab : TabOrNone, root : Roots, link : Conns \union {0},
         keyed : BOOLEAN, cancelled : BOOLEAN]
Tab == [tab : TabOrNone, root : Roots, link : Conns]

(* A queue of commands.                                                    *)
Commands(q) == \E S : q \in Seq(S) /\ \A x \in S : x.op \in Ops

MessagesInv ==
    /\ lane \in [Conns -> Seq(Relayed)]
    /\ DOMAIN commands = Conns /\ \A k \in Conns : Commands(commands[k])
    /\ reply \in [Conns -> {"none", "session", "lost", "rejected"}]
    /\ \A k \in Conns : reply[k] = "session" => conn[k] # Off

DriverInv ==
    /\ Clients \subseteq Conns
    /\ mounted \in [Clients -> Tab]
    /\ tasks \subseteq Task
    /\ dialog \in Conns \union {0}

TabsInv == ServerInv /\ MessagesInv /\ DriverInv

LEMMA SnapshotIs == ASSUME NEW r \in Registry PROVE snapshot(r) \in Snapshot
BY DEF Registry, Snapshot, snapshot

LEMMA NoSnapshotIs == NoSnapshot \in Snapshot
BY DEF Snapshot, snapshot, NoSnapshot, NewRegistry, TabOrNone

(* A broadcast reaches whoever hears it.                                   *)
LEMMA RelayTold ==
    ASSUME NEW L, NEW lanes \in [Conns -> Seq(L)], NEW snap \in L
    PROVE  Told(lanes, snap) \in [Conns -> Seq(L)]
BY DEF Told

LEMMA ToldIs ==
    ASSUME NEW lanes \in [Conns -> Seq(Relayed)], NEW snap \in Snapshot
    PROVE  Told(lanes, snap) \in [Conns -> Seq(Relayed)]
<1>1. snap \in Relayed
  BY DEF Relayed
<1> QED
  BY <1>1 DEF Told

(* The stream ends with Lost.                                              *)
LEMMA RelayEnded ==
    ASSUME NEW L, Lost \in L, lane \in [Conns -> Seq(L)], NEW k \in Conns, NEW after \in Ended(k)
    PROVE  after \in [Conns -> Seq(L)]
<1>1. CASE conn[k].cut
  BY <1>1 DEF Ended
<1>2. CASE ~conn[k].cut /\ reply[k] # "session"
  <2>1. after = [lane EXCEPT ![k] = <<>>]
    BY <1>2 DEF Ended
  <2> QED
    BY <2>1
<1>3. CASE ~conn[k].cut /\ reply[k] = "session"
  <2>1. PICK n \in 0..Len(lane[k]) : after = [lane EXCEPT ![k] = Append(SubSeq(lane[k], 1, n), Lost)]
    BY <1>3 DEF Ended
  <2>2. SubSeq(lane[k], 1, n) \in Seq(L)
    <3>1. lane[k] \in Seq(L)
      OBVIOUS
    <3>2. Len(lane[k]) \in Nat
      BY <3>1
    <3> QED
      BY <3>1, <3>2
  <2>3. Append(SubSeq(lane[k], 1, n), Lost) \in Seq(L)
    BY <2>2
  <2> QED
    BY <2>1, <2>3
<1> QED
  BY <1>1, <1>2, <1>3

LEMMA EndedIs ==
    ASSUME lane \in [Conns -> Seq(Relayed)], NEW k \in Conns, NEW after \in Ended(k)
    PROVE  after \in [Conns -> Seq(Relayed)]
BY RelayEnded DEF Relayed

LEMMA CommandsGrow ==
    ASSUME NEW q, Commands(q), NEW x, x.op \in Ops
    PROVE  Commands(Append(q, x))
<1>1. PICK S : q \in Seq(S) /\ \A y \in S : y.op \in Ops
  BY DEF Commands
<1> DEFINE T == S \union {x}
<1>2. q \in Seq(T) /\ x \in T
  BY <1>1
<1>3. \A y \in T : y.op \in Ops
  BY <1>1
<1> HIDE DEF T
<1>4. Append(q, x) \in Seq(T)
  BY <1>2
<1> QED
  BY <1>3, <1>4 DEF Commands

LEMMA CommandsShrink ==
    ASSUME NEW q, Commands(q), q # <<>>
    PROVE  Head(q).op \in Ops /\ Commands(Tail(q))
<1>1. PICK S : q \in Seq(S) /\ \A y \in S : y.op \in Ops
  BY DEF Commands
<1>2. Head(q) \in S /\ Tail(q) \in Seq(S)
  BY <1>1
<1> QED
  BY <1>1, <1>2 DEF Commands

LEMMA NoCommands == Commands(<<>>)
<1> DEFINE S == {}
<1>1. <<>> \in Seq(S) /\ \A y \in S : y.op \in Ops
  OBVIOUS
<1> HIDE DEF S
<1> QED
  BY <1>1 DEF Commands

-----------------------------------------------------------------------------
(* The steps of a connection that leave its binding alone.                 *)

LEMMA SessionIs ==
    ASSUME ServerInv, NEW k \in Conns, conn[k].phase \in Phases
    PROVE  conn[k] \in Session
BY ConnectionIs DEF ServerInv

LEMMA OneFollows ==
    ASSUME ServerInv, NEW k \in Conns, NEW y, Follows(conn[k], y),
           conn' = [conn EXCEPT ![k] = y]
    PROVE  /\ conn' \in [Conns -> Connection] /\ conn'[k] = y
           /\ \A j \in Conns : Same(j)
           /\ y.phase \in Holding => \A j \in Conns : Holds(j)
<1>1. /\ conn \in [Conns -> Connection] /\ y \in Connection
      /\ conn'[k] = y /\ \A j \in Conns : j # k => conn'[j] = conn[j]
  BY DEF ServerInv, Follows, Connection
<1> QED
  BY <1>1 DEF Same, Holds

(* A step that leaves the registry alone.                                  *)
LEMMA RegistryUntouched ==
    ASSUME ServerInv, conn' \in [Conns -> Connection], \A j \in Conns : Same(j) /\ Holds(j),
           UNCHANGED <<reg, grants>>, idle' \subseteq TabIds(reg.tabs),
           TabIds(reg.tabs) \subseteq states', states' \subseteq TabIdSet, live' \subseteq Conns,
           CountInv', count'.clients = count.clients, count'.conns = count.conns
    PROVE  ServerInv'
<1>1. reg' = reg /\ grants' = grants
  OBVIOUS
<1>2. Trims(reg, reg', {})
  <2>1. GoodRegistry(reg)
    BY DEF ServerInv, RegistryInv
  <2> QED
    BY <1>1, <2>1, SameRegistry
<1>3. grants' \subseteq TabIdSet \X Conns /\ \A g \in grants' : GrantInv(g, conn'[g[2]])
  BY <1>1, GrantsKept
<1>4. idle' \subseteq TabIds(reg'.tabs) /\ TabIds(reg'.tabs) \subseteq states'
  BY <1>1
<1> QED
  BY <1>2, <1>3, <1>4, ServerKept

LEMMA OnlyConnections ==
    ASSUME ServerInv, conn' \in [Conns -> Connection], \A j \in Conns : Same(j) /\ Holds(j),
           UNCHANGED <<server, count>>
    PROVE  ServerInv'
<1>1. UNCHANGED <<reg, idle, states, live, grants, count>>
  BY DEF server
<1>2. CountInv'
  BY <1>1 DEF ServerInv, CountInv
<1> QED
  BY <1>1, <1>2, RegistryUntouched DEF ServerInv

LEMMA StillThere ==
    ASSUME ServerInv, conn' \in [Conns -> Connection], \A j \in Conns : Alike(j)
    PROVE  \A k \in Conns : conn[k] # Off => conn'[k] # Off
<1>1. \A x \in Session \union Left : x # Off
  BY DEF Session, Left, Off, Phases, Handling
<1> QED
  BY <1>1 DEF Alike

LEMMA DriverKept == ASSUME DriverInv, UNCHANGED window PROVE DriverInv'
BY DEF DriverInv, window, Clients

LEMMA HandshakeKeeps ==
    ASSUME TabsInv, NEW k \in Conns, Handshake(k) PROVE TabsInv'
<1> DEFINE y == [conn[k] EXCEPT !.phase = "ready"]
<1>1. conn[k] \in Session /\ conn[k].phase = "arrived" /\ conn[k].cut \in BOOLEAN
  <2>1. conn[k].phase \in Phases
    BY DEF Handshake, Phases, Handling
  <2>2. conn[k] \in Session
    BY <2>1, SessionIs DEF TabsInv
  <2> QED
    BY <2>2 DEF Session, Handshake
<1>2. Follows(conn[k], y) /\ y.phase \in Holding
  BY <1>1 DEF Follows, Session, Phases, Handling, Early, Unbound, Holding
<1>3. conn' = [conn EXCEPT ![k] = y]
  BY DEF Handshake
<1> HIDE DEF y
<1>4. conn' \in [Conns -> Connection] /\ \A j \in Conns : Same(j) /\ Holds(j)
  BY <1>2, <1>3, OneFollows DEF TabsInv
<1>5. ServerInv'
  BY <1>4, OnlyConnections DEF TabsInv, Handshake
<1>6. lane' \in [Conns -> Seq(Relayed)]
  <2>1. snapshot(reg) \in Relayed
    BY SnapshotIs DEF TabsInv, ServerInv, RegistryInv, GoodRegistry, Relayed
  <2>2. lane \in [Conns -> Seq(Relayed)]
    BY DEF TabsInv, MessagesInv
  <2>3. <<snapshot(reg)>> \o lane[k] \in Seq(Relayed)
    <3>1. <<snapshot(reg)>> \in Seq(Relayed) /\ lane[k] \in Seq(Relayed)
      BY <2>1, <2>2
    <3> QED
      BY <3>1
  <2> DEFINE all == <<snapshot(reg)>> \o lane[k]
  <2>4. lane' = [lane EXCEPT ![k] = IF conn[k].cut THEN lane[k] ELSE all]
    BY DEF Handshake
  <2> HIDE DEF all
  <2> QED
    BY <2>2, <2>3, <2>4 DEF all
<1>7. MessagesInv'
  BY <1>4, <1>6, StillThere, SameIsAlike DEF TabsInv, MessagesInv, Handshake
<1>8. DriverInv'
  BY DriverKept DEF TabsInv, Handshake
<1> QED
  BY <1>5, <1>7, <1>8 DEF TabsInv

(* The messages after a step.                                              *)
LEMMA MessagesKept ==
    ASSUME ServerInv, MessagesInv, conn' \in [Conns -> Connection], \A j \in Conns : Alike(j),
           lane' \in [Conns -> Seq(Relayed)], commands' = commands, reply' = reply
    PROVE  MessagesInv'
BY StillThere DEF MessagesInv

LEMMA LookUpKeeps ==
    ASSUME TabsInv, NEW k \in Conns, LookUp(k) PROVE TabsInv'
<1> DEFINE t == conn[k].bind.tab
           y == [conn[k] EXCEPT !.phase = "looked", !.seen = Registered(reg, t)]
<1>1. conn[k] \in Session /\ conn[k].phase = "ready"
  <2>1. conn[k].phase \in Phases
    BY DEF LookUp, Phases, Handling
  <2> QED
    BY <2>1, SessionIs DEF TabsInv, LookUp
<1>2. Registered(reg, t) \in BOOLEAN /\ (Registered(reg, t) => t \in TabIdSet)
  <2>1. reg.tabs \in Seq(Row)
    BY DEF TabsInv, ServerInv, RegistryInv, GoodRegistry, Registry
  <2>2. ASSUME Registered(reg, t) PROVE t \in TabIdSet
    <3>1. PICK i \in DOMAIN reg.tabs : reg.tabs[i].tab = t
      BY <2>1, <2>2, PositionIs DEF Registered
    <3> QED
      BY <2>1, <3>1, RowIs
  <2> QED
    BY <2>2 DEF Registered
<1>3. Follows(conn[k], y) /\ y.phase \in Holding
  <2> DEFINE b == Registered(reg, t)
  <2>1. b \in BOOLEAN /\ (b => t \in TabIdSet)
    BY <1>2
  <2> HIDE DEF b
  <2>2. [conn[k] EXCEPT !.phase = "looked", !.seen = b] = y
    BY DEF b
  <2> DEFINE z == [conn[k] EXCEPT !.phase = "looked", !.seen = b]
  <2>3. z \in Session /\ z.phase = "looked" /\ z.id = conn[k].id /\ z.bound = conn[k].bound
        /\ z.state = conn[k].state /\ z.bind = conn[k].bind /\ (z.seen <=> b)
    BY <1>1, <2>1 DEF Session, Phases, Handling
  <2> HIDE DEF z
  <2>4. Follows(conn[k], z) /\ z.phase \in Holding
    BY <1>1, <2>1, <2>3 DEF Follows, Early, Unbound, Holding, Handling
  <2> QED
    BY <2>2, <2>4 DEF z
<1>4. conn' = [conn EXCEPT ![k] = y]
  BY DEF LookUp
<1> HIDE DEF y
<1>5. conn' \in [Conns -> Connection] /\ \A j \in Conns : Same(j) /\ Holds(j)
  BY <1>3, <1>4, OneFollows DEF TabsInv
<1>6. ServerInv'
  BY <1>5, OnlyConnections DEF TabsInv, LookUp
<1>7. MessagesInv'
  BY <1>5, MessagesKept, SameIsAlike DEF TabsInv, MessagesInv, LookUp
<1>8. DriverInv'
  BY DriverKept DEF TabsInv, LookUp
<1> QED
  BY <1>6, <1>7, <1>8 DEF TabsInv

LEMMA EnsureStateKeeps ==
    ASSUME TabsInv, NEW k \in Conns, EnsureState(k) PROVE TabsInv'
<1> DEFINE y == [conn[k] EXCEPT !.phase = "ensured"]
<1>1. conn[k] \in Session /\ conn[k].phase = "looked"
  <2>1. conn[k].phase \in Phases
    BY DEF EnsureState, Phases, Handling
  <2> QED
    BY <2>1, SessionIs DEF TabsInv, EnsureState
<1>2. Follows(conn[k], y) /\ y.phase \in Holding
  BY <1>1 DEF Follows, Session, Phases, Handling, Early, Unbound, Holding
<1>3. conn' = [conn EXCEPT ![k] = y]
  BY DEF EnsureState
<1> HIDE DEF y
<1>4. conn' \in [Conns -> Connection] /\ \A j \in Conns : Same(j) /\ Holds(j)
  BY <1>2, <1>3, OneFollows DEF TabsInv
<1>5. states \subseteq states' /\ states' \subseteq TabIdSet
  <2>1. conn[k].seen => conn[k].bind.tab \in TabIdSet
    BY <1>1 DEF TabsInv, ServerInv, ConnectionInv
  <2> QED
    BY <2>1 DEF TabsInv, ServerInv, EnsureState
<1>6. ServerInv'
  <2>1. CountInv' /\ count' = count
    BY DEF TabsInv, ServerInv, CountInv, EnsureState
  <2>2. UNCHANGED <<reg, grants, idle, live>>
    BY DEF EnsureState
  <2> QED
    BY <1>4, <1>5, <2>1, <2>2, RegistryUntouched DEF TabsInv, ServerInv
<1>7. MessagesInv'
  BY <1>4, MessagesKept, SameIsAlike DEF TabsInv, MessagesInv, EnsureState
<1>8. DriverInv'
  BY DriverKept DEF TabsInv, EnsureState
<1> QED
  BY <1>6, <1>7, <1>8 DEF TabsInv

LEMMA RefuseReclaimKeeps ==
    ASSUME TabsInv, NEW k \in Conns, RefuseReclaim(k) PROVE TabsInv'
<1> DEFINE y == [conn[k] EXCEPT !.phase = "serving", !.cut = TRUE]
<1>1. conn[k] \in Session /\ conn[k].phase = "ensured"
  <2>1. conn[k].phase \in Phases
    BY DEF RefuseReclaim, Phases, Handling
  <2> QED
    BY <2>1, SessionIs DEF TabsInv, RefuseReclaim
<1>2. Follows(conn[k], y) /\ y.phase \in Holding
  BY <1>1 DEF Follows, Session, Phases, Handling, Early, Unbound, Holding
<1>3. conn' = [conn EXCEPT ![k] = y]
  BY DEF RefuseReclaim
<1> HIDE DEF y
<1>4. conn' \in [Conns -> Connection] /\ \A j \in Conns : Same(j) /\ Holds(j)
  BY <1>2, <1>3, OneFollows DEF TabsInv
<1>5. ServerInv'
  BY <1>4, OnlyConnections DEF TabsInv, RefuseReclaim
<1>6. MessagesInv'
  <2>1. lane' \in [Conns -> Seq(Relayed)]
    BY DEF TabsInv, MessagesInv, RefuseReclaim
  <2>2. /\ reply' \in [Conns -> {"none", "session", "lost", "rejected"}]
        /\ \A j \in Conns : reply'[j] = "session" => reply[j] = "session"
    BY DEF TabsInv, MessagesInv, RefuseReclaim
  <2>3. commands' = commands
    BY DEF RefuseReclaim
  <2> QED
    BY <1>4, <2>1, <2>2, <2>3, StillThere, SameIsAlike DEF TabsInv, MessagesInv
<1>7. DriverInv'
  BY DriverKept DEF TabsInv, RefuseReclaim
<1> QED
  BY <1>5, <1>6, <1>7 DEF TabsInv

LEMMA AnnounceKeeps ==
    ASSUME TabsInv, NEW k \in Conns, Announce(k) PROVE TabsInv'
<1> DEFINE y == [conn[k] EXCEPT !.phase = "serving", !.snap = NoSnapshot]
<1>1. conn[k] \in Session /\ conn[k].phase = "bound" /\ conn[k].snap \in Snapshot
  <2>1. conn[k].phase \in Phases
    BY DEF Announce, Phases, Handling
  <2>2. conn[k] \in Session
    BY <2>1, SessionIs DEF TabsInv
  <2> QED
    BY <2>2 DEF Announce, Session
<1>2. Follows(conn[k], y) /\ y.phase \in Holding
  BY <1>1, NoSnapshotIs DEF Follows, Session, Phases, Handling, Early, Unbound, Holding
<1>3. conn' = [conn EXCEPT ![k] = y]
  BY DEF Announce
<1> HIDE DEF y
<1>4. conn' \in [Conns -> Connection] /\ \A j \in Conns : Same(j) /\ Holds(j)
  BY <1>2, <1>3, OneFollows DEF TabsInv
<1>5. ServerInv'
  BY <1>4, OnlyConnections DEF TabsInv, Announce
<1>6. MessagesInv'
  <2>1. lane' \in [Conns -> Seq(Relayed)]
    BY <1>1, ToldIs DEF TabsInv, MessagesInv, Announce
  <2>2. /\ reply' \in [Conns -> {"none", "session", "lost", "rejected"}]
        /\ \A j \in Conns : reply'[j] = "session" => reply[j] = "session" \/ j = k
    BY DEF TabsInv, MessagesInv, Announce
  <2>3. commands' = commands
    BY DEF Announce
  <2>4. conn[k] # Off
    BY <1>1 DEF Off
  <2> QED
    BY <1>4, <2>1, <2>2, <2>3, <2>4, StillThere, SameIsAlike DEF TabsInv, MessagesInv
<1>7. DriverInv'
  BY DriverKept DEF TabsInv, Announce
<1> QED
  BY <1>5, <1>6, <1>7 DEF TabsInv

LEMMA NoticeKeeps ==
    ASSUME TabsInv, NEW k \in Conns, Notice(k) PROVE TabsInv'
<1> DEFINE y == [conn[k] EXCEPT !.phase = "closing"]
<1>1. conn[k] \in Session
  <2>1. conn[k].phase \in Phases
    BY DEF Notice, Phases, Handling
  <2> QED
    BY <2>1, SessionIs DEF TabsInv
<1>2. Follows(conn[k], y) /\ y.phase \in Holding
  BY <1>1 DEF Follows, Session, Phases, Early, Unbound, Holding
<1>3. conn' = [conn EXCEPT ![k] = y]
  BY DEF Notice
<1> HIDE DEF y
<1>4. conn' \in [Conns -> Connection] /\ \A j \in Conns : Same(j) /\ Holds(j)
  BY <1>2, <1>3, OneFollows DEF TabsInv
<1>5. ServerInv'
  BY <1>4, OnlyConnections DEF TabsInv, Notice
<1>6. MessagesInv'
  <2>1. DOMAIN commands' = Conns /\ \A j \in Conns : Commands(commands'[j])
    BY NoCommands DEF TabsInv, MessagesInv, Notice
  <2>2. reply' = reply /\ lane' = lane
    BY DEF Notice
  <2> QED
    BY <1>4, <2>1, <2>2, StillThere, SameIsAlike DEF TabsInv, MessagesInv
<1>7. DriverInv'
  BY DriverKept DEF TabsInv, Notice
<1> QED
  BY <1>5, <1>6, <1>7 DEF TabsInv

LEMMA LoseKeeps ==
    ASSUME TabsInv, NEW k \in Conns, Lose(k) PROVE TabsInv'
<1> DEFINE y == [conn[k] EXCEPT !.cut = TRUE]
<1>1. conn[k] \in Session /\ conn[k].phase \in Handling
  <2>1. conn[k].phase \in Phases
    BY DEF Lose, Phases
  <2> QED
    BY <2>1, SessionIs DEF TabsInv, Lose
<1>2. Follows(conn[k], y) /\ y.phase \in Holding
  BY <1>1 DEF Follows, Session, Holding
<1>3. conn' = [conn EXCEPT ![k] = y]
  BY DEF Lose
<1> HIDE DEF y
<1>4. conn' \in [Conns -> Connection] /\ \A j \in Conns : Same(j) /\ Holds(j)
  BY <1>2, <1>3, OneFollows DEF TabsInv
<1>5. ServerInv'
  <2>1. CountInv' /\ count'.clients = count.clients /\ count'.conns = count.conns
    BY DEF TabsInv, ServerInv, CountInv, Lose
  <2>2. UNCHANGED <<reg, idle, states, live, grants>>
    BY DEF Lose, server
  <2> QED
    BY <1>4, <2>1, <2>2, RegistryUntouched DEF TabsInv, ServerInv
<1>6. MessagesInv'
  <2>1. lane' \in [Conns -> Seq(Relayed)]
    BY EndedIs DEF TabsInv, MessagesInv, Lose
  <2>2. /\ reply' \in [Conns -> {"none", "session", "lost", "rejected"}]
        /\ \A j \in Conns : reply'[j] = "session" => reply[j] = "session"
    BY DEF TabsInv, MessagesInv, Lose
  <2>3. commands' = commands
    BY DEF Lose
  <2> QED
    BY <1>4, <2>1, <2>2, <2>3, StillThere, SameIsAlike DEF TabsInv, MessagesInv
<1>7. DriverInv'
  BY DriverKept DEF TabsInv, Lose
<1> QED
  BY <1>5, <1>6, <1>7 DEF TabsInv

(* The handler of an accepted close goes on: no row is left of its tab.    *)
LEMMA FinishCloseKeeps ==
    ASSUME TabsInv, NEW k \in Conns, FinishClose(k) PROVE TabsInv'
<1> DEFINE y == [conn[k] EXCEPT !.phase = "closing", !.cut = TRUE]
<1>1. conn[k] \in Session /\ conn[k].phase = "closed"
  <2>1. conn[k].phase \in Phases
    BY DEF FinishClose, Phases
  <2> QED
    BY <2>1, SessionIs DEF TabsInv, FinishClose
<1>2. Follows(conn[k], y) /\ y.phase \in Holding
  BY <1>1 DEF Follows, Session, Phases, Early, Unbound, Holding
<1>3. conn' = [conn EXCEPT ![k] = y]
  BY DEF FinishClose
<1> HIDE DEF y
<1>4. conn' \in [Conns -> Connection] /\ \A j \in Conns : Same(j) /\ Holds(j)
  BY <1>2, <1>3, OneFollows DEF TabsInv
<1>5. ServerInv'
  <2>1. CountInv' /\ count' = count
    BY DEF TabsInv, ServerInv, CountInv, FinishClose
  <2>2. UNCHANGED <<reg, idle, live, grants>>
    BY DEF FinishClose
  <2>3. conn[k].bound \notin TabIds(reg.tabs)
    BY <1>1 DEF TabsInv, ServerInv, ConnectionInv
  <2>4. TabIds(reg.tabs) \subseteq states' /\ states' \subseteq TabIdSet
    BY <2>3 DEF TabsInv, ServerInv, FinishClose
  <2> QED
    BY <1>4, <2>1, <2>2, <2>4, RegistryUntouched DEF TabsInv, ServerInv
<1>6. MessagesInv'
  <2>1. lane' \in [Conns -> Seq(Relayed)]
    BY EndedIs DEF TabsInv, MessagesInv, FinishClose
  <2>2. DOMAIN commands' = Conns /\ \A j \in Conns : Commands(commands'[j])
    BY NoCommands DEF TabsInv, MessagesInv, FinishClose
  <2>3. reply' = reply
    BY DEF FinishClose
  <2> QED
    BY <1>4, <2>1, <2>2, <2>3, StillThere, SameIsAlike DEF TabsInv, MessagesInv
<1>7. DriverInv'
  BY DriverKept DEF TabsInv, FinishClose
<1> QED
  BY <1>5, <1>6, <1>7 DEF TabsInv

(* A message is routed to the tab that the connection is bound to.         *)
LEMMA UseDocumentKeeps ==
    ASSUME TabsInv, NEW k \in Conns, UseDocument(k) PROVE TabsInv'
<1> DEFINE t == tab_for_client(reg, conn[k].id)
           y == [conn[k] EXCEPT !.bound = t, !.state = t]
<1>1. conn[k] \in Session /\ conn[k].phase = "serving"
  <2>1. conn[k].phase \in Phases
    BY DEF UseDocument, Phases, Handling
  <2> QED
    BY <2>1, SessionIs DEF TabsInv, UseDocument
<1>2. t \in TabIdSet /\ conn[k].bound = t
  <2>1. reg.tabs \in Seq(Row) /\ t \in TabIdSet
    BY DEF TabsInv, ServerInv, RegistryInv, GoodRegistry, Registry, UseDocument
  <2>2. t # NoTab
    BY <2>1 DEF TabIdSet, NoTab
  <2>3. PICK i \in DOMAIN reg.tabs : reg.tabs[i].client = conn[k].id /\ t = reg.tabs[i].tab
    BY <2>1, <2>2, ClientTabIs
  <2> QED
    BY <1>1, <2>1, <2>3 DEF TabsInv, ServerInv, ConnectionInv
<1>3. conn' = [conn EXCEPT ![k] = y]
  BY DEF UseDocument
<1>4. grants' = grants \union {<<t, k>>}
  BY DEF UseDocument
<1> HIDE DEF t
<1>5. /\ y \in Session /\ y.phase = "serving" /\ y.id = conn[k].id /\ y.bound = t
      /\ y.state = t /\ y.bind = conn[k].bind /\ y.seen = conn[k].seen
  BY <1>1, <1>2 DEF Session, TabOrNone
<1> HIDE DEF y
<1>6. Follows(conn[k], y) /\ y.phase \in Holding
  BY <1>1, <1>2, <1>5 DEF Follows, Early, Unbound, Holding, Handling
<1>7. conn' \in [Conns -> Connection] /\ conn'[k] = y /\ \A j \in Conns : Same(j) /\ Holds(j)
  BY <1>3, <1>6, OneFollows DEF TabsInv
<1>8. grants' \subseteq TabIdSet \X Conns /\ \A g \in grants' : GrantInv(g, conn'[g[2]])
  <2>1. ASSUME NEW g \in grants PROVE g[2] \in Conns /\ GrantInv(g, conn'[g[2]])
    <3>1. g[2] \in Conns /\ GrantInv(g, conn[g[2]]) /\ Same(g[2]) /\ Holds(g[2])
      BY <1>7 DEF TabsInv, ServerInv
    <3>2. Holding \subseteq Phases
      BY DEF Holding, Phases
    <3>3. conn'[g[2]] \notin Left
      BY <3>1, <3>2, LeftIsNoSession DEF Holds, GrantInv
    <3> QED
      BY <3>1, <3>3 DEF Same, Follows, Holds, GrantInv
  <2> DEFINE h == <<t, k>>
  <2>2. h \in TabIdSet \X Conns /\ h[1] = t /\ h[2] = k
    BY <1>2
  <2> HIDE DEF h
  <2>3. GrantInv(h, conn'[h[2]])
    BY <1>5, <1>6, <1>7, <2>2 DEF GrantInv
  <2>4. grants' = grants \union {h}
    BY <1>4 DEF h
  <2> QED
    BY <2>1, <2>2, <2>3, <2>4 DEF TabsInv, ServerInv
<1>9. ServerInv'
  <2>1. CountInv' /\ count' = count
    BY DEF TabsInv, ServerInv, CountInv, UseDocument
  <2>2. UNCHANGED <<reg, idle, live, states>>
    BY DEF UseDocument
  <2>3. GoodRegistry(reg)
    BY DEF TabsInv, ServerInv, RegistryInv
  <2>4. Trims(reg, reg', {})
    BY <2>2, <2>3, SameRegistry
  <2> QED
    BY <1>7, <1>8, <2>1, <2>2, <2>4, ServerKept DEF TabsInv, ServerInv
<1>10. MessagesInv'
  BY <1>7, MessagesKept, SameIsAlike DEF TabsInv, MessagesInv, UseDocument
<1>11. DriverInv'
  BY DriverKept DEF TabsInv, UseDocument
<1> QED
  BY <1>9, <1>10, <1>11 DEF TabsInv

(* The grants of a connection that closes are all in one tab's state.      *)
LEMMA CleanUpKeeps ==
    ASSUME TabsInv, NEW k \in Conns, CleanUp(k) PROVE TabsInv'
<1> DEFINE y == [conn[k] EXCEPT !.phase = "leaving"]
           routed == IF conn[k].state # NoTab THEN conn[k].state
                     ELSE tab_for_client(reg, conn[k].id)
<1>1. conn[k] \in Session /\ conn[k].phase = "closing"
  <2>1. conn[k].phase \in Phases
    BY DEF CleanUp, Phases
  <2> QED
    BY <2>1, SessionIs DEF TabsInv, CleanUp
<1>2. Follows(conn[k], y)
  BY <1>1 DEF Follows, Session, Phases, Early, Unbound
<1>3. conn' = [conn EXCEPT ![k] = y]
  BY DEF CleanUp
<1> HIDE DEF y
<1>4. conn' \in [Conns -> Connection] /\ \A j \in Conns : Same(j)
  BY <1>2, <1>3, OneFollows DEF TabsInv
<1>5. grants' \subseteq TabIdSet \X Conns /\ \A g \in grants' : GrantInv(g, conn'[g[2]])
  <2>1. grants' = grants \ {<<routed, k>>}
    BY DEF CleanUp
  <2>2. ASSUME NEW g \in grants, g[2] = k PROVE g = <<routed, k>>
    <3>1. g[1] \in TabIdSet /\ conn[k].state = g[1] /\ g = <<g[1], g[2]>>
      BY <2>2 DEF TabsInv, ServerInv, GrantInv
    <3>2. g[1] # NoTab
      BY <3>1 DEF TabIdSet, NoTab
    <3>3. routed = g[1]
      BY <3>1, <3>2
    <3> HIDE DEF routed
    <3> QED
      BY <2>2, <3>1, <3>3
  <2> HIDE DEF routed
  <2>3. ASSUME NEW g \in grants' PROVE GrantInv(g, conn'[g[2]])
    <3>1. g \in grants /\ g[2] # k /\ g[2] \in Conns
      BY <2>1, <2>2 DEF TabsInv, ServerInv
    <3>2. conn'[g[2]] = conn[g[2]]
      BY <1>3, <3>1 DEF TabsInv, ServerInv
    <3> QED
      BY <3>1, <3>2 DEF TabsInv, ServerInv
  <2> QED
    BY <2>1, <2>3 DEF TabsInv, ServerInv
<1>6. ServerInv'
  <2>1. CountInv' /\ count' = count
    BY DEF TabsInv, ServerInv, CountInv, CleanUp
  <2>2. UNCHANGED <<reg, idle, live, states>>
    BY DEF CleanUp
  <2>3. GoodRegistry(reg)
    BY DEF TabsInv, ServerInv, RegistryInv
  <2>4. Trims(reg, reg', {})
    BY <2>2, <2>3, SameRegistry
  <2> QED
    BY <1>4, <1>5, <2>1, <2>2, <2>4, ServerKept DEF TabsInv, ServerInv
<1>7. MessagesInv'
  BY <1>4, MessagesKept, SameIsAlike DEF TabsInv, MessagesInv, CleanUp
<1>8. DriverInv'
  BY DriverKept DEF TabsInv, CleanUp
<1> QED
  BY <1>6, <1>7, <1>8 DEF TabsInv

(* What a sweep leaves.                                                    *)
LEMMA SweepKeeps ==
    ASSUME ServerInv, MessagesInv, NEW alive, Sweep(alive)
    PROVE  /\ Trims(reg, reg', Expired(reg, idle, alive))
           /\ idle' \subseteq TabIds(reg'.tabs) /\ TabIds(reg'.tabs) \subseteq states'
           /\ states' \subseteq TabIdSet /\ lane' \in [Conns -> Seq(Relayed)]
<1> DEFINE gone == Expired(reg, idle, alive)
<1>1. GoodRegistry(reg)
  BY DEF ServerInv, RegistryInv
<1>2. Trims(reg, reg', gone)
  BY <1>1, SweepTrims DEF Sweep
<1>3. idle' = idle \ gone /\ states' = states \ gone
  BY DEF Sweep
<1>4. lane' = IF gone = {} THEN lane ELSE Told(lane, snapshot(reg'))
  BY DEF Sweep
<1> HIDE DEF gone
<1>5. reg' \in Registry /\ TabIds(reg'.tabs) = TabIds(reg.tabs) \ gone
  BY <1>2 DEF Trims
<1>6. lane' \in [Conns -> Seq(Relayed)]
  <2>1. snapshot(reg') \in Snapshot
    BY <1>5, SnapshotIs
  <2> QED
    BY <1>4, <2>1, ToldIs DEF MessagesInv
<1> QED
  BY <1>2, <1>3, <1>5, <1>6 DEF ServerInv, gone

LEMMA DepartKeeps ==
    ASSUME TabsInv, NEW k \in Conns, Depart(k) PROVE TabsInv'
<1>1. conn[k] \in Session /\ conn[k].phase = "leaving"
  <2>1. conn[k].phase \in Phases
    BY DEF Depart, Phases
  <2> QED
    BY <2>1, SessionIs DEF TabsInv, Depart
<1>2. Gone(k) \in Left
  BY <1>1 DEF Gone, Left, Session
<1>3. conn' = [conn EXCEPT ![k] = Gone(k)]
  BY DEF Depart
<1>4. /\ conn \in [Conns -> Connection] /\ conn' \in [Conns -> Connection]
      /\ conn'[k] = Gone(k) /\ \A j \in Conns : j # k => conn'[j] = conn[j]
  BY <1>2, <1>3 DEF Connection, TabsInv, ServerInv
<1>5. \A j \in Conns : Same(j)
  BY <1>1, <1>2, <1>4 DEF Same
<1>6. /\ Trims(reg, reg', Expired(reg, idle, live))
      /\ idle' \subseteq TabIds(reg'.tabs) /\ TabIds(reg'.tabs) \subseteq states'
      /\ states' \subseteq TabIdSet /\ lane' \in [Conns -> Seq(Relayed)]
  BY SweepKeeps DEF TabsInv, Depart
<1>7. grants' \subseteq TabIdSet \X Conns /\ \A g \in grants' : GrantInv(g, conn'[g[2]])
  <2>1. "leaving" \notin Holding
    BY DEF Holding, Handling
  <2>2. ASSUME NEW g \in grants PROVE g[2] \in Conns /\ g[2] # k
    BY <1>1, <2>1 DEF TabsInv, ServerInv, GrantInv
  <2>3. grants' = grants
    BY DEF Depart
  <2> QED
    BY <1>4, <2>2, <2>3 DEF TabsInv, ServerInv
<1>8. ServerInv'
  <2>1. CountInv' /\ count' = count
    BY DEF TabsInv, ServerInv, CountInv, Depart
  <2>2. live' \subseteq Conns
    BY DEF TabsInv, ServerInv, Depart
  <2> QED
    BY <1>4, <1>5, <1>6, <1>7, <2>1, <2>2, ServerKept DEF TabsInv
<1>9. MessagesInv'
  BY <1>4, <1>5, <1>6, MessagesKept, SameIsAlike DEF TabsInv, Depart
<1>10. DriverInv'
  BY DriverKept DEF TabsInv, Depart
<1> QED
  BY <1>8, <1>9, <1>10 DEF TabsInv

-----------------------------------------------------------------------------
(* The steps that bind, and unbind.                                        *)

Closes(k, cmd) == cmd.op = "close" /\ BoundTo(reg, cmd.tab, conn[k].id)

LEMMA EffectTrims ==
    ASSUME GoodRegistry(reg), NEW k \in Conns, NEW cmd, cmd.op \in Ops
    PROVE  Trims(reg, Effect(k, cmd), IF Closes(k, cmd) THEN {cmd.tab} ELSE {})
<1>1. CASE cmd.op = "activate"
  <2>1. Effect(k, cmd) = activate(reg, cmd.tab, conn[k].id) /\ ~Closes(k, cmd)
    BY <1>1 DEF Effect, Closes
  <2> QED
    BY <2>1, ActivateTrims
<1>2. CASE cmd.op = "close"
  <2>1. Effect(k, cmd) = close_tab(reg, cmd.tab, conn[k].id)
    BY <1>2 DEF Effect
  <2>2. Closes(k, cmd) <=> BoundTo(reg, cmd.tab, conn[k].id)
    BY <1>2 DEF Closes
  <2> QED
    BY <2>1, <2>2, CloseTrims
<1>3. CASE cmd.op = "left"
  <2>1. /\ Effect(k, cmd) = move_to(reg, cmd.tab, conn[k].id, PositionOf(reg, cmd.tab) - 1)
        /\ ~Closes(k, cmd)
    BY <1>3 DEF Effect, Closes, move_left
  <2> QED
    BY <2>1, MoveTrims
<1>4. CASE cmd.op = "right"
  <2>1. /\ Effect(k, cmd) = move_to(reg, cmd.tab, conn[k].id, PositionOf(reg, cmd.tab) + 1)
        /\ ~Closes(k, cmd)
    BY <1>4 DEF Effect, Closes, move_right
  <2> QED
    BY <2>1, MoveTrims
<1>5. CASE cmd.op = "to"
  <2>1. Effect(k, cmd) = move_to(reg, cmd.tab, conn[k].id, cmd.position) /\ ~Closes(k, cmd)
    BY <1>5 DEF Effect, Closes
  <2> QED
    BY <2>1, MoveTrims
<1> QED
  BY <1>1, <1>2, <1>3, <1>4, <1>5 DEF Ops

(* The tab of a command that the registry accepts is the one of the        *)
(* connection.                                                             *)
LEMMA BoundIsMine ==
    ASSUME ServerInv, NEW k \in Conns, conn[k] \in Session, NEW t, BoundTo(reg, t, conn[k].id)
    PROVE  conn[k].bound = t /\ t \in TabIdSet /\ t < reg.next
<1>1. reg.tabs \in Seq(Row)
  BY DEF ServerInv, RegistryInv, GoodRegistry, Registry
<1>2. PICK i \in DOMAIN reg.tabs : reg.tabs[i].tab = t /\ reg.tabs[i].client = conn[k].id
  BY <1>1, PositionIs DEF BoundTo, Registered
<1>3. t \in TabIdSet
  BY <1>1, <1>2, RowIs
<1> QED
  BY <1>2, <1>3 DEF ServerInv, ConnectionInv, RegistryInv

LEMMA PerformKeeps ==
    ASSUME TabsInv, NEW k \in Conns, Perform(k) PROVE TabsInv'
<1> DEFINE cmd == Head(commands[k])
           t == cmd.tab
           mine == BoundTo(reg, t, conn[k].id)
           gone == IF Closes(k, cmd) THEN {t} ELSE {}
           y == [conn[k] EXCEPT !.phase = IF Closes(k, cmd) THEN "closed" ELSE @]
<1>1. conn[k] \in Session /\ conn[k].phase = "serving" /\ GoodRegistry(reg)
  <2>1. conn[k].phase \in Phases
    BY DEF Perform, Phases, Handling
  <2> QED
    BY <2>1, SessionIs DEF TabsInv, Perform, ServerInv, RegistryInv
<1>2. cmd.op \in Ops /\ Commands(Tail(commands[k]))
  BY CommandsShrink DEF TabsInv, MessagesInv, Perform
<1>3. Trims(reg, reg', gone)
  BY <1>1, <1>2, EffectTrims DEF Perform
<1>4. conn' = [conn EXCEPT ![k] = y]
  BY DEF Perform, Closes
<1>5. /\ commands' = [commands EXCEPT ![k] = Tail(commands[k])]
      /\ idle' = IF mine THEN idle \ {t} ELSE idle
      /\ lane' = [Told(lane, snapshot(reg')) EXCEPT ![k] = IF Closes(k, cmd) THEN lane[k] ELSE @]
  BY DEF Perform, Closes
<1>6. Closes(k, cmd) => mine /\ conn[k].bound = t /\ t \in TabIdSet /\ t < reg.next
  BY <1>1, BoundIsMine DEF Closes, TabsInv
<1>7. UNCHANGED <<states, live, grants, reply, window, count>>
  BY DEF Perform
<1> HIDE DEF cmd, t, mine
<1>8. reg' \in Registry /\ reg'.next = reg.next /\ TabIds(reg'.tabs) = TabIds(reg.tabs) \ gone
  BY <1>3 DEF Trims
<1>9. /\ y \in Session /\ y.id = conn[k].id /\ y.bound = conn[k].bound
      /\ y.state = conn[k].state /\ y.bind = conn[k].bind /\ y.seen = conn[k].seen
      /\ y.phase = IF Closes(k, cmd) THEN "closed" ELSE "serving"
  <2> DEFINE p == IF Closes(k, cmd) THEN "closed" ELSE "serving"
  <2>1. p \in Phases /\ y = [conn[k] EXCEPT !.phase = p]
    BY <1>1 DEF Phases, Handling
  <2> HIDE DEF p, y
  <2> QED
    BY <1>1, <2>1 DEF Session, p
<1> HIDE DEF y
<1>10. y.phase \in Holding /\ y.phase \notin Early
  BY <1>9 DEF Holding, Handling, Early
<1>11. /\ conn' \in [Conns -> Connection] /\ conn'[k] = y
       /\ \A j \in Conns : j # k => conn'[j] = conn[j]
  BY <1>4, <1>9 DEF TabsInv, ServerInv, Connection
<1>12. \A j \in Conns : Alike(j)
  <2>1. y.phase \notin Unbound
    BY <1>10 DEF Early, Unbound
  <2> QED
    BY <1>1, <1>9, <1>11, <2>1 DEF Alike
<1>13. /\ RegistryInv(reg', count.clients)
       /\ \A x : ConnectionInv(x, reg, count.clients) => ConnectionInv(x, reg', count.clients)
  <2>1. count.clients \in Nat
    BY DEF TabsInv, ServerInv, CountInv
  <2>2. count.clients <= count.clients
    BY <2>1
  <2> QED
    BY <1>3, <2>1, <2>2, TrimsKeeps DEF TabsInv, ServerInv
<1>14. ASSUME NEW j \in Conns PROVE ConnectionInv(conn'[j], reg', count.clients)
  <2>1. ConnectionInv(conn[j], reg', count.clients)
    BY <1>13 DEF TabsInv, ServerInv
  <2>2. CASE j # k
    BY <1>11, <2>1, <2>2
  <2>3. CASE j = k
    <3>1. y.phase = "closed" => y.bound \notin TabIds(reg'.tabs) /\ y.bound < reg'.next
      BY <1>6, <1>8, <1>9
    <3> QED
      BY <1>1, <1>9, <1>10, <1>11, <2>1, <2>3, <3>1 DEF ConnectionInv
  <2> QED
    BY <2>2, <2>3
<1>15. grants' \subseteq TabIdSet \X Conns /\ \A g \in grants' : GrantInv(g, conn'[g[2]])
  <2>1. ASSUME NEW g \in grants PROVE GrantInv(g, conn'[g[2]])
    <3>1. g[2] \in Conns /\ GrantInv(g, conn[g[2]])
      BY DEF TabsInv, ServerInv
    <3> QED
      BY <1>9, <1>10, <1>11, <3>1 DEF GrantInv
  <2> QED
    BY <1>7, <2>1 DEF TabsInv, ServerInv
<1>16. idle' \subseteq TabIds(reg'.tabs)
  <2>1. idle \subseteq TabIds(reg.tabs)
    BY DEF TabsInv, ServerInv
  <2> QED
    BY <1>5, <1>6, <1>8, <2>1
<1>17. ServerInv'
  <2>1. CountInv' /\ count' = count
    BY <1>7 DEF TabsInv, ServerInv, CountInv
  <2>2. TabIds(reg'.tabs) \subseteq states' /\ states' \subseteq TabIdSet /\ live' \subseteq Conns
    BY <1>7, <1>8 DEF TabsInv, ServerInv
  <2>3. IdsSuffice'
    BY <1>8, <1>12, <2>1, NobodyWaitsMore DEF TabsInv
  <2> QED
    BY <1>11, <1>12, <1>13, <1>14, <1>15, <1>16, <2>1, <2>2, <2>3, ServerGoesOn DEF TabsInv
<1>18. MessagesInv'
  <2>1. Told(lane, snapshot(reg')) \in [Conns -> Seq(Relayed)] /\ lane \in [Conns -> Seq(Relayed)]
    BY <1>8, SnapshotIs, ToldIs DEF TabsInv, MessagesInv
  <2>2. lane' \in [Conns -> Seq(Relayed)]
    BY <1>5, <2>1
  <2>3. DOMAIN commands' = Conns /\ \A j \in Conns : Commands(commands'[j])
    BY <1>2, <1>5 DEF TabsInv, MessagesInv
  <2> QED
    BY <1>7, <1>11, <1>12, <2>2, <2>3, StillThere DEF TabsInv, MessagesInv
<1>19. DriverInv'
  BY <1>7, DriverKept DEF TabsInv
<1> QED
  BY <1>17, <1>18, <1>19 DEF TabsInv

(* A connection that is not bound yet holds no grant.                      *)
LEMMA EarlyHasNothing ==
    ASSUME ServerInv, NEW k \in Conns, conn[k] \in Session, conn[k].phase \in Early
    PROVE  /\ \A g \in grants : g[2] \in Conns \ {k}
           /\ \A i \in DOMAIN reg.tabs : reg.tabs[i].client # conn[k].id
<1>1. conn[k].bound = NoTab
  BY DEF ServerInv, ConnectionInv
<1>2. NoTab \notin TabIdSet
  BY DEF NoTab, TabIdSet
<1>3. \A g \in grants : g[1] \in TabIdSet /\ g[2] \in Conns /\ GrantInv(g, conn[g[2]])
  BY DEF ServerInv
<1>4. ASSUME NEW g \in grants PROVE g[2] # k
  BY <1>1, <1>2, <1>3 DEF GrantInv
<1>5. reg.tabs \in Seq(Row)
  BY DEF ServerInv, RegistryInv, GoodRegistry, Registry
<1>6. ASSUME NEW i \in DOMAIN reg.tabs, reg.tabs[i].client = conn[k].id PROVE FALSE
  <2>1. reg.tabs[i].tab = NoTab
    BY <1>1, <1>6 DEF ServerInv, ConnectionInv
  <2> QED
    BY <1>5, <2>1, RowIs
<1> QED
  BY <1>3, <1>4, <1>6

LEMMA BindNewKeeps ==
    ASSUME TabsInv, NEW k \in Conns, BindNew(k) PROVE TabsInv'
<1> DEFINE t == reg.next
           n == count.clients
           id == conn[k].id
           root == conn[k].bind.root
           row == [tab |-> t, root |-> root, client |-> id]
           y == [conn[k] EXCEPT !.phase = "bound", !.bound = t, !.state = t, !.snap = snapshot(reg')]
<1>1. /\ conn[k] \in Session /\ conn[k].phase = "ready" /\ GoodRegistry(reg)
      /\ reg.tabs \in Seq(Row) /\ t \in Nat /\ n \in Nat /\ id \in Conns /\ root \in Roots
  <2>1. conn[k].phase \in Phases
    BY DEF BindNew, Phases, Handling
  <2>2. conn[k] \in Session /\ conn[k].phase = "ready"
    BY <2>1, SessionIs DEF TabsInv, BindNew
  <2>3. id \in Conns /\ root \in Roots
    BY <2>2 DEF Session, Bindings
  <2>4. GoodRegistry(reg) /\ reg.tabs \in Seq(Row) /\ t \in Nat /\ n \in Nat
    BY DEF TabsInv, ServerInv, RegistryInv, GoodRegistry, Registry, CountInv
  <2> QED
    BY <2>2, <2>3, <2>4
<1>2. k \in Waiting /\ conn[k].phase \in Early
  BY <1>1 DEF Waiting, Unbound, Early
<1>3. /\ reg' = create_tab(reg, id, root) /\ states' = states \union {t}
      /\ conn' = [conn EXCEPT ![k] = y]
      /\ UNCHANGED <<idle, live, grants, lane, commands, reply, window, count>>
  BY DEF BindNew
<1>4. t \in TabIdSet
  <2>1. Cardinality(Waiting) \in Nat /\ Cardinality(Waiting) # 0
    BY <1>2, WaitingIsFinite, FS_EmptySet
  <2>2. t + Cardinality(Waiting) <= n + 1 /\ n <= count.conns /\ count.conns <= MaxConns
    BY DEF TabsInv, ServerInv, IdsSuffice, CountInv
  <2>3. count.conns \in Nat /\ MaxConns \in Nat /\ t # 0
    BY TabConstants DEF TabsInv, ServerInv, CountInv, RegistryInv, GoodRegistry, Registry
  <2> HIDE DEF t, n
  <2> QED
    BY <1>1, <2>1, <2>2, <2>3 DEF TabIdSet
<1>5. /\ \A g \in grants : g[2] \in Conns \ {k}
      /\ \A i \in DOMAIN reg.tabs : reg.tabs[i].client # id
  BY <1>1, <1>2, EarlyHasNothing DEF TabsInv
<1>6. \A i \in DOMAIN reg.tabs : reg.tabs[i].tab < t /\ reg.tabs[i].client <= n
  BY DEF TabsInv, ServerInv, RegistryInv
<1>7. \A i \in DOMAIN reg.tabs : reg.tabs[i].tab # t /\ reg.tabs[i].client # id
  <2>1. \A i \in DOMAIN reg.tabs : reg.tabs[i].tab \in Nat
    BY <1>1, RowIs DEF TabIdSet
  <2> HIDE DEF t
  <2> QED
    BY <1>1, <1>5, <1>6, <2>1
<1>8. /\ GoodRegistry(reg') /\ reg'.next = t + 1 /\ reg'.tabs = Append(reg.tabs, row)
      /\ TabIds(reg'.tabs) = TabIds(reg.tabs) \union {t}
  BY <1>1, <1>3, <1>4, <1>7, CreateGood
<1>9. row.tab = t /\ row.client = id
  OBVIOUS
<1> HIDE DEF row
<1>10. ASSUME NEW i \in DOMAIN reg'.tabs
       PROVE  reg'.tabs[i] = row \/ \E j \in DOMAIN reg.tabs : reg'.tabs[i] = reg.tabs[j]
  <2>1. i \in 1..(Len(reg.tabs) + 1) /\ Len(reg.tabs) \in Nat
    BY <1>1, <1>8
  <2>2. CASE i = Len(reg.tabs) + 1
    BY <1>1, <1>8, <2>2
  <2>3. CASE i \in 1..Len(reg.tabs)
    BY <1>1, <1>8, <2>3
  <2> QED
    BY <2>1, <2>2, <2>3
<1>11. snapshot(reg') \in Snapshot
  BY <1>8, SnapshotIs DEF GoodRegistry
<1>12. /\ y \in Session /\ y.id = id /\ y.bound = t /\ y.phase = "bound"
       /\ y.bind = conn[k].bind /\ y.seen = conn[k].seen
  BY <1>1, <1>4, <1>11 DEF Session, Phases, Handling, TabOrNone
<1> HIDE DEF y, id, t, n
<1>13. id <= n
  BY <1>1 DEF TabsInv, ServerInv, ConnectionInv, id, n
<1>14. RegistryInv(reg', n)
  <2>1. \A i \in DOMAIN reg.tabs : reg.tabs[i].tab \in Nat
    BY <1>1, RowIs DEF TabIdSet
  <2>2. ASSUME NEW i \in DOMAIN reg'.tabs
        PROVE  reg'.tabs[i].tab < reg'.next /\ reg'.tabs[i].client <= n
    <3>1. CASE reg'.tabs[i] = row
      BY <1>1, <1>8, <1>9, <1>13, <3>1
    <3>2. ASSUME NEW j \in DOMAIN reg.tabs, reg'.tabs[i] = reg.tabs[j]
          PROVE  reg'.tabs[i].tab < reg'.next /\ reg'.tabs[i].client <= n
      BY <1>1, <1>6, <1>8, <2>1, <3>2
    <3> QED
      BY <1>10, <3>1, <3>2
  <2> QED
    BY <1>8, <2>2 DEF RegistryInv
<1>15. /\ conn' \in [Conns -> Connection] /\ conn'[k] = y
       /\ \A j \in Conns : j # k => conn'[j] = conn[j]
  BY <1>3, <1>12 DEF TabsInv, ServerInv, Connection
<1>16. \A j \in Conns : Alike(j)
  <2>1. "bound" \notin Unbound
    BY DEF Unbound
  <2> QED
    BY <1>1, <1>12, <1>15, <2>1 DEF Alike, id
<1>17. ASSUME NEW j \in Conns PROVE ConnectionInv(conn'[j], reg', n)
  <2>1. ConnectionInv(conn[j], reg, n)
    BY DEF TabsInv, ServerInv, n
  <2>2. CASE j = k
    <3>1. \A i \in DOMAIN reg'.tabs : reg'.tabs[i].client = id => reg'.tabs[i].tab = t
      BY <1>5, <1>9, <1>10
    <3>2. y.phase \notin Early /\ y.phase # "closed"
      BY <1>12 DEF Early
    <3> QED
      BY <1>1, <1>12, <1>13, <1>15, <2>1, <2>2, <3>1, <3>2 DEF ConnectionInv
  <2>3. CASE j # k
    <3> SUFFICES ASSUME conn[j] \in Session PROVE ConnectionInv(conn[j], reg', n)
      BY <1>15, <2>3 DEF ConnectionInv
    <3>1. conn[j].id # id
      BY <1>1, <2>3 DEF TabsInv, ServerInv, IdsDiffer, id
    <3>2. \A i \in DOMAIN reg'.tabs : reg'.tabs[i].client = conn[j].id => reg'.tabs[i].tab = conn[j].bound
      BY <1>9, <1>10, <2>1, <3>1 DEF ConnectionInv
    <3>3. conn[j].phase = "closed" => conn[j].bound \notin TabIds(reg'.tabs) /\ conn[j].bound < reg'.next
      <4>1. conn[j].bound \in Nat
        BY DEF Session, TabOrNone, TabIdSet, NoTab
      <4>2. conn[j].phase = "closed" => conn[j].bound \notin TabIds(reg.tabs) /\ conn[j].bound < t
        BY <2>1 DEF ConnectionInv, t
      <4> QED
        BY <1>1, <1>8, <4>1, <4>2
    <3> QED
      BY <2>1, <3>2, <3>3 DEF ConnectionInv
  <2> QED
    BY <2>2, <2>3
<1>18. grants' \subseteq TabIdSet \X Conns /\ \A g \in grants' : GrantInv(g, conn'[g[2]])
  BY <1>3, <1>5, <1>15 DEF TabsInv, ServerInv
<1>19. IdsSuffice'
  <2>1. Waiting' = Waiting \ {k}
    <3>1. y.phase \notin Unbound
      BY <1>12 DEF Unbound
    <3> QED
      BY <1>15, <3>1 DEF Waiting
  <2>2. Cardinality(Waiting') = Cardinality(Waiting) - 1
    BY <1>2, <2>1, WaitingIsFinite, FS_RemoveElement
  <2>3. t + Cardinality(Waiting) <= n + 1
    BY DEF TabsInv, ServerInv, IdsSuffice, t, n
  <2>4. reg'.next + Cardinality(Waiting') <= n + 1
    BY <1>1, <1>8, <2>2, <2>3, WaitingIsFinite
  <2>5. count'.clients = n
    BY <1>3 DEF n
  <2> QED
    BY <2>4, <2>5 DEF IdsSuffice
<1>20. ServerInv'
  <2>1. CountInv' /\ count' = count
    BY <1>3 DEF TabsInv, ServerInv, CountInv
  <2>2. /\ idle' \subseteq TabIds(reg'.tabs) /\ TabIds(reg'.tabs) \subseteq states'
        /\ states' \subseteq TabIdSet /\ live' \subseteq Conns
    BY <1>3, <1>4, <1>8 DEF TabsInv, ServerInv
  <2> QED
    BY <1>14, <1>15, <1>16, <1>17, <1>18, <1>19, <2>1, <2>2, ServerGoesOn DEF TabsInv, n
<1>21. MessagesInv'
  BY <1>3, <1>15, <1>16, MessagesKept DEF TabsInv, MessagesInv
<1>22. DriverInv'
  BY <1>3, DriverKept DEF TabsInv
<1> QED
  BY <1>20, <1>21, <1>22 DEF TabsInv

LEMMA ReclaimKeeps ==
    ASSUME TabsInv, NEW k \in Conns, Reclaim(k) PROVE TabsInv'
<1> DEFINE t == conn[k].bind.tab
           n == count.clients
           id == conn[k].id
           y == [conn[k] EXCEPT !.phase = "bound", !.bound = t,
                                !.state = IF t \in states THEN t ELSE @, !.snap = snapshot(reg')]
<1>1. conn[k] \in Session /\ conn[k].phase = "ensured" /\ id \in Conns /\ t \in TabOrNone
  <2>1. conn[k].phase \in Phases
    BY DEF Reclaim, Phases, Handling
  <2>2. conn[k] \in Session /\ conn[k].phase = "ensured"
    BY <2>1, SessionIs DEF TabsInv, Reclaim
  <2> QED
    BY <2>2 DEF Session, Bindings
<1>2. /\ Registered(reg, t) /\ reg' = reclaim(reg, t, id) /\ idle' = idle \ {t}
      /\ conn' = [conn EXCEPT ![k] = y]
      /\ UNCHANGED <<states, live, grants, lane, commands, reply, window, count>>
  BY DEF Reclaim
<1>3. /\ \A g \in grants : g[2] \in Conns \ {k}
      /\ \A i \in DOMAIN reg.tabs : reg.tabs[i].client # id
  <2>1. conn[k].phase \in Early
    BY <1>1 DEF Early
  <2> QED
    BY <1>1, <2>1, EarlyHasNothing DEF TabsInv
<1>4. /\ GoodRegistry(reg') /\ reg'.next = reg.next /\ DOMAIN reg'.tabs = DOMAIN reg.tabs
      /\ TabIds(reg'.tabs) = TabIds(reg.tabs)
      /\ \A i \in DOMAIN reg.tabs :
            /\ reg'.tabs[i].tab = reg.tabs[i].tab
            /\ reg'.tabs[i].client = IF reg.tabs[i].tab = t THEN id ELSE reg.tabs[i].client
  <2>1. GoodRegistry(reg)
    BY DEF TabsInv, ServerInv, RegistryInv
  <2> QED
    BY <1>1, <1>2, <1>3, <2>1, ReclaimGood
<1>5. snapshot(reg') \in Snapshot
  BY <1>4, SnapshotIs DEF GoodRegistry
<1>6. /\ y \in Session /\ y.id = id /\ y.bound = t /\ y.phase = "bound"
      /\ y.bind = conn[k].bind /\ y.seen = conn[k].seen
  <2> DEFINE st == IF t \in states THEN t ELSE conn[k].state
  <2>1. st \in TabOrNone
    BY <1>1 DEF Session
  <2>2. y = [conn[k] EXCEPT !.phase = "bound", !.bound = t, !.state = st, !.snap = snapshot(reg')]
    OBVIOUS
  <2> HIDE DEF y, st
  <2> QED
    BY <1>1, <1>5, <2>1, <2>2 DEF Session, Phases, Handling
<1> HIDE DEF y, id, t, n
<1>7. id <= n
  BY <1>1 DEF TabsInv, ServerInv, ConnectionInv, id, n
<1>8. RegistryInv(reg', n)
  BY <1>4, <1>7 DEF TabsInv, ServerInv, RegistryInv, n
<1>9. /\ conn' \in [Conns -> Connection] /\ conn'[k] = y
      /\ \A j \in Conns : j # k => conn'[j] = conn[j]
  BY <1>2, <1>6 DEF TabsInv, ServerInv, Connection
<1>10. \A j \in Conns : Alike(j)
  <2>1. "bound" \notin Unbound
    BY DEF Unbound
  <2> QED
    BY <1>1, <1>6, <1>9, <2>1 DEF Alike, id
<1>11. ASSUME NEW j \in Conns PROVE ConnectionInv(conn'[j], reg', n)
  <2>1. ConnectionInv(conn[j], reg, n)
    BY DEF TabsInv, ServerInv, n
  <2>2. CASE j = k
    <3>1. \A i \in DOMAIN reg'.tabs : reg'.tabs[i].client = id => reg'.tabs[i].tab = t
      BY <1>3, <1>4
    <3>2. y.phase \notin Early /\ y.phase # "closed"
      BY <1>6 DEF Early
    <3> QED
      BY <1>1, <1>6, <1>7, <1>9, <2>1, <2>2, <3>1, <3>2 DEF ConnectionInv
  <2>3. CASE j # k
    <3> SUFFICES ASSUME conn[j] \in Session PROVE ConnectionInv(conn[j], reg', n)
      BY <1>9, <2>3 DEF ConnectionInv
    <3>1. conn[j].id # id
      BY <1>1, <2>3 DEF TabsInv, ServerInv, IdsDiffer, id
    <3>2. \A i \in DOMAIN reg'.tabs : reg'.tabs[i].client = conn[j].id => reg'.tabs[i].tab = conn[j].bound
      BY <1>4, <2>1, <3>1 DEF ConnectionInv
    <3> QED
      BY <1>4, <2>1, <3>2 DEF ConnectionInv
  <2> QED
    BY <2>2, <2>3
<1>12. grants' \subseteq TabIdSet \X Conns /\ \A g \in grants' : GrantInv(g, conn'[g[2]])
  BY <1>2, <1>3, <1>9 DEF TabsInv, ServerInv
<1>13. ServerInv'
  <2>1. CountInv' /\ count' = count
    BY <1>2 DEF TabsInv, ServerInv, CountInv
  <2>2. /\ idle' \subseteq TabIds(reg'.tabs) /\ TabIds(reg'.tabs) \subseteq states'
        /\ states' \subseteq TabIdSet /\ live' \subseteq Conns
    BY <1>2, <1>4 DEF TabsInv, ServerInv
  <2>3. IdsSuffice'
    BY <1>4, <1>10, <2>1, NobodyWaitsMore DEF TabsInv
  <2> QED
    BY <1>8, <1>9, <1>10, <1>11, <1>12, <2>1, <2>2, <2>3, ServerGoesOn DEF TabsInv, n
<1>14. MessagesInv'
  BY <1>2, <1>9, <1>10, MessagesKept DEF TabsInv, MessagesInv
<1>15. DriverInv'
  BY <1>2, DriverKept DEF TabsInv
<1> QED
  BY <1>13, <1>14, <1>15 DEF TabsInv

(* A new connection has an id of its own, and may ask for a tab.           *)
LEMMA ArriveKeeps ==
    ASSUME ServerInv, MessagesInv, NEW b \in Bindings, Arrive(b), CountInv',
           count'.clients = count.clients + 1, count'.conns = count.conns + 1
    PROVE  ServerInv' /\ MessagesInv'
<1> DEFINE c == NextConn
           n == count.clients
           y == [Serving(n + 1, NoTab) EXCEPT !.phase = "arrived", !.bind = b]
<1>1. /\ c \in Conns /\ conn' = [conn EXCEPT ![c] = y]
      /\ live' = live \union {n + 1} /\ Sweep(live \union {n + 1})
      /\ UNCHANGED <<grants, commands, reply>>
  BY DEF Arrive
<1>2. n \in Nat /\ count.conns \in Nat /\ n <= count.conns /\ c = count.conns + 1
  BY DEF ServerInv, CountInv, NextConn
<1> HIDE DEF c, n
<1>3. n + 1 \in Conns /\ n <= n + 1
  BY <1>1, <1>2, TabConstants DEF Conns
<1>4. /\ y \in Session /\ y.id = n + 1 /\ y.phase = "arrived" /\ y.bound = NoTab
      /\ ~y.seen
  BY <1>3, NoSnapshotIs DEF Serving, Session, Phases, Handling, TabOrNone
<1> HIDE DEF y
<1>5. conn[c] = Off
  BY <1>1, <1>2 DEF ServerInv
<1>6. /\ conn' \in [Conns -> Connection] /\ conn'[c] = y
      /\ \A j \in Conns : j # c => conn'[j] = conn[j]
  BY <1>1, <1>4 DEF ServerInv, Connection
<1>7. Off \notin Session /\ Off.phase = "off"
  BY DEF Off, Session, Phases, Handling
<1>8. /\ Trims(reg, reg', Expired(reg, idle, live \union {n + 1}))
      /\ idle' \subseteq TabIds(reg'.tabs) /\ TabIds(reg'.tabs) \subseteq states'
      /\ states' \subseteq TabIdSet /\ lane' \in [Conns -> Seq(Relayed)]
  BY <1>1, SweepKeeps
<1>9. /\ RegistryInv(reg', n + 1) /\ RegistryInv(reg', n)
      /\ \A x : ConnectionInv(x, reg, n) => ConnectionInv(x, reg', n + 1)
  <2>1. RegistryInv(reg, n) /\ n + 1 \in Nat /\ n <= n
    BY <1>2 DEF ServerInv, n
  <2> QED
    BY <1>2, <1>3, <1>8, <2>1, TrimsKeeps
<1>10. ASSUME NEW j \in Conns PROVE ConnectionInv(conn'[j], reg', n + 1)
  <2>1. CASE j = c
    <3>1. ASSUME NEW i \in DOMAIN reg'.tabs PROVE reg'.tabs[i].client # n + 1
      <4>1. reg'.tabs[i].client <= n
        BY <1>9 DEF RegistryInv
      <4> QED
        BY <1>2, <4>1
    <3>2. y.id <= n + 1
      BY <1>2, <1>4
    <3> QED
      BY <1>4, <1>6, <2>1, <3>1, <3>2 DEF ConnectionInv
  <2>2. CASE j # c
    BY <1>6, <1>9, <2>2 DEF ServerInv, n
  <2> QED
    BY <2>1, <2>2
<1>11. \A j \in Conns : j > count'.conns => conn'[j] = Off
  <2>1. ASSUME NEW j \in Conns, j > count'.conns PROVE j > count.conns /\ j # c
    BY <1>2, <2>1 DEF Conns
  <2> QED
    BY <1>6, <2>1 DEF ServerInv
<1>12. \A g \in grants' : GrantInv(g, conn'[g[2]])
  <2>1. \A g \in grants : g[2] \in Conns /\ GrantInv(g, conn[g[2]])
    BY DEF ServerInv
  <2>2. \A g \in grants : g[2] # c
    BY <1>5, <1>7, <2>1 DEF GrantInv
  <2> QED
    BY <1>1, <1>6, <2>1, <2>2
<1>13. IdsDiffer'
  <2>1. ASSUME NEW j \in Conns, conn[j] \in Session PROVE conn[j].id # n + 1
    <3>1. conn[j].id <= n
      BY <2>1 DEF ServerInv, ConnectionInv, n
    <3> QED
      BY <1>2, <3>1
  <2> QED
    BY <1>4, <1>6, <2>1 DEF ServerInv, IdsDiffer
<1>14. IdsSuffice'
  <2>1. Waiting' = Waiting \union {c} /\ c \notin Waiting
    BY <1>1, <1>4, <1>5, <1>6, <1>7 DEF Waiting, Unbound
  <2>2. Cardinality(Waiting') = Cardinality(Waiting) + 1
    BY <2>1, WaitingIsFinite, FS_AddElement
  <2>3. reg'.next = reg.next /\ reg.next \in Nat /\ reg.next + Cardinality(Waiting) <= n + 1
    BY <1>8 DEF ServerInv, IdsSuffice, n, Trims, RegistryInv, GoodRegistry, Registry
  <2>4. reg'.next + Cardinality(Waiting') <= (n + 1) + 1
    BY <1>2, <2>2, <2>3, WaitingIsFinite
  <2> QED
    BY <2>4 DEF IdsSuffice, n
<1>15. ServerInv'
  <2>1. live' \subseteq Conns /\ grants' \subseteq TabIdSet \X Conns
    BY <1>1, <1>3 DEF ServerInv
  <2>2. count'.clients = n + 1
    BY DEF n
  <2> QED
    BY <1>6, <1>8, <1>9, <1>10, <1>11, <1>12, <1>13, <1>14, <2>1, <2>2 DEF ServerInv
<1>16. MessagesInv'
  <2>1. \A j \in Conns : conn[j] # Off => conn'[j] # Off
    BY <1>5, <1>6
  <2> QED
    BY <1>1, <1>8, <2>1 DEF MessagesInv
<1> QED
  BY <1>15, <1>16

LEMMA RestartKeeps == ASSUME TabsInv, Restart PROVE TabsInv'
<1>1. /\ reg' = NewRegistry /\ idle' = {} /\ states' = {} /\ live' = {} /\ grants' = {}
      /\ conn' = [k \in Conns |-> IF conn[k] = Off THEN Off ELSE Gone(k)]
      /\ count' = [count EXCEPT !.restarts = @ + 1, !.clients = 0]
  BY DEF Restart
<1>2. ASSUME NEW k \in Conns
      PROVE  /\ conn'[k] \in Left \union {Off} /\ (conn[k] = Off <=> conn'[k] = Off)
             /\ conn'[k] \notin Session /\ conn'[k].phase \notin Phases
  <2>1. conn[k] # Off => Gone(k) \in Left
    BY ConnectionIs DEF TabsInv, ServerInv, Gone, Left
  <2>2. \A x \in Left : x # Off
    BY DEF Left, Off
  <2>3. Off \notin Session /\ Off.phase \notin Phases
    BY DEF Off, Session, Phases, Handling
  <2> QED
    BY <1>1, <2>1, <2>2, <2>3, LeftIsNoSession
<1>3. conn' \in [Conns -> Connection]
  BY <1>1, <1>2 DEF Connection
<1>4. CountInv' /\ count'.clients = 0 /\ count'.conns = count.conns
  <2> DEFINE Counts == [conns : Nat, roots : Nat, clients : Nat, commands : Nat, losses : Nat,
                        restarts : Nat, expiries : Nat]
  <2>1. count \in Counts /\ count.conns <= MaxConns /\ count.roots \in Roots
    BY DEF TabsInv, ServerInv, CountInv
  <2>2. /\ count' \in Counts /\ count'.clients = 0 /\ count'.conns = count.conns
        /\ count'.roots = count.roots
    <3> DEFINE n == count.restarts + 1
    <3>1. n \in Nat
      BY <2>1
    <3>2. count' = [count EXCEPT !.restarts = n, !.clients = 0]
      BY <1>1
    <3> HIDE DEF n
    <3> QED
      BY <2>1, <3>1, <3>2
  <2>3. 0 <= count.conns
    BY <2>1
  <2> QED
    BY <2>1, <2>2, <2>3 DEF CountInv
<1>5. RegistryInv(reg', 0) /\ reg'.next = 1 /\ TabIds(reg'.tabs) = {}
  <2>1. NewRegistry \in Registry
    BY DEF NewRegistry, Registry, TabOrNone
  <2>2. NewRegistry.tabs = <<>> /\ NewRegistry.active = NoTab /\ NewRegistry.next = 1
    BY DEF NewRegistry
  <2>3. DOMAIN NewRegistry.tabs = {}
    BY <2>2
  <2> QED
    BY <1>1, <2>1, <2>2, <2>3 DEF RegistryInv, GoodRegistry, Distinct, ActiveIsRegistered, TabIds
<1>6. IdsSuffice'
  <2>1. Unbound \subseteq Phases
    BY DEF Unbound, Phases, Handling
  <2>2. Waiting' = {}
    BY <1>2, <2>1 DEF Waiting
  <2>3. Cardinality(Waiting') = 0
    BY <2>2, FS_EmptySet
  <2>4. reg'.next + Cardinality(Waiting') <= count'.clients + 1
    BY <1>4, <1>5, <2>3
  <2> QED
    BY <2>4 DEF IdsSuffice
<1>7. ServerInv'
  <2>1. \A k \in Conns : ConnectionInv(conn'[k], reg', count'.clients)
    BY <1>2 DEF ConnectionInv
  <2>2. \A k \in Conns : k > count'.conns => conn'[k] = Off
    BY <1>2, <1>4 DEF TabsInv, ServerInv
  <2>3. IdsDiffer'
    BY <1>2 DEF IdsDiffer
  <2>4. RegistryInv(reg', count'.clients)
    BY <1>4, <1>5
  <2> QED
    BY <1>1, <1>3, <1>4, <1>5, <1>6, <2>1, <2>2, <2>3, <2>4 DEF ServerInv
<1>8. MessagesInv'
  <2>1. lane' \in [Conns -> Seq(Relayed)]
    <3>1. Lost \in Relayed /\ lane \in [Conns -> Seq(Relayed)]
      BY DEF Relayed, TabsInv, MessagesInv
    <3>2. \A k \in Conns : Append(lane[k], Lost) \in Seq(Relayed) /\ lane[k] \in Seq(Relayed)
      BY <3>1
    <3> QED
      BY <3>2 DEF Restart
  <2>2. DOMAIN commands' = Conns /\ \A k \in Conns : Commands(commands'[k])
    BY NoCommands DEF Restart
  <2>3. /\ reply' \in [Conns -> {"none", "session", "lost", "rejected"}]
        /\ \A k \in Conns : reply'[k] = "session" => reply[k] = "session"
    BY DEF Restart, TabsInv, MessagesInv
  <2> QED
    BY <1>2, <2>1, <2>2, <2>3 DEF TabsInv, MessagesInv
<1>9. DriverInv'
  BY DriverKept DEF TabsInv, Restart
<1> QED
  BY <1>7, <1>8, <1>9 DEF TabsInv

LEMMA ExpireKeeps ==
    ASSUME TabsInv, NEW t \in TabIds(reg.tabs), Expire(t) PROVE TabsInv'
<1>1. UNCHANGED <<reg, states, live, grants, conn, lane, commands, reply, window>>
  BY DEF Expire
<1>2. conn' \in [Conns -> Connection] /\ \A j \in Conns : Same(j) /\ Holds(j)
  BY <1>1 DEF TabsInv, ServerInv, Same, Holds
<1>3. CountInv' /\ count'.clients = count.clients /\ count'.conns = count.conns
  BY DEF TabsInv, ServerInv, CountInv, Expire
<1>4. idle' \subseteq TabIds(reg.tabs)
  BY DEF TabsInv, ServerInv, Expire
<1>5. ServerInv'
  BY <1>1, <1>2, <1>3, <1>4, RegistryUntouched DEF TabsInv, ServerInv
<1>6. MessagesInv'
  BY <1>1 DEF TabsInv, MessagesInv
<1>7. DriverInv'
  BY <1>1, DriverKept DEF TabsInv
<1> QED
  BY <1>5, <1>6, <1>7 DEF TabsInv

-----------------------------------------------------------------------------
(* The window's steps.                                                     *)

(* The window drops connections.                                           *)
LEMMA CutsKeep ==
    ASSUME ServerInv, MessagesInv, NEW K, UNCHANGED <<server, count, commands, reply>>,
           conn' = [k \in Conns |-> IF Alive(k) /\ k \in K THEN [conn[k] EXCEPT !.cut = TRUE]
                                    ELSE conn[k]],
           lane' \in [Conns -> Seq(Relayed)]
    PROVE  ServerInv' /\ MessagesInv'
<1>1. ASSUME NEW k \in Conns
      PROVE  /\ conn'[k] \in Connection
             /\ (conn'[k] = conn[k] \/ (Follows(conn[k], conn'[k]) /\ conn'[k].phase = conn[k].phase))
  <2> DEFINE y == [conn[k] EXCEPT !.cut = TRUE]
  <2>1. conn[k] \in Connection
    BY DEF ServerInv
  <2>2. CASE Alive(k) /\ k \in K
    <3>1. conn[k] \in Session
      BY <2>1, <2>2, ConnectionIs DEF Alive
    <3>2. Follows(conn[k], y) /\ y.phase = conn[k].phase
      BY <3>1 DEF Follows, Session
    <3>3. conn'[k] = y
      BY <2>2
    <3> HIDE DEF y
    <3> QED
      BY <3>2, <3>3 DEF Follows, Connection
  <2>3. CASE ~(Alive(k) /\ k \in K)
    BY <2>1, <2>3
  <2> QED
    BY <2>2, <2>3
<1>2. conn' \in [Conns -> Connection]
  <2> DEFINE f == [k \in Conns |-> conn'[k]]
  <2>1. conn' = f
    OBVIOUS
  <2>2. f \in [Conns -> Connection]
    BY <1>1
  <2> QED
    BY <2>1, <2>2
<1>3. \A j \in Conns : Same(j) /\ Holds(j)
  BY <1>1 DEF Same, Holds
<1>4. ServerInv'
  BY <1>2, <1>3, OnlyConnections
<1>5. MessagesInv'
  BY <1>2, <1>3, MessagesKept, SameIsAlike
<1> QED
  BY <1>4, <1>5

LEMMA ServerAlone ==
    ASSUME ServerInv, MessagesInv, UNCHANGED <<server, conn, commands, reply, count>>,
           lane' \in [Conns -> Seq(Relayed)]
    PROVE  ServerInv' /\ MessagesInv'
<1>1. conn' \in [Conns -> Connection] /\ \A j \in Conns : Same(j) /\ Holds(j)
  BY DEF ServerInv, Same, Holds
<1>2. ServerInv'
  BY <1>1, OnlyConnections
<1>3. MessagesInv'
  BY DEF MessagesInv
<1> QED
  BY <1>2, <1>3

(* The next event of a bridge.                                             *)
LEMMA EventIs ==
    ASSUME MessagesInv, DriverInv, NEW c \in Clients, HasEvent(c)
    PROVE  /\ mounted[c].link \in Conns
           /\ NextEvent(c) \in Relayed
           /\ Tail(lane[mounted[c].link]) \in Seq(Relayed)
           /\ NextEvent(c) # Lost => NextEvent(c) \in Snapshot
<1>1. mounted[c].link \in Conns
  BY DEF DriverInv, Tab
<1>2. lane[mounted[c].link] \in Seq(Relayed) /\ lane[mounted[c].link] # <<>>
  BY <1>1 DEF MessagesInv, HasEvent
<1>3. NextEvent(c) \in Relayed /\ Tail(lane[mounted[c].link]) \in Seq(Relayed)
  BY <1>2 DEF NextEvent
<1> QED
  BY <1>1, <1>3 DEF Relayed

LEMMA TabFromSnapshot ==
    ASSUME NEW snap \in Snapshot, NEW c
    PROVE  tab_for_client(snap, c) \in TabOrNone
<1>1. snap.tabs \in Seq(Row)
  BY DEF Snapshot
<1> QED
  BY <1>1, ClientTabIs, RowIs DEF TabOrNone

LEMMA IdentifiedIs ==
    ASSUME DriverInv, NEW snap \in Snapshot
    PROVE  Identified(snap) \in [Clients -> Tab]
<1>1. ASSUME NEW c \in Clients PROVE Identified(snap)[c] \in Tab
  <2> DEFINE t == IF snap.tabs = <<>> THEN NoTab
                  ELSE IF tab_for_client(snap, c) # NoTab THEN tab_for_client(snap, c)
                  ELSE mounted[c].tab
  <2>1. mounted[c] \in Tab /\ tab_for_client(snap, c) \in TabOrNone
    BY TabFromSnapshot DEF DriverInv
  <2>2. t \in TabOrNone
    BY <2>1 DEF Tab, TabOrNone
  <2>3. Identified(snap)[c] = [mounted[c] EXCEPT !.tab = t]
    BY DEF Identified
  <2> HIDE DEF t
  <2> QED
    BY <2>1, <2>2, <2>3 DEF Tab
<1>2. Identified(snap) = [c \in Clients |-> Identified(snap)[c]]
  BY DEF Identified
<1> DEFINE f == Identified(snap)
<1> HIDE DEF f
<1>3. f = [c \in Clients |-> f[c]] /\ \A c \in Clients : f[c] \in Tab
  BY <1>1, <1>2 DEF f
<1>4. f \in [Clients -> Tab]
  BY <1>3
<1> QED
  BY <1>4 DEF f

LEMMA ApplySnapshotKeeps ==
    ASSUME TabsInv, NEW c \in Clients, ApplySnapshot(c) PROVE TabsInv'
<1> DEFINE snap == NextEvent(c)
           gone == Vanished(snap)
           K == {mounted[d].link : d \in gone}
           left == Clients \ gone
<1>1. snap \in Snapshot /\ mounted[c].link \in Conns /\ Tail(lane[mounted[c].link]) \in Seq(Relayed)
  BY EventIs DEF TabsInv, ApplySnapshot
<1>2. /\ mounted' = [d \in Clients \ gone |-> Identified(snap)[d]]
      /\ tasks' = {IF task.for \in gone /\ task.keyed
                   THEN [task EXCEPT !.keyed = FALSE, !.cancelled = TRUE]
                   ELSE task : task \in tasks}
      /\ dialog' = dialog
      /\ UNCHANGED <<server, count, commands, reply>>
  BY DEF ApplySnapshot
<1>3. conn' = [k \in Conns |-> IF Alive(k) /\ k \in K THEN [conn[k] EXCEPT !.cut = TRUE]
                               ELSE conn[k]]
  <2>1. conn' = [k \in Conns |-> IF Alive(k) /\ \E d \in gone : mounted[d].link = k
                                 THEN [conn[k] EXCEPT !.cut = TRUE] ELSE conn[k]]
    BY DEF ApplySnapshot
  <2>2. \A k \in Conns : (\E d \in gone : mounted[d].link = k) <=> k \in K
    OBVIOUS
  <2> HIDE DEF K
  <2> QED
    BY <2>1, <2>2
<1>4. lane' \in [Conns -> Seq(Relayed)]
  <2>1. lane' = [k \in Conns |-> IF \E d \in gone : mounted[d].link = k THEN <<>>
                                 ELSE IF k = mounted[c].link THEN Tail(lane[k])
                                 ELSE lane[k]]
    BY DEF ApplySnapshot
  <2>2. \A k \in Conns : lane[k] \in Seq(Relayed)
    BY DEF TabsInv, MessagesInv
  <2>3. ASSUME NEW k \in Conns PROVE lane'[k] \in Seq(Relayed)
    <3> DEFINE P == \E d \in gone : mounted[d].link = k
    <3>1. lane'[k] = IF P THEN <<>> ELSE IF k = mounted[c].link THEN Tail(lane[k]) ELSE lane[k]
      BY <2>1
    <3> HIDE DEF P
    <3> QED
      BY <1>1, <2>2, <3>1
  <2>4. lane' = [k \in Conns |-> lane'[k]]
    BY <2>1
  <2> DEFINE f == [k \in Conns |-> lane'[k]]
  <2>5. f \in [Conns -> Seq(Relayed)]
    BY <2>3
  <2> QED
    BY <2>4, <2>5
<1> HIDE DEF K
<1>5. ServerInv' /\ MessagesInv'
  BY <1>2, <1>3, <1>4, CutsKeep DEF TabsInv
<1>6. Identified(snap) \in [Clients -> Tab]
  BY <1>1, IdentifiedIs DEF TabsInv
<1> HIDE DEF snap, gone
<1>7. mounted' \in [left -> Tab] /\ DOMAIN mounted' = left /\ left \subseteq Clients
  BY <1>2, <1>6
<1>8. tasks' \subseteq Task
  <2>1. tasks \subseteq Task
    BY DEF TabsInv, DriverInv
  <2>2. ASSUME NEW task \in tasks
        PROVE  (IF task.for \in gone /\ task.keyed
                THEN [task EXCEPT !.keyed = FALSE, !.cancelled = TRUE] ELSE task) \in Task
    <3>1. task \in Task
      BY <2>1
    <3> QED
      BY <3>1 DEF Task
  <2> QED
    BY <1>2, <2>2
<1>9. DriverInv'
  BY <1>2, <1>7, <1>8 DEF TabsInv, DriverInv, Clients
<1> QED
  BY <1>5, <1>9 DEF TabsInv

LEMMA IgnoreSnapshotKeeps ==
    ASSUME TabsInv, NEW c \in Clients, IgnoreSnapshot(c) PROVE TabsInv'
<1>1. mounted[c].link \in Conns /\ Tail(lane[mounted[c].link]) \in Seq(Relayed)
  BY EventIs DEF TabsInv, IgnoreSnapshot
<1>2. lane' \in [Conns -> Seq(Relayed)]
  BY <1>1 DEF TabsInv, MessagesInv, IgnoreSnapshot, Taken
<1>3. ServerInv' /\ MessagesInv'
  BY <1>2, ServerAlone DEF TabsInv, IgnoreSnapshot
<1>4. DriverInv'
  BY DriverKept DEF TabsInv, IgnoreSnapshot
<1> QED
  BY <1>3, <1>4 DEF TabsInv

LEMMA DisconnectedKeeps ==
    ASSUME TabsInv, NEW c \in Clients, Disconnected(c) PROVE TabsInv'
<1>1. mounted[c].link \in Conns /\ Tail(lane[mounted[c].link]) \in Seq(Relayed)
  BY EventIs DEF TabsInv, Disconnected
<1>2. lane' \in [Conns -> Seq(Relayed)]
  BY <1>1 DEF TabsInv, MessagesInv, Disconnected, Taken
<1>3. ServerInv' /\ MessagesInv'
  BY <1>2, ServerAlone DEF TabsInv, Disconnected
<1>4. tasks' \subseteq Task
  <2> DEFINE new == [for |-> c, tab |-> mounted[c].tab, root |-> mounted[c].root,
                     link |-> 0, keyed |-> TRUE, cancelled |-> FALSE]
  <2>1. c \in Conns /\ mounted[c].tab \in TabOrNone /\ mounted[c].root \in Roots
    BY DEF TabsInv, DriverInv, Tab
  <2>2. new \in Task
    BY <2>1 DEF Task
  <2>3. tasks' = tasks \/ tasks' = tasks \union {new}
    BY DEF Disconnected
  <2> HIDE DEF new
  <2> QED
    BY <2>2, <2>3 DEF TabsInv, DriverInv
<1>5. DriverInv'
  BY <1>4 DEF TabsInv, DriverInv, Disconnected, Clients
<1> QED
  BY <1>3, <1>5 DEF TabsInv

LEMMA CountsArrival ==
    ASSUME CountInv, NextConn \in Conns, NEW r \in Roots,
           count' = [count EXCEPT !.conns = @ + 1, !.clients = @ + 1, !.roots = r]
    PROVE  /\ CountInv' /\ count'.clients = count.clients + 1
           /\ count'.conns = count.conns + 1
<1> DEFINE Counts == [conns : Nat, roots : Nat, clients : Nat, commands : Nat, losses : Nat,
                      restarts : Nat, expiries : Nat]
           n == count.conns + 1
           m == count.clients + 1
<1>1. count \in Counts /\ count.clients <= count.conns
  BY DEF CountInv
<1>2. n \in Nat /\ m \in Nat /\ r \in Nat /\ m <= n
  BY <1>1 DEF Roots
<1>3. n <= MaxConns
  BY TabConstants DEF NextConn, Conns
<1>4. count' = [count EXCEPT !.conns = n, !.clients = m, !.roots = r]
  OBVIOUS
<1> HIDE DEF n, m
<1>5. count' \in Counts /\ count'.conns = n /\ count'.clients = m /\ count'.roots = r
  BY <1>1, <1>2, <1>4
<1> QED
  BY <1>2, <1>3, <1>5 DEF CountInv, n, m

LEMMA ConnectedKeeps ==
    ASSUME TabsInv, NEW task \in tasks, NEW b \in Bindings, Connected(task, b) PROVE TabsInv'
<1>1. CountInv /\ NextConn \in Conns /\ count.roots \in Roots
  BY DEF TabsInv, ServerInv, CountInv, Connected, Arrive
<1>2. count' = [count EXCEPT !.conns = @ + 1, !.clients = @ + 1, !.roots = count.roots]
  <2>1. count' = [count EXCEPT !.conns = @ + 1, !.clients = @ + 1]
    BY DEF Connected
  <2> QED
    BY <1>1, <2>1 DEF CountInv
<1>3. CountInv' /\ count'.clients = count.clients + 1 /\ count'.conns = count.conns + 1
  BY <1>1, <1>2, CountsArrival
<1>4. ServerInv' /\ MessagesInv'
  BY <1>3, ArriveKeeps DEF TabsInv, Connected
<1>5. tasks' \subseteq Task
  <2> DEFINE new == [task EXCEPT !.link = NextConn]
  <2>1. tasks \subseteq Task /\ task \in Task
    BY DEF TabsInv, DriverInv
  <2>2. new \in Task
    BY <1>1, <2>1 DEF Task
  <2>3. tasks' = (tasks \ {task}) \union {new}
    BY DEF Connected
  <2> HIDE DEF new
  <2> QED
    BY <2>1, <2>2, <2>3
<1>6. DriverInv'
  BY <1>5 DEF TabsInv, DriverInv, Connected, Clients
<1> QED
  BY <1>4, <1>6 DEF TabsInv

LEMMA BindingIs ==
    ASSUME NEW op \in {"new", "reclaim"}, NEW t \in TabOrNone, NEW r \in Roots
    PROVE  Binding(op, t, r) \in Bindings
BY DEF Binding, Bindings

LEMMA TryConnectKeeps ==
    ASSUME TabsInv, NEW task \in tasks, TryConnect(task) \/ FallBackToNew(task) PROVE TabsInv'
<1>1. task.tab \in TabOrNone /\ task.root \in Roots /\ NoTab \in TabOrNone
  BY DEF TabsInv, DriverInv, Task, TabOrNone
<1>2. /\ Binding("reclaim", task.tab, task.root) \in Bindings
      /\ Binding("new", NoTab, task.root) \in Bindings
  BY <1>1, BindingIs
<1>3. \E b \in Bindings : Connected(task, b)
  BY <1>2 DEF TryConnect, FallBackToNew
<1> QED
  BY <1>3, ConnectedKeeps

(* A step of the driver that the server does not see.                      *)
LEMMA DriverAlone ==
    ASSUME TabsInv, UNCHANGED <<server, conn, lane, commands, reply, count>>, DriverInv'
    PROVE  TabsInv'
<1>1. lane' \in [Conns -> Seq(Relayed)]
  BY DEF TabsInv, MessagesInv
<1> QED
  BY <1>1, ServerAlone DEF TabsInv

LEMMA RetryKeeps ==
    ASSUME TabsInv, NEW task \in tasks, Retry(task) \/ Cancelled(task) PROVE TabsInv'
<1>1. tasks' \subseteq Task
  <2> DEFINE new == [task EXCEPT !.link = 0]
  <2>1. tasks \subseteq Task /\ task \in Task
    BY DEF TabsInv, DriverInv
  <2>2. new \in Task
    BY <2>1 DEF Task
  <2>3. tasks' = (tasks \ {task}) \union {new} \/ tasks' = tasks \ {task}
    BY DEF Retry, Cancelled
  <2> HIDE DEF new
  <2> QED
    BY <2>1, <2>2, <2>3
<1>2. UNCHANGED <<server, conn, lane, commands, reply, mounted, dialog, count>>
  BY DEF Retry, Cancelled
<1>3. DriverInv'
  BY <1>1, <1>2 DEF TabsInv, DriverInv, Clients
<1> QED
  BY <1>2, <1>3, DriverAlone

LEMMA DoneIs ==
    ASSUME tasks \subseteq Task, NEW task \in tasks PROVE Done(task) \subseteq Task
<1>1. ASSUME NEW other \in tasks
      PROVE  [other EXCEPT !.keyed = @ /\ other.for # task.for] \in Task
  <2> DEFINE b == other.keyed /\ other.for # task.for
  <2>1. b \in BOOLEAN /\ other \in Task
    BY DEF Task
  <2>2. [other EXCEPT !.keyed = @ /\ other.for # task.for] = [other EXCEPT !.keyed = b]
    OBVIOUS
  <2> HIDE DEF b
  <2>3. [other EXCEPT !.keyed = b] \in Task
    BY <2>1 DEF Task
  <2> QED
    BY <2>2, <2>3
<1> QED
  BY <1>1 DEF Done

LEMMA RekeyKeeps == ASSUME TabsInv, NEW task \in tasks, Rekey(task) PROVE TabsInv'
<1> DEFINE c == task.for
           n == conn[task.link].id
           kept == (Clients \ {c}) \union {n}
<1>1. /\ c \in Clients /\ task.link \in Conns /\ reply[task.link] = "session"
      /\ UNCHANGED <<server, conn, lane, commands, reply, dialog, count>> /\ tasks' = Done(task)
      /\ mounted' = [d \in kept |-> IF d = n THEN [mounted[c] EXCEPT !.link = task.link]
                                    ELSE mounted[d]]
  BY DEF TabsInv, DriverInv, Task, Rekey
<1>2. n \in Conns
  BY <1>1, ConnectionIs DEF TabsInv, ServerInv, MessagesInv
<1> DEFINE new == [mounted[c] EXCEPT !.link = task.link]
<1>3. mounted \in [Clients -> Tab] /\ Clients \subseteq Conns
  BY DEF TabsInv, DriverInv
<1>4. new \in Tab
  BY <1>1, <1>3 DEF Tab
<1> HIDE DEF new, c, n
<1>5. mounted' = [d \in kept |-> IF d = n THEN new ELSE mounted[d]]
  BY <1>1 DEF new, n
<1>6. mounted' \in [kept -> Tab] /\ kept \subseteq Conns /\ DOMAIN mounted' = kept
  BY <1>2, <1>3, <1>4, <1>5
<1>7. tasks' \subseteq Task
  BY <1>1, DoneIs DEF TabsInv, DriverInv
<1>8. DriverInv'
  BY <1>1, <1>6, <1>7 DEF TabsInv, DriverInv, Clients
<1> QED
  BY <1>1, <1>8, DriverAlone

LEMMA DropSessionKeeps == ASSUME TabsInv, NEW task \in tasks, DropSession(task) PROVE TabsInv'
<1>1. task.link \in Conns
  BY DEF TabsInv, DriverInv, Task, DropSession
<1>2. conn' = [k \in Conns |-> IF Alive(k) /\ k \in {task.link} THEN [conn[k] EXCEPT !.cut = TRUE]
                               ELSE conn[k]]
  <2>1. conn' = [conn EXCEPT ![task.link] =
                     IF Alive(task.link) THEN [@ EXCEPT !.cut = TRUE] ELSE @]
    BY DEF DropSession
  <2>2. conn = [k \in Conns |-> conn[k]]
    BY DEF TabsInv, ServerInv
  <2> QED
    BY <1>1, <2>1, <2>2
<1>3. lane' \in [Conns -> Seq(Relayed)]
  BY <1>1 DEF TabsInv, MessagesInv, DropSession
<1>4. UNCHANGED <<server, count, commands, reply, mounted, dialog>> /\ tasks' = Done(task)
  BY DEF DropSession
<1>5. ServerInv' /\ MessagesInv'
  BY <1>2, <1>3, <1>4, CutsKeep DEF TabsInv
<1>6. DriverInv'
  BY <1>4, DoneIs DEF TabsInv, DriverInv, Clients
<1> QED
  BY <1>5, <1>6 DEF TabsInv

LEMMA OpenTabKeeps == ASSUME TabsInv, OpenTab PROVE TabsInv'
<1> DEFINE r == count.roots + 1
<1>1. CountInv /\ NextConn \in Conns /\ count.roots \in Roots /\ count.roots < MaxRoots
  BY DEF TabsInv, ServerInv, CountInv, OpenTab, Arrive
<1>2. r \in Roots
  BY <1>1, TabConstants DEF Roots
<1>3. count' = [count EXCEPT !.conns = @ + 1, !.clients = @ + 1, !.roots = r]
  BY DEF OpenTab
<1>4. Arrive(Binding("new", NoTab, r)) /\ dialog' = NextConn /\ UNCHANGED <<mounted, tasks>>
  BY DEF OpenTab
<1> HIDE DEF r
<1>5. CountInv' /\ count'.clients = count.clients + 1 /\ count'.conns = count.conns + 1
  BY <1>1, <1>2, <1>3, CountsArrival
<1>6. Binding("new", NoTab, r) \in Bindings
  BY <1>2, BindingIs DEF TabOrNone
<1>7. ServerInv' /\ MessagesInv'
  BY <1>4, <1>5, <1>6, ArriveKeeps DEF TabsInv
<1>8. DriverInv'
  BY <1>1, <1>4 DEF TabsInv, DriverInv, Clients
<1> QED
  BY <1>7, <1>8 DEF TabsInv

LEMMA MountTabKeeps == ASSUME TabsInv, MountTab PROVE TabsInv'
<1> DEFINE n == conn[dialog].id
<1>1. /\ dialog \in Conns /\ reply[dialog] = "session" /\ dialog' = 0
      /\ UNCHANGED <<server, lane, commands, reply, tasks, count>>
  BY DEF TabsInv, DriverInv, MountTab
<1>2. n \in Conns
  BY <1>1, ConnectionIs DEF TabsInv, ServerInv, MessagesInv
<1>3. CASE n \in Clients
  <2>1. /\ conn' = [conn EXCEPT ![dialog] = IF Alive(dialog) THEN [@ EXCEPT !.cut = TRUE] ELSE @]
        /\ mounted' = mounted
    BY <1>3 DEF MountTab
  <2>2. conn = [k \in Conns |-> conn[k]]
    BY DEF TabsInv, ServerInv
  <2>3. conn' = [k \in Conns |-> IF Alive(k) /\ k \in {dialog} THEN [conn[k] EXCEPT !.cut = TRUE]
                                 ELSE conn[k]]
    BY <1>1, <2>1, <2>2
  <2>4. lane' \in [Conns -> Seq(Relayed)]
    BY <1>1 DEF TabsInv, MessagesInv
  <2>5. ServerInv' /\ MessagesInv'
    BY <1>1, <2>3, <2>4, CutsKeep DEF TabsInv
  <2>6. DriverInv'
    BY <1>1, <2>1 DEF TabsInv, DriverInv, Clients
  <2> QED
    BY <2>5, <2>6 DEF TabsInv
<1>4. CASE n \notin Clients
  <2> DEFINE new == [tab |-> NoTab, root |-> count.roots, link |-> dialog]
             all == Clients \union {n}
  <2>1. conn' = conn /\ mounted' = [d \in all |-> IF d = n THEN new ELSE mounted[d]]
    BY <1>4 DEF MountTab
  <2>2. new \in Tab
    BY <1>1 DEF TabsInv, ServerInv, CountInv, Tab, TabOrNone
  <2>3. mounted \in [Clients -> Tab] /\ Clients \subseteq Conns
    BY DEF TabsInv, DriverInv
  <2> HIDE DEF new, n
  <2>4. mounted' \in [all -> Tab] /\ all \subseteq Conns /\ DOMAIN mounted' = all
    BY <1>2, <2>1, <2>2, <2>3
  <2>5. DriverInv'
    BY <1>1, <2>4 DEF TabsInv, DriverInv, Clients
  <2> QED
    BY <1>1, <2>1, <2>5, DriverAlone
<1> QED
  BY <1>3, <1>4

LEMMA CommandKeeps ==
    ASSUME TabsInv, NEW c \in Clients, NEW op \in Ops, NEW position, Command(c, op, position)
    PROVE  TabsInv'
<1> DEFINE k == mounted[c].link
           x == [op |-> op, tab |-> mounted[c].tab, position |-> position]
<1>1. k \in Conns
  BY DEF TabsInv, DriverInv, Tab
<1>2. /\ count' = [count EXCEPT !.commands = @ + 1]
      /\ UNCHANGED <<server, conn, lane, reply, mounted, tasks, dialog>>
      /\ commands' = commands \/ commands' = [commands EXCEPT ![k] = Append(commands[k], x)]
  BY DEF Command
<1>3. x.op \in Ops
  OBVIOUS
<1> HIDE DEF k, x
<1>4. Commands(Append(commands[k], x))
  BY <1>1, <1>3, CommandsGrow DEF TabsInv, MessagesInv
<1>5. DOMAIN commands' = Conns /\ \A j \in Conns : Commands(commands'[j])
  BY <1>1, <1>2, <1>4 DEF TabsInv, MessagesInv
<1>6. MessagesInv'
  BY <1>2, <1>5 DEF TabsInv, MessagesInv
<1>7. ServerInv'
  <2>1. CountInv' /\ count'.clients = count.clients /\ count'.conns = count.conns
    BY <1>2 DEF TabsInv, ServerInv, CountInv
  <2>2. UNCHANGED <<reg, idle, states, live, grants>>
    BY <1>2 DEF server
  <2>3. conn' \in [Conns -> Connection] /\ \A j \in Conns : Same(j) /\ Holds(j)
    BY <1>2 DEF TabsInv, ServerInv, Same, Holds
  <2> QED
    BY <2>1, <2>2, <2>3, RegistryUntouched DEF TabsInv, ServerInv
<1>8. DriverInv'
  BY <1>2 DEF TabsInv, DriverInv, Clients
<1> QED
  BY <1>6, <1>7, <1>8 DEF TabsInv

-----------------------------------------------------------------------------
(* A window with one or two tabs, at rest.                                 *)
LEMMA InitialRegistryIs ==
    LET r == InitialRegistry
    IN  /\ GoodRegistry(r) /\ r.next = InitialTabs + 1 /\ TabIds(r.tabs) = 1..InitialTabs
        /\ \A i \in DOMAIN r.tabs : /\ r.tabs[i].tab = r.tabs[i].client
                                   /\ r.tabs[i].root = r.tabs[i].client
<1> DEFINE zero == NewRegistry
           one == create_tab(zero, 1, 1)
           two == create_tab(one, 2, 2)
<1>1. /\ InitialTabs \in {1, 2} /\ MaxRoots \in Nat /\ MaxConns \in Nat
      /\ MaxRoots >= InitialTabs /\ MaxConns >= InitialTabs
  BY TabConstants
<1>2. 1 \in TabIdSet /\ 1 \in Conns /\ 1 \in Roots
  BY <1>1 DEF TabIdSet, Conns, Roots
<1>3. zero.tabs = <<>> /\ zero.next = 1 /\ DOMAIN zero.tabs = {} /\ GoodRegistry(zero)
  <2>1. zero \in Registry
    BY DEF NewRegistry, Registry, TabOrNone
  <2>2. zero.tabs = <<>> /\ zero.active = NoTab /\ zero.next = 1
    BY DEF NewRegistry
  <2>3. DOMAIN zero.tabs = {}
    BY <2>2
  <2> QED
    BY <2>1, <2>2, <2>3 DEF GoodRegistry, Distinct, ActiveIsRegistered
<1> HIDE DEF zero
<1>4. /\ GoodRegistry(one) /\ one.next = 2 /\ TabIds(one.tabs) = {1}
      /\ one.tabs = Append(zero.tabs, [tab |-> 1, root |-> 1, client |-> 1])
  <2>1. TabIds(zero.tabs) = {}
    BY <1>3 DEF TabIds
  <2> QED
    BY <1>2, <1>3, <2>1, CreateGood
<1>5. DOMAIN one.tabs = {1} /\ Len(one.tabs) = 1 /\ one.tabs[1] = [tab |-> 1, root |-> 1, client |-> 1]
  <2>1. one.tabs = <<[tab |-> 1, root |-> 1, client |-> 1]>>
    BY <1>3, <1>4
  <2> QED
    BY <2>1
<1> HIDE DEF one
<1>6. one.tabs[1].tab = 1 /\ one.tabs[1].client = 1 /\ one.tabs[1].root = 1
  BY <1>5
<1>7. CASE InitialTabs = 1
  <2>1. InitialRegistry = one
    BY <1>7 DEF InitialRegistry, one, zero
  <2>2. 1..InitialTabs = {1}
    BY <1>7
  <2>3. one.next = InitialTabs + 1
    BY <1>4, <1>7
  <2>4. \A i \in DOMAIN one.tabs : /\ one.tabs[i].tab = one.tabs[i].client
                                   /\ one.tabs[i].root = one.tabs[i].client
    BY <1>5, <1>6
  <2> QED
    BY <1>4, <2>1, <2>2, <2>3, <2>4
<1>8. CASE InitialTabs = 2
  <2>1. InitialRegistry = two
    BY <1>8 DEF InitialRegistry, one, zero
  <2>2. 2 \in TabIdSet /\ 2 \in Conns /\ 2 \in Roots
    BY <1>1, <1>8 DEF TabIdSet, Conns, Roots
  <2>3. /\ GoodRegistry(two) /\ two.next = 3 /\ TabIds(two.tabs) = {1} \union {2}
        /\ two.tabs = Append(one.tabs, [tab |-> 2, root |-> 2, client |-> 2])
    <3>1. \A i \in DOMAIN one.tabs : one.tabs[i].tab # one.next /\ one.tabs[i].client # 2
      BY <1>4, <1>5, <1>6
    <3>2. one.next \in TabIdSet
      BY <1>4, <2>2
    <3>3. /\ GoodRegistry(two) /\ two.next = one.next + 1
          /\ TabIds(two.tabs) = TabIds(one.tabs) \union {one.next}
          /\ two.tabs = Append(one.tabs, [tab |-> one.next, root |-> 2, client |-> 2])
      BY <1>4, <2>2, <3>1, <3>2, CreateGood, ZenonT(60)
    <3> HIDE DEF two
    <3> QED
      BY <1>4, <3>3
  <2>4. DOMAIN two.tabs = {1, 2} /\ two.tabs[1] = one.tabs[1]
        /\ two.tabs[2] = [tab |-> 2, root |-> 2, client |-> 2]
    <3>1. one.tabs \in Seq(Row)
      BY <1>4 DEF GoodRegistry, Registry
    <3> QED
      BY <1>5, <2>3, <3>1, SMTT(30)
  <2>5. 1..InitialTabs = {1} \union {2}
    BY <1>8
  <2>6. two.tabs[2].tab = 2 /\ two.tabs[2].client = 2 /\ two.tabs[2].root = 2
    BY <2>4
  <2> HIDE DEF two
  <2>7. two.next = InitialTabs + 1
    BY <1>8, <2>3
  <2>8. \A i \in DOMAIN two.tabs : /\ two.tabs[i].tab = two.tabs[i].client
                                   /\ two.tabs[i].root = two.tabs[i].client
    BY <1>6, <2>4, <2>6
  <2> QED
    BY <2>1, <2>3, <2>5, <2>7, <2>8
<1> QED
  BY <1>1, <1>7, <1>8

LEMMA InitServer == ASSUME Init PROVE ServerInv
<1> DEFINE N == InitialTabs
<1>1. /\ N \in {1, 2} /\ MaxRoots \in Nat /\ MaxConns \in Nat /\ N \in Nat
      /\ MaxRoots >= N /\ MaxConns >= N
  BY TabConstants
<1>2. 1..N \subseteq TabIdSet /\ 1..N \subseteq Conns /\ 1..N \subseteq Roots /\ N \in Roots
  BY <1>1 DEF TabIdSet, Conns, Roots
<1>3. /\ GoodRegistry(reg) /\ reg.next = N + 1 /\ TabIds(reg.tabs) = 1..N
      /\ \A i \in DOMAIN reg.tabs : reg.tabs[i].tab = reg.tabs[i].client
  BY InitialRegistryIs DEF Init
<1>4. /\ idle = {} /\ states = 1..N /\ live = 1..N /\ grants = {}
      /\ conn = [k \in Conns |-> IF k <= N THEN Serving(k, k) ELSE Off]
      /\ count = [conns |-> N, roots |-> N, clients |-> N, commands |-> 0, losses |-> 0,
                  restarts |-> 0, expiries |-> 0]
  BY DEF Init
<1> HIDE DEF N
<1>5. CountInv /\ count.clients = N /\ count.conns = N
  BY <1>1, <1>2, <1>4 DEF CountInv
<1>6. ASSUME NEW k \in Conns, k <= N
      PROVE  /\ Serving(k, k) \in Session /\ Serving(k, k).id = k /\ Serving(k, k).bound = k
             /\ Serving(k, k).phase = "serving" /\ ~Serving(k, k).seen
  <2>1. k \in 1..N
    BY <1>1, <1>6 DEF Conns
  <2>2. k \in TabOrNone /\ k \in Roots /\ NoTab \in TabOrNone
    BY <1>2, <2>1 DEF TabOrNone
  <2>3. Binding("new", NoTab, k) \in Bindings
    BY <2>2, BindingIs
  <2> DEFINE b == Binding("new", NoTab, k)
  <2> HIDE DEF b
  <2>4. Serving(k, k) = [phase |-> "serving", id |-> k, bind |-> b, seen |-> FALSE, bound |-> k,
                         state |-> k, snap |-> NoSnapshot, cut |-> FALSE]
    BY DEF Serving, b
  <2>5. "serving" \in Phases
    BY DEF Phases, Handling
  <2> QED
    BY <2>2, <2>3, <2>4, <2>5, NoSnapshotIs DEF Session, b
<1>7. Off \notin Session /\ Off.phase = "off"
  BY DEF Off, Session, Phases, Handling
<1>8. ASSUME NEW k \in Conns
      PROVE  /\ k <= N => conn[k] = Serving(k, k)
             /\ ~(k <= N) => conn[k] = Off
             /\ conn[k] \in Connection
  BY <1>4, <1>6 DEF Connection
<1>9. conn \in [Conns -> Connection]
  <2> DEFINE f == [k \in Conns |-> conn[k]]
  <2>1. conn = f
    BY <1>4
  <2>2. f \in [Conns -> Connection]
    BY <1>8
  <2> QED
    BY <2>1, <2>2
<1>10. ASSUME NEW i \in DOMAIN reg.tabs
       PROVE  reg.tabs[i].tab \in 1..N /\ reg.tabs[i].client = reg.tabs[i].tab
  BY <1>3 DEF TabIds
<1>11. RegistryInv(reg, N)
  <2>1. ASSUME NEW i \in DOMAIN reg.tabs
        PROVE  reg.tabs[i].tab < reg.next /\ reg.tabs[i].client <= N
    BY <1>1, <1>3, <1>10
  <2> QED
    BY <1>3, <2>1 DEF RegistryInv
<1>12. ASSUME NEW k \in Conns PROVE ConnectionInv(conn[k], reg, N)
  <2>1. CASE k <= N
    <3>1. "serving" \notin Early /\ "serving" # "closed"
      BY DEF Early
    <3> QED
      BY <1>6, <1>8, <1>10, <2>1, <3>1 DEF ConnectionInv
  <2>2. CASE ~(k <= N)
    BY <1>7, <1>8, <2>2 DEF ConnectionInv
  <2> QED
    BY <2>1, <2>2
<1>13. \A k \in Conns : k > count.conns => conn[k] = Off
  <2>1. \A k \in Conns : k > N => ~(k <= N)
    BY <1>1 DEF Conns
  <2> QED
    BY <1>5, <1>8, <2>1
<1>14. IdsDiffer
  <2>1. ASSUME NEW k \in Conns, conn[k] \in Session PROVE conn[k].id = k
    BY <1>6, <1>7, <1>8, <2>1
  <2> QED
    BY <2>1 DEF IdsDiffer
<1>15. IdsSuffice
  <2>1. "serving" \notin Unbound /\ "off" \notin Unbound
    BY DEF Unbound
  <2>2. Waiting = {}
    BY <1>6, <1>7, <1>8, <2>1 DEF Waiting
  <2>3. Cardinality(Waiting) = 0
    BY <2>2, FS_EmptySet
  <2> QED
    BY <1>1, <1>3, <1>5, <2>3 DEF IdsSuffice
<1> QED
  BY <1>2, <1>3, <1>4, <1>5, <1>9, <1>11, <1>12, <1>13, <1>14, <1>15 DEF ServerInv

LEMMA InitTabs == ASSUME Init PROVE TabsInv
<1> DEFINE N == InitialTabs
<1>1. /\ N \in {1, 2} /\ MaxRoots \in Nat /\ MaxConns \in Nat /\ N \in Nat
      /\ MaxRoots >= N /\ MaxConns >= N
  BY TabConstants
<1>2. 1..N \subseteq TabIdSet /\ 1..N \subseteq Conns /\ 1..N \subseteq Roots
  BY <1>1 DEF TabIdSet, Conns, Roots
<1>3. MessagesInv
  <2>1. lane \in [Conns -> Seq(Relayed)]
    BY DEF Init
  <2>2. DOMAIN commands = Conns /\ \A k \in Conns : Commands(commands[k])
    BY NoCommands DEF Init
  <2>3. /\ reply \in [Conns -> {"none", "session", "lost", "rejected"}]
        /\ \A k \in Conns : reply[k] = "session" => k <= N
    BY DEF Init
  <2>4. \A k \in Conns : k <= N => conn[k] = Serving(k, k)
    BY DEF Init
  <2>5. \A k \in Conns : Serving(k, k) # Off
    <3>1. \A k \in Conns : Serving(k, k).phase = "serving"
      BY DEF Serving
    <3>2. Off.phase = "off"
      BY DEF Off
    <3> QED
      BY <3>1, <3>2
  <2> QED
    BY <2>1, <2>2, <2>3, <2>4, <2>5 DEF MessagesInv
<1>4. DriverInv
  <2>1. mounted = [c \in 1..N |-> [tab |-> c, root |-> c, link |-> c]]
    BY DEF Init
  <2>2. ASSUME NEW c \in 1..N PROVE [tab |-> c, root |-> c, link |-> c] \in Tab
    BY <1>2 DEF Tab, TabOrNone
  <2>3. mounted \in [1..N -> Tab] /\ DOMAIN mounted = 1..N
    BY <2>1, <2>2
  <2>4. tasks = {} /\ dialog = 0
    BY DEF Init
  <2> QED
    BY <1>2, <2>3, <2>4 DEF DriverInv, Clients
<1> QED
  BY <1>3, <1>4, InitServer DEF TabsInv

LEMMA TabsStep == ASSUME TabsInv, [Next]_vars PROVE TabsInv'
<1>1. CASE UNCHANGED vars
  <2>1. UNCHANGED <<server, conn, lane, commands, reply, count>> /\ UNCHANGED window
    BY <1>1 DEF vars
  <2>2. DriverInv'
    BY <2>1, DriverKept DEF TabsInv
  <2> QED
    BY <2>1, <2>2, DriverAlone
<1>2. ASSUME NEW k \in Conns, ServerStep(k) \/ UseDocument(k) \/ Lose(k) PROVE TabsInv'
  BY <1>2, HandshakeKeeps, BindNewKeeps, LookUpKeeps, EnsureStateKeeps, ReclaimKeeps,
     RefuseReclaimKeeps, AnnounceKeeps, PerformKeeps, FinishCloseKeeps, NoticeKeeps,
     CleanUpKeeps, DepartKeeps, UseDocumentKeeps, LoseKeeps DEF ServerStep
<1>3. ASSUME NEW c \in Clients, DriverStep(c) PROVE TabsInv'
  BY <1>3, ApplySnapshotKeeps, IgnoreSnapshotKeeps, DisconnectedKeeps DEF DriverStep
<1>4. ASSUME NEW task \in tasks, TaskStep(task) PROVE TabsInv'
  BY <1>4, TryConnectKeeps, RetryKeeps, RekeyKeeps, DropSessionKeeps DEF TaskStep
<1>5. ASSUME NEW t \in TabIds(reg.tabs), Expire(t) PROVE TabsInv'
  BY <1>5, ExpireKeeps
<1>6. CASE UserStep
  <2>1. CASE OpenTab
    BY <2>1, OpenTabKeeps
  <2>2. CASE MountTab
    BY <2>2, MountTabKeeps
  <2>3. CASE OpenFailed
    <3>1. UNCHANGED <<server, conn, lane, commands, reply, count>>
      BY <2>3 DEF OpenFailed
    <3>2. DriverInv'
      BY <2>3 DEF OpenFailed, TabsInv, DriverInv, Clients
    <3> QED
      BY <3>1, <3>2, DriverAlone
  <2>4. CASE MoveTab
    <3>1. \E op \in Ops : \E position : shown \in Clients /\ Command(shown, op, position)
      <4>1. "left" \in Ops /\ "right" \in Ops /\ "to" \in Ops
        BY DEF Ops
      <4> QED
        BY <2>4, <4>1 DEF MoveTab
    <3> QED
      BY <3>1, CommandKeeps
  <2>5. ASSUME NEW c \in Clients, ActivateTab(c) \/ CloseTab(c) PROVE TabsInv'
    <3>1. "activate" \in Ops /\ "close" \in Ops
      BY DEF Ops
    <3> QED
      BY <2>5, <3>1, CommandKeeps DEF ActivateTab, CloseTab
  <2> QED
    BY <1>6, <2>1, <2>2, <2>3, <2>4, <2>5 DEF UserStep
<1>7. CASE Restart
  BY <1>7, RestartKeeps
<1> QED
  BY <1>1, <1>2, <1>3, <1>4, <1>5, <1>6, <1>7 DEF Next

-----------------------------------------------------------------------------
(* TabsInv holds in every reachable state.                                 *)
LEMMA TabsInvariant == Spec => []TabsInv
<1>1. Init => TabsInv
  BY InitTabs
<1>2. TabsInv /\ [Next]_vars => TabsInv'
  BY TabsStep
<1> QED
  BY <1>1, <1>2, PTL DEF Spec

(* What the registry, the states, the grants and the window hold always    *)
(* has its type, and no tab id is given beyond the number of clients.      *)
THEOREM TabsTypeCorrect == Spec => []TypeOK
<1>1. TabsInv => TypeOK
  <2> SUFFICES ASSUME TabsInv PROVE TypeOK
    OBVIOUS
  <2>1. reg \in Registry /\ reg.tabs \in Seq(Row)
    BY DEF TabsInv, ServerInv, RegistryInv, GoodRegistry, Registry
  <2>2. reg.active \in TabIdSet \union {NoTab}
    BY <2>1 DEF Registry, TabOrNone
  <2>3. \A row \in ToSet(reg.tabs) :
            row.tab \in TabIdSet /\ row.root \in Roots /\ row.client \in Conns
    BY <2>1, RowIs DEF ToSet
  <2>4. \A c \in Clients : /\ mounted[c].tab \in TabIdSet \union {NoTab}
                           /\ mounted[c].root \in Roots
                           /\ mounted[c].link \in Conns
    BY DEF TabsInv, DriverInv, Tab, TabOrNone
  <2> QED
    BY <2>2, <2>3, <2>4 DEF TypeOK, TabsInv, ServerInv, DriverInv
<1> QED
  BY <1>1, TabsInvariant, PTL

(* Whatever reclaims, closes, sweeps and restarts run against each other,  *)
(* a registered tab has its state on the server.                           *)
THEOREM RegisteredTabsAreServed == Spec => []RegisteredTabsHaveState
<1>1. TabsInv => RegisteredTabsHaveState
  BY DEF TabsInv, ServerInv, RegisteredTabsHaveState
<1> QED
  BY <1>1, TabsInvariant, PTL

(* No client is bound to two tabs and no tab is there twice, although New  *)
(* and Reclaim look before they lock; the active tab is a registered one.  *)
THEOREM ClientsHaveOneTab == Spec => []OneTabPerClient
<1>1. TabsInv => OneTabPerClient
  BY DEF TabsInv, ServerInv, RegistryInv, GoodRegistry, Distinct, ActiveIsRegistered,
         OneTabPerClient
<1> QED
  BY <1>1, TabsInvariant, PTL

(* The cleanup of a connection that leaves releases everything it was      *)
(* granted, also when its tab was closed or reclaimed meanwhile.           *)
THEOREM LeavingEndsGrants == Spec => []GrantsEnd
<1>1. TabsInv => GrantsEnd
  BY DEF TabsInv, ServerInv, GrantInv, Holding, GrantsEnd
<1> QED
  BY <1>1, TabsInvariant, PTL

-----------------------------------------------------------------------------
(* What the window is told.  Until a restart every connection and every    *)
(* tab belongs to one root: h gives it for a connection, b for a tab.  S   *)
(* has every snapshot that was sent.  Numbers from m on are connections    *)
(* still to come, tab ids from n on are not given yet.                     *)

Homes == [Conns -> Roots]
Places == [TabIdSet -> Roots]
Extends(f, g, n) == \A i \in DOMAIN f : i < n => g[i] = f[i]

(* Tab t, known as one of this root.                                       *)
Names(t, root, b, n) == t = NoTab \/ (t \in TabIdSet /\ t < n /\ b[t] = root)

RowsTell(rows, h, b, n, m) ==
    \A i \in DOMAIN rows :
        /\ Names(rows[i].tab, rows[i].root, b, n)
        /\ rows[i].client < m /\ rows[i].root = h[rows[i].client]

(* A tab that an earlier snapshot has and a later one has not is gone.     *)
InOrder(s, u, r) ==
    s.revision < u.revision =>
        \A t \in TabIds(s.tabs) : t \in TabIds(u.tabs) \/ t \notin TabIds(r.tabs)

SnapsTell(S, r, h, b, m) ==
    /\ S \subseteq Snapshot /\ NoSnapshot \in S
    /\ \A s \in S : RowsTell(s.tabs, h, b, r.next, m) /\ s.revision <= r.revision
    /\ \A s, u \in S : InOrder(s, u, r)
    /\ RowsTell(r.tabs, h, b, r.next, m)

(* Connection x, with number k; a mounted tab; a reconnect task.           *)
ConnTells(x, k, h, b, n, S) ==
    /\ x # Off => x.id = k
    /\ x \in Session => /\ x.bind.root = h[k] /\ x.snap \in S
                        /\ Names(x.bind.tab, x.bind.root, b, n)
MountTells(x, c, h, b, n, m) ==
    c < m /\ x.root = h[c] /\ Names(x.tab, x.root, b, n)
TaskTells(x, h, b, n, m) ==
    /\ x.for < m /\ x.root = h[x.for] /\ Names(x.tab, x.root, b, n)
    /\ x.link # 0 => x.link < m /\ x.root = h[x.link]

(* A snapshot that is newer than the last applied one lacks a tab t of the *)
(* window only when t is gone.                                             *)
Keeps(s, l, t, r) ==
    t # NoTab /\ s.revision > l => t \in TabIds(s.tabs) \/ t \notin TabIds(r.tabs)

LinesTell(h, b, S) ==
    /\ lane \in [Conns -> Seq(S \union {Lost})]
    /\ \A k \in Conns : ConnTells(conn[k], k, h, b, reg.next, S)
WindowTells(h, b, S) ==
    /\ \A c \in Clients : MountTells(mounted[c], c, h, b, reg.next, NextConn)
    /\ \A task \in tasks : TaskTells(task, h, b, reg.next, NextConn)
    /\ dialog # 0 => dialog < NextConn /\ h[dialog] = count.roots
    /\ last \in Nat
    /\ \A s \in S : \A c \in Clients : Keeps(s, last, mounted[c].tab, reg)

Story(h, b, S) ==
    /\ h \in Homes /\ b \in Places /\ count.clients = count.conns
    /\ SnapsTell(S, reg, h, b, NextConn)
    /\ LinesTell(h, b, S)
    /\ WindowTells(h, b, S)

StoryInv == count.restarts = 0 => \E h, b, S : Story(h, b, S)

(* What was told stays true when more roots are known.                     *)
Grown(h, b, n, m, g, p, o, k) ==
    /\ h \in Homes /\ g \in Homes /\ Extends(h, g, m)
    /\ b \in Places /\ p \in Places /\ Extends(b, p, n)
    /\ n \in Nat /\ o \in Nat /\ n <= o
    /\ m \in Nat /\ k \in Nat /\ m <= k

LEMMA NamesStay ==
    ASSUME NEW h, NEW b, NEW n, NEW m, NEW g, NEW p, NEW o, NEW k, Grown(h, b, n, m, g, p, o, k),
           NEW t, NEW root, Names(t, root, b, n)
    PROVE  Names(t, root, p, o)
<1>1. CASE t = NoTab
  BY <1>1 DEF Names
<1>2. CASE t \in TabIdSet /\ t < n /\ b[t] = root
  <2>1. t \in Nat
    BY <1>2 DEF TabIdSet
  <2>2. t < o /\ p[t] = b[t]
    BY <1>2, <2>1 DEF Grown, Extends, Places
  <2> QED
    BY <1>2, <2>2 DEF Names
<1> QED
  BY <1>1, <1>2 DEF Names

LEMMA HomeStays ==
    ASSUME NEW h, NEW b, NEW n, NEW m, NEW g, NEW p, NEW o, NEW k, Grown(h, b, n, m, g, p, o, k),
           NEW c \in Conns, c < m
    PROVE  c < k /\ g[c] = h[c]
<1>1. c \in Nat
  BY DEF Conns
<1> QED
  BY <1>1 DEF Grown, Extends, Homes

LEMMA RowsStay ==
    ASSUME NEW h, NEW b, NEW n, NEW m, NEW g, NEW p, NEW o, NEW k, Grown(h, b, n, m, g, p, o, k),
           NEW rows \in Seq(Row), RowsTell(rows, h, b, n, m)
    PROVE  RowsTell(rows, g, p, o, k)
<1> SUFFICES ASSUME NEW i \in DOMAIN rows
             PROVE  /\ Names(rows[i].tab, rows[i].root, p, o)
                    /\ rows[i].client < k /\ rows[i].root = g[rows[i].client]
  BY DEF RowsTell
<1>1. rows[i].client \in Conns
  BY RowIs
<1>2. /\ Names(rows[i].tab, rows[i].root, b, n)
      /\ rows[i].client < m /\ rows[i].root = h[rows[i].client]
  BY DEF RowsTell
<1> QED
  BY <1>1, <1>2, NamesStay, HomeStays

LEMMA WindowStays ==
    ASSUME NEW h, NEW b, NEW n, NEW m, NEW g, NEW p, NEW o, NEW k, Grown(h, b, n, m, g, p, o, k)
    PROVE  /\ \A x : \A c \in Conns : MountTells(x, c, h, b, n, m) => MountTells(x, c, g, p, o, k)
           /\ \A x \in Task : TaskTells(x, h, b, n, m) => TaskTells(x, g, p, o, k)
<1>1. ASSUME NEW x, NEW c \in Conns, MountTells(x, c, h, b, n, m)
      PROVE  MountTells(x, c, g, p, o, k)
  BY <1>1, NamesStay, HomeStays DEF MountTells
<1>2. ASSUME NEW x \in Task, TaskTells(x, h, b, n, m) PROVE TaskTells(x, g, p, o, k)
  <2>1. x.for \in Conns /\ (x.link # 0 => x.link \in Conns)
    BY DEF Task
  <2> QED
    BY <1>2, <2>1, NamesStay, HomeStays DEF TaskTells
<1> QED
  BY <1>1, <1>2

(* How a step changes the registry: a tab that comes is a new one.         *)
GoesOn(r, q) ==
    /\ r \in Registry /\ q \in Registry
    /\ r.next <= q.next /\ r.revision <= q.revision
    /\ \A t \in TabIds(q.tabs) : t < r.next => t \in TabIds(r.tabs)

LEMMA KeepsStay ==
    ASSUME NEW r, NEW q, GoesOn(r, q), NEW t, NEW root, NEW b, Names(t, root, b, r.next), NEW l
    PROVE  /\ \A s : Keeps(s, l, t, r) => Keeps(s, l, t, q)
           /\ Keeps(snapshot(q), l, t, q)
<1>1. t # NoTab => t < r.next
  BY DEF Names
<1>2. snapshot(q).tabs = q.tabs
  BY DEF snapshot
<1> QED
  BY <1>1, <1>2 DEF GoesOn, Keeps

LEMMA SnapsGoOn ==
    ASSUME NEW S, NEW r, NEW h, NEW b, NEW m, SnapsTell(S, r, h, b, m),
           NEW q, GoesOn(r, q), NEW g, NEW p, NEW k, Grown(h, b, r.next, m, g, p, q.next, k),
           RowsTell(q.tabs, g, p, q.next, k)
    PROVE  SnapsTell(S \union {snapshot(q)}, q, g, p, k)
<1> DEFINE new == snapshot(q)
<1>1. /\ new \in Snapshot /\ new.tabs = q.tabs /\ new.revision = q.revision
      /\ r.revision \in Nat /\ q.revision \in Nat /\ r.revision <= q.revision
  BY SnapshotIs DEF GoesOn, Registry, snapshot
<1> HIDE DEF new
<1>2. ASSUME NEW s \in S
      PROVE  /\ s.tabs \in Seq(Row) /\ s.revision \in Nat
             /\ RowsTell(s.tabs, g, p, q.next, k) /\ s.revision <= q.revision
             /\ \A t \in TabIds(s.tabs) : t < r.next
  <2>1. s.tabs \in Seq(Row) /\ s.revision \in Nat
    BY DEF SnapsTell, Snapshot
  <2>2. RowsTell(s.tabs, h, b, r.next, m) /\ s.revision <= r.revision
    BY DEF SnapsTell
  <2>3. RowsTell(s.tabs, g, p, q.next, k)
    BY <2>1, <2>2, RowsStay
  <2>4. s.revision <= q.revision
    BY <1>1, <2>1, <2>2
  <2>5. ASSUME NEW i \in DOMAIN s.tabs PROVE s.tabs[i].tab < r.next
    <3>1. s.tabs[i].tab \in TabIdSet
      BY <2>1, RowIs
    <3> QED
      BY <2>2, <3>1 DEF RowsTell, Names, NoTab, TabIdSet
  <2> QED
    BY <2>1, <2>3, <2>4, <2>5 DEF TabIds
<1>3. ASSUME NEW s \in S \union {new}, NEW u \in S \union {new} PROVE InOrder(s, u, q)
  <2>1. CASE u = new
    BY <1>1, <2>1 DEF InOrder
  <2>2. CASE s = new /\ u \in S
    BY <1>1, <1>2, <2>2 DEF InOrder
  <2>3. CASE s \in S /\ u \in S
    <3>1. InOrder(s, u, r)
      BY <2>3 DEF SnapsTell
    <3> QED
      BY <1>2, <2>3, <3>1 DEF InOrder, GoesOn
  <2> QED
    BY <2>1, <2>2, <2>3
<1> QED
  BY <1>1, <1>2, <1>3 DEF SnapsTell, new

-----------------------------------------------------------------------------
(* The steps of the server.                                                *)

LEMMA LanesWiden ==
    ASSUME NEW L, NEW M, L \subseteq M, NEW f \in [Conns -> Seq(L)]
    PROVE  f \in [Conns -> Seq(M)]
OBVIOUS

LEMMA NumbersAre ==
    ASSUME TabsInv
    PROVE  /\ reg \in Registry /\ reg.next \in Nat /\ reg.revision \in Nat /\ NextConn \in Nat
           /\ reg.tabs \in Seq(Row)
BY DEF TabsInv, ServerInv, RegistryInv, GoodRegistry, Registry, CountInv, NextConn

(* What a step may do to a connection x.                                   *)
Speaks(x, y, S) ==
    \/ y = x
    \/ /\ x # Off /\ y # Off /\ y.id = x.id
       /\ y \in Session => x \in Session /\ y.bind = x.bind /\ y.snap \in S

LEMMA OneSpeaks ==
    ASSUME conn \in [Conns -> Connection], NEW k \in Conns, conn[k] \in Session, NEW y,
           y.phase # "off", y.id = conn[k].id, y.bind = conn[k].bind,
           NEW T, y.snap \in T, conn' = [conn EXCEPT ![k] = y]
    PROVE  \A j \in Conns : Speaks(conn[j], conn'[j], T)
<1>1. conn'[k] = y /\ \A j \in Conns : j # k => conn'[j] = conn[j]
  OBVIOUS
<1>2. conn[k] # Off /\ y # Off
  BY DEF Off, Session, Phases, Handling
<1> QED
  BY <1>1, <1>2 DEF Speaks

LEMMA ConnTellsOn ==
    ASSUME NEW h, NEW b, NEW n, NEW m, NEW g, NEW p, NEW o, NEW i, Grown(h, b, n, m, g, p, o, i),
           NEW S, NEW T, S \subseteq T, NEW k \in Conns, k < m,
           NEW x, ConnTells(x, k, h, b, n, S), NEW y, Speaks(x, y, T)
    PROVE  ConnTells(y, k, g, p, o, T)
<1>1. k < i /\ g[k] = h[k]
  BY HomeStays
<1>2. y \in Session =>
          /\ x \in Session /\ y.bind.root = h[k] /\ y.snap \in T
          /\ Names(y.bind.tab, y.bind.root, b, n)
  BY DEF ConnTells, Speaks
<1>3. y # Off => y.id = k
  BY DEF ConnTells, Speaks
<1> QED
  BY <1>1, <1>2, <1>3, NamesStay DEF ConnTells

(* A step of the server: its snapshots, its lanes and its connections.     *)
LEMMA StoryGoesOn ==
    ASSUME TabsInv, TabsInv', NEW h, NEW b, NEW S, Story(h, b, S), NEW g, NEW p,
           Grown(h, b, reg.next, NextConn, g, p, reg'.next, NextConn'), GoesOn(reg, reg'),
           RowsTell(reg'.tabs, g, p, reg'.next, NextConn'),
           NEW T, T = S \union {snapshot(reg')}, lane' \in [Conns -> Seq(T \union {Lost})],
           \A k \in Conns : k < NextConn => Speaks(conn[k], conn'[k], T),
           \A k \in Conns : ~(k < NextConn) => ConnTells(conn'[k], k, g, p, reg'.next, T),
           count'.clients = count'.conns, UNCHANGED <<mounted, last>>,
           \A task \in tasks' : task \in tasks \/ TaskTells(task, g, p, reg'.next, NextConn'),
           dialog' # 0 => dialog' < NextConn' /\ g[dialog'] = count'.roots
    PROVE  Story(g, p, T)'
<1>1. g \in Homes /\ p \in Places
  BY DEF Grown
<1>2. SnapsTell(T, reg', g, p, NextConn')
  <2>1. SnapsTell(S, reg, h, b, NextConn)
    BY DEF Story
  <2> QED
    BY <2>1, SnapsGoOn
<1>3. ASSUME NEW k \in Conns PROVE ConnTells(conn'[k], k, g, p, reg'.next, T)
  <2>1. ConnTells(conn[k], k, h, b, reg.next, S)
    BY DEF Story, LinesTell
  <2>2. S \subseteq T
    OBVIOUS
  <2>3. CASE k < NextConn
    <3>1. Speaks(conn[k], conn'[k], T)
      BY <2>3
    <3>2. Grown(h, b, reg.next, NextConn, g, p, reg'.next, NextConn')
      OBVIOUS
    <3> QED
      BY <2>1, <2>2, <2>3, <3>1, <3>2, ConnTellsOn
  <2> QED
    BY <2>3
<1>4. WindowTells(h, b, S) /\ Clients \subseteq Conns /\ tasks \subseteq Task
  BY DEF Story, TabsInv, DriverInv
<1>5. ASSUME NEW s \in T, NEW c \in Clients PROVE Keeps(s, last, mounted[c].tab, reg')
  <2>1. Names(mounted[c].tab, mounted[c].root, b, reg.next)
    BY <1>4 DEF WindowTells, MountTells
  <2>2. s \in S => Keeps(s, last, mounted[c].tab, reg)
    BY <1>4 DEF WindowTells
  <2> QED
    BY <2>1, <2>2, KeepsStay
<1>6. \A c \in Clients : MountTells(mounted[c], c, g, p, reg'.next, NextConn')
  <2>1. \A c \in Clients : MountTells(mounted[c], c, h, b, reg.next, NextConn)
    BY <1>4 DEF WindowTells
  <2> QED
    BY <1>4, <2>1, WindowStays
<1>7. \A task \in tasks' : TaskTells(task, g, p, reg'.next, NextConn')
  <2>1. \A task \in tasks : TaskTells(task, h, b, reg.next, NextConn)
    BY <1>4 DEF WindowTells
  <2> QED
    BY <1>4, <2>1, WindowStays
<1>8. WindowTells(g, p, T)'
  <2>1. Clients' = Clients /\ last \in Nat
    BY <1>4 DEF Clients, WindowTells
  <2> QED
    BY <1>5, <1>6, <1>7, <2>1 DEF WindowTells
<1> QED
  BY <1>1, <1>2, <1>3, <1>8 DEF Story, LinesTell

(* The connections to come, and the rows that are left.                    *)
LEMMA RestTells ==
    ASSUME TabsInv, NEW h, NEW b, NEW S, Story(h, b, S)
    PROVE  /\ h \in Homes /\ b \in Places
           /\ \A k \in Conns : ~(k < NextConn) => conn[k] = Off
           /\ \A g, p, n, T : \A k \in Conns : ConnTells(Off, k, g, p, n, T)
           /\ \A rows : Picks(rows, reg.tabs) => RowsTell(rows, h, b, reg.next, NextConn)
<1>1. ASSUME NEW k \in Conns, ~(k < NextConn) PROVE conn[k] = Off
  <2>1. k > count.conns
    BY <1>1 DEF NextConn, Conns, TabsInv, ServerInv, CountInv
  <2> QED
    BY <2>1 DEF TabsInv, ServerInv
<1>2. Off \notin Session
  BY DEF Off, Session, Phases, Handling
<1>3. ASSUME NEW rows, Picks(rows, reg.tabs) PROVE RowsTell(rows, h, b, reg.next, NextConn)
  <2>1. RowsTell(reg.tabs, h, b, reg.next, NextConn)
    BY DEF Story, SnapsTell
  <2> QED
    BY <1>3, <2>1, PicksRows DEF RowsTell
<1> QED
  BY <1>1, <1>2, <1>3 DEF Story, ConnTells

(* A registry with rows of the old one only.                               *)
LEMMA TrimsGoOn ==
    ASSUME NEW r, NEW q, r \in Registry, q \in Registry, q.next = r.next,
           r.revision <= q.revision, Picks(q.tabs, r.tabs)
    PROVE  GoesOn(r, q)
<1>1. TabIds(q.tabs) \subseteq TabIds(r.tabs)
  BY PicksRows DEF TabIds
<1>2. r.next \in Nat
  BY DEF Registry
<1> QED
  BY <1>1, <1>2 DEF GoesOn

(* A step of the server that gives no tab an id and rebinds none.          *)
LEMMA ServerTells ==
    ASSUME TabsInv, TabsInv', NEW h, NEW b, NEW S, Story(h, b, S),
           Picks(reg'.tabs, reg.tabs), reg'.next = reg.next, reg.revision <= reg'.revision,
           NEW T, T = S \union {snapshot(reg')},
           lane' \in [Conns -> Seq(T \union {Lost})],
           \A k \in Conns : Speaks(conn[k], conn'[k], T),
           count'.clients = count.clients, count'.conns = count.conns, count'.roots = count.roots,
           UNCHANGED <<mounted, last, tasks, dialog>>
    PROVE  Story(h, b, T)'
<1>1. /\ reg \in Registry /\ reg.next \in Nat /\ NextConn \in Nat /\ reg' \in Registry
      /\ NextConn' = NextConn
  BY NumbersAre DEF TabsInv, ServerInv, RegistryInv, GoodRegistry, NextConn
<1>2. Grown(h, b, reg.next, NextConn, h, b, reg'.next, NextConn')
  BY <1>1, RestTells DEF Grown, Extends
<1>3. GoesOn(reg, reg')
  BY <1>1, TrimsGoOn
<1>4. RowsTell(reg'.tabs, h, b, reg'.next, NextConn')
  BY <1>1, RestTells
<1>5. \A k \in Conns : ~(k < NextConn) => ConnTells(conn'[k], k, h, b, reg'.next, T)
  BY RestTells DEF Speaks
<1>6. /\ count'.clients = count'.conns
      /\ dialog' # 0 => dialog' < NextConn' /\ h[dialog'] = count'.roots
  BY <1>1 DEF Story, WindowTells
<1> QED
  BY <1>2, <1>3, <1>4, <1>5, <1>6, StoryGoesOn

(* A step that leaves the registry alone: its snapshot may be sent again.  *)
LEMMA QuietTells ==
    ASSUME TabsInv, TabsInv', NEW h, NEW b, NEW S, Story(h, b, S), reg' = reg,
           NEW T, T = S \union {snapshot(reg)},
           lane' \in [Conns -> Seq(T \union {Lost})],
           \A k \in Conns : Speaks(conn[k], conn'[k], T),
           count'.clients = count.clients, count'.conns = count.conns, count'.roots = count.roots,
           UNCHANGED <<mounted, last, tasks, dialog>>
    PROVE  StoryInv'
<1>1. Picks(reg'.tabs, reg.tabs) /\ reg'.next = reg.next /\ reg.revision <= reg'.revision
  BY NumbersAre, PicksSelf
<1>2. T = S \union {snapshot(reg')}
  BY DEF snapshot
<1>3. Story(h, b, T)'
  BY <1>1, <1>2, ServerTells
<1> QED
  BY <1>3 DEF StoryInv

(* The lanes and the sessions with one more snapshot.                      *)
LEMMA LinesAre ==
    ASSUME TabsInv, NEW h, NEW b, NEW S, Story(h, b, S), NEW new
    PROVE  /\ conn \in [Conns -> Connection]
           /\ lane \in [Conns -> Seq(S \union {new} \union {Lost})]
           /\ NoSnapshot \in S
           /\ \A k \in Conns : conn[k].phase \in Phases => conn[k] \in Session /\ conn[k].snap \in S
<1>1. lane \in [Conns -> Seq(S \union {Lost})]
  BY DEF Story, LinesTell
<1>2. lane \in [Conns -> Seq(S \union {new} \union {Lost})]
  BY <1>1, LanesWiden
<1>3. \A k \in Conns : conn[k].phase \in Phases => conn[k] \in Session
  BY SessionIs DEF TabsInv
<1>4. \A k \in Conns : conn[k] \in Session => conn[k].snap \in S
  BY DEF Story, LinesTell, ConnTells
<1> QED
  BY <1>2, <1>3, <1>4 DEF TabsInv, ServerInv, Story, SnapsTell

(* The steps of a connection that send nothing.                            *)
LEMMA SilentTells ==
    ASSUME TabsInv, TabsInv', NEW h, NEW b, NEW S, Story(h, b, S), NEW k \in Conns,
           LookUp(k) \/ EnsureState(k) \/ Notice(k) \/ CleanUp(k) \/ UseDocument(k)
    PROVE  StoryInv'
<1> PICK T : T = S \union {snapshot(reg)}
  OBVIOUS
<1>1. conn[k] \in Session /\ conn[k].snap \in T /\ conn \in [Conns -> Connection]
  <2>1. conn[k].phase \in Phases
    BY DEF LookUp, EnsureState, Notice, CleanUp, UseDocument, Phases, Handling
  <2> QED
    BY <2>1, LinesAre
<1>2. \A j \in Conns : Speaks(conn[j], conn'[j], T)
  <2>1. CASE LookUp(k)
    <3> DEFINE y == [conn[k] EXCEPT !.phase = "looked", !.seen = Registered(reg, conn[k].bind.tab)]
    <3>1. y.phase # "off" /\ y.id = conn[k].id /\ y.bind = conn[k].bind /\ y.snap = conn[k].snap
      BY <1>1 DEF Session
    <3>2. conn' = [conn EXCEPT ![k] = y]
      BY <2>1 DEF LookUp
    <3> HIDE DEF y
    <3> QED
      BY <1>1, <3>1, <3>2, OneSpeaks
  <2>2. ASSUME NEW p \in {"ensured", "closing", "leaving"}, conn' = [conn EXCEPT ![k].phase = p]
        PROVE  \A j \in Conns : Speaks(conn[j], conn'[j], T)
    <3> DEFINE y == [conn[k] EXCEPT !.phase = p]
    <3>1. y.phase # "off" /\ y.id = conn[k].id /\ y.bind = conn[k].bind /\ y.snap = conn[k].snap
      BY <1>1 DEF Session
    <3>2. conn' = [conn EXCEPT ![k] = y]
      BY <2>2
    <3> HIDE DEF y
    <3> QED
      BY <1>1, <3>1, <3>2, OneSpeaks
  <2>3. CASE UseDocument(k)
    <3> DEFINE t == tab_for_client(reg, conn[k].id)
               y == [conn[k] EXCEPT !.bound = t, !.state = t]
    <3>1. /\ y.phase # "off" /\ y.id = conn[k].id /\ y.bind = conn[k].bind
          /\ y.snap = conn[k].snap
      BY <1>1 DEF Session, Phases, Handling
    <3>2. conn' = [conn EXCEPT ![k] = y]
      BY <2>3 DEF UseDocument
    <3> HIDE DEF y
    <3> QED
      BY <1>1, <3>1, <3>2, OneSpeaks
  <2> QED
    BY <2>1, <2>2, <2>3 DEF EnsureState, Notice, CleanUp
<1>3. /\ reg' = reg /\ lane' = lane /\ count' = count
      /\ UNCHANGED <<mounted, last, tasks, dialog>>
  BY DEF LookUp, EnsureState, Notice, CleanUp, UseDocument, server, window
<1>4. lane' \in [Conns -> Seq(T \union {Lost})]
  BY <1>3, LinesAre
<1> QED
  BY <1>2, <1>3, <1>4, QuietTells

(* The steps of a connection that write to lanes.                          *)
LEMMA SpokenTells ==
    ASSUME TabsInv, TabsInv', NEW h, NEW b, NEW S, Story(h, b, S), NEW k \in Conns,
           Handshake(k) \/ RefuseReclaim(k) \/ Announce(k) \/ FinishClose(k) \/ Lose(k)
    PROVE  StoryInv'
<1> PICK T : T = S \union {snapshot(reg)}
  OBVIOUS
<1>1. /\ conn[k] \in Session /\ conn[k].snap \in T /\ NoSnapshot \in T
      /\ conn \in [Conns -> Connection] /\ lane \in [Conns -> Seq(T \union {Lost})]
  <2>1. conn[k].phase \in Phases
    BY DEF Handshake, RefuseReclaim, Announce, FinishClose, Lose, Phases, Handling
  <2> QED
    BY <2>1, LinesAre
<1>2. \A j \in Conns : Speaks(conn[j], conn'[j], T)
  <2>1. PICK y : /\ conn' = [conn EXCEPT ![k] = y] /\ y.phase # "off" /\ y.id = conn[k].id
                 /\ y.bind = conn[k].bind /\ y.snap \in T
    <3>1. CASE Handshake(k)
      <4> DEFINE y == [conn[k] EXCEPT !.phase = "ready"]
      <4>1. /\ y.phase # "off" /\ y.id = conn[k].id /\ y.bind = conn[k].bind
            /\ y.snap \in T /\ conn' = [conn EXCEPT ![k] = y]
        BY <1>1, <3>1 DEF Session, Handshake
      <4> QED
        BY <4>1
    <3>2. CASE RefuseReclaim(k)
      <4> DEFINE y == [conn[k] EXCEPT !.phase = "serving", !.cut = TRUE]
      <4>1. /\ y.phase # "off" /\ y.id = conn[k].id /\ y.bind = conn[k].bind
            /\ y.snap \in T /\ conn' = [conn EXCEPT ![k] = y]
        BY <1>1, <3>2 DEF Session, RefuseReclaim
      <4> QED
        BY <4>1
    <3>3. CASE Announce(k)
      <4> DEFINE y == [conn[k] EXCEPT !.phase = "serving", !.snap = NoSnapshot]
      <4>1. /\ y.phase # "off" /\ y.id = conn[k].id /\ y.bind = conn[k].bind
            /\ y.snap \in T /\ conn' = [conn EXCEPT ![k] = y]
        BY <1>1, <3>3 DEF Session, Announce
      <4> QED
        BY <4>1
    <3>4. CASE FinishClose(k)
      <4> DEFINE y == [conn[k] EXCEPT !.phase = "closing", !.cut = TRUE]
      <4>1. /\ y.phase # "off" /\ y.id = conn[k].id /\ y.bind = conn[k].bind
            /\ y.snap \in T /\ conn' = [conn EXCEPT ![k] = y]
        BY <1>1, <3>4 DEF Session, FinishClose
      <4> QED
        BY <4>1
    <3>5. CASE Lose(k)
      <4> DEFINE y == [conn[k] EXCEPT !.cut = TRUE]
      <4>1. /\ y.phase # "off" /\ y.id = conn[k].id /\ y.bind = conn[k].bind
            /\ y.snap \in T /\ conn' = [conn EXCEPT ![k] = y]
        BY <1>1, <3>5 DEF Session, Lose, Phases, Handling
      <4> QED
        BY <4>1
    <3> QED
      BY <3>1, <3>2, <3>3, <3>4, <3>5
  <2> QED
    BY <1>1, <2>1, OneSpeaks
<1>3. lane' \in [Conns -> Seq(T \union {Lost})]
  <2> DEFINE L == T \union {Lost}
  <2>1. Lost \in L /\ snapshot(reg) \in L /\ conn[k].snap \in L /\ lane \in [Conns -> Seq(L)]
    BY <1>1
  <2> HIDE DEF L
  <2>2. CASE Handshake(k)
    <3> DEFINE all == <<snapshot(reg)>> \o lane[k]
    <3>1. <<snapshot(reg)>> \in Seq(L) /\ lane[k] \in Seq(L)
      BY <2>1
    <3>2. all \in Seq(L)
      BY <3>1
    <3>3. lane' = [lane EXCEPT ![k] = IF conn[k].cut THEN lane[k] ELSE all]
      BY <2>2 DEF Handshake
    <3> HIDE DEF all
    <3>4. lane' \in [Conns -> Seq(L)]
      BY <2>1, <3>1, <3>2, <3>3
    <3> QED
      BY <3>4 DEF L
  <2>3. CASE RefuseReclaim(k)
    <3>1. lane' \in [Conns -> Seq(L)]
      BY <2>1, <2>3 DEF RefuseReclaim
    <3> QED
      BY <3>1 DEF L
  <2>4. CASE Announce(k)
    <3>1. lane' \in [Conns -> Seq(L)]
      BY <2>1, <2>4, RelayTold DEF Announce
    <3> QED
      BY <3>1 DEF L
  <2>5. CASE FinishClose(k) \/ Lose(k)
    <3>1. lane' \in Ended(k)
      BY <2>5 DEF FinishClose, Lose
    <3>2. lane' \in [Conns -> Seq(L)]
      BY <2>1, <3>1, RelayEnded
    <3> QED
      BY <3>2 DEF L
  <2> QED
    BY <2>2, <2>3, <2>4, <2>5
<1>4. /\ reg' = reg /\ UNCHANGED <<mounted, last, tasks, dialog>>
      /\ count'.clients = count.clients /\ count'.conns = count.conns /\ count'.roots = count.roots
  <2>1. count' = count \/ count' = [count EXCEPT !.losses = @ + 1]
    BY DEF Handshake, RefuseReclaim, Announce, FinishClose, Lose
  <2>2. count'.clients = count.clients /\ count'.conns = count.conns /\ count'.roots = count.roots
    BY <2>1 DEF TabsInv, ServerInv, CountInv
  <2> QED
    BY <2>2 DEF Handshake, RefuseReclaim, Announce, FinishClose, Lose, server, window
<1> QED
  BY <1>2, <1>3, <1>4, QuietTells

-----------------------------------------------------------------------------
(* A change of the registry never takes its revision back.                 *)
LEMMA RevisionsGrow ==
    ASSUME NEW r \in Registry
    PROVE  /\ \A t, c : r.revision <= close_tab(r, t, c).revision
           /\ \A old, alive : r.revision <= sweep_expired(r, old, alive).revision
           /\ \A t, c : r.revision <= activate(r, t, c).revision
           /\ \A t, c, position : r.revision <= move_to(r, t, c, position).revision
           /\ \A t, c : r.revision <= reclaim(r, t, c).revision
           /\ \A c, root : r.revision <= create_tab(r, c, root).revision
<1>1. r.revision \in Nat /\ r.revision <= r.revision
  BY DEF Registry
<1>2. \A q : DOMAIN q = DOMAIN r /\ q.revision = r.revision => r.revision <= Applied(q).revision
  <2>1. "revision" \in DOMAIN r
    BY DEF Registry
  <2> QED
    BY <1>1, <2>1 DEF Applied
<1>3. \A rows : r.revision <= KeepRows(r, rows).revision
  <2> TAKE rows
  <2> DEFINE q == [r EXCEPT !.tabs = rows, !.active = IF @ \in TabIds(r.tabs) \ TabIds(rows)
                                                      THEN LastTab(rows) ELSE @]
  <2>1. DOMAIN q = DOMAIN r /\ q.revision = r.revision
    BY DEF Registry
  <2>2. KeepRows(r, rows) = Applied(q)
    BY DEF KeepRows
  <2> HIDE DEF q
  <2> QED
    BY <1>2, <2>1, <2>2
<1>4. \A t, c : r.revision <= close_tab(r, t, c).revision
  BY <1>1, <1>3 DEF close_tab
<1>5. \A old, alive : r.revision <= sweep_expired(r, old, alive).revision
  BY <1>1, <1>3 DEF sweep_expired
<1>6. \A t, c : r.revision <= activate(r, t, c).revision
  <2> TAKE t, c
  <2> DEFINE q == [r EXCEPT !.active = t]
  <2>1. DOMAIN q = DOMAIN r /\ q.revision = r.revision
    BY DEF Registry
  <2>2. activate(r, t, c) = r \/ activate(r, t, c) = Applied(q)
    BY DEF activate
  <2> HIDE DEF q
  <2> QED
    BY <1>1, <1>2, <2>1, <2>2
<1>7. \A t, c, position : r.revision <= move_to(r, t, c, position).revision
  <2> TAKE t, c, position
  <2> DEFINE i == PositionOf(r, t)
             q == [r EXCEPT !.tabs = InsertAt(RemoveAt(@, i), position, r.tabs[i])]
  <2>1. DOMAIN q = DOMAIN r /\ q.revision = r.revision
    BY DEF Registry
  <2>2. move_to(r, t, c, position) = r \/ move_to(r, t, c, position) = Applied(q)
    BY DEF move_to
  <2> HIDE DEF q
  <2> QED
    BY <1>1, <1>2, <2>1, <2>2
<1>8. \A t, c : r.revision <= reclaim(r, t, c).revision
  <2> TAKE t, c
  <2> DEFINE q == [r EXCEPT !.tabs[PositionOf(r, t)].client = c]
  <2>1. DOMAIN q = DOMAIN r /\ q.revision = r.revision
    BY DEF Registry
  <2>2. reclaim(r, t, c) = r \/ reclaim(r, t, c) = Applied(q)
    BY DEF reclaim
  <2> HIDE DEF q
  <2> QED
    BY <1>1, <1>2, <2>1, <2>2
<1>9. \A c, root : r.revision <= create_tab(r, c, root).revision
  <2> TAKE c, root
  <2> DEFINE q == [r EXCEPT !.tabs = Append(@, [tab |-> r.next, root |-> root, client |-> c]),
                            !.active = r.next, !.next = @ + 1]
  <2>1. DOMAIN q = DOMAIN r /\ q.revision = r.revision
    BY DEF Registry
  <2>2. create_tab(r, c, root) = Applied(q)
    BY DEF create_tab
  <2> HIDE DEF q
  <2> QED
    BY <1>2, <2>1, <2>2
<1> QED
  BY <1>4, <1>5, <1>6, <1>7, <1>8, <1>9

LEMMA PerformTells ==
    ASSUME TabsInv, TabsInv', NEW h, NEW b, NEW S, Story(h, b, S), NEW k \in Conns, Perform(k)
    PROVE  StoryInv'
<1> PICK T : T = S \union {snapshot(reg')}
  OBVIOUS
<1> DEFINE cmd == Head(commands[k])
           quiet == cmd.op = "close" /\ BoundTo(reg, cmd.tab, conn[k].id)
           y == [conn[k] EXCEPT !.phase = IF quiet THEN "closed" ELSE @]
<1>1. /\ conn[k] \in Session /\ conn[k].snap \in T /\ conn[k].phase = "serving"
      /\ conn \in [Conns -> Connection] /\ lane \in [Conns -> Seq(T \union {Lost})]
  <2>1. conn[k].phase \in Phases /\ conn[k].phase = "serving"
    BY DEF Perform, Phases, Handling
  <2> QED
    BY <2>1, LinesAre
<1>2. cmd.op \in Ops
  BY CommandsShrink DEF TabsInv, MessagesInv, Perform
<1>3. /\ reg' = Effect(k, cmd) /\ conn' = [conn EXCEPT ![k] = y]
      /\ lane' = [Told(lane, snapshot(reg')) EXCEPT ![k] = IF quiet THEN lane[k] ELSE @]
      /\ UNCHANGED <<mounted, last, tasks, dialog, count>>
  BY DEF Perform, window
<1>4. Picks(reg'.tabs, reg.tabs) /\ reg'.next = reg.next
  BY <1>2, <1>3, EffectTrims DEF Trims, TabsInv, ServerInv, RegistryInv
<1>5. reg.revision <= reg'.revision
  BY <1>2, <1>3, RevisionsGrow, NumbersAre DEF Effect, Ops, move_left, move_right
<1>6. \A j \in Conns : Speaks(conn[j], conn'[j], T)
  <2>1. y.phase # "off" /\ y.id = conn[k].id /\ y.bind = conn[k].bind /\ y.snap = conn[k].snap
    BY <1>1 DEF Session
  <2> HIDE DEF y
  <2> QED
    BY <1>1, <1>3, <2>1, OneSpeaks
<1>7. lane' \in [Conns -> Seq(T \union {Lost})]
  <2> DEFINE L == T \union {Lost}
             told == Told(lane, snapshot(reg'))
  <2>1. lane \in [Conns -> Seq(L)] /\ snapshot(reg') \in L
    BY <1>1
  <2> HIDE DEF L
  <2>2. told \in [Conns -> Seq(L)]
    BY <2>1, RelayTold
  <2>3. lane' = [told EXCEPT ![k] = IF quiet THEN lane[k] ELSE @]
    BY <1>3
  <2> HIDE DEF told, quiet
  <2>4. lane' \in [Conns -> Seq(L)]
    BY <2>1, <2>2, <2>3
  <2> QED
    BY <2>4 DEF L
<1>8. Story(h, b, T)'
  BY <1>3, <1>4, <1>5, <1>6, <1>7, ServerTells
<1> QED
  BY <1>8 DEF StoryInv

(* A sweep trims the registry and tells it, or does nothing.               *)
LEMMA SweepTells ==
    ASSUME TabsInv, NEW alive, Sweep(alive), NEW T, snapshot(reg') \in T,
           lane \in [Conns -> Seq(T \union {Lost})]
    PROVE  /\ Picks(reg'.tabs, reg.tabs) /\ reg'.next = reg.next /\ reg.revision <= reg'.revision
           /\ lane' \in [Conns -> Seq(T \union {Lost})]
<1>1. Trims(reg, reg', Expired(reg, idle, alive))
  BY SweepTrims DEF Sweep, TabsInv, ServerInv, RegistryInv
<1>2. reg.revision <= reg'.revision
  BY RevisionsGrow, NumbersAre DEF Sweep
<1>3. lane' \in [Conns -> Seq(T \union {Lost})]
  BY RelayTold DEF Sweep
<1> QED
  BY <1>1, <1>2, <1>3 DEF Trims

LEMMA DepartTells ==
    ASSUME TabsInv, TabsInv', NEW h, NEW b, NEW S, Story(h, b, S), NEW k \in Conns, Depart(k)
    PROVE  StoryInv'
<1> PICK T : T = S \union {snapshot(reg')}
  OBVIOUS
<1>1. conn[k] \in Session /\ conn \in [Conns -> Connection] /\ lane \in [Conns -> Seq(T \union {Lost})]
  <2>1. conn[k].phase \in Phases
    BY DEF Depart, Phases, Handling
  <2> QED
    BY <2>1, LinesAre
<1>2. /\ Sweep(live) /\ conn' = [conn EXCEPT ![k] = Gone(k)]
      /\ UNCHANGED <<mounted, last, tasks, dialog, count>>
  BY DEF Depart, window
<1>3. /\ Picks(reg'.tabs, reg.tabs) /\ reg'.next = reg.next /\ reg.revision <= reg'.revision
      /\ lane' \in [Conns -> Seq(T \union {Lost})]
  BY <1>1, <1>2, SweepTells
<1>4. \A j \in Conns : Speaks(conn[j], conn'[j], T)
  <2>1. conn'[k] = Gone(k) /\ \A j \in Conns : j # k => conn'[j] = conn[j]
    BY <1>1, <1>2
  <2>2. conn[k] # Off /\ Gone(k) # Off /\ Gone(k).id = conn[k].id /\ Gone(k) \notin Session
    BY <1>1 DEF Gone, Off, Session, Phases, Handling
  <2> QED
    BY <2>1, <2>2 DEF Speaks
<1>5. Story(h, b, T)'
  BY <1>2, <1>3, <1>4, ServerTells
<1> QED
  BY <1>5 DEF StoryInv

(* A connection that is about to bind a tab is one of this window's.       *)
LEMMA BinderIs ==
    ASSUME TabsInv, NEW h, NEW b, NEW S, Story(h, b, S), NEW k \in Conns,
           conn[k].phase \in Early
    PROVE  /\ conn[k] \in Session /\ conn[k].id = k /\ k < NextConn
           /\ conn[k].bind \in Bindings /\ conn[k].bind.root = h[k]
           /\ Names(conn[k].bind.tab, conn[k].bind.root, b, reg.next)
           /\ \A i \in DOMAIN reg.tabs : reg.tabs[i].client # k
<1>1. conn[k].phase \in Phases
  BY DEF Early, Phases, Handling
<1>2. conn[k] \in Session
  BY <1>1, SessionIs DEF TabsInv
<1>3. conn[k] # Off
  BY <1>2 DEF Off, Session, Phases, Handling
<1>4. k < NextConn
  BY <1>3, RestTells
<1>5. ConnTells(conn[k], k, h, b, reg.next, S)
  BY DEF Story, LinesTell
<1>6. \A i \in DOMAIN reg.tabs : reg.tabs[i].client # conn[k].id
  BY <1>2, EarlyHasNothing DEF TabsInv
<1>7. conn[k].bind \in Bindings
  BY <1>2 DEF Session
<1> QED
  BY <1>2, <1>3, <1>4, <1>5, <1>6, <1>7 DEF ConnTells

(* The lanes do not change when a tab is bound, the connection does.       *)
LEMMA BindTells ==
    ASSUME TabsInv, TabsInv', NEW h, NEW b, NEW S, Story(h, b, S), NEW p,
           Grown(h, b, reg.next, NextConn, h, p, reg'.next, NextConn), GoesOn(reg, reg'),
           RowsTell(reg'.tabs, h, p, reg'.next, NextConn),
           NEW k \in Conns, conn[k] \in Session, NEW y, conn' = [conn EXCEPT ![k] = y],
           y.phase # "off", y.id = conn[k].id, y.bind = conn[k].bind, y.snap = snapshot(reg'),
           UNCHANGED <<lane, window, count>>
    PROVE  StoryInv'
<1> PICK T : T = S \union {snapshot(reg')}
  OBVIOUS
<1>1. conn \in [Conns -> Connection] /\ lane \in [Conns -> Seq(T \union {Lost})]
  BY LinesAre
<1>2. \A j \in Conns : Speaks(conn[j], conn'[j], T)
  <2>1. y.snap \in T
    OBVIOUS
  <2> QED
    BY <1>1, <2>1, OneSpeaks
<1>3. \A j \in Conns : ~(j < NextConn) => ConnTells(conn'[j], j, h, p, reg'.next, T)
  BY <1>2, RestTells DEF Speaks
<1>4. /\ NextConn' = NextConn /\ lane' \in [Conns -> Seq(T \union {Lost})]
      /\ UNCHANGED <<mounted, last, tasks, dialog, count>>
  BY <1>1 DEF NextConn, window
<1>5. /\ count'.clients = count'.conns
      /\ dialog' # 0 => dialog' < NextConn' /\ h[dialog'] = count'.roots
  BY <1>4 DEF Story, WindowTells
<1>6. \A task \in tasks' : task \in tasks \/ TaskTells(task, h, p, reg'.next, NextConn')
  BY <1>4
<1>7. /\ Grown(h, b, reg.next, NextConn, h, p, reg'.next, NextConn')
      /\ RowsTell(reg'.tabs, h, p, reg'.next, NextConn')
      /\ \A j \in Conns : ~(j < NextConn) => ConnTells(conn'[j], j, h, p, reg'.next, T)
      /\ \A j \in Conns : j < NextConn => Speaks(conn[j], conn'[j], T)
      /\ UNCHANGED <<mounted, last>>
  BY <1>2, <1>3, <1>4
<1>8. Story(h, p, T)'
  BY <1>4, <1>5, <1>6, <1>7, StoryGoesOn
<1> QED
  BY <1>8 DEF StoryInv

LEMMA BindNewTells ==
    ASSUME TabsInv, TabsInv', NEW h, NEW b, NEW S, Story(h, b, S), NEW k \in Conns, BindNew(k)
    PROVE  StoryInv'
<1>1. /\ conn[k] \in Session /\ conn[k].id = k /\ k < NextConn /\ conn[k].phase = "ready"
      /\ conn[k].bind \in Bindings /\ conn[k].bind.root = h[k]
      /\ \A i \in DOMAIN reg.tabs : reg.tabs[i].client # k
  <2>1. conn[k].phase \in Early /\ conn[k].phase = "ready"
    BY DEF BindNew, Early
  <2> QED
    BY <2>1, BinderIs
<1> PICK n : n = reg.next
  OBVIOUS
<1> DEFINE root == conn[k].bind.root
           y == [conn[k] EXCEPT !.phase = "bound", !.bound = n, !.state = n,
                                !.snap = snapshot(reg')]
<1>2. /\ reg' = create_tab(reg, k, root) /\ conn' = [conn EXCEPT ![k] = y]
      /\ UNCHANGED <<lane, window, count>> /\ states' = states \union {n}
  BY <1>1 DEF BindNew
<1>3. /\ GoodRegistry(reg) /\ reg.tabs \in Seq(Row) /\ n \in Nat /\ NextConn \in Nat
      /\ reg \in Registry /\ root \in Roots
      /\ \A i \in DOMAIN reg.tabs : reg.tabs[i].tab < n
  BY <1>1, NumbersAre DEF TabsInv, ServerInv, RegistryInv, Bindings
<1>4. n \in TabIdSet
  BY <1>2 DEF TabsInv, ServerInv
<1>5. /\ reg' \in Registry /\ reg'.next = n + 1 /\ TabIds(reg'.tabs) = TabIds(reg.tabs) \union {n}
      /\ reg'.tabs = Append(reg.tabs, [tab |-> n, root |-> root, client |-> k])
  <2>1. \A i \in DOMAIN reg.tabs : reg.tabs[i].tab # reg.next /\ reg.tabs[i].client # k
    <3>1. \A i \in DOMAIN reg.tabs : reg.tabs[i].tab \in TabIdSet
      BY <1>3, RowIs
    <3> QED
      BY <1>1, <1>3, <3>1 DEF TabIdSet
  <2> HIDE DEF root
  <2> QED
    BY <1>2, <1>3, <1>4, <2>1, CreateGood DEF GoodRegistry
<1> PICK p : p = [b EXCEPT ![n] = root]
  OBVIOUS
<1>6. h \in Homes /\ b \in Places
  BY RestTells
<1>7. Grown(h, b, reg.next, NextConn, h, p, reg'.next, NextConn)
  <2>1. p \in Places
    BY <1>3, <1>6 DEF Places
  <2>2. Extends(b, p, n)
    BY <1>3, <1>6 DEF Places, Extends, TabIdSet
  <2> QED
    BY <1>3, <1>5, <1>6, <2>1, <2>2 DEF Grown, Extends
<1>8. GoesOn(reg, reg')
  <2>1. reg.revision <= reg'.revision
    BY <1>2, <1>3, RevisionsGrow
  <2> QED
    BY <1>3, <1>5, <2>1 DEF GoesOn
<1>9. RowsTell(reg'.tabs, h, p, reg'.next, NextConn)
  <2>1. RowsTell(reg.tabs, h, p, reg'.next, NextConn)
    <3>1. RowsTell(reg.tabs, h, b, reg.next, NextConn)
      BY DEF Story, SnapsTell
    <3> QED
      BY <1>3, <1>7, <3>1, RowsStay
  <2>2. Names(n, root, p, reg'.next)
    BY <1>3, <1>4, <1>5, <1>6 DEF Names, Places
  <2> DEFINE row == [tab |-> n, root |-> root, client |-> k]
  <2>3. row.tab = n /\ row.root = root /\ row.client = k
    OBVIOUS
  <2>4. ASSUME NEW i \in DOMAIN reg'.tabs
        PROVE  reg'.tabs[i] = row \/ (i \in DOMAIN reg.tabs /\ reg'.tabs[i] = reg.tabs[i])
    BY <1>3, <1>5
  <2> HIDE DEF row
  <2> QED
    BY <1>1, <2>1, <2>2, <2>3, <2>4 DEF RowsTell
<1>10. y.phase # "off" /\ y.id = conn[k].id /\ y.bind = conn[k].bind /\ y.snap = snapshot(reg')
  BY <1>1 DEF Session
<1> HIDE DEF y
<1> QED
  BY <1>1, <1>2, <1>7, <1>8, <1>9, <1>10, BindTells

LEMMA ReclaimTells ==
    ASSUME TabsInv, TabsInv', NEW h, NEW b, NEW S, Story(h, b, S), NEW k \in Conns, Reclaim(k)
    PROVE  StoryInv'
<1> PICK t : t = conn[k].bind.tab
  OBVIOUS
<1>1. /\ conn[k] \in Session /\ conn[k].id = k /\ k < NextConn
      /\ conn[k].bind.root = h[k] /\ Names(t, h[k], b, reg.next)
      /\ \A i \in DOMAIN reg.tabs : reg.tabs[i].client # k
  <2>1. conn[k].phase \in Early
    BY DEF Reclaim, Early
  <2> QED
    BY <2>1, BinderIs
<1> DEFINE y == [conn[k] EXCEPT !.phase = "bound", !.bound = t,
                     !.state = IF t \in states THEN t ELSE @, !.snap = snapshot(reg')]
<1>2. /\ reg' = reclaim(reg, t, k) /\ conn' = [conn EXCEPT ![k] = y]
      /\ UNCHANGED <<lane, window, count>> /\ Registered(reg, t)
  BY <1>1 DEF Reclaim
<1>3. /\ GoodRegistry(reg) /\ reg.tabs \in Seq(Row) /\ reg.next \in Nat /\ NextConn \in Nat
      /\ reg \in Registry /\ h \in Homes /\ b \in Places
  BY NumbersAre, RestTells DEF TabsInv, ServerInv, RegistryInv
<1>4. /\ reg' \in Registry /\ reg'.next = reg.next /\ TabIds(reg'.tabs) = TabIds(reg.tabs)
      /\ DOMAIN reg'.tabs = DOMAIN reg.tabs
      /\ \A i \in DOMAIN reg.tabs :
            /\ reg'.tabs[i].tab = reg.tabs[i].tab /\ reg'.tabs[i].root = reg.tabs[i].root
            /\ reg'.tabs[i].client = IF reg.tabs[i].tab = t THEN k ELSE reg.tabs[i].client
  BY <1>1, <1>2, <1>3, ReclaimGood DEF GoodRegistry
<1>5. Grown(h, b, reg.next, NextConn, h, b, reg'.next, NextConn)
  BY <1>3, <1>4 DEF Grown, Extends
<1>6. GoesOn(reg, reg')
  <2>1. reg.revision <= reg'.revision
    BY <1>2, <1>3, RevisionsGrow
  <2> QED
    BY <1>3, <1>4, <2>1 DEF GoesOn
<1>7. RowsTell(reg'.tabs, h, b, reg'.next, NextConn)
  <2>1. RowsTell(reg.tabs, h, b, reg.next, NextConn)
    BY DEF Story, SnapsTell
  <2>2. ASSUME NEW i \in DOMAIN reg.tabs, reg.tabs[i].tab = t PROVE reg.tabs[i].root = h[k]
    <3>1. Names(t, reg.tabs[i].root, b, reg.next)
      BY <2>1, <2>2 DEF RowsTell
    <3>2. t # NoTab
      BY <1>3, <2>2, RowIs
    <3> QED
      BY <1>1, <3>1, <3>2 DEF Names
  <2> QED
    BY <1>1, <1>4, <2>1, <2>2 DEF RowsTell
<1>8. y.phase # "off" /\ y.id = conn[k].id /\ y.bind = conn[k].bind /\ y.snap = snapshot(reg')
  BY <1>1 DEF Session
<1> HIDE DEF y
<1> QED
  BY <1>1, <1>2, <1>5, <1>6, <1>7, <1>8, BindTells

-----------------------------------------------------------------------------
(* A new connection has a number, and with it a root, of its own.          *)
LEMMA ArriveTells ==
    ASSUME TabsInv, TabsInv', NEW h, NEW b, NEW S, Story(h, b, S), NEW bind \in Bindings,
           Arrive(bind), Names(bind.tab, bind.root, b, reg.next),
           count'.clients = count.clients + 1, count'.conns = count.conns + 1,
           UNCHANGED <<mounted, last>>, NEW g, g = [h EXCEPT ![NextConn] = bind.root],
           \A task \in tasks' : task \in tasks \/ TaskTells(task, g, b, reg.next, NextConn + 1),
           dialog' # 0 => dialog' < NextConn + 1 /\ g[dialog'] = count'.roots
    PROVE  StoryInv'
<1> PICK c, T : c = NextConn /\ T = S \union {snapshot(reg')}
  OBVIOUS
<1> DEFINE y == [Serving(c, NoTab) EXCEPT !.phase = "arrived", !.bind = bind]
<1>1. /\ reg \in Registry /\ reg' \in Registry /\ reg.next \in Nat /\ c \in Nat /\ c \in Conns
      /\ count.conns \in Nat /\ c = count.conns + 1 /\ count.clients = count.conns
      /\ h \in Homes /\ b \in Places
  BY NumbersAre, RestTells
  DEF TabsInv, ServerInv, RegistryInv, GoodRegistry, Arrive, NextConn, CountInv, Story
<1>2. /\ conn' = [conn EXCEPT ![c] = y]
      /\ Sweep(live \union {count.clients + 1})
  BY <1>1 DEF Arrive
<1>3. conn \in [Conns -> Connection] /\ lane \in [Conns -> Seq(T \union {Lost})] /\ NoSnapshot \in S
  BY LinesAre
<1>4. /\ Picks(reg'.tabs, reg.tabs) /\ reg'.next = reg.next /\ reg.revision <= reg'.revision
      /\ lane' \in [Conns -> Seq(T \union {Lost})]
  <2>1. snapshot(reg') \in T
    OBVIOUS
  <2> QED
    BY <1>2, <1>3, <2>1, SweepTells
<1>5. NextConn' = c + 1
  BY <1>1 DEF NextConn
<1>6. Grown(h, b, reg.next, NextConn, g, b, reg'.next, NextConn')
  <2>1. g \in Homes
    BY <1>1 DEF Homes, Bindings
  <2>2. Extends(h, g, c)
    BY <1>1 DEF Homes, Extends, Conns
  <2> QED
    BY <1>1, <1>4, <1>5, <2>1, <2>2 DEF Grown, Extends
<1>7. GoesOn(reg, reg')
  BY <1>1, <1>4, TrimsGoOn
<1>8. RowsTell(reg'.tabs, g, b, reg'.next, NextConn')
  <2>1. RowsTell(reg'.tabs, h, b, reg.next, NextConn)
    BY <1>4, RestTells
  <2>2. reg'.tabs \in Seq(Row)
    BY <1>1 DEF Registry
  <2> QED
    BY <1>6, <2>1, <2>2, RowsStay
<1>9. ConnTells(y, c, g, b, reg'.next, T)
  <2>1. y.id = c /\ y.bind = bind /\ y.snap = NoSnapshot
    BY DEF Serving
  <2>2. g[c] = bind.root
    BY <1>1 DEF Homes
  <2> HIDE DEF y
  <2> QED
    BY <1>3, <1>4, <2>1, <2>2 DEF ConnTells
<1>10. \A k \in Conns : IF k = c THEN conn'[k] = y ELSE conn'[k] = conn[k]
  BY <1>2, <1>3
<1> HIDE DEF y
<1>11. ASSUME NEW k \in Conns, ~(k < NextConn) PROVE ConnTells(conn'[k], k, g, b, reg'.next, T)
  BY <1>9, <1>10, <1>11, RestTells
<1>12. ASSUME NEW k \in Conns, k < NextConn PROVE Speaks(conn[k], conn'[k], T)
  <2>1. k # c
    BY <1>1, <1>12
  <2> QED
    BY <1>10, <2>1 DEF Speaks
<1>13. /\ count'.clients = count'.conns
       /\ dialog' # 0 => dialog' < NextConn' /\ g[dialog'] = count'.roots
       /\ \A task \in tasks' : task \in tasks \/ TaskTells(task, g, b, reg'.next, NextConn')
  BY <1>1, <1>4, <1>5
<1>14. Story(g, b, T)'
  BY <1>4, <1>6, <1>7, <1>8, <1>11, <1>12, <1>13, StoryGoesOn
<1> QED
  BY <1>14 DEF StoryInv

(* A reconnect task connects as what it reconnects.                        *)
LEMMA ConnectedTells ==
    ASSUME TabsInv, TabsInv', NEW h, NEW b, NEW S, Story(h, b, S), NEW task \in tasks,
           TryConnect(task) \/ FallBackToNew(task)
    PROVE  StoryInv'
<1>1. /\ task \in Task /\ TaskTells(task, h, b, reg.next, NextConn) /\ tasks \subseteq Task
      /\ dialog # 0 => dialog < NextConn /\ h[dialog] = count.roots
      /\ dialog \in Conns \union {0} /\ h \in Homes /\ b \in Places
  BY RestTells DEF TabsInv, DriverInv, Story, WindowTells
<1>2. PICK bind : /\ bind \in Bindings /\ bind.root = task.root /\ Connected(task, bind)
                  /\ Names(bind.tab, bind.root, b, reg.next)
  <2>1. PICK op \in {"new", "reclaim"}, t \in {task.tab, NoTab} :
            Connected(task, Binding(op, t, task.root))
    BY DEF TryConnect, FallBackToNew
  <2>2. Binding(op, t, task.root) \in Bindings
    BY <1>1, BindingIs DEF Task, TabOrNone
  <2>3. Binding(op, t, task.root).tab = t /\ Binding(op, t, task.root).root = task.root
    BY DEF Binding
  <2>4. Names(t, task.root, b, reg.next)
    BY <1>1 DEF TaskTells, Names
  <2> QED
    BY <2>1, <2>2, <2>3, <2>4
<1> PICK g : g = [h EXCEPT ![NextConn] = bind.root]
  OBVIOUS
<1> DEFINE new == [task EXCEPT !.link = NextConn]
<1>3. /\ Arrive(bind) /\ tasks' = (tasks \ {task}) \union {new}
      /\ UNCHANGED <<mounted, last, dialog>>
      /\ count' = [count EXCEPT !.conns = @ + 1, !.clients = @ + 1]
  BY <1>2 DEF Connected
<1>4. /\ count'.clients = count.clients + 1 /\ count'.conns = count.conns + 1
      /\ count'.roots = count.roots
  BY <1>3 DEF TabsInv, ServerInv, CountInv
<1>5. NextConn \in Nat /\ NextConn \in Conns /\ NextConn < NextConn + 1 /\ reg.next \in Nat
  BY <1>3, NumbersAre DEF Arrive
<1>6. ASSUME NEW k \in Conns, k < NextConn PROVE g[k] = h[k] /\ k < NextConn + 1
  <2>1. k # NextConn /\ k \in Nat
    BY <1>5, <1>6 DEF Conns
  <2> QED
    BY <1>1, <1>5, <1>6, <2>1 DEF Homes
<1>7. TaskTells(new, g, b, reg.next, NextConn + 1)
  <2>1. /\ new.for = task.for /\ new.root = task.root /\ new.tab = task.tab
        /\ new.link = NextConn /\ task.for \in Conns
    BY <1>1 DEF Task
  <2>2. g[NextConn] = bind.root
    BY <1>1, <1>5 DEF Homes
  <2> HIDE DEF new
  <2> QED
    BY <1>1, <1>2, <1>5, <1>6, <2>1, <2>2 DEF TaskTells
<1>8. dialog' # 0 => dialog' < NextConn + 1 /\ g[dialog'] = count'.roots
  BY <1>1, <1>3, <1>4, <1>6
<1> HIDE DEF new
<1> QED
  BY <1>2, <1>3, <1>4, <1>7, <1>8, ArriveTells

LEMMA OpenTabTells ==
    ASSUME TabsInv, TabsInv', NEW h, NEW b, NEW S, Story(h, b, S), OpenTab
    PROVE  StoryInv'
<1> PICK root : root = count.roots + 1
  OBVIOUS
<1>1. /\ Arrive(Binding("new", NoTab, root)) /\ dialog' = NextConn /\ UNCHANGED <<mounted, last, tasks>>
      /\ count' = [count EXCEPT !.conns = @ + 1, !.clients = @ + 1, !.roots = root]
      /\ count.roots < MaxRoots
  BY DEF OpenTab
<1>2. /\ count'.clients = count.clients + 1 /\ count'.conns = count.conns + 1
      /\ count'.roots = root
  BY <1>1 DEF TabsInv, ServerInv, CountInv
<1>3. root \in Roots
  BY <1>1, TabConstants DEF TabsInv, ServerInv, CountInv, Roots
<1> PICK bind : bind = Binding("new", NoTab, root)
  OBVIOUS
<1>4. bind \in Bindings /\ bind.root = root /\ Names(bind.tab, bind.root, b, reg.next)
  <2>1. bind \in Bindings
    BY <1>3, BindingIs DEF TabOrNone
  <2>2. bind.tab = NoTab /\ bind.root = root
    BY DEF Binding
  <2> QED
    BY <2>1, <2>2 DEF Names
<1> PICK g : g = [h EXCEPT ![NextConn] = bind.root]
  OBVIOUS
<1>5. dialog' < NextConn + 1 /\ g[dialog'] = count'.roots
  <2>1. NextConn \in Nat /\ NextConn \in Conns /\ NextConn < NextConn + 1
    BY <1>1, NumbersAre DEF Arrive
  <2>2. h \in Homes
    BY RestTells
  <2>3. g[NextConn] = bind.root
    BY <2>1, <2>2 DEF Homes
  <2>4. dialog' = NextConn /\ count'.roots = root
    BY <1>1, <1>2
  <2> QED
    BY <1>4, <2>1, <2>3, <2>4
<1>6. Arrive(bind) /\ UNCHANGED <<mounted, last>> /\ \A task \in tasks' : task \in tasks
  BY <1>1
<1> QED
  BY <1>2, <1>4, <1>5, <1>6, ArriveTells

-----------------------------------------------------------------------------
(* The steps of the window.                                                *)
LEMMA DriverTells ==
    ASSUME TabsInv, NEW h, NEW b, NEW S, Story(h, b, S), reg' = reg,
           count'.clients = count.clients, count'.conns = count.conns,
           lane' \in [Conns -> Seq(S \union {Lost})],
           \A k \in Conns : Speaks(conn[k], conn'[k], S), WindowTells(h, b, S)'
    PROVE  StoryInv'
<1>1. /\ reg.next \in Nat /\ NextConn \in Nat /\ h \in Homes /\ b \in Places
      /\ NextConn' = NextConn /\ count'.clients = count'.conns
  BY NumbersAre, RestTells DEF NextConn, Story
<1>2. Grown(h, b, reg.next, NextConn, h, b, reg.next, NextConn)
  BY <1>1 DEF Grown, Extends
<1>3. ASSUME NEW k \in Conns PROVE ConnTells(conn'[k], k, h, b, reg'.next, S)
  <2>1. ConnTells(conn[k], k, h, b, reg.next, S) /\ Speaks(conn[k], conn'[k], S) /\ S \subseteq S
    BY DEF Story, LinesTell
  <2>2. CASE k < NextConn
    <3>1. ConnTells(conn'[k], k, h, b, reg.next, S)
      BY <1>2, <2>1, <2>2, ConnTellsOn
    <3> QED
      BY <3>1
  <2>3. CASE ~(k < NextConn)
    BY <2>1, <2>3, RestTells DEF Speaks
  <2> QED
    BY <2>2, <2>3
<1>4. SnapsTell(S, reg', h, b, NextConn')
  BY <1>1 DEF Story
<1>5. Story(h, b, S)'
  BY <1>1, <1>3, <1>4 DEF Story, LinesTell
<1> QED
  BY <1>5 DEF StoryInv

(* A connection goes on, or the window drops it.                           *)
LEMMA CutSpeaks ==
    ASSUME TabsInv, NEW h, NEW b, NEW S, Story(h, b, S), NEW k \in Conns,
           conn'[k] = conn[k] \/ (Alive(k) /\ conn'[k] = [conn[k] EXCEPT !.cut = TRUE])
    PROVE  Speaks(conn[k], conn'[k], S)
<1>1. CASE conn'[k] = conn[k]
  BY <1>1 DEF Speaks
<1>2. CASE Alive(k) /\ conn'[k] = [conn[k] EXCEPT !.cut = TRUE]
  <2>1. conn[k] \in Session
    BY <1>2, ConnectionIs DEF Alive, TabsInv, ServerInv
  <2>2. conn[k].snap \in S
    BY <2>1 DEF Story, LinesTell, ConnTells
  <2>3. /\ conn'[k].id = conn[k].id /\ conn'[k].bind = conn[k].bind
        /\ conn'[k].snap = conn[k].snap /\ conn'[k].phase = conn[k].phase
    BY <1>2, <2>1 DEF Session
  <2>4. conn[k] # Off /\ conn'[k] # Off
    BY <1>2, <2>3 DEF Alive, Off
  <2> QED
    BY <2>1, <2>2, <2>3, <2>4 DEF Speaks
<1> QED
  BY <1>1, <1>2

(* What a bridge has for the window.                                       *)
LEMMA EventTells ==
    ASSUME TabsInv, NEW h, NEW b, NEW S, Story(h, b, S), NEW c \in Clients, HasEvent(c)
    PROVE  /\ lane \in [Conns -> Seq(S \union {Lost})] /\ mounted[c].link \in Conns
           /\ NextEvent(c) \in S \union {Lost}
           /\ Tail(lane[mounted[c].link]) \in Seq(S \union {Lost})
<1> PICK k, L : k = mounted[c].link /\ L = S \union {Lost}
  OBVIOUS
<1>1. k \in Conns
  BY DEF TabsInv, DriverInv, Tab
<1>2. lane \in [Conns -> Seq(L)] /\ lane[k] # <<>>
  BY DEF Story, LinesTell, HasEvent
<1>3. lane[k] \in Seq(L)
  BY <1>1, <1>2
<1>4. Head(lane[k]) \in L /\ Tail(lane[k]) \in Seq(L)
  BY <1>2, <1>3
<1> QED
  BY <1>1, <1>2, <1>4 DEF NextEvent

LEMMA TaskIsTold ==
    ASSUME NEW x, NEW y, NEW h, NEW b, NEW n, NEW m, TaskTells(x, h, b, n, m),
           y.for = x.for, y.tab = x.tab, y.root = x.root, y.link = x.link
    PROVE  TaskTells(y, h, b, n, m)
BY DEF TaskTells

(* What the window knows after a snapshot.                                 *)
LEMMA IdentifiedTells ==
    ASSUME TabsInv, NEW h, NEW b, NEW S, Story(h, b, S), NEW snap \in S, NEW d \in Clients,
           Accepts(snap), d \notin Vanished(snap)
    PROVE  /\ MountTells(Identified(snap)[d], d, h, b, reg.next, NextConn)
           /\ \A s \in S : Keeps(s, snap.revision, Identified(snap)[d].tab, reg)
<1> PICK x, y : x = mounted[d] /\ y = Identified(snap)[d]
  OBVIOUS
<1> PICK mine : mine = tab_for_client(snap, d)
  OBVIOUS
<1>1. /\ x \in Tab /\ MountTells(x, d, h, b, reg.next, NextConn) /\ d \in Conns
      /\ snap.tabs \in Seq(Row) /\ RowsTell(snap.tabs, h, b, reg.next, NextConn)
      /\ \A s \in S : InOrder(snap, s, reg)
  BY DEF TabsInv, DriverInv, Story, WindowTells, SnapsTell, Snapshot
<1>2. /\ y.root = x.root
      /\ y.tab = IF snap.tabs = <<>> THEN NoTab ELSE IF mine # NoTab THEN mine ELSE x.tab
  BY <1>1 DEF Identified, Tab
<1>3. y.tab = NoTab \/ y.tab \in TabIds(snap.tabs)
  <2>1. snap.tabs # <<>> => y.tab \in {NoTab} \union TabIds(snap.tabs)
    BY DEF Vanished
  <2> QED
    BY <1>2, <2>1
<1>4. mine = NoTab \/ Names(mine, x.root, b, reg.next)
  <2>1. ASSUME NEW i \in 1..Len(snap.tabs), snap.tabs[i].client = d, mine = snap.tabs[i].tab
        PROVE  Names(mine, x.root, b, reg.next)
    BY <1>1, <2>1 DEF RowsTell, MountTells
  <2> QED
    BY <1>1, <2>1, ClientTabIs
<1>5. MountTells(y, d, h, b, reg.next, NextConn)
  <2>1. Names(y.tab, y.root, b, reg.next)
    BY <1>1, <1>2, <1>4 DEF MountTells, Names
  <2> QED
    BY <1>1, <1>2, <2>1 DEF MountTells
<1>6. ASSUME NEW s \in S PROVE Keeps(s, snap.revision, y.tab, reg)
  <2>1. snap.revision \in Nat /\ s.revision \in Nat /\ InOrder(snap, s, reg)
    BY <1>1 DEF Story, SnapsTell, Snapshot
  <2> QED
    BY <1>3, <2>1 DEF Keeps, InOrder
<1> QED
  BY <1>5, <1>6

LEMMA ApplySnapshotTells ==
    ASSUME TabsInv, NEW h, NEW b, NEW S, Story(h, b, S), NEW c \in Clients, ApplySnapshot(c)
    PROVE  StoryInv'
<1> PICK snap, gone, k : snap = NextEvent(c) /\ gone = Vanished(snap) /\ k = mounted[c].link
  OBVIOUS
<1>1. /\ HasEvent(c) /\ snap # Lost /\ Accepts(snap) /\ UNCHANGED <<reg, dialog, count>>
      /\ mounted' = [d \in Clients \ gone |-> Identified(snap)[d]] /\ last' = snap.revision
      /\ tasks' = {IF task.for \in gone /\ task.keyed
                   THEN [task EXCEPT !.keyed = FALSE, !.cancelled = TRUE]
                   ELSE task : task \in tasks}
      /\ conn' = [j \in Conns |-> IF Alive(j) /\ \E d \in gone : mounted[d].link = j
                                  THEN [conn[j] EXCEPT !.cut = TRUE] ELSE conn[j]]
      /\ lane' = [j \in Conns |-> IF \E d \in gone : mounted[d].link = j THEN <<>>
                                  ELSE IF j = k THEN Tail(lane[j]) ELSE lane[j]]
  BY DEF ApplySnapshot, server
<1>2. /\ snap \in S /\ lane \in [Conns -> Seq(S \union {Lost})] /\ k \in Conns
      /\ Tail(lane[k]) \in Seq(S \union {Lost})
  BY <1>1, EventTells
<1>3. lane' \in [Conns -> Seq(S \union {Lost})]
  <2> PICK L : L = S \union {Lost}
    OBVIOUS
  <2>1. <<>> \in Seq(L) /\ Tail(lane[k]) \in Seq(L) /\ lane \in [Conns -> Seq(L)]
    BY <1>2
  <2>2. lane' \in [Conns -> Seq(L)]
    BY <1>1, <2>1
  <2> QED
    BY <2>2
<1>4. \A j \in Conns : Speaks(conn[j], conn'[j], S)
  BY <1>1, CutSpeaks
<1>5. WindowTells(h, b, S) /\ tasks \subseteq Task /\ snap.revision \in Nat
  BY <1>2 DEF Story, TabsInv, DriverInv, SnapsTell, Snapshot
<1>6. /\ \A d \in Clients' : MountTells(mounted'[d], d, h, b, reg.next, NextConn)
      /\ \A s \in S : \A d \in Clients' : Keeps(s, snap.revision, mounted'[d].tab, reg)
  <2>1. \A d \in Clients' : d \in Clients \ gone /\ mounted'[d] = Identified(snap)[d]
    BY <1>1 DEF Clients
  <2> QED
    BY <1>1, <1>2, <2>1, IdentifiedTells
<1>7. \A x \in tasks' : TaskTells(x, h, b, reg.next, NextConn)
  <2>1. ASSUME NEW task \in tasks
        PROVE  TaskTells([task EXCEPT !.keyed = FALSE, !.cancelled = TRUE], h, b, reg.next, NextConn)
    <3> DEFINE y == [task EXCEPT !.keyed = FALSE, !.cancelled = TRUE]
    <3>1. TaskTells(task, h, b, reg.next, NextConn) /\ task \in Task
      BY <1>5 DEF WindowTells
    <3>2. y.for = task.for /\ y.tab = task.tab /\ y.root = task.root /\ y.link = task.link
      BY <3>1 DEF Task
    <3> HIDE DEF y
    <3>3. TaskTells(y, h, b, reg.next, NextConn)
      BY <3>1, <3>2, TaskIsTold
    <3> QED
      BY <3>3 DEF y
  <2>2. \A task \in tasks : TaskTells(task, h, b, reg.next, NextConn)
    BY <1>5 DEF WindowTells
  <2> QED
    BY <1>1, <2>1, <2>2
<1>8. WindowTells(h, b, S)'
  <2>1. NextConn' = NextConn
    BY <1>1 DEF NextConn
  <2> QED
    BY <1>1, <1>5, <1>6, <1>7, <2>1 DEF WindowTells
<1> QED
  BY <1>1, <1>3, <1>4, <1>8, DriverTells

(* Steps that neither the tabs of the window nor its tasks see.            *)
LEMMA UnseenTells ==
    ASSUME TabsInv, TabsInv', NEW h, NEW b, NEW S, Story(h, b, S), UNCHANGED <<reg, conn>>,
           lane' \in [Conns -> Seq(S \union {Lost})], UNCHANGED <<mounted, last, tasks, dialog>>,
           count'.clients = count.clients, count'.conns = count.conns, count'.roots = count.roots
    PROVE  StoryInv'
<1> PICK T : T = S \union {snapshot(reg)}
  OBVIOUS
<1>1. lane' \in [Conns -> Seq(T \union {Lost})]
  <2>1. S \union {Lost} \subseteq T \union {Lost}
    OBVIOUS
  <2> QED
    BY <2>1, LanesWiden
<1>2. \A k \in Conns : Speaks(conn[k], conn'[k], T)
  BY DEF Speaks
<1> QED
  BY <1>1, <1>2, QuietTells

LEMMA IgnoreSnapshotTells ==
    ASSUME TabsInv, TabsInv', NEW h, NEW b, NEW S, Story(h, b, S), NEW c \in Clients,
           IgnoreSnapshot(c)
    PROVE  StoryInv'
<1>1. HasEvent(c) /\ Taken(c) /\ UNCHANGED <<reg, conn, mounted, last, tasks, dialog, count>>
  BY DEF IgnoreSnapshot, server, window
<1>2. lane' \in [Conns -> Seq(S \union {Lost})]
  <2> PICK L, k : L = S \union {Lost} /\ k = mounted[c].link
    OBVIOUS
  <2>1. lane \in [Conns -> Seq(L)] /\ Tail(lane[k]) \in Seq(L) /\ lane' = [lane EXCEPT ![k] = Tail(@)]
    BY <1>1, EventTells DEF Taken
  <2>2. lane' \in [Conns -> Seq(L)]
    BY <2>1
  <2> QED
    BY <2>2
<1> QED
  BY <1>1, <1>2, UnseenTells

LEMMA ExpireTells ==
    ASSUME TabsInv, TabsInv', NEW h, NEW b, NEW S, Story(h, b, S), NEW t, Expire(t)
    PROVE  StoryInv'
<1>1. /\ UNCHANGED <<reg, conn, lane, mounted, last, tasks, dialog>>
      /\ count' = [count EXCEPT !.expiries = @ + 1]
  BY DEF Expire, window
<1>2. count'.clients = count.clients /\ count'.conns = count.conns /\ count'.roots = count.roots
  BY <1>1 DEF TabsInv, ServerInv, CountInv
<1>3. lane' \in [Conns -> Seq(S \union {Lost})]
  BY <1>1 DEF Story, LinesTell
<1> QED
  BY <1>1, <1>2, <1>3, UnseenTells

LEMMA CommandTells ==
    ASSUME TabsInv, TabsInv', NEW h, NEW b, NEW S, Story(h, b, S), NEW c, NEW op, NEW position,
           Command(c, op, position)
    PROVE  StoryInv'
<1>1. /\ UNCHANGED <<reg, conn, lane, mounted, last, tasks, dialog>>
      /\ count' = [count EXCEPT !.commands = @ + 1]
  BY DEF Command, server
<1>2. count'.clients = count.clients /\ count'.conns = count.conns /\ count'.roots = count.roots
  BY <1>1 DEF TabsInv, ServerInv, CountInv
<1>3. lane' \in [Conns -> Seq(S \union {Lost})]
  BY <1>1 DEF Story, LinesTell
<1> QED
  BY <1>1, <1>2, <1>3, UnseenTells

(* Steps that change the tasks, or the tab being opened, only.             *)
LEMMA TasksTell ==
    ASSUME TabsInv, NEW h, NEW b, NEW S, Story(h, b, S), UNCHANGED <<reg, mounted, last, count>>,
           lane' \in [Conns -> Seq(S \union {Lost})],
           \A k \in Conns : Speaks(conn[k], conn'[k], S), dialog' \in {0, dialog},
           \A x \in tasks' : x \in tasks \/ TaskTells(x, h, b, reg.next, NextConn)
    PROVE  StoryInv'
<1>1. NextConn' = NextConn /\ Clients' = Clients
  BY DEF NextConn, Clients
<1>2. WindowTells(h, b, S)
  BY DEF Story
<1>3. WindowTells(h, b, S)'
  BY <1>1, <1>2 DEF WindowTells
<1> QED
  BY <1>3, DriverTells

LEMMA DisconnectedTells ==
    ASSUME TabsInv, NEW h, NEW b, NEW S, Story(h, b, S), NEW c \in Clients, Disconnected(c)
    PROVE  StoryInv'
<1> DEFINE new == [for |-> c, tab |-> mounted[c].tab, root |-> mounted[c].root,
                   link |-> 0, keyed |-> TRUE, cancelled |-> FALSE]
<1>1. /\ HasEvent(c) /\ Taken(c) /\ UNCHANGED <<reg, conn, mounted, last, dialog, count>>
      /\ tasks' \subseteq tasks \union {new}
  BY DEF Disconnected, server
<1>2. lane' \in [Conns -> Seq(S \union {Lost})]
  <2> PICK L, k : L = S \union {Lost} /\ k = mounted[c].link
    OBVIOUS
  <2>1. lane \in [Conns -> Seq(L)] /\ Tail(lane[k]) \in Seq(L) /\ lane' = [lane EXCEPT ![k] = Tail(@)]
    BY <1>1, EventTells DEF Taken
  <2>2. lane' \in [Conns -> Seq(L)]
    BY <2>1
  <2> QED
    BY <2>2
<1>3. TaskTells(new, h, b, reg.next, NextConn)
  <2>1. MountTells(mounted[c], c, h, b, reg.next, NextConn)
    BY DEF Story, WindowTells
  <2>2. /\ new.for = c /\ new.tab = mounted[c].tab /\ new.root = mounted[c].root /\ new.link = 0
    OBVIOUS
  <2> HIDE DEF new
  <2> QED
    BY <2>1, <2>2 DEF MountTells, TaskTells
<1>4. \A k \in Conns : Speaks(conn[k], conn'[k], S)
  BY <1>1 DEF Speaks
<1> HIDE DEF new
<1> QED
  BY <1>1, <1>2, <1>3, <1>4, TasksTell

LEMMA RetryTells ==
    ASSUME TabsInv, NEW h, NEW b, NEW S, Story(h, b, S), NEW task \in tasks,
           Retry(task) \/ Cancelled(task)
    PROVE  StoryInv'
<1> DEFINE new == [task EXCEPT !.link = 0]
<1>1. /\ UNCHANGED <<reg, conn, lane, mounted, last, dialog, count>>
      /\ tasks' \subseteq tasks \union {new}
  BY DEF Retry, Cancelled, server
<1>2. TaskTells(new, h, b, reg.next, NextConn)
  <2>1. TaskTells(task, h, b, reg.next, NextConn) /\ task \in Task
    BY DEF Story, WindowTells, TabsInv, DriverInv
  <2>2. new.for = task.for /\ new.tab = task.tab /\ new.root = task.root /\ new.link = 0
    BY <2>1 DEF Task
  <2> HIDE DEF new
  <2> QED
    BY <2>1, <2>2 DEF TaskTells
<1>3. lane' \in [Conns -> Seq(S \union {Lost})] /\ \A k \in Conns : Speaks(conn[k], conn'[k], S)
  BY <1>1 DEF Story, LinesTell, Speaks
<1> HIDE DEF new
<1> QED
  BY <1>1, <1>2, <1>3, TasksTell

LEMMA OpenFailedTells ==
    ASSUME TabsInv, NEW h, NEW b, NEW S, Story(h, b, S), OpenFailed
    PROVE  StoryInv'
<1>1. UNCHANGED <<reg, conn, lane, mounted, last, tasks, count>> /\ dialog' = 0
  BY DEF OpenFailed, server
<1>2. lane' \in [Conns -> Seq(S \union {Lost})] /\ \A k \in Conns : Speaks(conn[k], conn'[k], S)
  BY <1>1 DEF Story, LinesTell, Speaks
<1> QED
  BY <1>1, <1>2, TasksTell

(* The tasks that are left.                                                *)
LEMMA DoneTells ==
    ASSUME TabsInv, NEW h, NEW b, NEW S, Story(h, b, S), NEW task \in tasks, NEW x \in Done(task)
    PROVE  TaskTells(x, h, b, reg.next, NextConn)
<1>1. PICK other \in tasks : x = [other EXCEPT !.keyed = @ /\ other.for # task.for]
  BY DEF Done
<1>2. TaskTells(other, h, b, reg.next, NextConn) /\ other \in Task
  BY DEF Story, WindowTells, TabsInv, DriverInv
<1>3. x.for = other.for /\ x.tab = other.tab /\ x.root = other.root /\ x.link = other.link
  BY <1>1, <1>2 DEF Task
<1> QED
  BY <1>2, <1>3, TaskIsTold

LEMMA DropSessionTells ==
    ASSUME TabsInv, NEW h, NEW b, NEW S, Story(h, b, S), NEW task \in tasks, DropSession(task)
    PROVE  StoryInv'
<1> PICK k : k = task.link
  OBVIOUS
<1>1. /\ k # 0 /\ tasks' = Done(task) /\ UNCHANGED <<reg, mounted, last, dialog, count>>
      /\ conn' = [conn EXCEPT ![k] = IF Alive(k) THEN [@ EXCEPT !.cut = TRUE] ELSE @]
      /\ lane' = [lane EXCEPT ![k] = <<>>]
  BY DEF DropSession, server
<1>2. conn \in [Conns -> Connection] /\ lane \in [Conns -> Seq(S \union {Lost})]
  BY DEF TabsInv, ServerInv, Story, LinesTell
<1>3. lane' \in [Conns -> Seq(S \union {Lost})]
  <2> PICK L : L = S \union {Lost}
    OBVIOUS
  <2>1. <<>> \in Seq(L) /\ lane \in [Conns -> Seq(L)]
    BY <1>2
  <2>2. lane' \in [Conns -> Seq(L)]
    BY <1>1, <2>1
  <2> QED
    BY <2>2
<1>4. \A j \in Conns : Speaks(conn[j], conn'[j], S)
  BY <1>1, <1>2, CutSpeaks
<1>5. \A x \in tasks' : TaskTells(x, h, b, reg.next, NextConn)
  BY <1>1, DoneTells
<1> QED
  BY <1>1, <1>3, <1>4, <1>5, TasksTell

(* The session of a task, and that of the tab being opened.                *)
LEMMA SessionTells ==
    ASSUME TabsInv, NEW h, NEW b, NEW S, Story(h, b, S), NEW k \in Conns, reply[k] = "session"
    PROVE  conn[k].id = k /\ k < NextConn
<1>1. conn[k] # Off
  BY DEF TabsInv, MessagesInv
<1>2. ConnTells(conn[k], k, h, b, reg.next, S)
  BY DEF Story, LinesTell
<1> QED
  BY <1>1, <1>2, RestTells DEF ConnTells

(* The tab goes on under the number of its new connection.                 *)
LEMMA RekeyTells ==
    ASSUME TabsInv, NEW h, NEW b, NEW S, Story(h, b, S), NEW task \in tasks, Rekey(task)
    PROVE  StoryInv'
<1> PICK c, n : c = task.for /\ n = task.link
  OBVIOUS
<1>1. /\ task \in Task /\ mounted \in [Clients -> Tab] /\ c \in Clients
      /\ TaskTells(task, h, b, reg.next, NextConn) /\ WindowTells(h, b, S)
  BY DEF TabsInv, DriverInv, Story, WindowTells, Rekey
<1>2. n \in Conns /\ reply[n] = "session" /\ n # 0
  BY <1>1 DEF Rekey, Task
<1>3. conn[n].id = n /\ n < NextConn
  BY <1>2, SessionTells
<1> DEFINE x == [mounted[c] EXCEPT !.link = n]
<1>4. /\ mounted' = [d \in (Clients \ {c}) \union {n} |-> IF d = n THEN x ELSE mounted[d]]
      /\ tasks' = Done(task) /\ UNCHANGED <<reg, conn, lane, last, dialog, count>>
  BY <1>3 DEF Rekey, server
<1>5. x.tab = mounted[c].tab /\ x.root = mounted[c].root
  BY <1>1 DEF Tab
<1> HIDE DEF x
<1>6. /\ MountTells(x, n, h, b, reg.next, NextConn)
      /\ \A s \in S : Keeps(s, last, x.tab, reg)
  <2>1. /\ MountTells(mounted[c], c, h, b, reg.next, NextConn)
        /\ \A s \in S : Keeps(s, last, mounted[c].tab, reg)
    BY <1>1 DEF WindowTells
  <2>2. mounted[c].root = h[n]
    BY <1>1, <1>2, <2>1 DEF TaskTells, MountTells
  <2> QED
    BY <1>3, <1>5, <2>1, <2>2 DEF MountTells
<1>7. \A d \in Clients' : \/ mounted'[d] = x /\ d = n
                          \/ d \in Clients /\ mounted'[d] = mounted[d]
  BY <1>4 DEF Clients
<1>8. \A y \in tasks' : TaskTells(y, h, b, reg.next, NextConn)
  BY <1>4, DoneTells
<1>9. WindowTells(h, b, S)'
  <2>1. NextConn' = NextConn
    BY <1>4 DEF NextConn
  <2>2. \A d \in Clients' : MountTells(mounted'[d], d, h, b, reg.next, NextConn)
    BY <1>1, <1>6, <1>7 DEF WindowTells
  <2>3. \A s \in S : \A d \in Clients' : Keeps(s, last, mounted'[d].tab, reg)
    BY <1>1, <1>6, <1>7 DEF WindowTells
  <2> QED
    BY <1>1, <1>4, <1>8, <2>1, <2>2, <2>3 DEF WindowTells
<1>10. lane' \in [Conns -> Seq(S \union {Lost})] /\ \A k \in Conns : Speaks(conn[k], conn'[k], S)
  BY <1>4 DEF Story, LinesTell, Speaks
<1> QED
  BY <1>4, <1>9, <1>10, DriverTells

LEMMA MountTabTells ==
    ASSUME TabsInv, NEW h, NEW b, NEW S, Story(h, b, S), MountTab
    PROVE  StoryInv'
<1> PICK n : n = dialog
  OBVIOUS
<1>1. n \in Conns /\ reply[n] = "session" /\ n # 0 /\ WindowTells(h, b, S) /\ h[n] = count.roots
  BY DEF MountTab, TabsInv, DriverInv, Story, WindowTells
<1>2. conn[n].id = n /\ n < NextConn
  BY <1>1, SessionTells
<1>3. dialog' = 0 /\ UNCHANGED <<reg, lane, last, tasks, count>>
  BY DEF MountTab, server
<1>4. lane' \in [Conns -> Seq(S \union {Lost})]
  BY <1>3 DEF Story, LinesTell
<1>5. CASE n \in Clients
  <2>1. /\ conn' = [conn EXCEPT ![n] = IF Alive(n) THEN [@ EXCEPT !.cut = TRUE] ELSE @]
        /\ mounted' = mounted
    BY <1>2, <1>5 DEF MountTab
  <2>2. conn \in [Conns -> Connection]
    BY DEF TabsInv, ServerInv
  <2>3. \A k \in Conns : Speaks(conn[k], conn'[k], S)
    BY <2>1, <2>2, CutSpeaks
  <2> QED
    BY <1>3, <1>4, <2>1, <2>3, TasksTell
<1>6. CASE n \notin Clients
  <2> DEFINE x == [tab |-> NoTab, root |-> count.roots, link |-> n]
  <2>1. /\ mounted' = [d \in Clients \union {n} |-> IF d = n THEN x ELSE mounted[d]]
        /\ conn' = conn
    BY <1>2, <1>6 DEF MountTab
  <2>2. x.tab = NoTab /\ x.root = count.roots
    OBVIOUS
  <2> HIDE DEF x
  <2>3. /\ MountTells(x, n, h, b, reg.next, NextConn)
        /\ \A s \in S : Keeps(s, last, x.tab, reg)
    BY <1>1, <1>2, <2>2 DEF MountTells, Keeps, Names
  <2>4. \A d \in Clients' : \/ mounted'[d] = x /\ d = n
                            \/ d \in Clients /\ mounted'[d] = mounted[d]
    BY <2>1 DEF Clients
  <2>5. WindowTells(h, b, S)'
    <3>1. NextConn' = NextConn
      BY <1>3 DEF NextConn
    <3>2. \A d \in Clients' : MountTells(mounted'[d], d, h, b, reg.next, NextConn)
      BY <1>1, <2>3, <2>4 DEF WindowTells
    <3>3. \A s \in S : \A d \in Clients' : Keeps(s, last, mounted'[d].tab, reg)
      BY <1>1, <2>3, <2>4 DEF WindowTells
    <3> QED
      BY <1>1, <1>3, <3>1, <3>2, <3>3 DEF WindowTells
  <2>6. \A k \in Conns : Speaks(conn[k], conn'[k], S)
    BY <2>1 DEF Speaks
  <2> QED
    BY <1>3, <1>4, <2>5, <2>6, DriverTells
<1> QED
  BY <1>5, <1>6

-----------------------------------------------------------------------------
(* The window at the start: a root for each of its tabs.                   *)
LEMMA InitTells == ASSUME Init PROVE StoryInv
<1> PICK N : N = InitialTabs
  OBVIOUS
<1> DEFINE own == [i \in 1..MaxConns |-> IF i <= N THEN i ELSE 1]
<1> PICK h, S : h = own /\ S = {NoSnapshot}
  OBVIOUS
<1>1. /\ N \in {1, 2} /\ MaxRoots \in Nat /\ MaxConns \in Nat /\ N \in Nat
      /\ MaxRoots >= N /\ MaxConns >= N
  BY TabConstants
<1>2. h \in Homes /\ h \in Places /\ \A i \in 1..N : i \in Conns /\ i \in TabIdSet /\ h[i] = i
  BY <1>1 DEF Homes, Places, Conns, TabIdSet, Roots
<1> HIDE DEF own
<1>3. /\ count.conns = N /\ count.clients = N /\ NextConn = N + 1 /\ reg.next = N + 1
      /\ reg \in Registry /\ reg.revision \in Nat /\ reg.tabs \in Seq(Row)
      /\ TabIds(reg.tabs) = 1..N
      /\ \A i \in DOMAIN reg.tabs : /\ reg.tabs[i].tab = reg.tabs[i].client
                                    /\ reg.tabs[i].root = reg.tabs[i].client
  <2>1. reg = InitialRegistry /\ count.conns = N /\ count.clients = N
    BY DEF Init
  <2> QED
    BY <2>1, InitialRegistryIs DEF NextConn, GoodRegistry, Registry
<1>4. RowsTell(reg.tabs, h, h, reg.next, NextConn)
  <2> SUFFICES ASSUME NEW i \in DOMAIN reg.tabs
               PROVE  /\ Names(reg.tabs[i].tab, reg.tabs[i].root, h, reg.next)
                      /\ reg.tabs[i].client < NextConn
                      /\ reg.tabs[i].root = h[reg.tabs[i].client]
    BY DEF RowsTell
  <2> PICK t : t = reg.tabs[i].tab
    OBVIOUS
  <2>1. t \in 1..N /\ reg.tabs[i].root = t /\ reg.tabs[i].client = t
    BY <1>3 DEF TabIds
  <2>2. t < N + 1
    BY <1>1, <2>1
  <2> QED
    BY <1>2, <1>3, <2>1, <2>2 DEF Names
<1>5. SnapsTell(S, reg, h, h, NextConn)
  <2>1. NoSnapshot.tabs = <<>> /\ NoSnapshot.revision = 0
    BY DEF NoSnapshot, snapshot, NewRegistry
  <2>2. RowsTell(<<>>, h, h, reg.next, NextConn)
    BY DEF RowsTell
  <2>3. InOrder(NoSnapshot, NoSnapshot, reg)
    BY <2>1 DEF InOrder
  <2>4. 0 <= reg.revision
    BY <1>3
  <2> QED
    BY <1>4, <2>1, <2>2, <2>3, <2>4, NoSnapshotIs DEF SnapsTell
<1>6. LinesTell(h, h, S)
  <2>1. lane \in [Conns -> Seq(S \union {Lost})]
    BY DEF Init
  <2>2. ASSUME NEW k \in Conns PROVE ConnTells(conn[k], k, h, h, reg.next, S)
    <3>1. CASE k <= N
      <4> PICK x : x = Serving(k, k)
        OBVIOUS
      <4>1. x.id = k /\ x.bind.root = k /\ x.bind.tab = NoTab /\ x.snap = NoSnapshot
        BY DEF Serving, Binding
      <4>2. conn[k] = x
        BY <3>1 DEF Init
      <4>3. h[k] = k
        BY <1>1, <1>2, <3>1 DEF Conns
      <4> QED
        BY <4>1, <4>2, <4>3 DEF ConnTells, Names
    <3>2. CASE ~(k <= N)
      <4>1. conn[k] = Off /\ Off \notin Session
        BY <3>2 DEF Init, Off, Session, Phases, Handling
      <4> QED
        BY <4>1 DEF ConnTells
    <3> QED
      BY <3>1, <3>2
  <2> QED
    BY <2>1, <2>2 DEF LinesTell
<1>7. WindowTells(h, h, S)
  <2>1. mounted = [c \in 1..N |-> [tab |-> c, root |-> c, link |-> c]]
    BY DEF Init
  <2>2. ASSUME NEW c \in 1..N
        PROVE  /\ MountTells(mounted[c], c, h, h, reg.next, NextConn)
               /\ Keeps(NoSnapshot, last, mounted[c].tab, reg)
    <3>1. mounted[c].tab = c /\ mounted[c].root = c
      BY <2>1
    <3>2. c < N + 1
      BY <1>1
    <3>3. NoSnapshot.revision = 0 /\ last = reg.revision
      BY DEF NoSnapshot, snapshot, NewRegistry, Init
    <3>4. ~(0 > last)
      BY <1>3, <3>3
    <3> QED
      BY <1>2, <1>3, <3>1, <3>2, <3>3, <3>4 DEF MountTells, Names, Keeps
  <2>3. tasks = {} /\ dialog = 0 /\ last = reg.revision /\ Clients = 1..N
    BY <2>1 DEF Init, Clients
  <2> QED
    BY <1>3, <2>2, <2>3 DEF WindowTells
<1> QED
  BY <1>2, <1>3, <1>5, <1>6, <1>7 DEF StoryInv, Story

(* Only a restart counts as one.                                           *)
LEMMA OthersCountNone ==
    ASSUME TabsInv, [Next]_vars, ~Restart
    PROVE  count'.restarts = count.restarts
<1>1. DOMAIN count = {"conns", "roots", "clients", "commands", "losses", "restarts", "expiries"}
  BY DEF TabsInv, ServerInv, CountInv
<1>2. \/ count' = count
      \/ \E n : count' = [count EXCEPT !.losses = n] \/ count' = [count EXCEPT !.expiries = n]
                \/ count' = [count EXCEPT !.commands = n]
      \/ \E n, m : count' = [count EXCEPT !.conns = n, !.clients = m]
      \/ count' = [count EXCEPT !.conns = @ + 1, !.clients = @ + 1, !.roots = @ + 1]
  <2>1. ASSUME NEW k \in Conns, ServerStep(k) \/ UseDocument(k)
        PROVE  count' = count
    BY <2>1 DEF ServerStep, UseDocument, Handshake, BindNew, LookUp, EnsureState, Reclaim,
                RefuseReclaim, Announce, Perform, FinishClose, Notice, CleanUp, Depart
  <2>2. ASSUME NEW k \in Conns, Lose(k) PROVE \E n : count' = [count EXCEPT !.losses = n]
    BY <2>2 DEF Lose
  <2>3. ASSUME NEW c \in Clients, DriverStep(c) PROVE count' = count
    BY <2>3 DEF DriverStep, ApplySnapshot, IgnoreSnapshot, Disconnected
  <2>4. ASSUME NEW task \in tasks, TaskStep(task)
        PROVE  count' = count \/ \E n, m : count' = [count EXCEPT !.conns = n, !.clients = m]
    BY <2>4 DEF TaskStep, TryConnect, FallBackToNew, Connected, Retry, Cancelled, Rekey, DropSession
  <2>5. ASSUME NEW t, Expire(t) PROVE \E n : count' = [count EXCEPT !.expiries = n]
    BY <2>5 DEF Expire
  <2>6. CASE OpenTab
    BY <2>6 DEF OpenTab
  <2>7. CASE MountTab \/ OpenFailed
    BY <2>7 DEF MountTab, OpenFailed
  <2>8. ASSUME NEW c, NEW op, NEW position, Command(c, op, position)
        PROVE  \E n : count' = [count EXCEPT !.commands = n]
    BY <2>8 DEF Command
  <2>9. CASE MoveTab \/ \E c \in Clients : ActivateTab(c) \/ CloseTab(c)
    <3>1. \E c, op, position : Command(c, op, position)
      BY <2>9 DEF MoveTab, ActivateTab, CloseTab
    <3> QED
      BY <2>8, <3>1
  <2>10. CASE UNCHANGED vars
    BY <2>10 DEF vars
  <2> QED
    BY <2>1, <2>2, <2>3, <2>4, <2>5, <2>6, <2>7, <2>9, <2>10 DEF Next, UserStep
<1> QED
  BY <1>1, <1>2

LEMMA RestartsCount ==
    ASSUME TabsInv, [Next]_vars, count'.restarts = 0
    PROVE  count.restarts = 0 /\ ~Restart
<1>1. /\ count.restarts \in Nat
      /\ DOMAIN count = {"conns", "roots", "clients", "commands", "losses", "restarts", "expiries"}
  BY DEF TabsInv, ServerInv, CountInv
<1>2. Restart => count'.restarts = count.restarts + 1
  BY <1>1 DEF Restart
<1> QED
  BY <1>1, <1>2, OthersCountNone

LEMMA StoryStep == ASSUME TabsInv, TabsInv', StoryInv, [Next]_vars PROVE StoryInv'
<1> SUFFICES ASSUME count'.restarts = 0 PROVE StoryInv'
  BY DEF StoryInv
<1>1. PICK h, b, S : Story(h, b, S)
  BY RestartsCount DEF StoryInv
<1>2. CASE UNCHANGED vars
  <2>1. lane' \in [Conns -> Seq(S \union {Lost})]
    BY <1>1, <1>2 DEF Story, LinesTell, vars
  <2> QED
    BY <1>1, <1>2, <2>1, UnseenTells DEF vars, server, window
<1>3. ASSUME NEW k \in Conns, ServerStep(k) \/ UseDocument(k) \/ Lose(k) PROVE StoryInv'
  <2>1. CASE LookUp(k) \/ EnsureState(k) \/ Notice(k) \/ CleanUp(k) \/ UseDocument(k)
    BY <1>1, <2>1, SilentTells
  <2>2. CASE Handshake(k) \/ RefuseReclaim(k) \/ Announce(k) \/ FinishClose(k) \/ Lose(k)
    BY <1>1, <2>2, SpokenTells
  <2>3. CASE BindNew(k) \/ Reclaim(k) \/ Perform(k) \/ Depart(k)
    BY <1>1, <2>3, BindNewTells, ReclaimTells, PerformTells, DepartTells
  <2> QED
    BY <1>3, <2>1, <2>2, <2>3 DEF ServerStep
<1>4. ASSUME NEW c \in Clients, DriverStep(c) PROVE StoryInv'
  BY <1>1, <1>4, ApplySnapshotTells, IgnoreSnapshotTells, DisconnectedTells DEF DriverStep
<1>5. ASSUME NEW task \in tasks, TaskStep(task) PROVE StoryInv'
  BY <1>1, <1>5, ConnectedTells, RetryTells, RekeyTells, DropSessionTells DEF TaskStep
<1>6. ASSUME NEW t \in TabIds(reg.tabs), Expire(t) PROVE StoryInv'
  BY <1>1, <1>6, ExpireTells
<1>7. CASE UserStep
  <2>1. CASE OpenTab \/ MountTab \/ OpenFailed
    BY <1>1, <2>1, OpenTabTells, MountTabTells, OpenFailedTells
  <2>2. CASE MoveTab \/ \E c \in Clients : ActivateTab(c) \/ CloseTab(c)
    <3>1. \E c, op, position : Command(c, op, position)
      BY <2>2 DEF MoveTab, ActivateTab, CloseTab
    <3> QED
      BY <1>1, <3>1, CommandTells
  <2> QED
    BY <1>7, <2>1, <2>2 DEF UserStep
<1> QED
  BY RestartsCount, <1>2, <1>3, <1>4, <1>5, <1>6, <1>7 DEF Next

(* StoryInv holds in every reachable state.                                *)
LEMMA StoryInvariant == Spec => []StoryInv
<1>1. Init => StoryInv
  BY InitTells
<1>2. TabsInv /\ TabsInv' /\ StoryInv /\ [Next]_vars => StoryInv'
  BY StoryStep
<1> QED
  BY <1>1, <1>2, TabsInvariant, PTL DEF Spec

(* Until the server restarts, the registry entry that a tab of the window  *)
(* is bound to is one of the tab's own workspace root, whatever reclaims,  *)
(* rebuilds, expiries and closes have come in between.                     *)
THEOREM ServedTabsKeepTheirRoot == Spec => []TabsKeepTheirRoot
<1>1. TabsInv /\ StoryInv => TabsKeepTheirRoot
  <2> SUFFICES ASSUME TabsInv, StoryInv, count.restarts = 0, NEW c \in Clients,
                      tab_for_client(reg, c) # NoTab
               PROVE  RootOf(reg, tab_for_client(reg, c)) = mounted[c].root
    BY DEF TabsKeepTheirRoot
  <2>1. PICK h, b, S : Story(h, b, S)
    BY DEF StoryInv
  <2>2. reg.tabs \in Seq(Row)
    BY DEF TabsInv, ServerInv, RegistryInv, GoodRegistry, Registry
  <2>3. PICK i \in 1..Len(reg.tabs) : reg.tabs[i].client = c /\ tab_for_client(reg, c) = reg.tabs[i].tab
    BY <2>2, ClientTabIs
  <2> PICK t, j : t = tab_for_client(reg, c) /\ j = PositionOf(reg, t)
    OBVIOUS
  <2>4. j \in 1..Len(reg.tabs) /\ reg.tabs[j].tab = t
    BY <2>2, <2>3, PositionIs
  <2>5. RowsTell(reg.tabs, h, b, reg.next, NextConn) /\ mounted[c].root = h[c]
    BY <2>1 DEF Story, SnapsTell, WindowTells, MountTells
  <2>6. i \in DOMAIN reg.tabs /\ j \in DOMAIN reg.tabs
    BY <2>2, <2>4
  <2>7. reg.tabs[i].root = h[c] /\ reg.tabs[i].root = b[t] /\ reg.tabs[j].root = b[t]
    BY <2>3, <2>4, <2>5, <2>6 DEF RowsTell, Names
  <2> QED
    BY <2>5, <2>7 DEF RootOf
<1> QED
  BY <1>1, TabsInvariant, StoryInvariant, PTL

(* What a step does to the tabs of the window.                             *)
LEMMA OnlyThreeMount ==
    ASSUME [Next]_vars
    PROVE  \/ mounted' = mounted \/ MountTab
           \/ \E c \in Clients : ApplySnapshot(c)
           \/ \E task \in tasks : Rekey(task)
<1>1. ASSUME NEW k \in Conns, ServerStep(k) \/ UseDocument(k) \/ Lose(k) PROVE mounted' = mounted
  BY <1>1 DEF ServerStep, UseDocument, Lose, Handshake, BindNew, LookUp, EnsureState, Reclaim,
              RefuseReclaim, Announce, Perform, FinishClose, Notice, CleanUp, Depart, window
<1>2. ASSUME NEW c \in Clients, DriverStep(c) PROVE mounted' = mounted \/ ApplySnapshot(c)
  BY <1>2 DEF DriverStep, IgnoreSnapshot, Disconnected, window
<1>3. ASSUME NEW task \in tasks, TaskStep(task) PROVE mounted' = mounted \/ Rekey(task)
  BY <1>3 DEF TaskStep, TryConnect, FallBackToNew, Connected, Retry, Cancelled, DropSession
<1>4. ASSUME NEW t, Expire(t) PROVE mounted' = mounted
  BY <1>4 DEF Expire, window
<1>5. CASE UserStep
  BY <1>5 DEF UserStep, OpenTab, OpenFailed, MoveTab, ActivateTab, CloseTab, Command
<1>6. CASE Restart \/ UNCHANGED vars
  BY <1>6 DEF Restart, vars, window
<1> QED
  BY <1>1, <1>2, <1>3, <1>4, <1>5, <1>6 DEF Next

LEMMA DropsStep ==
    ASSUME TabsInv, StoryInv, [Next]_vars, count.restarts = 0, NEW c \in Clients,
           mounted[c].root \notin {mounted'[d].root : d \in DOMAIN mounted'}
    PROVE  mounted[c].tab \notin TabIds(reg.tabs)
<1>1. PICK h, b, S : Story(h, b, S)
  BY DEF StoryInv
<1>2. /\ mounted \in [Clients -> Tab] /\ WindowTells(h, b, S)
      /\ \A d \in DOMAIN mounted' : mounted'[d].root # mounted[c].root
  BY <1>1 DEF TabsInv, DriverInv, Story
<1>3. mounted' # mounted
  BY <1>2 DEF Clients
<1>4. ~MountTab
  <2>1. ASSUME MountTab PROVE c \in DOMAIN mounted' /\ mounted'[c] = mounted[c]
    BY <1>3, <2>1 DEF MountTab
  <2> QED
    BY <1>2, <2>1
<1>5. ASSUME NEW task \in tasks PROVE ~Rekey(task)
  <2> SUFFICES ASSUME Rekey(task) PROVE FALSE
    OBVIOUS
  <2> PICK o, n : o = task.for /\ n = task.link
    OBVIOUS
  <2>1. /\ task \in Task /\ TaskTells(task, h, b, reg.next, NextConn) /\ o \in Clients
        /\ MountTells(mounted[o], o, h, b, reg.next, NextConn)
        /\ MountTells(mounted[c], c, h, b, reg.next, NextConn)
    BY <1>2 DEF TabsInv, DriverInv, WindowTells, Rekey
  <2>2. n \in Conns /\ reply[n] = "session" /\ n # 0
    BY <2>1 DEF Rekey, Task
  <2>3. conn[n].id = n
    BY <1>1, <2>2, SessionTells
  <2> DEFINE x == [mounted[o] EXCEPT !.link = n]
  <2>4. mounted' = [d \in (Clients \ {o}) \union {n} |-> IF d = n THEN x ELSE mounted[d]]
    BY <2>3 DEF Rekey
  <2>5. x.root = mounted[o].root /\ mounted[o].root = h[o] /\ h[o] = h[n] /\ mounted[c].root = h[c]
    BY <1>2, <2>1, <2>2 DEF Tab, TaskTells, MountTells
  <2> HIDE DEF x
  <2>6. n \in DOMAIN mounted' /\ mounted'[n] = x
    BY <2>4
  <2>7. c # o /\ c # n
    BY <1>2, <2>5, <2>6
  <2>8. c \in DOMAIN mounted' /\ mounted'[c] = mounted[c]
    BY <2>4, <2>7
  <2> QED
    BY <1>2, <2>8
<1>6. PICK e \in Clients : ApplySnapshot(e)
  BY <1>3, <1>4, <1>5, OnlyThreeMount
<1> PICK snap : snap = NextEvent(e)
  OBVIOUS
<1>7. /\ HasEvent(e) /\ snap # Lost /\ Accepts(snap)
      /\ mounted' = [d \in Clients \ Vanished(snap) |-> Identified(snap)[d]]
  BY <1>6 DEF ApplySnapshot
<1>8. snap \in S
  BY <1>1, <1>7, EventTells
<1>9. Identified(snap)[c].root = mounted[c].root
  BY <1>2 DEF Identified, Tab
<1>10. c \in Vanished(snap)
  BY <1>2, <1>7, <1>9
<1> PICK x, y : x = mounted[c] /\ y = Identified(snap)[c]
  OBVIOUS
<1>11. snap.tabs # <<>> /\ y.tab \notin {NoTab} \union TabIds(snap.tabs)
  BY <1>10 DEF Vanished
<1> PICK mine : mine = tab_for_client(snap, c)
  OBVIOUS
<1>12. snap.tabs \in Seq(Row) /\ last \in Nat /\ Keeps(snap, last, x.tab, reg)
  BY <1>1, <1>2, <1>8 DEF Story, SnapsTell, Snapshot, WindowTells
<1>13. mine = NoTab \/ mine \in TabIds(snap.tabs)
  BY <1>12, ClientTabIs DEF TabIds
<1>14. y.tab = IF mine # NoTab THEN mine ELSE x.tab
  BY <1>2, <1>11 DEF Identified, Tab
<1>15. x.tab # NoTab /\ x.tab \notin TabIds(snap.tabs)
  BY <1>11, <1>13, <1>14
<1>16. snap.revision > last
  BY <1>7, <1>11, <1>12 DEF Accepts, None
<1> QED
  BY <1>12, <1>15, <1>16 DEF Keeps

(* Until the server restarts, a tab leaves the window only when its entry  *)
(* in the registry is gone: the relays of several connections may hand the *)
(* driver snapshots in any order, and no stale one drops a tab.            *)
THEOREM StaleSnapshotsDropNothing == Spec => DropsOnlyUnregistered
<1>1. TabsInv /\ StoryInv /\ [Next]_vars =>
          [count.restarts = 0 =>
               \A c \in Clients :
                   mounted[c].root \notin {mounted'[d].root : d \in DOMAIN mounted'}
                       => mounted[c].tab \notin TabIds(reg.tabs)]_vars
  BY DropsStep
<1> QED
  BY <1>1, TabsInvariant, StoryInvariant, PTL DEF Spec, DropsOnlyUnregistered


-----------------------------------------------------------------------------
(* The window at rest.                                                     *)

(* What a connecting client has been told, from where its connection is.   *)
Answers(x, y) ==
    /\ x.phase = "off" => y = "none"
    /\ x.phase \in Early \union {"bound"} => y = IF x.cut THEN "lost" ELSE "none"
    /\ x.phase \in {"serving", "closed"} /\ ~x.cut => y = "session"

(* One connection to a tab, a task or the dialog.                          *)
OneEach ==
    /\ \A c \in Clients : mounted[c].link = c /\ reply[c] = "session"
    /\ \A task \in tasks :
           /\ task.link # 0 =>
                  /\ task.link \notin Clients \union {dialog}
                  /\ \A other \in tasks : other.link = task.link => other = task
           /\ task.cancelled => ~task.keyed
    /\ dialog \notin Clients

LinksFit == OneEach /\ \A k \in Conns : Answers(conn[k], reply[k])

(* A lane that ends, or is about to; one that carries revision a.          *)
Stops(q) == \E i \in DOMAIN q : q[i] = Lost
Ends(k) == Stops(lane[k]) \/ (conn[k].phase = "closed" /\ ~conn[k].cut)
Carries(q, a) == \E i \in DOMAIN q : q[i] # Lost /\ q[i].revision >= a

Refused == {"lost", "rejected"}
Pending(k) == k = dialog \/ \E task \in tasks : task.link = k
Returns(c) == \E task \in tasks : task.keyed /\ task.for = c

(* Revision a has reached the window, is on its way on every connection    *)
(* that goes on, and comes with the one that follows each that does not.   *)
Relays(a) ==
    /\ \A k \in Conns : Pending(k) =>
           \/ reply[k] \in Refused \/ Ends(k)
           \/ Hears(k) /\ (conn[k].phase = "arrived" \/ Carries(lane[k], a))
    /\ \A c \in Clients :
           \/ Ends(c) \/ Returns(c)
           \/ Hears(c) /\ (last >= a \/ Carries(lane[c], a))

(* What a snapshot of revision a or newer lacks are tabs at the end of the *)
(* registry whose makers have no session yet.                              *)
Prefix(u, v) == \A i \in DOMAIN u : i \in DOMAIN v /\ v[i].tab = u[i].tab
Ahead(s, o) ==
    /\ Prefix(s.tabs, reg.tabs)
    /\ \A t \in TabIds(reg.tabs) \ TabIds(s.tabs) : reply[o[t]] # "session"

Known(t, o) == t = NoTab \/ (t \in TabIdSet /\ t < reg.next /\ reply[o[t]] = "session")
MadeBy(rows, o) ==
    \A i \in DOMAIN rows :
        /\ rows[i].tab < reg.next
        /\ rows[i].client = o[rows[i].tab] \/ Known(rows[i].tab, o)

SnapsAgree(a, o, S) ==
    /\ S \subseteq Snapshot
    /\ \A s \in S : /\ s.tabs # <<>> /\ s.revision <= reg.revision /\ MadeBy(s.tabs, o)
                    /\ s.revision >= a => Ahead(s, o)
    /\ MadeBy(reg.tabs, o)

(* The connection k binds the tab it made, and its snapshot has it.        *)
Binds(x, k, o, S) ==
    x.phase = "bound" =>
        /\ x.snap \in S
        /\ \A t \in TabIdSet : t < reg.next /\ o[t] = k =>
               \A s \in S : s.revision >= x.snap.revision =>
                   t \in TabIds(s.tabs) \/ t \notin TabIds(reg.tabs)

MakersKnown(o, S) ==
    /\ \A t \in TabIdSet : t < reg.next => conn[o[t]].phase \notin Early \union {"off"}
    /\ \A k \in Conns : /\ conn[k] \in Session => Known(conn[k].bind.tab, o)
                        /\ Binds(conn[k], k, o, S)

WindowKnows(o, S) ==
    /\ lane \in [Conns -> Seq(S \union {Lost})] /\ mirror \in S /\ mirror.revision = last
    /\ \A c \in Clients : Known(mounted[c].tab, o)
    /\ \A task \in tasks : Known(task.tab, o)

Rest(a, o, S) ==
    /\ a \in Nat /\ a <= reg.revision /\ o \in [TabIdSet -> Conns]
    /\ LinksFit /\ Relays(a)
    /\ SnapsAgree(a, o, S) /\ MakersKnown(o, S) /\ WindowKnows(o, S)

-----------------------------------------------------------------------------
(* How a connection goes on in a step of the server.                       *)
Moves(k, o) ==
    /\ Answers(conn'[k], reply'[k])
    /\ reply'[k] = "session" <=> reply[k] = "session"
    /\ conn'[k].phase \in Early \union {"off"} => conn[k].phase \in Early \union {"off"}
    /\ conn'[k].phase = "bound" => conn[k].phase = "bound" /\ conn'[k].snap = conn[k].snap
    /\ conn'[k] \in Session => \/ conn[k] \in Session /\ conn'[k].bind = conn[k].bind
                               \/ Known(conn'[k].bind.tab, o)

Kept(k, a, b) ==
    /\ Ends(k) => Ends(k)' \/ (reply[k] # "session" /\ reply'[k] \in Refused)
    /\ reply[k] \in Refused => reply'[k] \in Refused
    /\ Hears(k) =>
           \/ Ends(k)'
           \/ reply[k] # "session" /\ reply'[k] \in Refused
           \/ Hears(k)' /\ Carries(lane'[k], b)
           \/ /\ Hears(k)' /\ a = b
              /\ Carries(lane[k], a) => Carries(lane'[k], a)
              /\ conn[k].phase = "arrived" => conn'[k].phase = "arrived"

Registers(a, b) ==
    \/ reg' = reg /\ b \in {a, reg.revision}
    \/ /\ Picks(reg'.tabs, reg.tabs) /\ reg'.next = reg.next
       /\ reg.revision < reg'.revision /\ b = reg'.revision

LEMMA KnownStays ==
    ASSUME NEW o \in [TabIdSet -> Conns], NEW q, \A t \in TabIdSet : t < reg.next => q[t] = o[t],
           TabsInv, TabsInv', reg.next <= reg'.next,
           \A k \in Conns : reply[k] = "session" => reply'[k] = "session",
           NEW t, Known(t, o)
    PROVE  Known(t, q)'
<1>1. reg.next \in Nat /\ reg'.next \in Nat
  BY NumbersAre DEF TabsInv, ServerInv, RegistryInv, GoodRegistry, Registry
<1>2. CASE t = NoTab
  BY <1>2 DEF Known
<1>3. CASE t # NoTab
  <2>1. t \in TabIdSet /\ t < reg.next /\ reply[o[t]] = "session" /\ o[t] \in Conns
    BY <1>3 DEF Known
  <2>2. t \in Nat
    BY <2>1 DEF TabIdSet
  <2>3. t < reg'.next /\ reply'[q[t]] = "session"
    BY <1>1, <2>1, <2>2
  <2> QED
    BY <2>1, <2>3 DEF Known
<1> QED
  BY <1>2, <1>3

LEMMA RelaysOn ==
    ASSUME TabsInv, NEW a, NEW b, LinksFit, Relays(a), \A k \in Conns : Kept(k, a, b),
           UNCHANGED <<mounted, last, tasks, dialog>>
    PROVE  Relays(b)'
<1>1. Clients' = Clients /\ Clients \subseteq Conns
  BY DEF Clients, TabsInv, DriverInv
<1>2. ASSUME NEW k \in Conns, Pending(k)
      PROVE  \/ reply'[k] \in Refused \/ Ends(k)'
             \/ Hears(k)' /\ (conn'[k].phase = "arrived" \/ Carries(lane'[k], b))
  BY <1>2 DEF Relays, Kept
<1>3. ASSUME NEW c \in Clients
      PROVE  \/ Ends(c)' \/ Returns(c)
             \/ Hears(c)' /\ (last >= b \/ Carries(lane'[c], b))
  <2>1. reply[c] = "session" /\ Kept(c, a, b) /\ c \in Conns
    BY <1>1 DEF LinksFit, OneEach
  <2>2. \/ Ends(c) \/ Returns(c)
        \/ Hears(c) /\ (last >= a \/ Carries(lane[c], a))
    BY DEF Relays
  <2> QED
    BY <2>1, <2>2 DEF Kept
<1>4. (\A k \in Conns : Pending(k)' <=> Pending(k)) /\ (\A c \in Clients : Returns(c)' <=> Returns(c))
  BY DEF Pending, Returns
<1> QED
  BY <1>1, <1>2, <1>3, <1>4 DEF Relays

(* Nothing that was the same before grows: what a trimmed registry keeps.  *)
LEMMA TrimsKeepAhead ==
    ASSUME TabsInv, TabsInv', NEW a, NEW o \in [TabIdSet -> Conns], NEW S, SnapsAgree(a, o, S),
           NEW b \in Nat, a \in Nat, a <= reg.revision, Registers(a, b),
           \A k \in Conns : reply'[k] = "session" <=> reply[k] = "session", reg'.tabs # <<>>,
           NEW T, T = S \union {snapshot(reg')}
    PROVE  /\ b <= reg'.revision /\ SnapsAgree(b, o, T)'
           /\ reg'.next = reg.next /\ \A t : t \in TabIds(reg'.tabs) => t \in TabIds(reg.tabs)
           /\ \A t : Known(t, o) => Known(t, o)'
<1> PICK u : u = snapshot(reg')
  OBVIOUS
<1>1. /\ reg \in Registry /\ reg' \in Registry /\ reg.revision \in Nat /\ reg'.revision \in Nat
      /\ reg.tabs \in Seq(Row) /\ reg'.tabs \in Seq(Row)
      /\ reg.next \in Nat /\ S \subseteq Snapshot
  BY DEF TabsInv, ServerInv, RegistryInv, GoodRegistry, Registry, SnapsAgree
<1>2. /\ reg'.next = reg.next /\ reg.revision <= reg'.revision /\ b <= reg'.revision
      /\ Picks(reg'.tabs, reg.tabs)
  BY <1>1, PicksSelf DEF Registers
<1>3. \A t : Known(t, o) => Known(t, o)'
  BY <1>1, <1>2, KnownStays
<1>4. \A rows : MadeBy(rows, o) => MadeBy(rows, o)'
  BY <1>2, <1>3 DEF MadeBy
<1>5. MadeBy(reg'.tabs, o)
  <2>1. MadeBy(reg.tabs, o)
    BY DEF SnapsAgree
  <2> QED
    BY <1>2, <2>1, PicksRows DEF MadeBy
<1>6. u \in Snapshot /\ u.tabs = reg'.tabs /\ u.revision = reg'.revision
  BY <1>1, SnapshotIs DEF snapshot
<1>7. \A t : t \in TabIds(reg'.tabs) => t \in TabIds(reg.tabs)
  BY <1>2, PicksRows DEF TabIds
<1>8. Ahead(u, o)'
  BY <1>6 DEF Ahead, Prefix
<1>9. ASSUME NEW s \in S, s.revision >= b PROVE Ahead(s, o)'
  <2>1. s.revision <= reg.revision /\ s.revision \in Nat /\ (s.revision >= a => Ahead(s, o))
    BY <1>1 DEF SnapsAgree, Snapshot
  <2>2. reg' = reg /\ s.revision >= a
    BY <1>1, <1>9, <2>1 DEF Registers
  <2>3. \A t \in TabIds(reg.tabs) : o[t] \in Conns
    <3>1. \A i \in DOMAIN reg.tabs : reg.tabs[i].tab \in TabIdSet
      BY <1>1, RowIs
    <3> QED
      BY <3>1 DEF TabIds
  <2> QED
    BY <2>1, <2>2, <2>3 DEF Ahead
<1>10. SnapsAgree(b, o, T)'
  <2>1. ASSUME NEW s \in S
        PROVE  s.tabs # <<>> /\ s.revision <= reg'.revision /\ MadeBy(s.tabs, o)'
    <3>1. s.tabs # <<>> /\ s.revision <= reg.revision /\ MadeBy(s.tabs, o) /\ s.revision \in Nat
      BY <1>1 DEF SnapsAgree, Snapshot
    <3> QED
      BY <1>1, <1>2, <1>4, <3>1
  <2>2. u.tabs # <<>> /\ u.revision <= reg'.revision /\ MadeBy(u.tabs, o)'
    BY <1>1, <1>4, <1>5, <1>6
  <2>3. T \subseteq Snapshot /\ MadeBy(reg.tabs, o)'
    <3> PICK rows : rows = reg'.tabs
      OBVIOUS
    <3>1. MadeBy(rows, o)'
      BY <1>4, <1>5
    <3> QED
      BY <1>1, <1>6, <3>1 DEF MadeBy
  <2>4. \A s \in T : s \in S \/ s = u
    OBVIOUS
  <2> QED
    BY <1>8, <1>9, <2>1, <2>2, <2>3, <2>4 DEF SnapsAgree
<1> QED
  BY <1>2, <1>3, <1>7, <1>10

(* A step that binds nothing and announces nothing.                        *)
LEMMA RestGoesOn ==
    ASSUME TabsInv, TabsInv', NEW a, NEW o, NEW S, Rest(a, o, S), reg'.tabs # <<>>,
           NEW b \in Nat, Registers(a, b), NEW T, T = S \union {snapshot(reg')},
           lane' \in [Conns -> Seq(T \union {Lost})],
           \A k \in Conns : Moves(k, o), LinksFit', Relays(b)', mirror' \in T, mirror'.revision = last',
           \A c \in Clients' : Known(mounted'[c].tab, o), \A task \in tasks' : Known(task.tab, o)
    PROVE  Rest(b, o, T)'
<1>1. /\ a \in Nat /\ a <= reg.revision /\ o \in [TabIdSet -> Conns]
      /\ LinksFit /\ Relays(a)
      /\ SnapsAgree(a, o, S) /\ MakersKnown(o, S) /\ WindowKnows(o, S)
  BY DEF Rest
<1>2. \A k \in Conns : reply'[k] = "session" <=> reply[k] = "session"
  BY DEF Moves
<1>3. /\ b <= reg'.revision /\ SnapsAgree(b, o, T)' /\ reg'.next = reg.next
      /\ \A t : t \in TabIds(reg'.tabs) => t \in TabIds(reg.tabs)
      /\ \A t : Known(t, o) => Known(t, o)'
  BY <1>1, <1>2, TrimsKeepAhead
<1>7. WindowKnows(o, T)'
  <2>1. ASSUME NEW c \in Clients' PROVE Known(mounted[c].tab, o)'
    <3> PICK t : t = mounted'[c].tab
      OBVIOUS
    <3>1. Known(t, o)'
      BY <1>3
    <3> QED
      BY <3>1 DEF Known
  <2> QED
    BY <1>3, <2>1 DEF WindowKnows
<1>8. ASSUME NEW t \in TabIdSet, t < reg'.next PROVE conn'[o[t]].phase \notin Early \union {"off"}
  BY <1>1, <1>3, <1>8 DEF MakersKnown, Moves
<1>9. ASSUME NEW k \in Conns, conn'[k] \in Session PROVE Known(conn[k].bind.tab, o)'
  <2> PICK t : t = conn'[k].bind.tab
    OBVIOUS
  <2>1. Known(t, o)
    BY <1>1, <1>9 DEF MakersKnown, Moves
  <2>2. Known(t, o)'
    BY <1>3, <2>1
  <2> QED
    BY <2>2 DEF Known
<1>10. ASSUME NEW k \in Conns PROVE Binds(conn[k], k, o, T)'
  <2>1. SUFFICES ASSUME conn'[k].phase = "bound" PROVE Binds(conn[k], k, o, T)'
    BY DEF Binds
  <2> PICK x : x = conn'[k].snap
    OBVIOUS
  <2>2. conn[k].phase = "bound" /\ conn[k].snap = x /\ Binds(conn[k], k, o, S)
    BY <1>1, <2>1 DEF Moves, MakersKnown
  <2>3. ASSUME NEW t \in TabIdSet, t < reg'.next, o[t] = k, NEW s \in T, s.revision >= x.revision
        PROVE  t \in TabIds(s.tabs) \/ t \notin TabIds(reg'.tabs)
    <3>1. CASE s \in S
      BY <1>3, <2>2, <2>3, <3>1 DEF Binds
    <3>2. CASE s = snapshot(reg')
      BY <3>2 DEF snapshot
    <3> QED
      BY <3>1, <3>2
  <2>4. x \in T
    BY <2>2 DEF Binds
  <2> QED
    BY <2>3, <2>4 DEF Binds
<1>11. MakersKnown(o, T)'
  BY <1>8, <1>9, <1>10 DEF MakersKnown
<1> QED
  BY <1>1, <1>3, <1>7, <1>11 DEF Rest

(* A step of the server alone.                                             *)
LEMMA ServerRests ==
    ASSUME TabsInv, TabsInv', NEW a, NEW o, NEW S, Rest(a, o, S), reg'.tabs # <<>>,
           NEW b \in Nat, Registers(a, b), NEW T, T = S \union {snapshot(reg')},
           lane' \in [Conns -> Seq(T \union {Lost})],
           \A k \in Conns : Moves(k, o) /\ Kept(k, a, b),
           UNCHANGED <<mounted, last, mirror, tasks, dialog>>
    PROVE  Rest(b, o, T)'
<1>1. LinksFit /\ Relays(a) /\ WindowKnows(o, S)
  BY DEF Rest
<1>2. Clients' = Clients /\ Clients \subseteq Conns
  BY DEF Clients, TabsInv, DriverInv
<1>3. LinksFit'
  BY <1>1, <1>2 DEF LinksFit, OneEach, Moves
<1>4. Relays(b)'
  BY <1>1, RelaysOn
<1>5. /\ mirror' \in T /\ mirror'.revision = last'
      /\ \A c \in Clients' : Known(mounted'[c].tab, o)
      /\ \A task \in tasks' : Known(task.tab, o)
  BY <1>1, <1>2 DEF WindowKnows
<1> QED
  BY <1>3, <1>4, <1>5, RestGoesOn

-----------------------------------------------------------------------------
(* What becomes of a lane.                                                 *)
LEMMA SnapshotIsSent == ASSUME NEW s \in Snapshot PROVE s # Lost /\ s \in Relayed
<1>1. DOMAIN s = {"tabs", "active", "revision"}
  BY DEF Snapshot
<1>2. DOMAIN Lost = {"lost"}
  BY DEF Lost
<1>3. "tabs" # "lost"
  OBVIOUS
<1> QED
  BY <1>1, <1>2, <1>3 DEF Relayed

LEMMA LaneFacts ==
    ASSUME NEW q \in Seq(Relayed), NEW s \in Snapshot, NEW a
    PROVE  /\ Stops(q) => Stops(Append(q, s)) /\ Stops(<<s>> \o q)
           /\ Carries(q, a) => Carries(Append(q, s), a) /\ Carries(<<s>> \o q, a)
           /\ s.revision >= a => Carries(Append(q, s), a) /\ Carries(<<s>> \o q, a)
<1>1. s # Lost /\ s \in Relayed
  BY SnapshotIsSent
<1> DEFINE u == Append(q, s)
           v == <<s>> \o q
<1>2. /\ \A i \in DOMAIN q : i \in DOMAIN u /\ u[i] = q[i]
      /\ Len(q) + 1 \in DOMAIN u /\ u[Len(q) + 1] = s
  BY <1>1
<1>3. /\ \A i \in DOMAIN q : i + 1 \in DOMAIN v /\ v[i + 1] = q[i]
      /\ 1 \in DOMAIN v /\ v[1] = s
  BY <1>1
<1> HIDE DEF u, v
<1>4. Stops(q) => Stops(u) /\ Stops(v)
  BY <1>2, <1>3 DEF Stops
<1>5. Carries(q, a) => Carries(u, a) /\ Carries(v, a)
  <2> SUFFICES ASSUME Carries(q, a) PROVE Carries(u, a) /\ Carries(v, a)
    OBVIOUS
  <2>1. PICK i \in DOMAIN q : q[i] # Lost /\ q[i].revision >= a
    BY DEF Carries
  <2>2. u[i] # Lost /\ u[i].revision >= a /\ v[i + 1] # Lost /\ v[i + 1].revision >= a
    BY <1>2, <1>3, <2>1
  <2> QED
    BY <1>2, <1>3, <2>2 DEF Carries
<1>6. s.revision >= a => Carries(u, a) /\ Carries(v, a)
  <2> SUFFICES ASSUME s.revision >= a PROVE Carries(u, a) /\ Carries(v, a)
    OBVIOUS
  <2>1. u[Len(q) + 1] # Lost /\ u[Len(q) + 1].revision >= a /\ v[1] # Lost /\ v[1].revision >= a
    BY <1>1, <1>2, <1>3
  <2> QED
    BY <1>2, <1>3, <2>1 DEF Carries
<1> QED
  BY <1>4, <1>5, <1>6 DEF u, v

(* The first event is taken off a lane.                                    *)
LEMMA TailFacts ==
    ASSUME NEW q \in Seq(Relayed), q # <<>>, NEW a
    PROVE  /\ Stops(q) => Head(q) = Lost \/ Stops(Tail(q))
           /\ Carries(q, a) => (Head(q) # Lost /\ Head(q).revision >= a) \/ Carries(Tail(q), a)
<1>1. ASSUME NEW i \in DOMAIN q
      PROVE  q[i] = Head(q) \/ (i - 1 \in DOMAIN Tail(q) /\ Tail(q)[i - 1] = q[i])
  BY <1>1
<1>2. Stops(q) => Head(q) = Lost \/ Stops(Tail(q))
  BY <1>1 DEF Stops
<1>3. ASSUME NEW i \in DOMAIN q, q[i] # Lost, q[i].revision >= a
      PROVE  (Head(q) # Lost /\ Head(q).revision >= a) \/ Carries(Tail(q), a)
  <2>1. CASE q[i] = Head(q)
    BY <1>3, <2>1
  <2>2. CASE i - 1 \in DOMAIN Tail(q) /\ Tail(q)[i - 1] = q[i]
    <3>1. Tail(q)[i - 1] # Lost /\ Tail(q)[i - 1].revision >= a
      BY <1>3, <2>2
    <3> QED
      BY <2>2, <3>1 DEF Carries
  <2> QED
    BY <1>1, <2>1, <2>2
<1> QED
  BY <1>2, <1>3 DEF Carries

LEMMA LostStops ==
    ASSUME NEW q \in Seq(Relayed), NEW n \in 0..Len(q)
    PROVE  Stops(Append(SubSeq(q, 1, n), Lost))
<1> DEFINE p == SubSeq(q, 1, n)
<1>1. p \in Seq(Relayed) /\ Lost \in Relayed
  BY DEF Relayed
<1> HIDE DEF p
<1>2. Len(p) + 1 \in DOMAIN Append(p, Lost) /\ Append(p, Lost)[Len(p) + 1] = Lost
  BY <1>1
<1> QED
  BY <1>2 DEF Stops, p

-----------------------------------------------------------------------------
(* The steps of a connection and the newest revision.                      *)
RestIs == \E a, o, S : Rest(a, o, S)

(* A connection that only hears what is announced.                         *)
LEMMA Aside ==
    ASSUME TabsInv, NEW a, NEW o, NEW S, Rest(a, o, S), NEW b, NEW k \in Conns,
           conn'[k] = conn[k], reply'[k] = reply[k],
           \/ lane'[k] = lane[k] /\ (a = b \/ ~Hears(k))
           \/ \E s \in Snapshot : s.revision >= b /\ lane'[k] = Append(lane[k], s)
    PROVE  Moves(k, o) /\ Kept(k, a, b)
<1>1. LinksFit /\ MakersKnown(o, S)
  BY DEF Rest
<1>2. Moves(k, o)
  BY <1>1 DEF Moves, LinksFit
<1>3. lane[k] \in Seq(Relayed)
  BY DEF TabsInv, MessagesInv
<1>4. CASE lane'[k] = lane[k] /\ (a = b \/ ~Hears(k))
  BY <1>2, <1>4 DEF Kept, Ends, Hears
<1>5. CASE \E s \in Snapshot : s.revision >= b /\ lane'[k] = Append(lane[k], s)
  <2>1. PICK s \in Snapshot : s.revision >= b /\ lane'[k] = Append(lane[k], s)
    BY <1>5
  <2>2. Carries(lane'[k], b) /\ (Stops(lane[k]) => Stops(lane'[k]))
    BY <1>3, <2>1, LaneFacts
  <2> QED
    BY <1>2, <2>2 DEF Kept, Ends, Hears
<1> QED
  BY <1>4, <1>5

(* What everybody who listens is told.                                     *)
LEMMA ToldHear ==
    ASSUME TabsInv, NEW a, NEW o, NEW S, Rest(a, o, S), NEW s \in Snapshot, NEW b,
           s.revision >= b, NEW k \in Conns, conn'[k] = conn[k], reply'[k] = reply[k],
           lane'[k] = Told(lane, s)[k]
    PROVE  Moves(k, o) /\ Kept(k, a, b)
<1>1. lane'[k] = IF Hears(k) THEN Append(lane[k], s) ELSE lane[k]
  BY DEF Told
<1> QED
  BY <1>1, Aside

(* A connection that goes on in silence.                                   *)
LEMMA GoesOnQuietly ==
    ASSUME NEW a, NEW o, NEW S, Rest(a, o, S), NEW k \in Conns, conn[k] \in Session,
           conn'[k].cut = conn[k].cut, conn'[k].bind = conn[k].bind,
           reply'[k] = reply[k], lane'[k] = lane[k],
           \/ /\ conn[k].phase \in Early \ {"arrived"} /\ conn'[k].phase \in Early \ {"arrived"}
           \/ conn[k].phase = "serving" /\ conn'[k].phase = "serving"
           \/ conn[k].phase \in Handling /\ conn[k].cut /\ conn'[k].phase = "closing"
           \/ conn[k].phase = "closing" /\ conn'[k].phase = "leaving"
    PROVE  Moves(k, o) /\ Kept(k, a, a)
<1>1. Answers(conn[k], reply[k])
  BY DEF Rest, LinksFit
<1>2. Answers(conn'[k], reply'[k])
  BY <1>1 DEF Answers, Early
<1>3. Moves(k, o)
  BY <1>2 DEF Moves, Early, Handling
<1>4. Kept(k, a, a)
  BY DEF Kept, Ends, Hears, Handling, Early
<1> QED
  BY <1>3, <1>4

LEMMA SilentRests ==
    ASSUME TabsInv, TabsInv', NEW a, NEW o, NEW S, Rest(a, o, S), reg'.tabs # <<>>,
           NEW k \in Conns,
           LookUp(k) \/ EnsureState(k) \/ Notice(k) \/ CleanUp(k) \/ UseDocument(k)
    PROVE  RestIs'
<1> PICK T : T = S \union {snapshot(reg')}
  OBVIOUS
<1>1. conn[k] \in Session /\ conn \in [Conns -> Connection]
  <2>1. conn[k].phase \in Phases
    BY DEF LookUp, EnsureState, Notice, CleanUp, UseDocument, Phases, Handling
  <2> QED
    BY <2>1, SessionIs DEF TabsInv, ServerInv
<1>2. /\ UNCHANGED <<reg, lane, reply, mounted, last, mirror, tasks, dialog>>
      /\ \A j \in Conns : j # k => conn'[j] = conn[j]
  BY <1>1 DEF LookUp, EnsureState, Notice, CleanUp, UseDocument, server, window
<1>3. /\ conn'[k].cut = conn[k].cut /\ conn'[k].bind = conn[k].bind
      /\ \/ conn[k].phase \in Early \ {"arrived"} /\ conn'[k].phase \in Early \ {"arrived"}
         \/ conn[k].phase = "serving" /\ conn'[k].phase = "serving"
         \/ conn[k].phase \in Handling /\ conn[k].cut /\ conn'[k].phase = "closing"
         \/ conn[k].phase = "closing" /\ conn'[k].phase = "leaving"
  <2>1. CASE LookUp(k)
    BY <1>1, <2>1 DEF LookUp, Session, Early
  <2>2. CASE EnsureState(k)
    BY <1>1, <2>2 DEF EnsureState, Session, Early
  <2>3. CASE Notice(k)
    BY <1>1, <2>3 DEF Notice, Session, Handling
  <2>4. CASE CleanUp(k)
    BY <1>1, <2>4 DEF CleanUp, Session
  <2>5. CASE UseDocument(k)
    BY <1>1, <2>5 DEF UseDocument, Session
  <2> QED
    BY <2>1, <2>2, <2>3, <2>4, <2>5
<1>4. ASSUME NEW j \in Conns PROVE Moves(j, o) /\ Kept(j, a, a)
  <2>1. CASE j = k
    BY <1>1, <1>2, <1>3, <2>1, GoesOnQuietly
  <2>2. CASE j # k
    BY <1>2, <2>2, Aside
  <2> QED
    BY <2>1, <2>2
<1>5. a \in Nat /\ Registers(a, a) /\ lane' \in [Conns -> Seq(T \union {Lost})]
  <2>1. a \in Nat /\ lane \in [Conns -> Seq(S \union {Lost})]
    BY DEF Rest, WindowKnows
  <2>2. S \union {Lost} \subseteq T \union {Lost}
    OBVIOUS
  <2> QED
    BY <1>2, <2>1, <2>2, LanesWiden DEF Registers
<1>6. Rest(a, o, T)'
  BY <1>2, <1>4, <1>5, ServerRests
<1> QED
  BY <1>6 DEF RestIs

(* Steps that neither connections nor the window see.                      *)
LEMMA UnseenRests ==
    ASSUME TabsInv, TabsInv', NEW a, NEW o, NEW S, Rest(a, o, S), reg'.tabs # <<>>,
           UNCHANGED <<reg, conn, lane, reply, mounted, last, mirror, tasks, dialog>>
    PROVE  RestIs'
<1> PICK T : T = S \union {snapshot(reg')}
  OBVIOUS
<1>1. \A j \in Conns : Moves(j, o) /\ Kept(j, a, a)
  BY Aside
<1>2. a \in Nat /\ Registers(a, a) /\ lane' \in [Conns -> Seq(T \union {Lost})]
  <2>1. a \in Nat /\ lane \in [Conns -> Seq(S \union {Lost})]
    BY DEF Rest, WindowKnows
  <2>2. S \union {Lost} \subseteq T \union {Lost}
    OBVIOUS
  <2> QED
    BY <2>1, <2>2, LanesWiden DEF Registers
<1>3. Rest(a, o, T)'
  BY <1>1, <1>2, ServerRests
<1> QED
  BY <1>3 DEF RestIs

(* The steps of one connection that write to its own lane only.            *)
LEMMA OwnLaneRests ==
    ASSUME TabsInv, TabsInv', NEW a, NEW o, NEW S, Rest(a, o, S), reg'.tabs # <<>>,
           NEW k \in Conns, Handshake(k) \/ RefuseReclaim(k) \/ FinishClose(k) \/ Lose(k)
    PROVE  RestIs'
<1> PICK T : T = S \union {snapshot(reg)}
  OBVIOUS
<1>1. /\ conn[k] \in Session /\ conn \in [Conns -> Connection]
      /\ lane \in [Conns -> Seq(Relayed)] /\ lane[k] \in Seq(Relayed)
      /\ reply \in [Conns -> {"none", "session", "lost", "rejected"}]
  <2>1. conn[k].phase \in Phases
    BY DEF Handshake, RefuseReclaim, FinishClose, Lose, Phases, Handling
  <2> QED
    BY <2>1, SessionIs DEF TabsInv, ServerInv, MessagesInv
<1>2. /\ a \in Nat /\ a <= reg.revision /\ reg.revision \in Nat /\ LinksFit /\ Answers(conn[k], reply[k])
      /\ lane \in [Conns -> Seq(S \union {Lost})]
  BY NumbersAre DEF Rest, LinksFit, WindowKnows
<1>3. /\ UNCHANGED <<reg, mounted, last, mirror, tasks, dialog>>
      /\ \A j \in Conns : j # k => conn'[j] = conn[j] /\ reply'[j] = reply[j]
  BY <1>1 DEF Handshake, RefuseReclaim, FinishClose, Lose, server, window
<1>4. /\ lane' \in [Conns -> Seq(T \union {Lost})]
      /\ \A j \in Conns : j # k => lane'[j] = lane[j]
      /\ Moves(k, o) /\ Kept(k, a, a)
  <2> DEFINE L == T \union {Lost}
  <2>1. Lost \in L /\ snapshot(reg) \in L /\ lane \in [Conns -> Seq(L)] /\ lane[k] \in Seq(L)
    <3>1. S \union {Lost} \subseteq L
      OBVIOUS
    <3>2. lane \in [Conns -> Seq(L)]
      BY <1>2, <3>1, LanesWiden
    <3> QED
      BY <3>2
  <2> HIDE DEF L
  <2>2. CASE Handshake(k)
    <3> DEFINE all == <<snapshot(reg)>> \o lane[k]
    <3>1. snapshot(reg) \in Snapshot /\ snapshot(reg).revision = reg.revision
      BY SnapshotIs, NumbersAre DEF snapshot
    <3>2. /\ Stops(lane[k]) => Stops(all)
          /\ Carries(all, a)
      BY <1>1, <1>2, <3>1, LaneFacts
    <3>3. all \in Seq(L)
      BY <2>1
    <3>4. /\ lane' = [lane EXCEPT ![k] = IF conn[k].cut THEN lane[k] ELSE all]
          /\ reply' = reply /\ conn[k].phase = "arrived" /\ conn'[k].phase = "ready"
          /\ conn'[k].cut = conn[k].cut /\ conn'[k].bind = conn[k].bind
      BY <1>1, <2>2 DEF Handshake, Session
    <3> HIDE DEF all
    <3>5. lane' \in [Conns -> Seq(L)] /\ \A j \in Conns : j # k => lane'[j] = lane[j]
      BY <2>1, <3>3, <3>4
    <3>6. Answers(conn'[k], reply'[k])
      BY <1>2, <3>4 DEF Answers, Early
    <3>7. Moves(k, o)
      BY <1>1, <3>4, <3>6 DEF Moves, Early
    <3>8. lane'[k] = IF conn[k].cut THEN lane[k] ELSE all
      BY <1>1, <3>4
    <3>9. Kept(k, a, a)
      BY <3>2, <3>4, <3>8 DEF Kept, Ends, Hears, Handling
    <3> QED
      BY <3>5, <3>7, <3>9 DEF L
  <2>3. CASE RefuseReclaim(k)
    <3>1. /\ lane' = [lane EXCEPT ![k] = <<>>] /\ conn[k].phase = "ensured"
          /\ reply'[k] = IF conn[k].cut THEN reply[k] ELSE "rejected"
          /\ conn'[k].phase = "serving" /\ conn'[k].cut = TRUE /\ conn'[k].bind = conn[k].bind
      BY <1>1, <2>3 DEF RefuseReclaim, Session
    <3>2. lane' \in [Conns -> Seq(L)] /\ \A j \in Conns : j # k => lane'[j] = lane[j]
      BY <2>1, <3>1
    <3>3. reply[k] = IF conn[k].cut THEN "lost" ELSE "none"
      BY <1>2, <3>1 DEF Answers, Early
    <3>4. Moves(k, o)
      BY <1>1, <3>1, <3>3 DEF Moves, Answers, Early
    <3>5. reply'[k] \in Refused /\ reply[k] # "session"
      BY <3>1, <3>3 DEF Refused
    <3> QED
      BY <3>2, <3>4, <3>5 DEF L, Kept
  <2>4. CASE FinishClose(k) \/ Lose(k)
    <3>1. lane' \in Ended(k)
      BY <2>4 DEF FinishClose, Lose
    <3>2. lane' \in [Conns -> Seq(L)]
      BY <2>1, <3>1, RelayEnded
    <3>3. CASE conn[k].cut
      <4>1. lane' = lane /\ conn[k].phase = "closed" /\ FinishClose(k)
        BY <2>4, <3>1, <3>3 DEF Ended, Lose, FinishClose
      <4>2. /\ conn'[k].phase = "closing" /\ conn'[k].cut = TRUE /\ conn'[k].bind = conn[k].bind
            /\ reply' = reply
        BY <1>1, <4>1 DEF FinishClose, Session
      <4>3. Moves(k, o)
        BY <1>1, <4>1, <4>2 DEF Moves, Answers, Early
      <4>4. Kept(k, a, a)
        BY <3>3, <4>1, <4>2 DEF Kept, Ends, Hears, Handling
      <4> QED
        BY <3>2, <4>1, <4>3, <4>4 DEF L
    <3>4. CASE ~conn[k].cut /\ reply[k] = "session"
      <4>1. PICK n \in 0..Len(lane[k]) :
                lane' = [lane EXCEPT ![k] = Append(SubSeq(@, 1, n), Lost)]
        BY <3>1, <3>4 DEF Ended
      <4>2. Stops(lane'[k]) /\ \A j \in Conns : j # k => lane'[j] = lane[j]
        BY <1>1, <4>1, LostStops
      <4>3. /\ conn'[k].phase = conn[k].phase \/ conn'[k].phase = "closing"
            /\ conn'[k].cut = TRUE /\ conn'[k].bind = conn[k].bind /\ reply'[k] = reply[k]
        BY <1>1, <2>4, <3>4 DEF FinishClose, Lose, Session
      <4>4. conn[k].phase \notin Early \union {"bound"}
        BY <1>2, <3>4 DEF Answers
      <4>5. Moves(k, o)
        <5>1. Answers(conn'[k], reply'[k])
          BY <1>2, <3>4, <4>3, <4>4 DEF Answers, Early
        <5> QED
          BY <1>1, <4>3, <4>4, <5>1 DEF Moves, Early
      <4>6. Kept(k, a, a)
        BY <3>4, <4>2, <4>3 DEF Kept, Ends, Refused
      <4> QED
        BY <3>2, <4>2, <4>5, <4>6 DEF L
    <3>5. CASE ~conn[k].cut /\ reply[k] # "session"
      <4>1. lane' = [lane EXCEPT ![k] = <<>>]
        BY <3>1, <3>5 DEF Ended
      <4>2. conn[k].phase # "closed" /\ Lose(k) /\ conn[k].phase \in Handling
        BY <1>2, <2>4, <3>5 DEF Answers, FinishClose, Lose, Handling
      <4>3. conn[k].phase \in Early \union {"bound"} /\ reply[k] = "none"
        BY <1>2, <3>5, <4>2 DEF Answers, Early, Handling
      <4>4. /\ conn'[k].phase = conn[k].phase /\ conn'[k].cut = TRUE
            /\ conn'[k].bind = conn[k].bind /\ conn'[k].snap = conn[k].snap /\ reply'[k] = "lost"
        BY <1>1, <4>2, <4>3 DEF Lose, Session
      <4>5. Moves(k, o)
        <5>1. Answers(conn'[k], reply'[k])
          BY <4>3, <4>4 DEF Answers, Early
        <5> QED
          BY <1>1, <4>3, <4>4, <5>1 DEF Moves, Early
      <4>6. Kept(k, a, a)
        BY <4>3, <4>4 DEF Kept, Refused
      <4>7. \A j \in Conns : j # k => lane'[j] = lane[j]
        BY <1>1, <4>1
      <4> QED
        BY <3>2, <4>5, <4>6, <4>7 DEF L
    <3> QED
      BY <3>3, <3>4, <3>5
  <2> QED
    BY <2>2, <2>3, <2>4
<1>5. ASSUME NEW j \in Conns PROVE Moves(j, o) /\ Kept(j, a, a)
  BY <1>3, <1>4, Aside
<1>6. Rest(a, o, T)'
  BY <1>2, <1>3, <1>4, <1>5, ServerRests DEF Registers
<1> QED
  BY <1>6 DEF RestIs

(* A change of the registry has a newer revision.                          *)
LEMMA ChangesAreNewer ==
    ASSUME NEW r \in Registry
    PROVE  /\ \A t, c : close_tab(r, t, c) = r \/ r.revision < close_tab(r, t, c).revision
           /\ \A old, alive : \/ sweep_expired(r, old, alive) = r
                              \/ r.revision < sweep_expired(r, old, alive).revision
           /\ \A t, c : activate(r, t, c) = r \/ r.revision < activate(r, t, c).revision
           /\ \A t, c, position : \/ move_to(r, t, c, position) = r
                                  \/ r.revision < move_to(r, t, c, position).revision
           /\ \A t, c : reclaim(r, t, c) = r \/ r.revision < reclaim(r, t, c).revision
           /\ \A c, root : r.revision < create_tab(r, c, root).revision
<1>1. r.revision \in Nat
  BY DEF Registry
<1>2. \A q : DOMAIN q = DOMAIN r /\ q.revision = r.revision => r.revision < Applied(q).revision
  <2>1. "revision" \in DOMAIN r
    BY DEF Registry
  <2> QED
    BY <1>1, <2>1 DEF Applied
<1>3. \A rows : r.revision < KeepRows(r, rows).revision
  <2> TAKE rows
  <2> DEFINE q == [r EXCEPT !.tabs = rows, !.active = IF @ \in TabIds(r.tabs) \ TabIds(rows)
                                                      THEN LastTab(rows) ELSE @]
  <2>1. DOMAIN q = DOMAIN r /\ q.revision = r.revision
    BY DEF Registry
  <2>2. KeepRows(r, rows) = Applied(q)
    BY DEF KeepRows
  <2> HIDE DEF q
  <2> QED
    BY <1>2, <2>1, <2>2
<1>4. \A t, c : close_tab(r, t, c) = r \/ r.revision < close_tab(r, t, c).revision
  BY <1>3 DEF close_tab
<1>5. \A old, alive : \/ sweep_expired(r, old, alive) = r
                      \/ r.revision < sweep_expired(r, old, alive).revision
  BY <1>3 DEF sweep_expired
<1>6. \A t, c : activate(r, t, c) = r \/ r.revision < activate(r, t, c).revision
  <2> TAKE t, c
  <2> DEFINE q == [r EXCEPT !.active = t]
  <2>1. DOMAIN q = DOMAIN r /\ q.revision = r.revision
    BY DEF Registry
  <2>2. activate(r, t, c) = r \/ activate(r, t, c) = Applied(q)
    BY DEF activate
  <2> HIDE DEF q
  <2> QED
    BY <1>2, <2>1, <2>2
<1>7. \A t, c, position : \/ move_to(r, t, c, position) = r
                          \/ r.revision < move_to(r, t, c, position).revision
  <2> TAKE t, c, position
  <2> DEFINE i == PositionOf(r, t)
             q == [r EXCEPT !.tabs = InsertAt(RemoveAt(@, i), position, r.tabs[i])]
  <2>1. DOMAIN q = DOMAIN r /\ q.revision = r.revision
    BY DEF Registry
  <2>2. move_to(r, t, c, position) = r \/ move_to(r, t, c, position) = Applied(q)
    BY DEF move_to
  <2> HIDE DEF q
  <2> QED
    BY <1>2, <2>1, <2>2
<1>8. \A t, c : reclaim(r, t, c) = r \/ r.revision < reclaim(r, t, c).revision
  <2> TAKE t, c
  <2> DEFINE q == [r EXCEPT !.tabs[PositionOf(r, t)].client = c]
  <2>1. DOMAIN q = DOMAIN r /\ q.revision = r.revision
    BY DEF Registry
  <2>2. reclaim(r, t, c) = r \/ reclaim(r, t, c) = Applied(q)
    BY DEF reclaim
  <2> HIDE DEF q
  <2> QED
    BY <1>2, <2>1, <2>2
<1>9. \A c, root : r.revision < create_tab(r, c, root).revision
  <2> TAKE c, root
  <2> DEFINE q == [r EXCEPT !.tabs = Append(@, [tab |-> r.next, root |-> root, client |-> c]),
                            !.active = r.next, !.next = @ + 1]
  <2>1. DOMAIN q = DOMAIN r /\ q.revision = r.revision
    BY DEF Registry
  <2>2. create_tab(r, c, root) = Applied(q)
    BY DEF create_tab
  <2> HIDE DEF q
  <2> QED
    BY <1>2, <2>1, <2>2
<1> QED
  BY <1>4, <1>5, <1>6, <1>7, <1>8, <1>9

(* A sweep tells whoever listens of what it removed, or does nothing.      *)
LEMMA SweepRests ==
    ASSUME TabsInv, TabsInv', NEW alive, Sweep(alive), NEW a \in Nat, a <= reg.revision
    PROVE  \E b \in Nat :
               /\ Registers(a, b) /\ a <= b /\ snapshot(reg').revision >= b
               /\ \/ lane' = lane /\ b = a
                  \/ lane' = Told(lane, snapshot(reg'))
<1>1. /\ reg \in Registry /\ reg' \in Registry /\ reg.revision \in Nat /\ reg'.revision \in Nat
      /\ snapshot(reg').revision = reg'.revision
  BY DEF TabsInv, ServerInv, RegistryInv, GoodRegistry, Registry, snapshot
<1>2. reg' = reg \/ reg.revision < reg'.revision
  BY <1>1, ChangesAreNewer DEF Sweep
<1>3. Picks(reg'.tabs, reg.tabs) /\ reg'.next = reg.next
  BY SweepTrims DEF Sweep, TabsInv, ServerInv, RegistryInv, Trims
<1>4. CASE Expired(reg, idle, alive) = {}
  <2>1. reg' = reg /\ lane' = lane
    BY <1>4 DEF Sweep, sweep_expired
  <2> QED
    BY <1>1, <2>1 DEF Registers
<1>5. CASE Expired(reg, idle, alive) # {}
  <2>1. lane' = Told(lane, snapshot(reg'))
    BY <1>5 DEF Sweep
  <2>2. Registers(a, reg'.revision) /\ a <= reg'.revision
    BY <1>1, <1>2, <1>3 DEF Registers
  <2> QED
    BY <1>1, <2>1, <2>2
<1> QED
  BY <1>4, <1>5

LEMMA DepartRests ==
    ASSUME TabsInv, TabsInv', NEW a, NEW o, NEW S, Rest(a, o, S), reg'.tabs # <<>>,
           NEW k \in Conns, Depart(k)
    PROVE  RestIs'
<1> PICK T, s : T = S \union {s} /\ s = snapshot(reg')
  OBVIOUS
<1>1. conn[k] \in Session /\ conn \in [Conns -> Connection]
  <2>1. conn[k].phase \in Phases
    BY DEF Depart, Phases, Handling
  <2> QED
    BY <2>1, SessionIs DEF TabsInv, ServerInv
<1>2. /\ Sweep(live) /\ conn[k].phase = "leaving" /\ conn'[k] = Gone(k)
      /\ UNCHANGED <<reply, mounted, last, mirror, tasks, dialog>>
      /\ \A j \in Conns : j # k => conn'[j] = conn[j]
  BY <1>1 DEF Depart, window
<1>3. /\ a \in Nat /\ a <= reg.revision /\ LinksFit /\ lane \in [Conns -> Seq(S \union {Lost})]
      /\ s \in Snapshot
  BY SnapshotIs DEF Rest, WindowKnows, TabsInv, ServerInv, RegistryInv, GoodRegistry
<1>4. PICK b \in Nat : /\ Registers(a, b) /\ a <= b /\ s.revision >= b
                       /\ (lane' = lane /\ b = a) \/ lane' = Told(lane, s)
  BY <1>2, <1>3, SweepRests
<1>5. lane' \in [Conns -> Seq(T \union {Lost})]
  <2> PICK L : L = T \union {Lost}
    OBVIOUS
  <2>1. lane \in [Conns -> Seq(L)] /\ s \in L
    <3>1. S \union {Lost} \subseteq L
      OBVIOUS
    <3> QED
      BY <1>3, <3>1, LanesWiden
  <2>2. lane' \in [Conns -> Seq(L)]
    BY <1>4, <2>1, RelayTold
  <2> QED
    BY <2>2
<1>6. ASSUME NEW j \in Conns PROVE Moves(j, o) /\ Kept(j, a, b)
  <2>1. CASE j # k
    <3>1. CASE lane' = lane /\ b = a
      BY <1>2, <2>1, <3>1, Aside
    <3>2. CASE lane' = Told(lane, s)
      BY <1>2, <1>3, <1>4, <2>1, <3>2, ToldHear
    <3> QED
      BY <1>4, <3>1, <3>2
  <2>2. CASE j = k
    <3>1. lane'[k] = lane[k]
      BY <1>2, <1>4 DEF Told, Hears, Handling
    <3>2. Gone(k).phase = "gone" /\ Gone(k) \notin Session
      BY DEF Gone, Session, Phases, Handling
    <3>3. Moves(k, o)
      BY <1>2, <3>2 DEF Moves, Answers, Early
    <3>4. Kept(k, a, b)
      BY <1>2, <3>1 DEF Kept, Ends, Hears, Handling
    <3> QED
      BY <2>2, <3>3, <3>4
  <2> QED
    BY <2>1, <2>2
<1>7. Rest(b, o, T)'
  BY <1>2, <1>4, <1>5, <1>6, ServerRests
<1> QED
  BY <1>7 DEF RestIs

LEMMA PerformRests ==
    ASSUME TabsInv, TabsInv', NEW a, NEW o, NEW S, Rest(a, o, S), reg'.tabs # <<>>,
           NEW k \in Conns, Perform(k)
    PROVE  RestIs'
<1> PICK T, s, b : T = S \union {s} /\ s = snapshot(reg') /\ b = reg'.revision
  OBVIOUS
<1> DEFINE cmd == Head(commands[k])
           closes == cmd.op = "close" /\ BoundTo(reg, cmd.tab, conn[k].id)
<1>1. /\ conn[k] \in Session /\ conn \in [Conns -> Connection] /\ conn[k].phase = "serving"
      /\ lane \in [Conns -> Seq(Relayed)]
  <2>1. conn[k].phase \in Phases /\ conn[k].phase = "serving"
    BY DEF Perform, Phases, Handling
  <2> QED
    BY <2>1, SessionIs DEF TabsInv, ServerInv, MessagesInv
<1>2. cmd.op \in Ops
  BY CommandsShrink DEF TabsInv, MessagesInv, Perform
<1>3. /\ reg' = Effect(k, cmd)
      /\ lane' = [Told(lane, s) EXCEPT ![k] = IF closes THEN lane[k] ELSE @]
      /\ UNCHANGED <<reply, mounted, last, mirror, tasks, dialog>>
      /\ conn'[k] = [conn[k] EXCEPT !.phase = IF closes THEN "closed" ELSE @]
      /\ \A j \in Conns : j # k => conn'[j] = conn[j]
  BY <1>1 DEF Perform, window
<1>4. /\ reg \in Registry /\ reg' \in Registry /\ reg.revision \in Nat /\ b \in Nat
      /\ s \in Snapshot /\ s.revision = b
  BY SnapshotIs DEF TabsInv, ServerInv, RegistryInv, GoodRegistry, Registry, snapshot
<1>5. Registers(a, b)
  <2>1. Picks(reg'.tabs, reg.tabs) /\ reg'.next = reg.next
    BY <1>2, <1>3, EffectTrims DEF Trims, TabsInv, ServerInv, RegistryInv
  <2>2. reg' = reg \/ reg.revision < reg'.revision
    BY <1>2, <1>3, <1>4, ChangesAreNewer DEF Effect, Ops, move_left, move_right
  <2> QED
    BY <2>1, <2>2 DEF Registers
<1> HIDE DEF cmd, closes
<1>6. /\ lane' \in [Conns -> Seq(T \union {Lost})]
      /\ \A j \in Conns : lane'[j] = IF j = k /\ closes THEN lane[j] ELSE Told(lane, s)[j]
  <2> PICK L : L = T \union {Lost}
    OBVIOUS
  <2>1. lane \in [Conns -> Seq(L)] /\ s \in L
    <3>1. S \union {Lost} \subseteq L /\ lane \in [Conns -> Seq(S \union {Lost})]
      BY DEF Rest, WindowKnows
    <3> QED
      BY <3>1, LanesWiden
  <2> DEFINE told == Told(lane, s)
  <2>2. told \in [Conns -> Seq(L)]
    BY <2>1, RelayTold
  <2>3. lane' = [told EXCEPT ![k] = IF closes THEN lane[k] ELSE @]
    BY <1>3
  <2> HIDE DEF told
  <2>4. /\ lane' \in [Conns -> Seq(L)]
        /\ \A j \in Conns : lane'[j] = IF j = k /\ closes THEN lane[j] ELSE told[j]
    BY <2>1, <2>2, <2>3
  <2> QED
    BY <2>4 DEF told
<1>7. ASSUME NEW j \in Conns PROVE Moves(j, o) /\ Kept(j, a, b)
  <2>1. CASE conn'[j] = conn[j] /\ lane'[j] = Told(lane, s)[j]
    <3>1. s.revision >= b
      BY <1>4
    <3> QED
      BY <1>3, <1>4, <2>1, <3>1, ToldHear
  <2>2. CASE j = k /\ closes
    <3>1. /\ conn'[k].phase = "closed" /\ conn'[k].cut = conn[k].cut
          /\ conn'[k].bind = conn[k].bind /\ lane'[k] = lane[k] /\ Answers(conn[k], reply[k])
      BY <1>1, <1>3, <1>6, <2>2 DEF Session, Rest, LinksFit
    <3>2. Moves(k, o)
      BY <1>1, <1>3, <3>1 DEF Moves, Answers, Early
    <3>3. Kept(k, a, b)
      BY <1>1, <1>3, <3>1 DEF Kept, Ends, Hears, Handling
    <3> QED
      BY <2>2, <3>2, <3>3
  <2>3. ~(j = k /\ closes) => conn'[j] = conn[j]
    BY <1>1, <1>3 DEF Session
  <2> QED
    BY <1>6, <2>1, <2>2, <2>3
<1>8. Rest(b, o, T)'
  BY <1>3, <1>4, <1>5, <1>6, <1>7, ServerRests
<1> QED
  BY <1>8 DEF RestIs

(* A connection binds a tab; if it makes it, the tab is the newest.        *)
LEMMA BindRests ==
    ASSUME TabsInv, TabsInv', NEW a, NEW o, NEW S, Rest(a, o, S), reg'.tabs # <<>>,
           NEW k \in Conns, conn[k] \in Session, conn[k].phase \in {"ready", "ensured"},
           conn'[k].phase = "bound", conn'[k].cut = conn[k].cut, conn'[k].bind = conn[k].bind,
           conn'[k].snap = snapshot(reg'), \A j \in Conns : j # k => conn'[j] = conn[j],
           UNCHANGED <<lane, reply, mounted, last, mirror, tasks, dialog>>,
           NEW q \in [TabIdSet -> Conns], \A t \in TabIdSet : t < reg.next => q[t] = o[t],
           \A t \in TabIdSet : t < reg'.next => t < reg.next \/ q[t] = k,
           reg.next <= reg'.next, reg.revision <= reg'.revision,
           reg'.next = reg.next \/ reg.revision < reg'.revision,
           Prefix(reg.tabs, reg'.tabs), TabIds(reg.tabs) \subseteq TabIds(reg'.tabs),
           \A t \in TabIds(reg'.tabs) : t \in TabIds(reg.tabs) \/ (q[t] = k /\ ~(t < reg.next)),
           NEW rows, rows = reg'.tabs, MadeBy(rows, q)'
    PROVE  RestIs'
<1> PICK u, T : u = snapshot(reg') /\ T = S \union {u}
  OBVIOUS
<1>1. /\ a \in Nat /\ a <= reg.revision /\ o \in [TabIdSet -> Conns] /\ LinksFit /\ Relays(a)
      /\ SnapsAgree(a, o, S) /\ MakersKnown(o, S) /\ WindowKnows(o, S)
  BY DEF Rest
<1>2. /\ reg.revision \in Nat /\ reg'.revision \in Nat /\ reg.next \in Nat /\ reg'.next \in Nat
      /\ S \subseteq Snapshot /\ u \in Snapshot /\ u.tabs = reg'.tabs /\ u.revision = reg'.revision
      /\ reg.tabs \in Seq(Row)
  BY <1>1, SnapshotIs
  DEF TabsInv, ServerInv, RegistryInv, GoodRegistry, Registry, SnapsAgree, snapshot
<1>3. \A t : Known(t, o) => Known(t, q)'
  BY <1>1, <1>2, KnownStays
<1>4. Clients' = Clients /\ Clients \subseteq Conns
  BY DEF Clients, TabsInv, DriverInv
<1>5. Answers(conn[k], reply[k]) /\ reply[k] # "session" /\ conn[k].phase \in Early
  BY <1>1 DEF LinksFit, Answers, Early
<1>6. LinksFit'
  <2>1. Answers(conn'[k], reply[k])
    BY <1>5 DEF Answers, Early
  <2>2. ASSUME NEW j \in Conns PROVE Answers(conn'[j], reply'[j])
    BY <1>1, <2>1 DEF LinksFit
  <2> QED
    BY <1>1, <1>4, <2>2 DEF LinksFit, OneEach
<1>7. Relays(a)'
  <2>1. Kept(k, a, a)
    BY <1>5 DEF Kept, Ends, Hears, Handling
  <2>2. \A j \in Conns : Kept(j, a, a)
    BY <2>1, Aside
  <2> QED
    BY <1>1, <2>2, RelaysOn
<1>8. ASSUME NEW r \in Seq(Row), MadeBy(r, o) PROVE MadeBy(r, q)'
  <2>1. ASSUME NEW i \in DOMAIN r
        PROVE  /\ r[i].tab < reg'.next
               /\ r[i].client = q[r[i].tab] \/ Known(r[i].tab, q)'
    <3>1. r[i].tab \in TabIdSet /\ r[i].tab \in Nat /\ r[i].tab < reg.next
      BY <1>8, RowIs DEF MadeBy, TabIdSet
    <3>2. r[i].client = o[r[i].tab] \/ Known(r[i].tab, o)
      BY <1>8 DEF MadeBy
    <3> QED
      BY <1>2, <1>3, <3>1, <3>2
  <2> QED
    BY <2>1 DEF MadeBy
<1>9. ASSUME NEW s \in S, s.revision >= a PROVE Ahead(s, q)'
  <2>1. Prefix(s.tabs, reg.tabs) /\ \A t \in TabIds(reg.tabs) \ TabIds(s.tabs) : reply[o[t]] # "session"
    BY <1>1, <1>9 DEF SnapsAgree, Ahead
  <2>2. Prefix(s.tabs, reg'.tabs)
    BY <2>1 DEF Prefix
  <2>3. ASSUME NEW t \in TabIds(reg'.tabs) \ TabIds(s.tabs) PROVE reply[q[t]] # "session"
    <3>1. CASE t \in TabIds(reg.tabs)
      <4>1. t \in TabIdSet /\ t < reg.next
        <5>1. PICK i \in DOMAIN reg.tabs : t = reg.tabs[i].tab
          BY <3>1 DEF TabIds
        <5> QED
          BY <1>1, <1>2, <5>1, RowIs DEF SnapsAgree, MadeBy
      <4> QED
        BY <2>1, <2>3, <3>1, <4>1
    <3>2. CASE q[t] = k
      BY <1>5, <3>2
    <3> QED
      BY <3>1, <3>2
  <2> QED
    BY <2>2, <2>3 DEF Ahead
<1>10. SnapsAgree(a, q, T)'
  <2>1. ASSUME NEW s \in S
        PROVE  s.tabs # <<>> /\ s.revision <= reg'.revision /\ MadeBy(s.tabs, q)'
    <3>1. s.tabs # <<>> /\ s.revision <= reg.revision /\ MadeBy(s.tabs, o)
      BY <1>1 DEF SnapsAgree
    <3>2. s.revision \in Nat /\ s.tabs \in Seq(Row)
      BY <1>2 DEF Snapshot
    <3> QED
      BY <1>2, <1>8, <3>1, <3>2
  <2>2. u.tabs # <<>> /\ u.revision <= reg'.revision /\ MadeBy(u.tabs, q)' /\ Ahead(u, q)'
    BY <1>2 DEF MadeBy, Ahead, Prefix
  <2>3. T \subseteq Snapshot /\ MadeBy(reg.tabs, q)'
    BY <1>2 DEF MadeBy
  <2>4. \A s \in T : s \in S \/ s = u
    OBVIOUS
  <2> QED
    BY <1>9, <2>1, <2>2, <2>3, <2>4 DEF SnapsAgree
<1>11. \A t \in TabIdSet : t < reg.next => o[t] # k
  BY <1>1, <1>5 DEF MakersKnown
<1>12. ASSUME NEW t \in TabIdSet, t < reg'.next PROVE conn'[q[t]].phase \notin Early \union {"off"}
  <2>1. CASE t < reg.next
    BY <1>1, <1>11, <2>1 DEF MakersKnown
  <2>2. CASE q[t] = k
    BY <2>2 DEF Early
  <2> QED
    BY <1>12, <2>1, <2>2
<1>13. ASSUME NEW j \in Conns, conn'[j] \in Session PROVE Known(conn[j].bind.tab, q)'
  <2> PICK t : t = conn'[j].bind.tab
    OBVIOUS
  <2>1. Known(t, o)
    BY <1>1, <1>13 DEF MakersKnown
  <2>2. Known(t, q)'
    BY <1>3, <2>1
  <2> QED
    BY <2>2 DEF Known
<1>14. ASSUME NEW j \in Conns PROVE Binds(conn[j], j, q, T)'
  <2> SUFFICES ASSUME conn'[j].phase = "bound" PROVE Binds(conn[j], j, q, T)'
    BY DEF Binds
  <2> PICK x : x = conn'[j].snap
    OBVIOUS
  <2>1. CASE j = k
    <3>1. ASSUME NEW t \in TabIdSet, t < reg'.next, q[t] = k, NEW s \in T, s.revision >= u.revision
          PROVE  t \in TabIds(s.tabs) \/ t \notin TabIds(reg'.tabs)
      <4>1. ~(t < reg.next)
        BY <1>11, <3>1
      <4>2. reg.revision < reg'.revision
        BY <3>1, <4>1
      <4>3. s \notin S
        <5>1. s \in S => s.revision <= reg.revision /\ s.revision \in Nat
          BY <1>1, <1>2 DEF SnapsAgree, Snapshot
        <5> QED
          BY <1>2, <3>1, <4>2, <5>1
      <4> QED
        BY <1>2, <3>1, <4>3
    <3> QED
      BY <2>1, <3>1 DEF Binds
  <2>2. CASE j # k
    <3>1. conn[j].phase = "bound" /\ conn[j].snap = x /\ Binds(conn[j], j, o, S)
      BY <1>1, <2>2 DEF MakersKnown
    <3>2. ASSUME NEW t \in TabIdSet, t < reg'.next, q[t] = j, NEW s \in T, s.revision >= x.revision
          PROVE  t \in TabIds(s.tabs) \/ t \notin TabIds(reg'.tabs)
      <4>1. t < reg.next /\ o[t] = j
        BY <2>2, <3>2
      <4>2. CASE s \in S
        BY <2>2, <3>1, <3>2, <4>1, <4>2 DEF Binds
      <4>3. CASE s = u
        BY <1>2, <4>3
      <4> QED
        BY <4>2, <4>3
    <3>3. x \in T
      BY <3>1 DEF Binds
    <3> QED
      BY <3>2, <3>3 DEF Binds
  <2> QED
    BY <2>1, <2>2
<1>15. MakersKnown(q, T)'
  BY <1>12, <1>13, <1>14 DEF MakersKnown
<1>16. WindowKnows(q, T)'
  <2>1. lane \in [Conns -> Seq(T \union {Lost})]
    <3>1. S \union {Lost} \subseteq T \union {Lost} /\ lane \in [Conns -> Seq(S \union {Lost})]
      BY <1>1 DEF WindowKnows
    <3> QED
      BY <3>1, LanesWiden
  <2> QED
    BY <1>1, <1>3, <1>4, <2>1 DEF WindowKnows, Known
<1>17. a <= reg'.revision
  BY <1>1, <1>2
<1>18. Rest(a, q, T)'
  BY <1>1, <1>6, <1>7, <1>10, <1>15, <1>16, <1>17 DEF Rest
<1> QED
  BY <1>18 DEF RestIs

LEMMA BindNewRests ==
    ASSUME TabsInv, TabsInv', NEW h, NEW b, NEW R, Story(h, b, R),
           NEW a, NEW o, NEW S, Rest(a, o, S), reg'.tabs # <<>>, NEW k \in Conns, BindNew(k)
    PROVE  RestIs'
<1>1. /\ conn[k] \in Session /\ conn[k].id = k /\ conn[k].phase = "ready"
      /\ conn[k].bind \in Bindings /\ \A i \in DOMAIN reg.tabs : reg.tabs[i].client # k
  <2>1. conn[k].phase \in Early /\ conn[k].phase = "ready"
    BY DEF BindNew, Early
  <2> QED
    BY <2>1, BinderIs
<1> PICK n, root : n = reg.next /\ root = conn[k].bind.root
  OBVIOUS
<1> DEFINE y == [conn[k] EXCEPT !.phase = "bound", !.bound = n, !.state = n,
                                !.snap = snapshot(reg')]
<1>2. /\ reg' = create_tab(reg, k, root) /\ conn' = [conn EXCEPT ![k] = y]
      /\ UNCHANGED <<lane, reply, mounted, last, mirror, tasks, dialog>>
      /\ states' = states \union {n}
  BY <1>1 DEF BindNew, window
<1>3. /\ GoodRegistry(reg) /\ reg.tabs \in Seq(Row) /\ n \in Nat /\ reg \in Registry
      /\ root \in Roots /\ conn \in [Conns -> Connection] /\ n \in TabIdSet
      /\ \A i \in DOMAIN reg.tabs : reg.tabs[i].tab < n
  BY <1>1, <1>2, NumbersAre DEF TabsInv, ServerInv, RegistryInv, Bindings
<1>4. /\ reg'.next = n + 1 /\ TabIds(reg'.tabs) = TabIds(reg.tabs) \union {n}
      /\ reg'.tabs = Append(reg.tabs, [tab |-> n, root |-> root, client |-> k])
  <2>1. \A i \in DOMAIN reg.tabs : reg.tabs[i].tab # reg.next /\ reg.tabs[i].client # k
    <3>1. \A i \in DOMAIN reg.tabs : reg.tabs[i].tab \in TabIdSet
      BY <1>3, RowIs
    <3> QED
      BY <1>1, <1>3, <3>1 DEF TabIdSet
  <2> QED
    BY <1>2, <1>3, <2>1, CreateGood DEF GoodRegistry
<1>5. /\ conn'[k].phase = "bound" /\ conn'[k].cut = conn[k].cut /\ conn'[k].bind = conn[k].bind
      /\ conn'[k].snap = snapshot(reg') /\ \A j \in Conns : j # k => conn'[j] = conn[j]
  BY <1>1, <1>2, <1>3 DEF Session
<1> HIDE DEF y
<1>6. o \in [TabIdSet -> Conns] /\ MadeBy(reg.tabs, o)
  BY DEF Rest, SnapsAgree
<1>7. PICK q \in [TabIdSet -> Conns] :
          /\ q[n] = k
          /\ \A t \in TabIdSet : t < n => q[t] = o[t]
          /\ \A t \in TabIdSet : t < n + 1 => t < n \/ q[t] = k
  <2> DEFINE p == [o EXCEPT ![n] = k]
  <2>1. /\ p \in [TabIdSet -> Conns] /\ p[n] = k
        /\ \A t \in TabIdSet : t < n => p[t] = o[t]
        /\ \A t \in TabIdSet : t < n + 1 => t < n \/ p[t] = k
    BY <1>3, <1>6 DEF TabIdSet
  <2> HIDE DEF p
  <2> QED
    BY <2>1
<1>8. \A t : Known(t, o) => Known(t, q)'
  <2>1. reg.next <= reg'.next
    BY <1>3, <1>4
  <2> QED
    BY <1>2, <1>6, <1>7, <2>1, KnownStays
<1> DEFINE row == [tab |-> n, root |-> root, client |-> k]
<1>9. /\ \A i \in DOMAIN reg'.tabs : \/ reg'.tabs[i] = row
                                     \/ i \in DOMAIN reg.tabs /\ reg'.tabs[i] = reg.tabs[i]
      /\ \A i \in DOMAIN reg.tabs : i \in DOMAIN reg'.tabs /\ reg'.tabs[i] = reg.tabs[i]
      /\ row.tab = n /\ row.client = k
  BY <1>3, <1>4
<1> HIDE DEF row
<1> PICK rows : rows = reg'.tabs
  OBVIOUS
<1>10. MadeBy(rows, q)'
  <2>1. ASSUME NEW i \in DOMAIN rows
        PROVE  rows[i].tab < reg'.next /\ (rows[i].client = q[rows[i].tab] \/ Known(rows[i].tab, q)')
    <3>1. CASE rows[i] = row
      BY <1>3, <1>4, <1>7, <1>9, <3>1
    <3>2. CASE i \in DOMAIN reg.tabs /\ rows[i] = reg.tabs[i]
      <4>1. rows[i].tab \in TabIdSet /\ rows[i].tab < n
        BY <1>3, <3>2, RowIs
      <4>2. rows[i].client = o[rows[i].tab] \/ Known(rows[i].tab, o)
        BY <1>6, <3>2 DEF MadeBy
      <4>3. rows[i].tab < n + 1
        BY <1>3, <4>1 DEF TabIdSet
      <4> QED
        BY <1>4, <1>7, <1>8, <4>1, <4>2, <4>3
    <3> QED
      BY <1>9, <3>1, <3>2
  <2> QED
    BY <2>1 DEF MadeBy
<1>11. Prefix(reg.tabs, reg'.tabs)
  BY <1>9 DEF Prefix
<1>12. reg.revision < reg'.revision /\ reg.revision <= reg'.revision /\ n <= n + 1 /\ ~(n < n)
  <2>1. reg.revision < reg'.revision
    BY <1>2, <1>3, ChangesAreNewer
  <2> QED
    BY <1>2, <1>3, <2>1, RevisionsGrow
<1>13. /\ TabIds(reg.tabs) \subseteq TabIds(reg'.tabs)
       /\ \A t \in TabIds(reg'.tabs) : t \in TabIds(reg.tabs) \/ (q[t] = k /\ ~(t < reg.next))
  BY <1>4, <1>7, <1>12
<1>14. /\ q \in [TabIdSet -> Conns] /\ \A t \in TabIdSet : t < reg.next => q[t] = o[t]
       /\ \A t \in TabIdSet : t < reg'.next => t < reg.next \/ q[t] = k
       /\ reg.next <= reg'.next /\ reg.revision <= reg'.revision
       /\ reg'.next = reg.next \/ reg.revision < reg'.revision
       /\ conn[k].phase \in {"ready", "ensured"}
  BY <1>1, <1>4, <1>7, <1>12
<1>15. UNCHANGED <<lane, reply, mounted, last, mirror, tasks, dialog>>
  BY <1>2
<1> QED
  BY <1>1, <1>5, <1>10, <1>11, <1>13, <1>14, <1>15, BindRests

LEMMA ReclaimRests ==
    ASSUME TabsInv, TabsInv', NEW h, NEW b, NEW R, Story(h, b, R),
           NEW a, NEW o, NEW S, Rest(a, o, S), reg'.tabs # <<>>, NEW k \in Conns, Reclaim(k)
    PROVE  RestIs'
<1> PICK t : t = conn[k].bind.tab
  OBVIOUS
<1>1. /\ conn[k] \in Session /\ conn[k].id = k /\ conn[k].phase = "ensured"
      /\ \A i \in DOMAIN reg.tabs : reg.tabs[i].client # k
  <2>1. conn[k].phase \in Early /\ conn[k].phase = "ensured"
    BY DEF Reclaim, Early
  <2> QED
    BY <2>1, BinderIs
<1> DEFINE y == [conn[k] EXCEPT !.phase = "bound", !.bound = t,
                     !.state = IF t \in states THEN t ELSE @, !.snap = snapshot(reg')]
<1>2. /\ reg' = reclaim(reg, t, k) /\ conn' = [conn EXCEPT ![k] = y] /\ Registered(reg, t)
      /\ UNCHANGED <<lane, reply, mounted, last, mirror, tasks, dialog>>
  BY <1>1 DEF Reclaim, window
<1>3. /\ GoodRegistry(reg) /\ reg.tabs \in Seq(Row) /\ reg.next \in Nat /\ reg \in Registry
      /\ conn \in [Conns -> Connection] /\ \A i \in DOMAIN reg.tabs : reg.tabs[i].tab < reg.next
  BY NumbersAre DEF TabsInv, ServerInv, RegistryInv
<1>4. /\ reg'.next = reg.next /\ TabIds(reg'.tabs) = TabIds(reg.tabs)
      /\ DOMAIN reg'.tabs = DOMAIN reg.tabs
      /\ \A i \in DOMAIN reg.tabs :
            /\ reg'.tabs[i].tab = reg.tabs[i].tab
            /\ reg'.tabs[i].client = IF reg.tabs[i].tab = t THEN k ELSE reg.tabs[i].client
  BY <1>1, <1>2, <1>3, ReclaimGood DEF GoodRegistry
<1>5. /\ conn'[k].phase = "bound" /\ conn'[k].cut = conn[k].cut /\ conn'[k].bind = conn[k].bind
      /\ conn'[k].snap = snapshot(reg') /\ \A j \in Conns : j # k => conn'[j] = conn[j]
  BY <1>1, <1>2, <1>3 DEF Session
<1> HIDE DEF y
<1>6. o \in [TabIdSet -> Conns] /\ MadeBy(reg.tabs, o) /\ Known(t, o)
  BY <1>1 DEF Rest, SnapsAgree, MakersKnown
<1>7. \A u : Known(u, o) => Known(u, o)'
  BY <1>2, <1>3, <1>4, <1>6, KnownStays
<1> PICK rows : rows = reg'.tabs
  OBVIOUS
<1>8. MadeBy(rows, o)'
  <2>1. ASSUME NEW i \in DOMAIN rows
        PROVE  rows[i].tab < reg'.next /\ (rows[i].client = o[rows[i].tab] \/ Known(rows[i].tab, o)')
    <3>1. i \in DOMAIN reg.tabs /\ rows[i].tab = reg.tabs[i].tab
      BY <1>4
    <3>2. reg.tabs[i].client = o[rows[i].tab] \/ Known(rows[i].tab, o)
      BY <1>6, <3>1 DEF MadeBy
    <3>3. rows[i].client = reg.tabs[i].client \/ rows[i].tab = t
      BY <1>4, <3>1
    <3> QED
      BY <1>3, <1>4, <1>6, <1>7, <3>1, <3>2, <3>3
  <2> QED
    BY <2>1 DEF MadeBy
<1>9. Prefix(reg.tabs, reg'.tabs)
  BY <1>4 DEF Prefix
<1>10. reg.revision <= reg'.revision /\ reg.next <= reg'.next
  BY <1>2, <1>3, <1>4, RevisionsGrow
<1>11. /\ \A u \in TabIdSet : u < reg'.next => u < reg.next \/ o[u] = k
       /\ \A u \in TabIds(reg'.tabs) : u \in TabIds(reg.tabs) \/ (o[u] = k /\ ~(u < reg.next))
       /\ TabIds(reg.tabs) \subseteq TabIds(reg'.tabs) /\ \A u \in TabIdSet : u < reg.next => o[u] = o[u]
  BY <1>4
<1> QED
  BY <1>1, <1>2, <1>4, <1>5, <1>6, <1>8, <1>9, <1>10, <1>11, BindRests

(* A session starts, and the snapshot of its tab goes to whoever listens.  *)
LEMMA AnnounceRests ==
    ASSUME TabsInv, TabsInv', NEW a, NEW o, NEW S, Rest(a, o, S), NEW k \in Conns, Announce(k)
    PROVE  RestIs'
<1> PICK x : x = conn[k].snap
  OBVIOUS
<1> PICK b : b = IF x.revision > a THEN x.revision ELSE a
  OBVIOUS
<1>1. /\ conn[k] \in Session /\ conn \in [Conns -> Connection]
      /\ lane \in [Conns -> Seq(Relayed)] /\ reg.tabs \in Seq(Row)
      /\ reply \in [Conns -> {"none", "session", "lost", "rejected"}]
  <2>1. conn[k].phase \in Phases
    BY DEF Announce, Phases, Handling
  <2> QED
    BY <2>1, SessionIs DEF TabsInv, ServerInv, MessagesInv, RegistryInv, GoodRegistry, Registry
<1>2. /\ a \in Nat /\ a <= reg.revision /\ o \in [TabIdSet -> Conns] /\ LinksFit /\ Relays(a)
      /\ SnapsAgree(a, o, S) /\ MakersKnown(o, S) /\ WindowKnows(o, S)
      /\ reg.revision \in Nat /\ reg.next \in Nat
  BY NumbersAre DEF Rest, TabsInv, ServerInv, RegistryInv, GoodRegistry, Registry
<1>3. /\ conn[k].phase = "bound" /\ ~conn[k].cut /\ lane' = Told(lane, x)
      /\ conn'[k].phase = "serving" /\ conn'[k].cut = conn[k].cut /\ conn'[k].bind = conn[k].bind
      /\ \A j \in Conns : j # k => conn'[j] = conn[j] /\ reply'[j] = reply[j]
      /\ UNCHANGED <<reg, mounted, last, mirror, tasks, dialog>> /\ reply'[k] = "session"
  BY <1>1 DEF Announce, Session, server, window
<1>4. /\ Binds(conn[k], k, o, S) /\ Answers(conn[k], reply[k])
  BY <1>2 DEF MakersKnown, LinksFit
<1>5. /\ x \in S /\ x \in Snapshot /\ x.revision \in Nat /\ x.revision <= reg.revision
      /\ b \in Nat /\ b <= reg.revision /\ a <= b /\ x.revision <= b /\ (x.revision = b \/ a = b)
      /\ \A s \in S : s.revision \in Nat /\ s.tabs \in Seq(Row)
  BY <1>2, <1>3, <1>4 DEF Binds, SnapsAgree, Snapshot
<1>6. reply[k] = "none" /\ Clients' = Clients
  BY <1>3, <1>4 DEF Answers, Clients
<1>7. \A t : Known(t, o) => Known(t, o)'
  <2>1. \A j \in Conns : reply[j] = "session" => reply'[j] = "session"
    BY <1>3
  <2>2. reg.next <= reg'.next
    BY <1>2, <1>3
  <2> QED
    BY <1>2, <2>1, <2>2, KnownStays
<1>8. LinksFit'
  <2>1. Answers(conn'[k], reply'[k])
    BY <1>3 DEF Answers, Early
  <2>2. \A j \in Conns : Answers(conn'[j], reply'[j])
    BY <1>2, <1>3, <2>1 DEF LinksFit
  <2>3. \A c \in Clients : mounted[c].link = c /\ reply'[c] = "session"
    BY <1>2, <1>3 DEF LinksFit, OneEach, TabsInv, DriverInv
  <2> QED
    BY <1>2, <1>3, <1>6, <2>2, <2>3 DEF LinksFit, OneEach
<1>9. Relays(b)'
  <2>1. ASSUME NEW j \in Conns PROVE Kept(j, a, b)
    <3>1. lane[j] \in Seq(Relayed) /\ lane'[j] = IF Hears(j) THEN Append(lane[j], x) ELSE lane[j]
      BY <1>1, <1>3 DEF Told
    <3>2. /\ conn'[j].phase = conn[j].phase \/ (conn[j].phase = "bound" /\ conn'[j].phase = "serving")
          /\ conn'[j].cut = conn[j].cut /\ (reply[j] \in Refused => reply'[j] = reply[j])
      BY <1>3, <1>6 DEF Refused
    <3>3. CASE Hears(j)
      <4>1. /\ Stops(lane[j]) => Stops(lane'[j])
            /\ Carries(lane[j], a) => Carries(lane'[j], a)
            /\ x.revision >= b => Carries(lane'[j], b)
        BY <1>5, <3>1, <3>3, LaneFacts
      <4>2. Hears(j)' /\ (conn[j].phase = "arrived" => conn'[j].phase = "arrived")
        BY <3>2, <3>3 DEF Hears, Handling
      <4>3. Carries(lane'[j], b) \/ a = b
        BY <1>5, <4>1
      <4>4. Ends(j) => Ends(j)'
        BY <3>2, <4>1 DEF Ends
      <4> QED
        BY <3>2, <4>1, <4>2, <4>3, <4>4 DEF Kept
    <3>4. CASE ~Hears(j)
      BY <3>1, <3>2, <3>4 DEF Kept, Ends
    <3> QED
      BY <3>3, <3>4
  <2> QED
    BY <1>2, <1>3, <2>1, RelaysOn
<1>10. SnapsAgree(b, o, S)'
  <2>1. \A rows : MadeBy(rows, o) => MadeBy(rows, o)'
    BY <1>3, <1>7 DEF MadeBy
  <2>2. ASSUME NEW s \in S, s.revision >= b PROVE Ahead(s, o)'
    <3>1. Ahead(s, o)
      BY <1>2, <1>5, <2>2 DEF SnapsAgree
    <3>2. ASSUME NEW t \in TabIds(reg.tabs) \ TabIds(s.tabs) PROVE reply'[o[t]] # "session"
      <4>1. t \in TabIdSet /\ t < reg.next
        <5>1. PICK i \in DOMAIN reg.tabs : t = reg.tabs[i].tab
          BY <3>2 DEF TabIds
        <5> QED
          BY <1>1, <1>2, <5>1, RowIs DEF SnapsAgree, MadeBy
      <4>2. o[t] # k
        <5>1. s.revision >= x.revision
          BY <1>5, <2>2
        <5> QED
          BY <1>3, <1>4, <3>2, <4>1, <5>1 DEF Binds
      <4> QED
        BY <1>2, <1>3, <3>1, <3>2, <4>1, <4>2 DEF Ahead
    <3> QED
      BY <1>3, <3>1, <3>2 DEF Ahead
  <2>3. ASSUME NEW s \in S PROVE s.tabs # <<>> /\ s.revision <= reg'.revision /\ MadeBy(s.tabs, o)'
    BY <1>2, <1>3, <2>1 DEF SnapsAgree
  <2>4. MadeBy(reg.tabs, o)'
    <3> PICK rows : rows = reg.tabs
      OBVIOUS
    <3>1. MadeBy(rows, o)'
      BY <1>2, <2>1 DEF SnapsAgree
    <3> QED
      BY <1>3, <3>1 DEF MadeBy
  <2>5. S \subseteq Snapshot
    BY <1>2 DEF SnapsAgree
  <2> QED
    BY <2>2, <2>3, <2>4, <2>5 DEF SnapsAgree
<1>11. MakersKnown(o, S)'
  <2>1. ASSUME NEW t \in TabIdSet, t < reg'.next PROVE conn'[o[t]].phase \notin Early \union {"off"}
    BY <1>2, <1>3, <2>1 DEF MakersKnown, Early
  <2>2. ASSUME NEW j \in Conns, conn'[j] \in Session PROVE Known(conn[j].bind.tab, o)'
    <3> PICK t : t = conn'[j].bind.tab
      OBVIOUS
    <3>1. Known(t, o)
      BY <1>1, <1>2, <1>3, <2>2 DEF MakersKnown
    <3>2. Known(t, o)'
      BY <1>7, <3>1
    <3> QED
      BY <3>2 DEF Known
  <2>3. ASSUME NEW j \in Conns PROVE Binds(conn[j], j, o, S)'
    <3>1. CASE j = k
      BY <1>3, <3>1 DEF Binds
    <3>2. CASE j # k
      <4>1. Binds(conn[j], j, o, S)
        BY <1>2 DEF MakersKnown
      <4> QED
        BY <1>3, <3>2, <4>1 DEF Binds
    <3> QED
      BY <3>1, <3>2
  <2> QED
    BY <2>1, <2>2, <2>3 DEF MakersKnown
<1>12. WindowKnows(o, S)'
  <2>1. lane' \in [Conns -> Seq(S \union {Lost})]
    <3> PICK L : L = S \union {Lost}
      OBVIOUS
    <3>1. lane \in [Conns -> Seq(L)] /\ x \in L
      BY <1>2, <1>5 DEF WindowKnows
    <3>2. lane' \in [Conns -> Seq(L)]
      BY <1>3, <3>1, RelayTold
    <3> QED
      BY <3>2
  <2> QED
    BY <1>2, <1>3, <1>6, <1>7, <2>1 DEF WindowKnows, Known
<1>13. Rest(b, o, S)'
  BY <1>2, <1>3, <1>5, <1>8, <1>9, <1>10, <1>11, <1>12 DEF Rest
<1> QED
  BY <1>13 DEF RestIs

(* A new connection: it is Off before, and has no snapshot yet.            *)
LEMMA ArriveRests ==
    ASSUME TabsInv, TabsInv', NEW h, NEW p, NEW R, Story(h, p, R),
           NEW a, NEW o, NEW S, Rest(a, o, S), reg'.tabs # <<>>,
           NEW bind \in Bindings, Arrive(bind), Known(bind.tab, o), UNCHANGED <<mounted, last, mirror>>,
           \A task \in tasks' :
               /\ task.link # 0 =>
                      /\ task.link \notin Clients \union {dialog'}
                      /\ \A other \in tasks' : other.link = task.link => other = task
               /\ task.cancelled => ~task.keyed
               /\ Known(task.tab, o),
           dialog' \notin Clients,
           \A k \in Conns : Pending(k)' => Pending(k) \/ k = NextConn,
           \A c \in Clients : Returns(c) => Returns(c)'
    PROVE  RestIs'
<1> PICK T, s : T = S \union {s} /\ s = snapshot(reg')
  OBVIOUS
<1> PICK n : n = NextConn
  OBVIOUS
<1> DEFINE y == [Serving(count.clients + 1, NoTab) EXCEPT !.phase = "arrived", !.bind = bind]
<1>1. /\ n \in Conns /\ conn' = [conn EXCEPT ![n] = y] /\ reply' = reply
      /\ Sweep(live \union {count.clients + 1})
  BY DEF Arrive
<1>2. conn[n] = Off
  <2>1. ~(n < NextConn)
    BY <1>1, NumbersAre
  <2> QED
    BY <1>1, <2>1, RestTells
<1>3. /\ a \in Nat /\ a <= reg.revision /\ LinksFit /\ Relays(a) /\ WindowKnows(o, S)
      /\ lane \in [Conns -> Seq(S \union {Lost})] /\ s \in Snapshot
      /\ lane \in [Conns -> Seq(Relayed)] /\ conn \in [Conns -> Connection] /\ Clients \subseteq Conns
  BY SnapshotIs
  DEF Rest, WindowKnows, TabsInv, ServerInv, RegistryInv, GoodRegistry, MessagesInv, DriverInv
<1>4. reply[n] = "none"
  BY <1>1, <1>2, <1>3 DEF LinksFit, OneEach, Answers, Off
<1>5. /\ conn'[n].phase = "arrived" /\ conn'[n].cut = FALSE /\ conn'[n].bind = bind
      /\ \A j \in Conns : j # n => conn'[j] = conn[j]
  <2>1. y.phase = "arrived" /\ y.cut = FALSE /\ y.bind = bind
    BY DEF Serving
  <2> HIDE DEF y
  <2> QED
    BY <1>1, <1>3, <2>1
<1> HIDE DEF y
<1>6. PICK b \in Nat : /\ Registers(a, b) /\ a <= b /\ s.revision >= b
                       /\ (lane' = lane /\ b = a) \/ lane' = Told(lane, s)
  BY <1>1, <1>3, SweepRests
<1>7. lane' \in [Conns -> Seq(T \union {Lost})]
  <2> PICK L : L = T \union {Lost}
    OBVIOUS
  <2>1. lane \in [Conns -> Seq(L)] /\ s \in L
    <3>1. S \union {Lost} \subseteq L
      OBVIOUS
    <3> QED
      BY <1>3, <3>1, LanesWiden
  <2>2. lane' \in [Conns -> Seq(L)]
    BY <1>6, <2>1, RelayTold
  <2> QED
    BY <2>2
<1>8. ASSUME NEW j \in Conns PROVE Moves(j, o) /\ Kept(j, a, b)
  <2>1. CASE j # n
    <3>1. conn'[j] = conn[j] /\ reply'[j] = reply[j]
      BY <1>1, <1>5, <2>1
    <3>2. CASE lane' = lane /\ b = a
      BY <3>1, <3>2, Aside
    <3>3. CASE lane' = Told(lane, s)
      BY <1>3, <1>6, <3>1, <3>3, ToldHear
    <3> QED
      BY <1>6, <3>2, <3>3
  <2>2. CASE j = n
    <3>1. lane'[n] = lane[n]
      BY <1>1, <1>2, <1>6 DEF Told, Hears, Handling, Off
    <3>2. Moves(n, o)
      BY <1>1, <1>2, <1>4, <1>5 DEF Moves, Answers, Early, Off
    <3>3. Kept(n, a, b)
      BY <1>1, <1>2, <1>4, <3>1 DEF Kept, Ends, Hears, Handling, Off, Refused
    <3> QED
      BY <2>2, <3>2, <3>3
  <2> QED
    BY <2>1, <2>2
<1>9. Clients' = Clients /\ n \notin Clients
  BY <1>3, <1>4 DEF Clients, LinksFit, OneEach
<1>10. LinksFit'
  <2>1. \A j \in Conns : Answers(conn'[j], reply'[j])
    BY <1>8 DEF Moves
  <2>2. \A c \in Clients : mounted'[c].link = c /\ reply'[c] = "session"
    BY <1>1, <1>3 DEF LinksFit, OneEach
  <2> QED
    BY <1>9, <2>1, <2>2 DEF LinksFit, OneEach
<1>11. Relays(b)'
  <2>1. ASSUME NEW k \in Conns, Pending(k)'
        PROVE  \/ reply'[k] \in Refused \/ Ends(k)'
               \/ Hears(k)' /\ (conn'[k].phase = "arrived" \/ Carries(lane'[k], b))
    <3>1. CASE k = n
      BY <1>5, <3>1 DEF Hears, Handling
    <3>2. CASE Pending(k)
      BY <1>3, <1>8, <3>2 DEF Relays, Kept
    <3> QED
      BY <2>1, <3>1, <3>2
  <2>2. ASSUME NEW c \in Clients
        PROVE  Ends(c)' \/ Returns(c)' \/ (Hears(c)' /\ (last' >= b \/ Carries(lane'[c], b)))
    <3>1. reply[c] = "session" /\ Kept(c, a, b) /\ last' = last
      BY <1>3, <1>8 DEF LinksFit, OneEach
    <3>2. \/ Ends(c) \/ Returns(c)
          \/ Hears(c) /\ (last >= a \/ Carries(lane[c], a))
      BY <1>3 DEF Relays
    <3> QED
      BY <3>1, <3>2 DEF Kept
  <2> QED
    BY <1>9, <2>1, <2>2 DEF Relays
<1>12. /\ mirror' \in T /\ mirror'.revision = last'
       /\ \A c \in Clients' : Known(mounted'[c].tab, o)
       /\ \A task \in tasks' : Known(task.tab, o)
  BY <1>3, <1>9 DEF WindowKnows
<1>13. \A j \in Conns : Moves(j, o)
  BY <1>8
<1>14. Rest(b, o, T)'
  BY <1>6, <1>7, <1>10, <1>11, <1>12, <1>13, RestGoesOn
<1> QED
  BY <1>14 DEF RestIs

(* No task and no dialog waits for a connection to come.                   *)
LEMMA NextIsFree ==
    ASSUME TabsInv, NEW h, NEW b, NEW R, Story(h, b, R), NextConn \in Conns, LinksFit
    PROVE  /\ NextConn # dialog /\ NextConn \notin Clients /\ NextConn # 0
           /\ \A task \in tasks : task.link # NextConn
<1>1. NextConn \in Nat /\ ~(NextConn < NextConn) /\ NextConn # 0
  BY NumbersAre DEF Conns
<1>2. dialog # 0 => dialog < NextConn
  BY DEF Story, WindowTells
<1>3. \A task \in tasks : task.link # 0 => task.link < NextConn
  BY DEF Story, WindowTells, TaskTells
<1>4. \A c \in Clients : c < NextConn
  BY DEF Story, WindowTells, MountTells
<1> QED
  BY <1>1, <1>2, <1>3, <1>4

LEMMA ConnectedRests ==
    ASSUME TabsInv, TabsInv', NEW h, NEW b, NEW R, Story(h, b, R),
           NEW a, NEW o, NEW S, Rest(a, o, S), reg'.tabs # <<>>,
           NEW task \in tasks, TryConnect(task) \/ FallBackToNew(task)
    PROVE  RestIs'
<1>1. /\ task \in Task /\ tasks \subseteq Task /\ LinksFit
      /\ \A x \in tasks : Known(x.tab, o)
  BY DEF TabsInv, DriverInv, Rest, WindowKnows
<1>2. PICK bind : bind \in Bindings /\ Connected(task, bind) /\ Known(bind.tab, o)
  <2>1. PICK op \in {"new", "reclaim"}, t \in {task.tab, NoTab} :
            Connected(task, Binding(op, t, task.root))
    BY DEF TryConnect, FallBackToNew
  <2>2. Binding(op, t, task.root) \in Bindings
    BY <1>1, BindingIs DEF Task, TabOrNone
  <2>3. Binding(op, t, task.root).tab = t
    BY DEF Binding
  <2>4. Known(t, o)
    BY <1>1 DEF Known
  <2> QED
    BY <2>1, <2>2, <2>3, <2>4
<1> PICK n : n = NextConn
  OBVIOUS
<1> DEFINE new == [task EXCEPT !.link = n]
<1>3. /\ Arrive(bind) /\ tasks' = (tasks \ {task}) \union {new} /\ n \in Conns
      /\ UNCHANGED <<mounted, last, mirror, dialog>>
  BY <1>2 DEF Connected, Arrive
<1>4. /\ new.link = n /\ new.tab = task.tab /\ new.for = task.for
      /\ new.keyed = task.keyed /\ new.cancelled = task.cancelled
  BY <1>1 DEF Task
<1> HIDE DEF new
<1>5. n # dialog /\ n \notin Clients /\ \A x \in tasks : x.link # n
  BY <1>1, <1>3, NextIsFree
<1>6. ASSUME NEW x \in tasks'
      PROVE  /\ x.link # 0 =>
                    /\ x.link \notin Clients \union {dialog'}
                    /\ \A other \in tasks' : other.link = x.link => other = x
             /\ x.cancelled => ~x.keyed
             /\ Known(x.tab, o)
  <2>1. CASE x = new
    BY <1>1, <1>3, <1>4, <1>5, <2>1 DEF LinksFit, OneEach
  <2>2. CASE x \in tasks \ {task}
    BY <1>1, <1>3, <1>4, <1>5, <2>2 DEF LinksFit, OneEach
  <2> QED
    BY <1>3, <2>1, <2>2
<1>7. \A k \in Conns : Pending(k)' => Pending(k) \/ k = NextConn
  BY <1>3, <1>4 DEF Pending
<1>8. \A c \in Clients : Returns(c) => Returns(c)'
  BY <1>3, <1>4 DEF Returns
<1>9. dialog' \notin Clients
  BY <1>1, <1>3 DEF LinksFit, OneEach
<1> QED
  BY <1>2, <1>3, <1>6, <1>7, <1>8, <1>9, ArriveRests

LEMMA OpenTabRests ==
    ASSUME TabsInv, TabsInv', NEW h, NEW b, NEW R, Story(h, b, R),
           NEW a, NEW o, NEW S, Rest(a, o, S), reg'.tabs # <<>>, OpenTab
    PROVE  RestIs'
<1> PICK bind, n : bind = Binding("new", NoTab, count.roots + 1) /\ n = NextConn
  OBVIOUS
<1>1. /\ Arrive(bind) /\ dialog' = n /\ UNCHANGED <<mounted, last, mirror, tasks>>
      /\ count.roots < MaxRoots /\ n \in Conns
  BY DEF OpenTab, Arrive
<1>2. bind \in Bindings /\ Known(bind.tab, o)
  <2>1. count.roots + 1 \in Roots
    <3> PICK m : m = count.roots
      OBVIOUS
    <3>1. m \in Roots /\ m < MaxRoots /\ MaxRoots \in Nat
      BY <1>1, TabConstants DEF TabsInv, ServerInv, CountInv
    <3>2. m + 1 \in Roots
      BY <3>1 DEF Roots
    <3> QED
      BY <3>2
  <2>2. bind \in Bindings
    BY <2>1, BindingIs DEF TabOrNone
  <2>3. bind.tab = NoTab
    BY DEF Binding
  <2> QED
    BY <2>2, <2>3 DEF Known
<1>3. LinksFit /\ \A x \in tasks : Known(x.tab, o)
  BY DEF Rest, WindowKnows
<1>4. n \notin Clients /\ \A x \in tasks : x.link # n
  BY <1>1, <1>3, NextIsFree
<1>5. ASSUME NEW x \in tasks'
      PROVE  /\ x.link # 0 =>
                    /\ x.link \notin Clients \union {dialog'}
                    /\ \A other \in tasks' : other.link = x.link => other = x
             /\ x.cancelled => ~x.keyed
             /\ Known(x.tab, o)
  BY <1>1, <1>3, <1>4 DEF LinksFit, OneEach
<1>6. \A k \in Conns : Pending(k)' => Pending(k) \/ k = NextConn
  BY <1>1 DEF Pending
<1>7. \A c \in Clients : Returns(c) => Returns(c)'
  BY <1>1 DEF Returns
<1>8. dialog' \notin Clients
  BY <1>1, <1>4
<1> QED
  BY <1>1, <1>2, <1>5, <1>6, <1>7, <1>8, ArriveRests

-----------------------------------------------------------------------------
(* The steps of the window: the registry and the sessions stay.            *)
LEMMA WindowRests ==
    ASSUME TabsInv, TabsInv', NEW a, NEW o, NEW S, Rest(a, o, S), reg'.tabs # <<>>,
           reg' = reg, reply' = reply, \A k \in Conns : Moves(k, o),
           lane' \in [Conns -> Seq(S \union {Lost})],
           OneEach', mirror' \in S, mirror'.revision = last', last' >= last,
           \A c \in Clients' : Known(mounted'[c].tab, o), \A task \in tasks' : Known(task.tab, o),
           \A k \in Conns : Pending(k)' => /\ Pending(k)
                                           /\ conn'[k] = conn[k] /\ lane'[k] = lane[k],
           \A c \in Clients' :
               \/ /\ c \in Clients /\ conn'[c] = conn[c] /\ lane'[c] = lane[c]
                  /\ Returns(c) => Returns(c)'
               \/ Ends(c)' \/ Returns(c)' \/ (Hears(c)' /\ (last' >= a \/ Carries(lane'[c], a)))
    PROVE  RestIs'
<1> PICK T : T = S \union {snapshot(reg')}
  OBVIOUS
<1>1. /\ a \in Nat /\ LinksFit /\ Relays(a) /\ last \in Nat /\ last' \in Nat /\ Clients' \subseteq Conns
  <2>1. S \subseteq Snapshot /\ mirror \in S /\ mirror.revision = last
    BY DEF Rest, SnapsAgree, WindowKnows
  <2> QED
    BY <2>1 DEF Rest, Snapshot, TabsInv, DriverInv, Clients
<1>2. lane' \in [Conns -> Seq(T \union {Lost})]
  <2> PICK L, M : L = S \union {Lost} /\ M = T \union {Lost}
    OBVIOUS
  <2>1. L \subseteq M /\ lane' \in [Conns -> Seq(L)]
    OBVIOUS
  <2>2. \A k \in Conns : lane'[k] \in Seq(M)
    BY <2>1
  <2>3. lane' \in [Conns -> Seq(M)]
    BY <2>1, <2>2
  <2> QED
    BY <2>3
<1>3. LinksFit'
  BY DEF LinksFit, Moves
<1>4. Relays(a)'
  <2>1. ASSUME NEW k \in Conns, Pending(k)'
        PROVE  \/ reply'[k] \in Refused \/ Ends(k)'
               \/ Hears(k)' /\ (conn'[k].phase = "arrived" \/ Carries(lane'[k], a))
    <3>1. /\ conn'[k] = conn[k] /\ lane'[k] = lane[k]
          /\ \/ reply[k] \in Refused \/ Ends(k)
             \/ Hears(k) /\ (conn[k].phase = "arrived" \/ Carries(lane[k], a))
      BY <1>1, <2>1 DEF Relays
    <3> QED
      BY <3>1 DEF Ends, Hears
  <2>2. ASSUME NEW c \in Clients'
        PROVE  Ends(c)' \/ Returns(c)' \/ (Hears(c)' /\ (last' >= a \/ Carries(lane'[c], a)))
    <3>1. CASE /\ c \in Clients /\ conn'[c] = conn[c] /\ lane'[c] = lane[c]
               /\ Returns(c) => Returns(c)'
      <4>1. Ends(c) \/ Returns(c) \/ (Hears(c) /\ (last >= a \/ Carries(lane[c], a)))
        BY <1>1, <3>1 DEF Relays
      <4>2. last >= a => last' >= a
        BY <1>1
      <4> QED
        BY <3>1, <4>1, <4>2 DEF Ends, Hears
    <3> QED
      BY <2>2, <3>1
  <2> QED
    BY <2>1, <2>2 DEF Relays
<1>5. Registers(a, a) /\ mirror' \in T
  BY DEF Registers
<1>6. Rest(a, o, T)'
  BY <1>1, <1>2, <1>3, <1>4, <1>5, RestGoesOn
<1> QED
  BY <1>6 DEF RestIs

(* A session that the window drops.                                        *)
LEMMA CutMoves ==
    ASSUME TabsInv, NEW a, NEW o, NEW S, Rest(a, o, S), NEW k \in Conns, reply'[k] = reply[k],
           \/ conn'[k] = conn[k]
           \/ Alive(k) /\ reply[k] = "session" /\ conn'[k] = [conn[k] EXCEPT !.cut = TRUE]
    PROVE  Moves(k, o)
<1>1. Answers(conn[k], reply[k]) /\ (conn[k] \in Session => Known(conn[k].bind.tab, o))
  BY DEF Rest, LinksFit, MakersKnown
<1>2. CASE conn'[k] = conn[k]
  BY <1>1, <1>2 DEF Moves
<1>3. CASE Alive(k) /\ reply[k] = "session" /\ conn'[k] = [conn[k] EXCEPT !.cut = TRUE]
  <2>1. conn[k] \in Session
    BY <1>3, ConnectionIs DEF Alive, TabsInv, ServerInv
  <2>2. /\ conn'[k].phase = conn[k].phase /\ conn'[k].bind = conn[k].bind
        /\ conn'[k].snap = conn[k].snap /\ conn'[k].cut = TRUE
    BY <1>3, <2>1 DEF Session
  <2>3. Answers(conn'[k], reply'[k])
    BY <1>1, <1>3, <2>2 DEF Answers, Alive
  <2> QED
    BY <1>1, <2>1, <2>2, <2>3 DEF Moves
<1> QED
  BY <1>2, <1>3

(* The events of the bridge of a client.                                   *)
LEMMA EventRests ==
    ASSUME TabsInv, NEW a, NEW o, NEW S, Rest(a, o, S), NEW c \in Clients, HasEvent(c)
    PROVE  /\ mounted[c].link = c /\ c \in Conns /\ lane[c] # <<>> /\ lane[c] \in Seq(Relayed)
           /\ lane \in [Conns -> Seq(S \union {Lost})] /\ NextEvent(c) = Head(lane[c])
           /\ NextEvent(c) \in S \union {Lost} /\ Tail(lane[c]) \in Seq(S \union {Lost})
           /\ \A k \in Conns : Pending(k) => k # c
           /\ last \in Nat /\ \A s \in S : s.revision \in Nat /\ s.tabs # <<>> /\ s \in Snapshot
<1> PICK L : L = S \union {Lost}
  OBVIOUS
<1>1. /\ OneEach /\ mounted[c].link = c /\ c \in Conns /\ lane \in [Conns -> Seq(L)]
      /\ lane[c] # <<>> /\ lane[c] \in Seq(Relayed)
  BY DEF Rest, LinksFit, OneEach, WindowKnows, HasEvent, TabsInv, DriverInv, MessagesInv
<1>2. lane[c] \in Seq(L)
  BY <1>1
<1>3. Head(lane[c]) \in L /\ Tail(lane[c]) \in Seq(L)
  BY <1>1, <1>2
<1>4. \A k \in Conns : Pending(k) => k # c
  <2>1. c # 0
    BY <1>1 DEF Conns
  <2> QED
    BY <1>1, <2>1 DEF Pending, OneEach
<1>5. last \in Nat /\ \A s \in S : s.revision \in Nat /\ s.tabs # <<>> /\ s \in Snapshot
  BY DEF Rest, SnapsAgree, Snapshot, WindowKnows
<1> QED
  BY <1>1, <1>3, <1>4, <1>5 DEF NextEvent

LEMMA IgnoreSnapshotRests ==
    ASSUME TabsInv, TabsInv', NEW a, NEW o, NEW S, Rest(a, o, S), reg'.tabs # <<>>,
           NEW c \in Clients, IgnoreSnapshot(c)
    PROVE  RestIs'
<1> PICK L, s : L = S \union {Lost} /\ s = NextEvent(c)
  OBVIOUS
<1>1. /\ HasEvent(c) /\ s # Lost /\ ~Accepts(s)
      /\ UNCHANGED <<reg, conn, reply, mounted, last, mirror, tasks, dialog>>
  BY DEF IgnoreSnapshot, server, window
<1>2. /\ c \in Conns /\ lane \in [Conns -> Seq(L)] /\ lane' = [lane EXCEPT ![c] = Tail(lane[c])]
      /\ lane[c] \in Seq(Relayed) /\ lane[c] # <<>> /\ s = Head(lane[c]) /\ Tail(lane[c]) \in Seq(L)
      /\ \A k \in Conns : Pending(k) => k # c
      /\ last \in Nat /\ s.revision \in Nat /\ s.tabs # <<>>
  BY <1>1, EventRests DEF IgnoreSnapshot, Taken
<1>3. /\ lane' \in [Conns -> Seq(L)] /\ lane'[c] = Tail(lane[c])
      /\ \A k \in Conns : k # c => lane'[k] = lane[k]
  BY <1>2
<1>4. s.revision <= last
  BY <1>1, <1>2 DEF Accepts
<1>5. /\ a \in Nat /\ OneEach /\ Relays(a) /\ mirror \in S /\ mirror.revision = last
      /\ \A d \in Clients : Known(mounted[d].tab, o)
      /\ \A task \in tasks : Known(task.tab, o)
  BY DEF Rest, LinksFit, WindowKnows
<1>6. Clients' = Clients /\ Clients \subseteq Conns
  BY <1>1 DEF Clients, TabsInv, DriverInv
<1>7. OneEach'
  BY <1>1, <1>5, <1>6 DEF OneEach
<1>8. \A k \in Conns : Moves(k, o)
  BY <1>1, CutMoves
<1>9. \A k \in Conns : Pending(k)' => Pending(k) /\ conn'[k] = conn[k] /\ lane'[k] = lane[k]
  BY <1>1, <1>2, <1>3 DEF Pending
<1>10. Ends(c)' \/ Returns(c)' \/ (Hears(c)' /\ (last' >= a \/ Carries(lane'[c], a)))
  <2>1. Ends(c) \/ Returns(c) \/ (Hears(c) /\ (last >= a \/ Carries(lane[c], a)))
    BY <1>5 DEF Relays
  <2>2. /\ Stops(lane[c]) => Stops(lane'[c])
        /\ Carries(lane[c], a) => s.revision >= a \/ Carries(lane'[c], a)
    BY <1>1, <1>2, <1>3, TailFacts
  <2>3. s.revision >= a => last >= a
    BY <1>2, <1>4, <1>5
  <2> QED
    BY <1>1, <2>1, <2>2, <2>3 DEF Ends, Returns, Hears
<1>11. \A d \in Clients' :
          \/ /\ d \in Clients /\ conn'[d] = conn[d] /\ lane'[d] = lane[d]
             /\ Returns(d) => Returns(d)'
          \/ Ends(d)' \/ Returns(d)' \/ (Hears(d)' /\ (last' >= a \/ Carries(lane'[d], a)))
  BY <1>1, <1>3, <1>6, <1>10 DEF Returns
<1>12. last' >= last
  BY <1>1, <1>2
<1> QED
  BY <1>1, <1>3, <1>5, <1>6, <1>7, <1>8, <1>9, <1>11, <1>12, WindowRests

LEMMA DisconnectedRests ==
    ASSUME TabsInv, TabsInv', NEW a, NEW o, NEW S, Rest(a, o, S), reg'.tabs # <<>>,
           NEW c \in Clients, Disconnected(c)
    PROVE  RestIs'
<1> PICK L : L = S \union {Lost}
  OBVIOUS
<1> DEFINE new == [for |-> c, tab |-> mounted[c].tab, root |-> mounted[c].root,
                   link |-> 0, keyed |-> TRUE, cancelled |-> FALSE]
<1>1. /\ HasEvent(c) /\ Taken(c) /\ UNCHANGED <<reg, conn, reply, mounted, last, mirror, dialog>>
      /\ tasks' = IF \E task \in tasks : task.for = c /\ task.keyed
                  THEN tasks ELSE tasks \union {new}
  BY DEF Disconnected, server
<1>2. /\ c \in Conns /\ lane \in [Conns -> Seq(L)] /\ lane' = [lane EXCEPT ![c] = Tail(lane[c])]
      /\ Tail(lane[c]) \in Seq(L) /\ last \in Nat
      /\ \A k \in Conns : Pending(k) => k # c
  BY <1>1, EventRests DEF Taken
<1>3. lane' \in [Conns -> Seq(L)] /\ \A k \in Conns : k # c => lane'[k] = lane[k]
  BY <1>2
<1>4. /\ new.for = c /\ new.tab = mounted[c].tab /\ new.link = 0 /\ new.keyed = TRUE
      /\ new.cancelled = FALSE
  OBVIOUS
<1> HIDE DEF new
<1>5. /\ OneEach /\ mirror \in S /\ mirror.revision = last
      /\ \A d \in Clients : Known(mounted[d].tab, o)
      /\ \A task \in tasks : Known(task.tab, o)
  BY DEF Rest, LinksFit, WindowKnows
<1>6. Clients' = Clients /\ Clients \subseteq Conns /\ 0 \notin Conns
  BY <1>1 DEF Clients, TabsInv, DriverInv, Conns
<1>7. OneEach'
  <2>1. ASSUME NEW task \in tasks'
        PROVE  /\ task.link # 0 =>
                      /\ task.link \notin Clients \union {dialog}
                      /\ \A other \in tasks' : other.link = task.link => other = task
               /\ task.cancelled => ~task.keyed
    BY <1>1, <1>4, <1>5 DEF OneEach
  <2> QED
    BY <1>1, <1>5, <1>6, <2>1 DEF OneEach
<1>8. \A k \in Conns : Moves(k, o)
  BY <1>1, CutMoves
<1>9. \A k \in Conns : Pending(k)' => Pending(k) /\ conn'[k] = conn[k] /\ lane'[k] = lane[k]
  BY <1>1, <1>2, <1>3, <1>4, <1>6 DEF Pending
<1>10. Returns(c)' /\ \A d \in Clients : Returns(d) => Returns(d)'
  BY <1>1, <1>4 DEF Returns
<1>11. \A d \in Clients' :
          \/ /\ d \in Clients /\ conn'[d] = conn[d] /\ lane'[d] = lane[d]
             /\ Returns(d) => Returns(d)'
          \/ Ends(d)' \/ Returns(d)' \/ (Hears(d)' /\ (last' >= a \/ Carries(lane'[d], a)))
  BY <1>1, <1>3, <1>6, <1>10
<1>12. last' >= last
  BY <1>1, <1>2
<1>13. /\ \A d \in Clients' : Known(mounted'[d].tab, o)
       /\ \A task \in tasks' : Known(task.tab, o)
  BY <1>1, <1>4, <1>5, <1>6
<1> QED
  BY <1>1, <1>3, <1>5, <1>7, <1>8, <1>9, <1>11, <1>12, <1>13, WindowRests

(* The tasks that one task less leaves.                                    *)
LEMMA DoneFits ==
    ASSUME TabsInv, OneEach, NEW task \in tasks
    PROVE  /\ \A x \in Done(task) :
                  /\ \E y \in tasks \ {task} : x.link = y.link /\ x.tab = y.tab
                  /\ x.link # 0 => /\ x.link \notin Clients \union {dialog, task.link}
                                   /\ \A other \in Done(task) : other.link = x.link => other = x
                  /\ x.cancelled => ~x.keyed
           /\ \A c \in Clients : Returns(c) /\ c # task.for =>
                  \E x \in Done(task) : x.keyed /\ x.for = c
<1> DEFINE Renamed(y) == [y EXCEPT !.keyed = @ /\ y.for # task.for]
<1>1. tasks \subseteq Task
  BY DEF TabsInv, DriverInv
<1>2. ASSUME NEW y \in tasks
      PROVE  /\ Renamed(y).link = y.link /\ Renamed(y).tab = y.tab /\ Renamed(y).for = y.for
             /\ Renamed(y).cancelled = y.cancelled /\ Renamed(y).keyed = (y.keyed /\ y.for # task.for)
  BY <1>1 DEF Task
<1>3. Done(task) = {Renamed(y) : y \in tasks \ {task}}
  BY DEF Done
<1> HIDE DEF Renamed
<1>4. ASSUME NEW x \in Done(task)
      PROVE  /\ \E y \in tasks \ {task} : x.link = y.link /\ x.tab = y.tab
             /\ x.link # 0 => /\ x.link \notin Clients \union {dialog, task.link}
                              /\ \A other \in Done(task) : other.link = x.link => other = x
             /\ x.cancelled => ~x.keyed
  <2>1. PICK y \in tasks \ {task} : x = Renamed(y)
    BY <1>3
  <2>2. /\ x.link = y.link /\ x.tab = y.tab /\ x.cancelled = y.cancelled /\ (x.keyed => y.keyed)
    BY <1>2, <2>1
  <2>3. /\ y.link # 0 => /\ y.link \notin Clients \union {dialog}
                         /\ \A other \in tasks : other.link = y.link => other = y
        /\ y.cancelled => ~y.keyed
    BY DEF OneEach
  <2>4. ASSUME x.link # 0, NEW other \in Done(task), other.link = x.link PROVE other = x
    <3>1. PICK z \in tasks \ {task} : other = Renamed(z)
      BY <1>3
    <3>2. z = y
      BY <1>2, <2>2, <2>3, <2>4, <3>1
    <3> QED
      BY <2>1, <3>1, <3>2
  <2> QED
    BY <2>2, <2>3, <2>4
<1>5. ASSUME NEW c \in Clients, Returns(c), c # task.for
      PROVE  \E x \in Done(task) : x.keyed /\ x.for = c
  <2>1. PICK y \in tasks : y.keyed /\ y.for = c
    BY <1>5 DEF Returns
  <2>2. Renamed(y) \in Done(task) /\ Renamed(y).keyed /\ Renamed(y).for = c
    BY <1>2, <1>3, <1>5, <2>1
  <2> QED
    BY <2>2
<1> QED
  BY <1>4, <1>5

(* Steps that end a task or the dialog, or let a task begin again.         *)
LEMMA TaskEndRests ==
    ASSUME TabsInv, TabsInv', NEW a, NEW o, NEW S, Rest(a, o, S), reg'.tabs # <<>>,
           OpenFailed \/ \E task \in tasks : Retry(task) \/ Cancelled(task)
    PROVE  RestIs'
<1>1. UNCHANGED <<reg, conn, lane, reply, mounted, last, mirror>>
  BY DEF OpenFailed, Retry, Cancelled, server
<1>2. /\ OneEach /\ mirror \in S /\ mirror.revision = last /\ last \in Nat
      /\ \A d \in Clients : Known(mounted[d].tab, o)
      /\ \A task \in tasks : Known(task.tab, o)
      /\ lane \in [Conns -> Seq(S \union {Lost})] /\ tasks \subseteq Task
  BY DEF Rest, LinksFit, WindowKnows, SnapsAgree, Snapshot, TabsInv, DriverInv
<1>3. Clients' = Clients /\ Clients \subseteq Conns /\ 0 \notin Conns
  BY <1>1 DEF Clients, TabsInv, DriverInv, Conns
<1>4. /\ OneEach' /\ \A task \in tasks' : Known(task.tab, o)
      /\ \A k \in Conns : Pending(k)' => Pending(k)
      /\ \A c \in Clients : Returns(c) => Returns(c)'
  <2>1. CASE OpenFailed
    <3>1. dialog' = 0 /\ tasks' = tasks
      BY <2>1 DEF OpenFailed
    <3> QED
      BY <1>1, <1>2, <1>3, <3>1 DEF OneEach, Pending, Returns
  <2>2. ASSUME NEW task \in tasks, Retry(task)
        PROVE  /\ OneEach' /\ \A x \in tasks' : Known(x.tab, o)
               /\ \A k \in Conns : Pending(k)' => Pending(k)
               /\ \A c \in Clients : Returns(c) => Returns(c)'
    <3> DEFINE new == [task EXCEPT !.link = 0]
    <3>1. tasks' = (tasks \ {task}) \union {new} /\ dialog' = dialog
      BY <2>2 DEF Retry
    <3>2. /\ new.link = 0 /\ new.tab = task.tab /\ new.for = task.for
          /\ new.keyed = task.keyed /\ new.cancelled = task.cancelled
      BY <1>2 DEF Task
    <3> HIDE DEF new
    <3>3. ASSUME NEW x \in tasks'
          PROVE  /\ x.link # 0 =>
                        /\ x.link \notin Clients \union {dialog}
                        /\ \A other \in tasks' : other.link = x.link => other = x
                 /\ x.cancelled => ~x.keyed
                 /\ Known(x.tab, o)
      BY <1>2, <3>1, <3>2 DEF OneEach
    <3>4. OneEach'
      BY <1>1, <1>2, <1>3, <3>1, <3>3 DEF OneEach
    <3>5. \A k \in Conns : Pending(k)' => Pending(k)
      BY <1>3, <3>1, <3>2 DEF Pending
    <3>6. \A c \in Clients : Returns(c) => Returns(c)'
      BY <3>1, <3>2 DEF Returns
    <3> QED
      BY <3>3, <3>4, <3>5, <3>6
  <2>3. ASSUME NEW task \in tasks, Cancelled(task)
        PROVE  /\ OneEach' /\ \A x \in tasks' : Known(x.tab, o)
               /\ \A k \in Conns : Pending(k)' => Pending(k)
               /\ \A c \in Clients : Returns(c) => Returns(c)'
    <3>1. tasks' = tasks \ {task} /\ dialog' = dialog /\ task.cancelled
      BY <2>3 DEF Cancelled
    <3>2. ~task.keyed
      BY <1>2, <3>1 DEF OneEach
    <3> QED
      BY <1>1, <1>2, <1>3, <3>1, <3>2 DEF OneEach, Pending, Returns
  <2> QED
    BY <2>1, <2>2, <2>3
<1>5. \A k \in Conns : Moves(k, o)
  BY <1>1, CutMoves
<1>6. \A k \in Conns : Pending(k)' => Pending(k) /\ conn'[k] = conn[k] /\ lane'[k] = lane[k]
  BY <1>1, <1>4
<1>7. \A d \in Clients' :
          \/ /\ d \in Clients /\ conn'[d] = conn[d] /\ lane'[d] = lane[d]
             /\ Returns(d) => Returns(d)'
          \/ Ends(d)' \/ Returns(d)' \/ (Hears(d)' /\ (last' >= a \/ Carries(lane'[d], a)))
  BY <1>1, <1>3, <1>4
<1>8. last' >= last /\ \A d \in Clients' : Known(mounted'[d].tab, o)
  BY <1>1, <1>2, <1>3
<1> QED
  BY <1>1, <1>2, <1>4, <1>5, <1>6, <1>7, <1>8, WindowRests

LEMMA DropSessionRests ==
    ASSUME TabsInv, TabsInv', NEW a, NEW o, NEW S, Rest(a, o, S), reg'.tabs # <<>>,
           NEW task \in tasks, DropSession(task)
    PROVE  RestIs'
<1> PICK k, L : k = task.link /\ L = S \union {Lost}
  OBVIOUS
<1>1. /\ k # 0 /\ reply[k] = "session" /\ task.for \notin Clients /\ tasks' = Done(task)
      /\ UNCHANGED <<reg, reply, mounted, last, mirror, dialog>>
      /\ conn' = [conn EXCEPT ![k] = IF Alive(k) THEN [@ EXCEPT !.cut = TRUE] ELSE @]
      /\ lane' = [lane EXCEPT ![k] = <<>>]
  BY DEF DropSession, server
<1>2. /\ OneEach /\ mirror \in S /\ mirror.revision = last /\ last \in Nat
      /\ \A d \in Clients : Known(mounted[d].tab, o)
      /\ \A x \in tasks : Known(x.tab, o)
      /\ lane \in [Conns -> Seq(L)] /\ conn \in [Conns -> Connection] /\ task \in Task
  BY DEF Rest, LinksFit, WindowKnows, SnapsAgree, Snapshot, TabsInv, ServerInv, DriverInv
<1>3. /\ Clients' = Clients /\ Clients \subseteq Conns /\ 0 \notin Conns /\ k \in Conns
      /\ k \notin Clients
  BY <1>1, <1>2 DEF Clients, TabsInv, DriverInv, Conns, Task, OneEach
<1>4. /\ lane' \in [Conns -> Seq(L)]
      /\ \A j \in Conns : j # k => lane'[j] = lane[j] /\ conn'[j] = conn[j]
      /\ conn'[k] = IF Alive(k) THEN [conn[k] EXCEPT !.cut = TRUE] ELSE conn[k]
  <2>1. <<>> \in Seq(L)
    OBVIOUS
  <2> QED
    BY <1>1, <1>2, <1>3, <2>1
<1>5. ASSUME NEW j \in Conns PROVE Moves(j, o)
  <2>1. reply'[j] = reply[j]
    BY <1>1
  <2>2. \/ conn'[j] = conn[j]
        \/ Alive(j) /\ reply[j] = "session" /\ conn'[j] = [conn[j] EXCEPT !.cut = TRUE]
    BY <1>1, <1>4
  <2> QED
    BY <2>1, <2>2, CutMoves
<1>6. OneEach'
  BY <1>1, <1>2, <1>3, DoneFits DEF OneEach
<1>7. \A x \in tasks' : Known(x.tab, o)
  BY <1>1, <1>2, DoneFits
<1>8. \A j \in Conns : Pending(j)' => Pending(j) /\ conn'[j] = conn[j] /\ lane'[j] = lane[j]
  <2>1. ASSUME NEW j \in Conns, Pending(j)' PROVE Pending(j) /\ j # k
    <3>1. CASE j = dialog
      BY <1>1, <1>2, <3>1 DEF Pending, OneEach
    <3>2. CASE \E x \in Done(task) : x.link = j
      BY <1>2, <1>3, <3>2, DoneFits DEF Pending
    <3> QED
      BY <1>1, <2>1, <3>1, <3>2 DEF Pending
  <2> QED
    BY <1>4, <2>1
<1>9. \A c \in Clients : Returns(c) => Returns(c)'
  BY <1>1, <1>2, DoneFits DEF Returns
<1>10. \A d \in Clients' :
          \/ /\ d \in Clients /\ conn'[d] = conn[d] /\ lane'[d] = lane[d]
             /\ Returns(d) => Returns(d)'
          \/ Ends(d)' \/ Returns(d)' \/ (Hears(d)' /\ (last' >= a \/ Carries(lane'[d], a)))
  BY <1>3, <1>4, <1>9
<1>11. last' >= last /\ \A d \in Clients' : Known(mounted'[d].tab, o)
  BY <1>1, <1>2, <1>3
<1> QED
  BY <1>1, <1>2, <1>4, <1>5, <1>6, <1>7, <1>8, <1>10, <1>11, WindowRests

(* A session that has come to the window hears what it was waited for.     *)
LEMMA SessionHears ==
    ASSUME LinksFit, NEW a, Relays(a), NEW k \in Conns, Pending(k), reply[k] = "session"
    PROVE  Ends(k) \/ (Hears(k) /\ Carries(lane[k], a))
<1>1. /\ Answers(conn[k], reply[k])
      /\ \/ reply[k] \in Refused \/ Ends(k)
         \/ Hears(k) /\ (conn[k].phase = "arrived" \/ Carries(lane[k], a))
  BY DEF LinksFit, Relays
<1> QED
  BY <1>1 DEF Answers, Early, Refused

(* The tab goes on with its new connection.                                *)
LEMMA RekeyRests ==
    ASSUME TabsInv, TabsInv', NEW h, NEW b, NEW R, Story(h, b, R),
           NEW a, NEW o, NEW S, Rest(a, o, S), reg'.tabs # <<>>, NEW task \in tasks, Rekey(task)
    PROVE  RestIs'
<1> PICK c, k : c = task.for /\ k = task.link
  OBVIOUS
<1>1. /\ OneEach /\ LinksFit /\ Relays(a) /\ mirror \in S /\ mirror.revision = last /\ last \in Nat
      /\ \A d \in Clients : Known(mounted[d].tab, o)
      /\ \A x \in tasks : Known(x.tab, o)
      /\ lane \in [Conns -> Seq(S \union {Lost})] /\ task \in Task /\ mounted \in [Clients -> Tab]
  BY DEF Rest, LinksFit, WindowKnows, SnapsAgree, Snapshot, TabsInv, DriverInv
<1>2. /\ k \in Conns /\ reply[k] = "session" /\ k # 0 /\ c \in Clients /\ k \notin Clients
      /\ k # dialog
  BY <1>1 DEF Rekey, Task, OneEach
<1>3. conn[k].id = k
  BY <1>2, SessionTells
<1> DEFINE x == [mounted[c] EXCEPT !.link = k]
<1>4. /\ mounted' = [d \in (Clients \ {c}) \union {k} |-> IF d = k THEN x ELSE mounted[d]]
      /\ tasks' = Done(task) /\ UNCHANGED <<reg, conn, lane, reply, last, mirror, dialog>>
  BY <1>3 DEF Rekey, server
<1>5. x.tab = mounted[c].tab /\ x.link = k
  BY <1>1, <1>2 DEF Tab
<1> HIDE DEF x
<1>6. /\ Clients' = (Clients \ {c}) \union {k} /\ mounted'[k] = x
      /\ \A d \in Clients \ {c} : mounted'[d] = mounted[d]
  BY <1>2, <1>4 DEF Clients
<1>7. OneEach'
  <2>1. \A d \in Clients' : mounted'[d].link = d /\ reply'[d] = "session"
    BY <1>1, <1>2, <1>4, <1>5, <1>6 DEF OneEach
  <2>2. dialog' \notin Clients'
    BY <1>1, <1>2, <1>4, <1>6 DEF OneEach
  <2>3. \A y \in tasks' :
           /\ y.link # 0 =>
                  /\ y.link \notin Clients' \union {dialog'}
                  /\ \A other \in tasks' : other.link = y.link => other = y
           /\ y.cancelled => ~y.keyed
    BY <1>1, <1>4, <1>6, DoneFits
  <2> QED
    BY <2>1, <2>2, <2>3 DEF OneEach
<1>8. /\ \A d \in Clients' : Known(mounted'[d].tab, o)
      /\ \A y \in tasks' : Known(y.tab, o)
  BY <1>1, <1>2, <1>4, <1>5, <1>6, DoneFits
<1>9. \A j \in Conns : Moves(j, o)
  BY <1>4, CutMoves
<1>10. \A j \in Conns : Pending(j)' => Pending(j) /\ conn'[j] = conn[j] /\ lane'[j] = lane[j]
  <2>1. ASSUME NEW j \in Conns, Pending(j)' PROVE Pending(j)
    BY <1>1, <1>4, <2>1, DoneFits DEF Pending
  <2> QED
    BY <1>4, <2>1
<1>11. ASSUME NEW d \in Clients \ {c}, Returns(d) PROVE Returns(d)'
  BY <1>1, <1>4, <1>11, DoneFits DEF Returns
<1>12. Ends(k)' \/ (Hears(k)' /\ Carries(lane'[k], a))
  <2>1. Pending(k)
    BY DEF Pending
  <2>2. Ends(k) \/ (Hears(k) /\ Carries(lane[k], a))
    BY <1>1, <1>2, <2>1, SessionHears
  <2> QED
    BY <1>4, <2>2 DEF Ends, Hears
<1>13. \A d \in Clients' :
          \/ /\ d \in Clients /\ conn'[d] = conn[d] /\ lane'[d] = lane[d]
             /\ Returns(d) => Returns(d)'
          \/ Ends(d)' \/ Returns(d)' \/ (Hears(d)' /\ (last' >= a \/ Carries(lane'[d], a)))
  BY <1>4, <1>6, <1>11, <1>12
<1>14. last' >= last
  BY <1>1, <1>4
<1> QED
  BY <1>1, <1>4, <1>7, <1>8, <1>9, <1>10, <1>13, <1>14, WindowRests

LEMMA MountTabRests ==
    ASSUME TabsInv, TabsInv', NEW h, NEW b, NEW R, Story(h, b, R),
           NEW a, NEW o, NEW S, Rest(a, o, S), reg'.tabs # <<>>, MountTab
    PROVE  RestIs'
<1> PICK k : k = dialog
  OBVIOUS
<1>1. /\ OneEach /\ LinksFit /\ Relays(a) /\ mirror \in S /\ mirror.revision = last /\ last \in Nat
      /\ \A d \in Clients : Known(mounted[d].tab, o)
      /\ \A x \in tasks : Known(x.tab, o)
      /\ lane \in [Conns -> Seq(S \union {Lost})]
  BY DEF Rest, LinksFit, WindowKnows, SnapsAgree, Snapshot
<1>2. /\ k \in Conns /\ reply[k] = "session" /\ k # 0 /\ k \notin Clients /\ 0 \notin Conns
      /\ Clients \subseteq Conns
  BY <1>1 DEF MountTab, TabsInv, DriverInv, OneEach, Conns
<1>3. conn[k].id = k
  BY <1>2, SessionTells
<1> DEFINE x == [tab |-> NoTab, root |-> count.roots, link |-> k]
<1>4. /\ mounted' = [d \in Clients \union {k} |-> IF d = k THEN x ELSE mounted[d]]
      /\ dialog' = 0 /\ UNCHANGED <<reg, conn, lane, reply, last, mirror, tasks>>
  BY <1>2, <1>3 DEF MountTab, server
<1>5. x.tab = NoTab /\ x.link = k
  OBVIOUS
<1> HIDE DEF x
<1>6. /\ Clients' = Clients \union {k} /\ mounted'[k] = x
      /\ \A d \in Clients : mounted'[d] = mounted[d]
  BY <1>2, <1>4 DEF Clients
<1>7. OneEach'
  <2>1. \A d \in Clients' : mounted'[d].link = d /\ reply'[d] = "session"
    BY <1>1, <1>2, <1>4, <1>5, <1>6 DEF OneEach
  <2>2. dialog' \notin Clients'
    BY <1>2, <1>4, <1>6
  <2>3. \A y \in tasks : y.link # k
    BY <1>1, <1>2 DEF OneEach
  <2> QED
    BY <1>1, <1>4, <1>6, <2>1, <2>2, <2>3 DEF OneEach
<1>8. /\ \A d \in Clients' : Known(mounted'[d].tab, o)
      /\ \A y \in tasks' : Known(y.tab, o)
  BY <1>1, <1>4, <1>5, <1>6 DEF Known
<1>9. \A j \in Conns : Moves(j, o)
  BY <1>4, CutMoves
<1>10. \A j \in Conns : Pending(j)' => Pending(j) /\ conn'[j] = conn[j] /\ lane'[j] = lane[j]
  BY <1>2, <1>4 DEF Pending
<1>11. Ends(k)' \/ (Hears(k)' /\ Carries(lane'[k], a))
  <2>1. Pending(k)
    BY DEF Pending
  <2>2. Ends(k) \/ (Hears(k) /\ Carries(lane[k], a))
    BY <1>1, <1>2, <2>1, SessionHears
  <2> QED
    BY <1>4, <2>2 DEF Ends, Hears
<1>12. \A d \in Clients' :
          \/ /\ d \in Clients /\ conn'[d] = conn[d] /\ lane'[d] = lane[d]
             /\ Returns(d) => Returns(d)'
          \/ Ends(d)' \/ Returns(d)' \/ (Hears(d)' /\ (last' >= a \/ Carries(lane'[d], a)))
  BY <1>4, <1>6, <1>11 DEF Returns
<1>13. last' >= last
  BY <1>1, <1>4
<1> QED
  BY <1>1, <1>4, <1>7, <1>8, <1>9, <1>10, <1>12, <1>13, WindowRests

(* The window applies a snapshot that is newer than its list.              *)
LEMMA ApplySnapshotRests ==
    ASSUME TabsInv, TabsInv', NEW a, NEW o, NEW S, Rest(a, o, S), reg'.tabs # <<>>,
           NEW c \in Clients, ApplySnapshot(c)
    PROVE  RestIs'
<1> PICK snap, gone, L : snap = NextEvent(c) /\ gone = Vanished(snap) /\ L = S \union {Lost}
  OBVIOUS
<1> DEFINE After(task) == IF task.for \in gone /\ task.keyed
                          THEN [task EXCEPT !.keyed = FALSE, !.cancelled = TRUE] ELSE task
<1>1. /\ HasEvent(c) /\ snap # Lost /\ Accepts(snap) /\ UNCHANGED <<reg, reply, dialog>>
      /\ mounted' = [d \in Clients \ gone |-> Identified(snap)[d]]
      /\ last' = snap.revision /\ mirror' = snap
      /\ tasks' = {After(task) : task \in tasks}
      /\ conn' = [k \in Conns |-> IF Alive(k) /\ \E d \in gone : mounted[d].link = k
                                  THEN [conn[k] EXCEPT !.cut = TRUE] ELSE conn[k]]
      /\ lane' = [k \in Conns |-> IF \E d \in gone : mounted[d].link = k THEN <<>>
                                  ELSE IF k = mounted[c].link THEN Tail(lane[k]) ELSE lane[k]]
  BY DEF ApplySnapshot, server
<1>2. /\ c \in Conns /\ lane \in [Conns -> Seq(L)] /\ mounted[c].link = c
      /\ lane[c] \in Seq(Relayed) /\ lane[c] # <<>> /\ snap = Head(lane[c]) /\ Tail(lane[c]) \in Seq(L)
      /\ last \in Nat /\ snap.revision \in Nat /\ snap.tabs # <<>> /\ snap \in S /\ snap \in Snapshot
      /\ \A k \in Conns : Pending(k) => k # c
  BY <1>1, EventRests
<1>3. snap.revision > last
  <2>1. Accepts(snap) /\ snap.tabs # <<>> /\ last \in Nat
    BY <1>1, <1>2
  <2> QED
    BY <2>1 DEF Accepts, None
<1>4. /\ OneEach /\ Relays(a) /\ MadeBy(snap.tabs, o)
      /\ \A d \in Clients : Known(mounted[d].tab, o)
      /\ \A task \in tasks : Known(task.tab, o)
      /\ mounted \in [Clients -> Tab] /\ tasks \subseteq Task /\ Clients \subseteq Conns
  BY <1>2 DEF Rest, LinksFit, SnapsAgree, WindowKnows, TabsInv, DriverInv
<1>5. gone \subseteq Clients /\ Clients' = Clients \ gone
  BY <1>1 DEF Vanished, Clients
<1>6. \A k \in Conns : (\E d \in gone : mounted[d].link = k) <=> k \in gone
  BY <1>4, <1>5 DEF OneEach
<1>7. /\ \A k \in Conns :
            /\ conn'[k] = IF Alive(k) /\ k \in gone THEN [conn[k] EXCEPT !.cut = TRUE] ELSE conn[k]
            /\ lane'[k] = IF k \in gone THEN <<>> ELSE IF k = c THEN Tail(lane[k]) ELSE lane[k]
      /\ lane' = [k \in Conns |-> lane'[k]]
  BY <1>1, <1>2, <1>6
<1>8. lane' \in [Conns -> Seq(L)]
  <2>1. <<>> \in Seq(L) /\ \A k \in Conns : lane[k] \in Seq(L)
    BY <1>2
  <2>2. \A k \in Conns : lane'[k] \in Seq(L)
    BY <1>2, <1>7, <2>1
  <2> QED
    BY <1>7, <2>2
<1>9. ASSUME NEW k \in Conns PROVE Moves(k, o)
  <2>1. k \in gone => reply[k] = "session"
    BY <1>4, <1>5 DEF OneEach
  <2> QED
    BY <1>1, <1>7, <2>1, CutMoves
<1>10. ASSUME NEW task \in tasks
       PROVE  /\ After(task).link = task.link /\ After(task).tab = task.tab
              /\ After(task).for = task.for /\ (task.for \notin gone => After(task) = task)
              /\ After(task).cancelled => ~After(task).keyed
  BY <1>4 DEF Task, OneEach
<1> HIDE DEF After
<1>11. OneEach'
  <2>1. ASSUME NEW x \in tasks'
        PROVE  /\ x.link # 0 =>
                      /\ x.link \notin Clients \union {dialog}
                      /\ \A other \in tasks' : other.link = x.link => other = x
               /\ x.cancelled => ~x.keyed
    <3>1. PICK y \in tasks : x = After(y)
      BY <1>1
    <3>2. /\ y.link # 0 => /\ y.link \notin Clients \union {dialog}
                           /\ \A other \in tasks : other.link = y.link => other = y
      BY <1>4 DEF OneEach
    <3>3. ASSUME x.link # 0, NEW other \in tasks', other.link = x.link PROVE other = x
      <4>1. PICK z \in tasks : other = After(z)
        BY <1>1
      <4>2. z = y
        BY <1>10, <3>1, <3>2, <3>3, <4>1
      <4> QED
        BY <3>1, <4>1, <4>2
    <3> QED
      BY <1>10, <3>1, <3>2, <3>3
  <2>2. ASSUME NEW d \in Clients' PROVE mounted'[d].link = d /\ reply'[d] = "session"
    <3>1. d \in Clients /\ mounted'[d] = Identified(snap)[d] /\ mounted[d] \in Tab
      BY <1>1, <1>4, <1>5
    <3>2. mounted'[d].link = mounted[d].link
      BY <3>1 DEF Identified, Tab
    <3> QED
      BY <1>1, <1>4, <3>1, <3>2 DEF OneEach
  <2> QED
    BY <1>1, <1>4, <1>5, <2>1, <2>2 DEF OneEach
<1>12. ASSUME NEW d \in Clients' PROVE Known(mounted'[d].tab, o)
  <2> PICK mine : mine = tab_for_client(snap, d)
    OBVIOUS
  <2>1. d \in Clients /\ mounted'[d] = Identified(snap)[d] /\ mounted[d] \in Tab
    BY <1>1, <1>4, <1>5
  <2>2. mounted'[d].tab = IF mine # NoTab THEN mine ELSE mounted[d].tab
    BY <1>2, <2>1 DEF Identified, Tab
  <2>3. Known(mine, o)
    <3>1. snap.tabs \in Seq(Row)
      BY <1>2 DEF Snapshot
    <3>2. ASSUME NEW i \in 1..Len(snap.tabs), snap.tabs[i].client = d, mine = snap.tabs[i].tab
          PROVE  Known(mine, o)
      <4>1. i \in DOMAIN snap.tabs
        BY <3>1
      <4>2. mine \in TabIdSet /\ mine < reg.next /\ (d = o[mine] \/ Known(mine, o))
        BY <1>4, <3>1, <3>2, <4>1, RowIs DEF MadeBy
      <4>3. reply[d] = "session"
        BY <1>4, <2>1 DEF OneEach
      <4> QED
        BY <4>2, <4>3 DEF Known
    <3> QED
      BY <3>1, <3>2, ClientTabIs DEF Known
  <2> QED
    BY <1>4, <2>1, <2>2, <2>3
<1>13. \A x \in tasks' : Known(x.tab, o)
  BY <1>1, <1>4, <1>10
<1>14. \A k \in Conns : Pending(k)' => Pending(k) /\ conn'[k] = conn[k] /\ lane'[k] = lane[k]
  <2>1. ASSUME NEW k \in Conns, Pending(k)' PROVE Pending(k) /\ k \notin Clients
    <3>1. Pending(k)
      BY <1>1, <1>10, <2>1 DEF Pending
    <3>2. k # 0
      BY DEF Conns
    <3> QED
      BY <1>4, <3>1, <3>2 DEF Pending, OneEach
  <2> QED
    BY <1>5, <1>7, <2>1
<1>15. ASSUME NEW d \in Clients', Returns(d) PROVE Returns(d)'
  <2>1. PICK task \in tasks : task.keyed /\ task.for = d
    BY <1>15 DEF Returns
  <2>2. task.for \notin gone
    BY <1>5, <2>1
  <2>3. After(task) = task /\ task \in tasks'
    BY <1>1, <1>10, <2>2
  <2> QED
    BY <2>1, <2>3 DEF Returns
<1>16. ASSUME NEW d \in Clients'
       PROVE  \/ /\ d \in Clients /\ conn'[d] = conn[d] /\ lane'[d] = lane[d]
                 /\ Returns(d) => Returns(d)'
              \/ Ends(d)' \/ Returns(d)' \/ (Hears(d)' /\ (last' >= a \/ Carries(lane'[d], a)))
  <2>1. /\ d \in Clients /\ d \in Conns /\ conn'[d] = conn[d]
        /\ lane'[d] = IF d = c THEN Tail(lane[d]) ELSE lane[d]
    BY <1>4, <1>5, <1>7
  <2>2. CASE d # c
    BY <1>15, <2>1, <2>2
  <2>3. CASE d = c
    <3>1. Ends(d) \/ Returns(d) \/ (Hears(d) /\ (last >= a \/ Carries(lane[d], a)))
      BY <1>4, <2>1 DEF Relays
    <3>2. /\ Stops(lane[d]) => Stops(lane'[d])
          /\ Carries(lane[d], a) => snap.revision >= a \/ Carries(lane'[d], a)
      BY <1>1, <1>2, <2>1, <2>3, TailFacts
    <3>3. last >= a => last' >= a
      <4>1. a \in Nat
        BY DEF Rest
      <4> QED
        BY <1>1, <1>2, <1>3, <4>1
    <3> QED
      BY <1>1, <1>15, <2>1, <3>1, <3>2, <3>3 DEF Ends, Hears
  <2> QED
    BY <2>2, <2>3
<1>17. last' >= last /\ mirror' \in S /\ mirror'.revision = last'
  BY <1>1, <1>2, <1>3
<1> QED
  BY <1>1, <1>8, <1>9, <1>11, <1>12, <1>13, <1>14, <1>16, <1>17, WindowRests

-----------------------------------------------------------------------------
(* The window at the start: everybody has a session and has heard all.     *)
LEMMA InitRests == ASSUME Init PROVE RestIs
<1> PICK N : N = InitialTabs
  OBVIOUS
<1> PICK a, o, s, S : /\ a = reg.revision /\ o = [t \in TabIdSet |-> IF t <= N THEN t ELSE 1]
                      /\ s = snapshot(reg) /\ S = {s}
  OBVIOUS
<1>1. N \in {1, 2} /\ N \in Nat /\ MaxConns \in Nat /\ MaxConns >= N
  BY TabConstants
<1>2. 1..N \subseteq TabIdSet /\ 1..N \subseteq Conns /\ 1 \in 1..N /\ TabIdSet = Conns
  BY <1>1 DEF TabIdSet, Conns
<1>3. o \in [TabIdSet -> Conns] /\ \A t \in 1..N : o[t] = t
  BY <1>1, <1>2
<1>4. /\ reg \in Registry /\ reg.next = N + 1 /\ reg.revision \in Nat /\ reg.tabs \in Seq(Row)
      /\ TabIds(reg.tabs) = 1..N
      /\ \A i \in DOMAIN reg.tabs : reg.tabs[i].tab = reg.tabs[i].client
  <2>1. reg = InitialRegistry
    BY DEF Init
  <2> QED
    BY <2>1, InitialRegistryIs DEF GoodRegistry, Registry
<1>5. /\ \A k \in Conns : /\ conn[k] = IF k <= N THEN Serving(k, k) ELSE Off
                          /\ reply[k] = IF k <= N THEN "session" ELSE "none"
      /\ mounted = [c \in 1..N |-> [tab |-> c, root |-> c, link |-> c]]
      /\ last = reg.revision /\ mirror = s /\ tasks = {} /\ dialog = 0
      /\ lane = [k \in Conns |-> <<>>]
  BY DEF Init
<1>6. \A k : /\ Serving(k, k).phase = "serving" /\ Serving(k, k).cut = FALSE
             /\ Serving(k, k).bind.tab = NoTab
  BY DEF Serving, Binding
<1>7. Off.phase = "off" /\ Off \notin Session
  BY DEF Off, Session, Phases, Handling
<1>8. Clients = 1..N /\ \A c \in 1..N : mounted[c].link = c /\ mounted[c].tab = c /\ c <= N /\ c < N + 1
  BY <1>1, <1>5 DEF Clients
<1>9. LinksFit
  <2>1. ASSUME NEW k \in Conns PROVE Answers(conn[k], reply[k])
    BY <1>5, <1>6, <1>7 DEF Answers, Early
  <2>2. \A c \in Clients : mounted[c].link = c /\ reply[c] = "session"
    BY <1>2, <1>5, <1>8
  <2>3. dialog \notin Clients
    BY <1>5, <1>8
  <2> QED
    BY <1>5, <2>1, <2>2, <2>3 DEF LinksFit, OneEach
<1>10. Relays(a)
  <2>1. \A k \in Conns : ~Pending(k)
    BY <1>5 DEF Pending, Conns
  <2>2. \A c \in Clients : Hears(c)
    BY <1>2, <1>5, <1>6, <1>8 DEF Hears, Handling
  <2>3. last >= a
    BY <1>4, <1>5
  <2> QED
    BY <2>1, <2>2, <2>3 DEF Relays
<1>11. ASSUME NEW t \in 1..N PROVE Known(t, o)
  BY <1>2, <1>3, <1>4, <1>5, <1>8 DEF Known
<1>12. SnapsAgree(a, o, S)
  <2>1. s \in Snapshot /\ s.tabs = reg.tabs /\ s.revision = reg.revision
    BY <1>4, SnapshotIs DEF snapshot
  <2>2. reg.tabs # <<>>
    BY <1>2, <1>4 DEF TabIds
  <2>3. MadeBy(reg.tabs, o)
    <3>1. ASSUME NEW i \in DOMAIN reg.tabs
          PROVE  reg.tabs[i].tab < reg.next /\ reg.tabs[i].client = o[reg.tabs[i].tab]
      <4>1. reg.tabs[i].tab \in 1..N
        BY <1>4 DEF TabIds
      <4> QED
        BY <1>3, <1>4, <1>8, <4>1
    <3> QED
      BY <3>1 DEF MadeBy
  <2>4. Ahead(s, o)
    BY <2>1 DEF Ahead, Prefix
  <2>5. s.revision <= reg.revision
    BY <1>4, <2>1
  <2> QED
    BY <2>1, <2>2, <2>3, <2>4, <2>5 DEF SnapsAgree
<1>13. MakersKnown(o, S)
  <2>1. ASSUME NEW t \in TabIdSet, t < reg.next PROVE conn[o[t]].phase = "serving"
    <3>1. t \in 1..N
      BY <1>1, <1>4, <2>1 DEF TabIdSet
    <3> QED
      BY <1>2, <1>3, <1>5, <1>6, <1>8, <3>1
  <2>2. ASSUME NEW k \in Conns PROVE /\ conn[k] \in Session => conn[k].bind.tab = NoTab
                                     /\ conn[k].phase # "bound"
    BY <1>5, <1>6, <1>7
  <2> QED
    BY <2>1, <2>2 DEF MakersKnown, Binds, Early, Known
<1>14. WindowKnows(o, S)
  <2>1. lane \in [Conns -> Seq(S \union {Lost})]
    BY <1>5
  <2>2. mirror.revision = last
    BY <1>5 DEF snapshot
  <2> QED
    BY <1>5, <1>8, <1>11, <2>1, <2>2 DEF WindowKnows
<1>15. a \in Nat /\ a <= reg.revision
  BY <1>4
<1>16. Rest(a, o, S)
  BY <1>3, <1>9, <1>10, <1>12, <1>13, <1>14, <1>15 DEF Rest
<1> QED
  BY <1>16 DEF RestIs

(* A registry that stays in use: the server has not restarted.             *)
RestInv == count.restarts = 0 /\ RestIs

LEMMA RestGoes ==
    ASSUME TabsInv, TabsInv', StoryInv, RestInv, [Next]_vars, ~Restart, reg'.tabs # <<>>
    PROVE  RestIs'
<1>1. PICK h, b, R : Story(h, b, R)
  BY DEF RestInv, StoryInv
<1>2. PICK a, o, S : Rest(a, o, S)
  BY DEF RestInv, RestIs
<1>3. CASE UNCHANGED vars
  BY <1>2, <1>3, UnseenRests DEF vars, server, window
<1>4. ASSUME NEW k \in Conns, ServerStep(k) \/ UseDocument(k) \/ Lose(k) PROVE RestIs'
  <2>1. CASE LookUp(k) \/ EnsureState(k) \/ Notice(k) \/ CleanUp(k) \/ UseDocument(k)
    BY <1>2, <2>1, SilentRests
  <2>2. CASE Handshake(k) \/ RefuseReclaim(k) \/ FinishClose(k) \/ Lose(k)
    BY <1>2, <2>2, OwnLaneRests
  <2>3. CASE BindNew(k) \/ Reclaim(k)
    BY <1>1, <1>2, <2>3, BindNewRests, ReclaimRests
  <2>4. CASE Announce(k) \/ Perform(k) \/ Depart(k)
    BY <1>2, <2>4, AnnounceRests, PerformRests, DepartRests
  <2> QED
    BY <1>4, <2>1, <2>2, <2>3, <2>4 DEF ServerStep
<1>5. ASSUME NEW c \in Clients, DriverStep(c) PROVE RestIs'
  BY <1>2, <1>5, ApplySnapshotRests, IgnoreSnapshotRests, DisconnectedRests DEF DriverStep
<1>6. ASSUME NEW task \in tasks, TaskStep(task) PROVE RestIs'
  <2>1. CASE TryConnect(task) \/ FallBackToNew(task)
    BY <1>1, <1>2, <2>1, ConnectedRests
  <2>2. CASE Retry(task) \/ Cancelled(task)
    BY <1>2, <2>2, TaskEndRests
  <2>3. CASE Rekey(task) \/ DropSession(task)
    BY <1>1, <1>2, <2>3, RekeyRests, DropSessionRests
  <2> QED
    BY <1>6, <2>1, <2>2, <2>3 DEF TaskStep
<1>7. ASSUME NEW t, Expire(t) PROVE RestIs'
  BY <1>2, <1>7, UnseenRests DEF Expire, window
<1>8. CASE UserStep
  <2>1. CASE OpenTab \/ MountTab
    BY <1>1, <1>2, <2>1, OpenTabRests, MountTabRests
  <2>2. CASE OpenFailed
    BY <1>2, <2>2, TaskEndRests
  <2>3. CASE MoveTab \/ \E c \in Clients : ActivateTab(c) \/ CloseTab(c)
    <3>1. \E c, op, position : Command(c, op, position)
      BY <2>3 DEF MoveTab, ActivateTab, CloseTab
    <3> QED
      BY <1>2, <3>1, UnseenRests DEF Command, server
  <2> QED
    BY <1>8, <2>1, <2>2, <2>3 DEF UserStep
<1> QED
  BY <1>3, <1>4, <1>5, <1>6, <1>7, <1>8 DEF Next

LEMMA RestStep ==
    ASSUME TabsInv, TabsInv', StoryInv, RestInv, [Next]_vars, reg'.tabs # <<>>
    PROVE  RestInv'
<1>1. ~Restart
  <2>1. Restart => reg'.tabs = <<>>
    BY DEF Restart, NewRegistry
  <2> QED
    BY <2>1
<1>2. count'.restarts = 0
  BY <1>1, OthersCountNone DEF RestInv
<1>3. RestIs'
  BY <1>1, RestGoes
<1> QED
  BY <1>2, <1>3 DEF RestInv

(* At rest the newest revision has arrived, so the window's list is the    *)
(* registry's, but for tabs that nobody in the window has a session for.   *)
LEMMA RestMeansSame ==
    ASSUME TabsInv, NEW a, NEW o, NEW S, Rest(a, o, S), AtRest
    PROVE  SameList
<1>1. /\ a \in Nat /\ OneEach /\ Relays(a) /\ SnapsAgree(a, o, S) /\ WindowKnows(o, S)
      /\ reg.tabs \in Seq(Row) /\ Distinct(reg.tabs) /\ Clients \subseteq Conns
  BY DEF Rest, LinksFit, TabsInv, ServerInv, RegistryInv, GoodRegistry, Registry, DriverInv
<1>2. CASE Clients = {}
  <2>1. OwnTabs = {}
    BY <1>2 DEF OwnTabs
  <2> QED
    BY <2>1 DEF SameList
<1>3. CASE Clients # {}
  <2>1. Ahead(mirror, o)
    <3>1. PICK c \in Clients : TRUE
      BY <1>3
    <3>2. lane[c] = <<>> /\ conn[c].phase # "closed" /\ ~Returns(c)
      BY <1>1, <3>1 DEF AtRest, OneEach, Returns
    <3>3. last >= a
      BY <1>1, <3>1, <3>2 DEF Relays, Ends, Stops, Carries
    <3> QED
      BY <1>1, <3>3 DEF WindowKnows, SnapsAgree
  <2>2. ASSUME NEW t \in OwnTabs PROVE Known(t, o)
    <3>1. ASSUME NEW c \in Clients PROVE Known(tab_for_client(reg, c), o)
      <4>1. ASSUME NEW i \in 1..Len(reg.tabs), reg.tabs[i].client = c
            PROVE  Known(reg.tabs[i].tab, o)
        <5>1. i \in DOMAIN reg.tabs /\ reply[c] = "session" /\ MadeBy(reg.tabs, o)
          BY <1>1 DEF OneEach, SnapsAgree
        <5> QED
          BY <1>1, <4>1, <5>1, RowIs DEF MadeBy, Known
      <4> QED
        BY <1>1, <4>1, ClientTabIs DEF Known
    <3> QED
      BY <1>1, <3>1 DEF OwnTabs, WindowKnows
  <2>3. Prefix(mirror.tabs, reg.tabs)
    BY <2>1 DEF Ahead
  <2>4. ASSUME NEW t \in OwnTabs, t \in TabIds(reg.tabs) PROVE t \in TabIds(mirror.tabs)
    <3>1. t # NoTab
      BY <1>1, <2>4, RowIs DEF TabIds
    <3> QED
      BY <2>1, <2>2, <2>4, <3>1 DEF Ahead, Known
  <2>5. TabIds(mirror.tabs) \subseteq TabIds(reg.tabs)
    BY <2>3 DEF Prefix, TabIds
  <2>6. ASSUME NEW t \in OwnTabs, NEW u \in OwnTabs
        PROVE  Before(mirror.tabs, t, u) <=> Before(reg.tabs, t, u)
    <3>1. Before(mirror.tabs, t, u) => Before(reg.tabs, t, u)
      BY <2>3 DEF Before, Prefix
    <3>2. ASSUME Before(reg.tabs, t, u) PROVE Before(mirror.tabs, t, u)
      <4>1. PICK i, j \in DOMAIN reg.tabs : i < j /\ reg.tabs[i].tab = t /\ reg.tabs[j].tab = u
        BY <3>2 DEF Before
      <4>2. PICK m, n \in DOMAIN mirror.tabs : mirror.tabs[m].tab = t /\ mirror.tabs[n].tab = u
        BY <2>4, <4>1 DEF TabIds
      <4>3. m = i /\ n = j
        BY <1>1, <2>3, <4>1, <4>2 DEF Prefix, Distinct
      <4> QED
        BY <4>1, <4>2, <4>3 DEF Before
    <3> QED
      BY <3>1, <3>2
  <2> QED
    BY <2>4, <2>5, <2>6 DEF SameList
<1> QED
  BY <1>2, <1>3

(* While the registry is in use, a window at rest lists the tabs that the  *)
(* registry lists, in its order, however the relays of its connections     *)
(* were interleaved, cut short and resumed by a reconnect.                 *)
THEOREM WindowsAgreeAtRest == Spec => WindowAgreesAtRest
<1>1. Init => RestInv
  BY InitRests DEF Init, RestInv
<1>2. TabsInv /\ TabsInv' /\ StoryInv /\ RestInv /\ [Next]_vars /\ (reg.tabs # <<>>)' => RestInv'
  BY RestStep
<1>3. TabsInv /\ RestInv => (AtRest => SameList)
  BY RestMeansSame DEF RestInv, RestIs
<1> QED
  BY <1>1, <1>2, <1>3, TabsInvariant, StoryInvariant, PTL
  DEF Spec, WindowAgreesAtRest, NeverEmpty
=============================================================================
