----------------------- MODULE ProviderRequestsProofs -----------------------
(***************************************************************************)
(* Requests for completions and for language intelligence: types, the menu *)
(* fits the text it is shown for, and no request is forgotten or answered  *)
(* twice, for any number of clients, requests, edits and reloads and any   *)
(* capacity of the lanes.                                                  *)
(***************************************************************************)
EXTENDS ProviderRequests, FiniteSetTheorems, TLAPS

-----------------------------------------------------------------------------
(* The inductive invariant.                                                *)

Request ==
    [client : Clients, lane : Lanes, version : Int, text : Nat,
     generation : Nat,
     task : {"none", "running", "returned", "failed", "fresh", "stale",
             "valid", "ended"},
     aborted : BOOLEAN,
     reply : {"none", "open", "sent", "closed", "taken"},
     answer : {"none", "result", "fallback", "status", "silent", "lost"}]
TaskEntry == [generation : Nat, client : Clients, task : Nat]
Handler == {Idle} \union [at : {"chosen", "spawned"}, request : Nat]
Menu == {NoMenu} \union [request : Nat \ {0}, version : Int]
Pane == [confirmed : Nat, pending : Int, text : Nat,
         waiting : [Lanes -> Nat], menu : Menu]
ToServer == {EditMessage} \union [kind : {"request"}, request : Nat]
ToClient == [kind : {"ack"}, version : Nat] \union
            [kind : {"result"}, request : Nat]

CoordinatorTypes ==
    /\ version \in Nat \ {0} /\ committed \in Nat \ {0} /\ edits \in Nat
    /\ registered \in [Lanes -> Nat]
    /\ current \in [Lanes -> [version : Int, generation : Nat]]
    /\ active \in [Lanes -> SUBSET TaskEntry]
    /\ requests \in Seq(Request)
MailTypes ==
    /\ handler \in [Clients -> Handler]
    /\ toServer \in [Clients -> Seq(ToServer)]
    /\ toClient \in [Clients -> Seq(ToClient)]
    /\ results \in [Clients -> [Lanes -> Seq(Nat)]]
    /\ pane \in [Clients -> Pane]

(* A message that names a request comes from, or goes to, the client that  *)
(* made it; one that the server has not looked at is still untouched.      *)
Untouched(r, c, reqs) ==
    /\ r \in DOMAIN reqs
    /\ reqs[r].client = c
    /\ reqs[r].task = "none" /\ reqs[r].reply = "none" /\ reqs[r].answer = "none"
SentMail(q, c, reqs) ==
    /\ \A i \in DOMAIN q : q[i].kind = "request" => Untouched(q[i].request, c, reqs)
    /\ \A i, j \in DOMAIN q : i < j /\ q[i].kind = "request" /\ q[j].kind = "request"
                                 => q[i].request < q[j].request
HandledMail(h, q, c, reqs) ==
    h # Idle =>
        /\ h.request \in DOMAIN reqs
        /\ reqs[h.request].client = c
        /\ h.at = "chosen" => /\ Untouched(h.request, c, reqs)
                              /\ reqs[h.request].lane = "completion"
        /\ \A i \in DOMAIN q : q[i].kind = "request" => h.request < q[i].request
AnswerMail(q, c, reqs) ==
    \A i \in DOMAIN q : q[i].kind = "result" =>
        q[i].request \in DOMAIN reqs /\ reqs[q[i].request].client = c
ResultLane(q, c, l, reqs) ==
    /\ Len(q) <= LaneCapacity
    /\ \A i \in DOMAIN q : /\ q[i] \in DOMAIN reqs
                           /\ reqs[q[i]].client = c /\ reqs[q[i]].lane = l
MailInv ==
    \A c \in Clients :
        /\ SentMail(toServer[c], c, requests)
        /\ HandledMail(handler[c], toServer[c], c, requests)
        /\ AnswerMail(toClient[c], c, requests)
        /\ \A l \in Lanes : ResultLane(results[c][l], c, l, requests)

(* A pane waits for a request of its own, and for a completion only while  *)
(* its text is the one the request was made for.                           *)
WaitsWell(p, c, l, reqs) ==
    p.waiting[l] # None =>
        /\ p.waiting[l] \in DOMAIN reqs
        /\ reqs[p.waiting[l]].client = c /\ reqs[p.waiting[l]].lane = l
        /\ l = "completion" => reqs[p.waiting[l]].text = p.text
PaneInv ==
    \A c \in Clients :
        /\ \A l \in Lanes : WaitsWell(pane[c], c, l, requests)
        /\ pane[c].menu.request \in Requests \union {None}

(* The entries name requests of the client, and the bounds are kept.       *)
BoundsInv ==
    /\ Len(requests) <= MaxRequests
    /\ committed <= MaxChanges + 1
    /\ edits <= MaxChanges
    /\ \A l \in Lanes : /\ registered[l] <= MaxChanges + 1
                        /\ \A e \in active[l] : e.task \in Requests

(* Every edit is on its way to the server, or is counted by its version;   *)
(* the writer's pending edits are those and the ones whose acknowledgement *)
(* is on its way.                                                          *)
Places(q, kind) == {i \in DOMAIN q : q[i].kind = kind}
Count(q, kind) == Cardinality(Places(q, kind))
CountInv ==
    /\ version + Count(toServer[Writer], "edit") = edits + 1
    /\ Count(toClient[Writer], "ack") < version
    /\ pane[Writer].pending = Count(toServer[Writer], "edit")
                                 + Count(toClient[Writer], "ack")
    /\ \A c \in Readers : /\ Places(toServer[c], "edit") = {}
                          /\ Places(toClient[c], "ack") = {}
                          /\ pane[c].pending = 0

(* A reply that is still owed has not been answered, and an open one has a *)
(* task that will settle it.                                               *)
Unsettled == {"running", "returned", "failed", "fresh", "stale", "valid"}
RepliesInv ==
    \A r \in Requests :
        /\ requests[r].reply \in {"open", "sent", "closed"} => requests[r].answer = "none"
        /\ requests[r].reply = "open" => requests[r].task \in Unsettled
        /\ requests[r].task = "none" => requests[r].reply = "none"

(* Who has to answer a request: it is on its way to the server, with the   *)
(* handler, or with the task that waits for the provider's reply.          *)
Carried(r) ==
    LET c == requests[r].client
    IN  \/ \E i \in DOMAIN toServer[c] :
               toServer[c][i].kind = "request" /\ toServer[c][i].request = r
        \/ handler[c].at = "chosen" /\ handler[c].request = r
        \/ requests[r].reply \in {"open", "sent", "closed"}
CarriedInv == \A r \in Requests : requests[r].answer = "none" => Carried(r)

RequestsInv == /\ CoordinatorTypes /\ MailTypes /\ BoundsInv /\ MailInv /\ PaneInv
               /\ CountInv /\ RepliesInv /\ CarriedInv

-----------------------------------------------------------------------------
(* Sequences                                                               *)

\* What is appended comes last, and the rest stays where it is.
LEMMA Appended ==
    ASSUME NEW T, NEW q \in Seq(T), NEW x \in T
    PROVE  /\ Append(q, x) \in Seq(T)
           /\ Len(Append(q, x)) = Len(q) + 1
           /\ DOMAIN q = 1..Len(q) /\ DOMAIN Append(q, x) = 1..(Len(q) + 1)
           /\ \A i \in 1..Len(q) : Append(q, x)[i] = q[i]
           /\ Append(q, x)[Len(q) + 1] = x
OBVIOUS

\* A tail is the rest, one place earlier.
LEMMA Taken ==
    ASSUME NEW T, NEW q \in Seq(T), q # <<>>
    PROVE  /\ Head(q) \in T /\ Head(q) = q[1] /\ Tail(q) \in Seq(T)
           /\ Len(q) \in Nat \ {0} /\ Len(Tail(q)) = Len(q) - 1
           /\ DOMAIN q = 1..Len(q) /\ DOMAIN Tail(q) = 1..(Len(q) - 1)
           /\ \A i \in 1..(Len(q) - 1) : Tail(q)[i] = q[i + 1]
OBVIOUS

\* A function with the domain of a sequence is one.
LEMMA Rewritten ==
    ASSUME NEW T, NEW q \in Seq(T), NEW f, f = [i \in DOMAIN q |-> f[i]],
           \A i \in DOMAIN q : f[i] \in T
    PROVE  f \in Seq(T) /\ Len(f) = Len(q) /\ DOMAIN f = DOMAIN q
<1>1. DOMAIN q = 1..Len(q) /\ Len(q) \in Nat
  OBVIOUS
<1>2. f \in [1..Len(q) -> T]
  BY <1>1
<1> QED
  BY <1>1, <1>2

\* Appending a message adds its place, if it is of the kind.
LEMMA CountAppended ==
    ASSUME NEW T, NEW q \in Seq(T), NEW x \in T, NEW kind
    PROVE  /\ IsFiniteSet(Places(q, kind)) /\ Count(q, kind) \in Nat
           /\ x.kind = kind => Count(Append(q, x), kind) = Count(q, kind) + 1
           /\ x.kind # kind => /\ Count(Append(q, x), kind) = Count(q, kind)
                               /\ Places(Append(q, x), kind) = Places(q, kind)
<1>1. /\ DOMAIN q = 1..Len(q) /\ DOMAIN Append(q, x) = 1..(Len(q) + 1)
      /\ \A i \in 1..Len(q) : Append(q, x)[i] = q[i]
      /\ Append(q, x)[Len(q) + 1] = x /\ Len(q) \in Nat
  BY Appended
<1>2. Places(q, kind) \subseteq 1..Len(q)
  BY <1>1 DEF Places
<1>3. IsFiniteSet(Places(q, kind)) /\ Count(q, kind) \in Nat
  <2>1. IsFiniteSet(1..Len(q))
    BY <1>1, FS_Interval
  <2>2. IsFiniteSet(Places(q, kind))
    BY <1>2, <2>1, FS_Subset
  <2> QED
    BY <2>2, FS_CardinalityType DEF Count
<1>4. CASE x.kind = kind
  <2>1. Places(Append(q, x), kind) = Places(q, kind) \union {Len(q) + 1}
    BY <1>1, <1>4 DEF Places
  <2>2. Len(q) + 1 \notin Places(q, kind)
    BY <1>1, <1>2
  <2> QED
    BY <1>3, <1>4, <2>1, <2>2, FS_AddElement DEF Count
<1>5. CASE x.kind # kind
  <2>1. Places(Append(q, x), kind) = Places(q, kind)
    BY <1>1, <1>5 DEF Places
  <2> QED
    BY <1>3, <1>5, <2>1 DEF Count
<1> QED
  BY <1>3, <1>4, <1>5

\* Taking the head removes its place, if it is of the kind.
LEMMA CountTaken ==
    ASSUME NEW T, NEW q \in Seq(T), q # <<>>, NEW kind
    PROVE  /\ Count(Tail(q), kind) \in Nat
           /\ Head(q).kind = kind => /\ Count(Tail(q), kind) + 1 = Count(q, kind)
                                     /\ Places(q, kind) # {}
           /\ Head(q).kind # kind => Count(Tail(q), kind) = Count(q, kind)
           /\ Places(q, kind) = {} => Places(Tail(q), kind) = {}
<1> DEFINE n == Len(q) - 1
           later == {i \in 2..Len(q) : q[i].kind = kind}
           move == [i \in Places(Tail(q), kind) |-> i + 1]
<1>1. /\ Head(q) = q[1] /\ Len(q) \in Nat \ {0}
      /\ DOMAIN q = 1..Len(q) /\ DOMAIN Tail(q) = 1..n
      /\ \A i \in 1..n : Tail(q)[i] = q[i + 1]
  BY Taken
<1>2. Places(Tail(q), kind) \subseteq 1..n /\ later \subseteq 1..Len(q)
  BY <1>1 DEF Places
<1>3. IsFiniteSet(Places(Tail(q), kind)) /\ IsFiniteSet(later)
      /\ Count(Tail(q), kind) \in Nat /\ Cardinality(later) \in Nat
  <2>1. IsFiniteSet(1..Len(q)) /\ IsFiniteSet(1..n)
    BY <1>1, FS_Interval
  <2> HIDE DEF later, n
  <2>2. IsFiniteSet(Places(Tail(q), kind)) /\ IsFiniteSet(later)
    BY <1>2, <2>1, FS_Subset
  <2> QED
    BY <2>2, FS_CardinalityType DEF Count
<1>4. move \in Bijection(Places(Tail(q), kind), later)
  <2>1. \A i \in Places(Tail(q), kind) : i + 1 \in later
    BY <1>1 DEF Places
  <2>2. \A j \in later : j - 1 \in Places(Tail(q), kind)
    BY <1>1 DEF Places
  <2>3. \A i, k \in Places(Tail(q), kind) : i + 1 = k + 1 => i = k
    BY <1>1 DEF Places
  <2>4. move \in [Places(Tail(q), kind) -> later]
    BY <2>1
  <2>5. \A j \in later : \E i \in Places(Tail(q), kind) : move[i] = j
    BY <2>2, <1>1
  <2> QED
    BY <2>3, <2>4, <2>5 DEF Bijection, Injection, Surjection, IsInjective
<1>5. Count(Tail(q), kind) = Cardinality(later)
  BY <1>3, <1>4, FS_Bijection DEF Count, ExistsBijection
<1>6. Places(q, kind) = {} => Places(Tail(q), kind) = {}
  BY <1>1 DEF Places
<1>7. CASE Head(q).kind = kind
  <2>1. Places(q, kind) = later \union {1} /\ 1 \notin later
    BY <1>1, <1>7 DEF Places
  <2> HIDE DEF later
  <2>2. Count(q, kind) = Cardinality(later) + 1
    BY <1>3, <2>1, FS_AddElement DEF Count
  <2>3. Places(q, kind) # {}
    BY <2>1
  <2> QED
    BY <1>3, <1>5, <1>7, <2>2, <2>3
<1>8. CASE Head(q).kind # kind
  <2>1. Places(q, kind) = later
    BY <1>1, <1>8 DEF Places
  <2> HIDE DEF later
  <2> QED
    BY <1>3, <1>5, <1>8, <1>6, <2>1 DEF Count
<1> HIDE DEF later
<1> QED
  BY <1>3, <1>7, <1>8, <1>6

-----------------------------------------------------------------------------
(* Requests                                                                *)

LEMMA LaneNames == \A l \in Lanes : l \in {"completion", "intelligence"}
BY ProviderConstants

LEMMA RequestFields ==
    ASSUME NEW x \in Request
    PROVE  /\ x.client \in Clients /\ x.lane \in Lanes /\ x.version \in Int
           /\ x.text \in Nat /\ x.generation \in Nat /\ x.aborted \in BOOLEAN
           /\ x.task \in Unsettled \union {"none", "ended"}
           /\ x.reply \in {"none", "open", "sent", "closed", "taken"}
           /\ x.answer \in {"none", "result", "fallback", "status", "silent", "lost"}
BY DEF Request, Unsettled

\* Who asked what, and on which text, never changes.
SameAsked(x, y) ==
    x.client = y.client /\ x.lane = y.lane /\ x.version = y.version /\ x.text = y.text

\* The state of a request's task, reply and answer.
SameFate(x, y) == x.task = y.task /\ x.reply = y.reply /\ x.answer = y.answer

\* A new request is the last one, and untouched.
LEMMA AskedRequests ==
    ASSUME CoordinatorTypes, NEW c \in Clients, NEW l \in Lanes, NEW p \in Pane,
           NEW messages, Ask(c, l, p, messages)
    PROVE  /\ requests' \in Seq(Request)
           /\ Len(requests') = Len(requests) + 1 /\ Len(requests') <= MaxRequests
           /\ DOMAIN requests = 1..Len(requests)
           /\ DOMAIN requests' = 1..(Len(requests) + 1)
           /\ \A r \in Requests : requests'[r] = requests[r]
           /\ LET x == requests'[Len(requests) + 1]
              IN  /\ x.client = c /\ x.lane = l /\ x.text = p.text
                  /\ x.task = "none" /\ x.reply = "none" /\ x.answer = "none"
<1>1. NewRequest(c, l, p) \in Request
  BY DEF NewRequest, Stamp, optimistic_version, Request, Pane
<1>2. requests \in Seq(Request) /\ requests' = Append(requests, NewRequest(c, l, p))
  BY DEF CoordinatorTypes, Ask
<1>3. Len(requests) + 1 <= MaxRequests
  BY DEF Ask, NextRequest
<1>4. /\ NewRequest(c, l, p).client = c /\ NewRequest(c, l, p).lane = l
      /\ NewRequest(c, l, p).text = p.text /\ NewRequest(c, l, p).task = "none"
      /\ NewRequest(c, l, p).reply = "none" /\ NewRequest(c, l, p).answer = "none"
  BY DEF NewRequest
<1> HIDE DEF NewRequest
<1> QED
  BY <1>1, <1>2, <1>3, <1>4, Appended DEF Requests

\* Requests whose tasks are aborted keep everything else.
LEMMA AbortedRequests ==
    ASSUME CoordinatorTypes, NEW gone
    PROVE  LET new == Aborting(requests, gone)
           IN  /\ new \in Seq(Request) /\ Len(new) = Len(requests)
               /\ DOMAIN new = DOMAIN requests
               /\ \A r \in Requests : SameAsked(new[r], requests[r])
                                      /\ SameFate(new[r], requests[r])
<1> DEFINE new == Aborting(requests, gone)
<1>1. requests \in Seq(Request) /\ \A r \in Requests : requests[r] \in Request
  BY DEF CoordinatorTypes, Requests
<1>2. /\ new = [r \in DOMAIN requests |-> new[r]]
      /\ \A r \in Requests : new[r] \in {requests[r], [requests[r] EXCEPT !.aborted = TRUE]}
  BY DEF Aborting, Requests
<1>3. ASSUME NEW x \in Request
      PROVE  LET y == [x EXCEPT !.aborted = TRUE]
             IN  y \in Request /\ SameAsked(y, x) /\ SameFate(y, x)
  BY DEF Request, SameAsked, SameFate
<1>4. \A r \in Requests : /\ new[r] \in Request
                          /\ SameAsked(new[r], requests[r]) /\ SameFate(new[r], requests[r])
  BY <1>1, <1>2, <1>3, ZenonT(40) DEF SameAsked, SameFate
<1>5. new \in Seq(Request) /\ Len(new) = Len(requests) /\ DOMAIN new = DOMAIN requests
  <2> HIDE DEF new
  <2> QED
    BY <1>1, <1>2, <1>4, Rewritten DEF Requests
<1> QED
  BY <1>4, <1>5

\* One request changes.
LEMMA ChangedRequest ==
    ASSUME NEW reqs \in Seq(Request), NEW r \in DOMAIN reqs, NEW x \in Request
    PROVE  LET new == [reqs EXCEPT ![r] = x]
           IN  /\ new \in Seq(Request) /\ Len(new) = Len(reqs)
               /\ DOMAIN new = DOMAIN reqs /\ new[r] = x
               /\ \A s \in DOMAIN reqs : s # r => new[s] = reqs[s]
<1> DEFINE new == [reqs EXCEPT ![r] = x]
<1>1. \A i \in DOMAIN reqs : reqs[i] \in Request
  OBVIOUS
<1>2. new = [i \in DOMAIN reqs |-> new[i]] /\ \A i \in DOMAIN reqs : new[i] \in Request
  BY <1>1
<1>3. new \in Seq(Request) /\ Len(new) = Len(reqs) /\ DOMAIN new = DOMAIN reqs
  <2> HIDE DEF new
  <2> QED
    BY <1>2, Rewritten
<1> QED
  BY <1>3

-----------------------------------------------------------------------------
(* What each step does to the requests.                                    *)

Evolve ==
    /\ requests' \in Seq(Request)
    /\ Len(requests') <= MaxRequests
    /\ Requests \subseteq DOMAIN requests'
    /\ \A r \in Requests : SameAsked(requests'[r], requests[r])

\* No request is new, and those that nobody has scheduled stay untouched.
Steady ==
    /\ Evolve
    /\ DOMAIN requests' = Requests
    /\ \A r \in Requests : requests[r].task = "none" => SameFate(requests'[r], requests[r])

\* Only the request r changes its fate.
Only(r) ==
    \A s \in Requests : s # r => SameFate(requests'[s], requests[s])

TypesInv == CoordinatorTypes /\ MailTypes /\ BoundsInv

LEMMA UnchangedRequests ==
    ASSUME TypesInv, UNCHANGED requests
    PROVE  Steady /\ \A r : Only(r)
BY DEF TypesInv, CoordinatorTypes, BoundsInv, Steady, Evolve, Only, SameAsked, SameFate, Requests

LEMMA AbortingSteps ==
    ASSUME TypesInv, NEW gone, requests' = Aborting(requests, gone)
    PROVE  Steady /\ \A r : Only(r)
BY AbortedRequests DEF TypesInv, BoundsInv, Steady, Evolve, Only, Requests

\* The steps of a request's task, and of the one that waits for its reply.
TaskOrReply(r) == TaskStep(r) \/ Await(r)

LEMMA OneRequest ==
    ASSUME TypesInv, NEW r \in Requests, NEW x \in Request,
           SameAsked(x, requests[r]), requests' = [requests EXCEPT ![r] = x],
           requests[r].task # "none" \/ SameFate(x, requests[r])
    PROVE  Steady /\ Only(r) /\ requests'[r] = x
<1>1. requests \in Seq(Request) /\ r \in DOMAIN requests
  BY DEF TypesInv, CoordinatorTypes, Requests
<1>2. /\ requests' \in Seq(Request) /\ Len(requests') = Len(requests)
      /\ DOMAIN requests' = DOMAIN requests /\ requests'[r] = x
      /\ \A s \in DOMAIN requests : s # r => requests'[s] = requests[s]
  BY <1>1, ChangedRequest
<1> QED
  BY <1>1, <1>2 DEF TypesInv, BoundsInv, Steady, Evolve, Only, Requests, SameAsked, SameFate

\* What becomes of the fate of a request in a step of its task.
Fates(t, y, a) ==
    \/ /\ t[1] \in Unsettled /\ t[2] \in Unsettled /\ y[1] = y[2] /\ a[1] = a[2]
    \/ /\ t[1] \in Unsettled /\ t[2] = "ended" /\ a[1] = a[2]
       /\ IF y[1] = "open" THEN y[2] \in {"sent", "closed"} ELSE y[2] = y[1]
    \/ /\ t[1] = t[2] /\ y[1] \in {"open", "sent", "closed"} /\ y[2] = "taken"
       /\ a[2] # "none"
Fate(x, y) == Fates(<<x.task, y.task>>, <<x.reply, y.reply>>, <<x.answer, y.answer>>)

Become(x, t, p, a) == [x EXCEPT !.task = t, !.reply = p, !.answer = a]

LEMMA TaskChanges ==
    ASSUME NEW x \in Request, NEW t \in Unsettled \union {"none", "ended"},
           NEW p \in {"none", "open", "sent", "closed", "taken"},
           NEW a \in {"none", "result", "fallback", "status", "silent", "lost"}
    PROVE  /\ Become(x, t, p, a) \in Request /\ SameAsked(Become(x, t, p, a), x)
<1>1. Become(x, t, p, a) \in Request
  BY DEF Become, Request, Unsettled
<1>2. SameAsked(Become(x, t, p, a), x)
  BY DEF Become, Request, SameAsked
<1> QED
  BY <1>1, <1>2

LEMMA TaskSteps ==
    ASSUME TypesInv, RepliesInv, NEW r \in Requests, TaskOrReply(r)
    PROVE  Steady /\ Only(r) /\ Fate(requests[r], requests'[r])
<1> DEFINE x == requests[r]
<1>1. x \in Request /\ requests \in Seq(Request) /\ r \in DOMAIN requests
  BY DEF TypesInv, CoordinatorTypes, Requests
<1>2. /\ x.task \in Unsettled \union {"none", "ended"}
      /\ x.reply \in {"none", "open", "sent", "closed", "taken"}
      /\ x.answer \in {"none", "result", "fallback", "status", "silent", "lost"}
      /\ x.task = "none" => x.reply = "none"
      /\ x = [x EXCEPT !.reply = x.reply, !.answer = x.answer]
      /\ x = [x EXCEPT !.answer = x.answer]
  BY <1>1, RequestFields DEF RepliesInv, Request
<1>3. ASSUME NEW t \in Unsettled \union {"none", "ended"},
             NEW p \in {"none", "open", "sent", "closed", "taken"},
             NEW a \in {"none", "result", "fallback", "status", "silent", "lost"},
             requests' = [requests EXCEPT ![r] = Become(x, t, p, a)],
             Fates(<<x.task, t>>, <<x.reply, p>>, <<x.answer, a>>)
      PROVE  Steady /\ Only(r) /\ Fate(x, requests'[r])
  <2> HIDE DEF x
  <2>1. /\ Become(x, t, p, a) \in Request /\ SameAsked(Become(x, t, p, a), x)
        /\ Become(x, t, p, a).task = t /\ Become(x, t, p, a).reply = p /\ Become(x, t, p, a).answer = a
    <3>1. x \in Request
      BY <1>1
    <3>2. /\ t \in Unsettled \union {"none", "ended"}
          /\ p \in {"none", "open", "sent", "closed", "taken"}
          /\ a \in {"none", "result", "fallback", "status", "silent", "lost"}
      BY <1>3
    <3>3. Become(x, t, p, a) \in Request /\ SameAsked(Become(x, t, p, a), x)
      BY ONLY <3>1, <3>2, TaskChanges
    <3> QED
      BY <3>1, <3>3 DEF Become, Request
  <2>2. x.task # "none"
    BY <1>2, <1>3 DEF Fates, Unsettled
  <2>3. Steady /\ Only(r) /\ requests'[r] = Become(x, t, p, a)
    BY <1>3, <2>1, <2>2, OneRequest DEF x
  <2> QED
    BY <1>3, <2>1, <2>3 DEF Fate
<1>4. CASE ProviderReturns(r)
  <2>1. PICK t \in {"returned", "failed"} : x.task = "running" /\ requests' = [requests EXCEPT ![r].task = t]
    BY <1>4 DEF ProviderReturns, Task
  <2>2. requests' = [requests EXCEPT ![r] = Become(x, t, x.reply, x.answer)]
    BY <1>1, <2>1 DEF Become, Request
  <2>3. Fates(<<x.task, t>>, <<x.reply, x.reply>>, <<x.answer, x.answer>>)
    BY <2>1 DEF Fates, Unsettled
  <2> QED
    BY <1>2, <1>3, <2>2, <2>3 DEF Unsettled
<1>5. CASE DropTask(r)
  <2> DEFINE p == IF x.reply = "open" THEN "closed" ELSE x.reply
  <2>1. x.task = "running"
        /\ requests' = [requests EXCEPT ![r].task = "ended", ![r].reply = p]
    BY <1>1, <1>5 DEF DropTask
  <2>2. requests' = [requests EXCEPT ![r] = Become(x, "ended", p, x.answer)]
    BY <1>1, <2>1 DEF Become, Request
  <2>3. Fates(<<x.task, "ended">>, <<x.reply, p>>, <<x.answer, x.answer>>)
    BY <2>1 DEF Fates, Unsettled
  <2>4. p \in {"none", "open", "sent", "closed", "taken"}
    BY <1>2
  <2> HIDE DEF p
  <2> QED
    BY <1>2, <1>3, <2>2, <2>3, <2>4
<1>6. CASE CheckFreshness(r)
  <2>1. PICK t \in {"fresh", "stale"} : x.task = "returned" /\ requests' = [requests EXCEPT ![r].task = t]
    BY <1>6 DEF CheckFreshness, Task
  <2>2. requests' = [requests EXCEPT ![r] = Become(x, t, x.reply, x.answer)]
    BY <1>1, <2>1 DEF Become, Request
  <2>3. Fates(<<x.task, t>>, <<x.reply, x.reply>>, <<x.answer, x.answer>>)
    BY <2>1 DEF Fates, Unsettled
  <2> QED
    BY <1>2, <1>3, <2>2, <2>3 DEF Unsettled
<1>7. CASE CheckResult(r)
  <2>1. PICK t \in {"valid", "stale"} : x.task = "fresh" /\ requests' = [requests EXCEPT ![r].task = t]
    BY <1>7 DEF CheckResult, Task
  <2>2. requests' = [requests EXCEPT ![r] = Become(x, t, x.reply, x.answer)]
    BY <1>1, <2>1 DEF Become, Request
  <2>3. Fates(<<x.task, t>>, <<x.reply, x.reply>>, <<x.answer, x.answer>>)
    BY <2>1 DEF Fates, Unsettled
  <2> QED
    BY <1>2, <1>3, <2>2, <2>3 DEF Unsettled
<1>8. CASE Finish(r)
  <2> DEFINE p == IF x.reply # "open" THEN x.reply ELSE IF Replied(r) THEN "sent" ELSE "closed"
  <2>1. x.task \in {"failed", "stale", "valid"}
        /\ requests' = [requests EXCEPT ![r].task = "ended", ![r].reply = p]
    BY <1>1, <1>8 DEF Finish
  <2>2. requests' = [requests EXCEPT ![r] = Become(x, "ended", p, x.answer)]
    BY <1>1, <2>1 DEF Become, Request
  <2>3. Fates(<<x.task, "ended">>, <<x.reply, p>>, <<x.answer, x.answer>>)
    BY <2>1 DEF Fates, Unsettled
  <2>4. p \in {"none", "open", "sent", "closed", "taken"}
    BY <1>2
  <2> HIDE DEF p
  <2> QED
    BY <1>2, <1>3, <2>2, <2>3, <2>4
<1>9. CASE Await(r)
  <2>1. PICK a \in {"result", "fallback", "silent", "lost"} :
            /\ x.reply \in {"open", "sent", "closed"}
            /\ requests' = [requests EXCEPT ![r].reply = "taken", ![r].answer = a]
    BY <1>9 DEF Await, Deliver
  <2>2. requests' = [requests EXCEPT ![r] = Become(x, x.task, "taken", a)]
    BY <1>1, <2>1 DEF Become, Request
  <2>3. Fates(<<x.task, x.task>>, <<x.reply, "taken">>, <<x.answer, a>>)
    BY <2>1 DEF Fates
  <2> QED
    BY <1>2, <1>3, <2>2, <2>3
<1> HIDE DEF x
<1> QED
  BY <1>4, <1>5, <1>6, <1>7, <1>8, <1>9 DEF TaskOrReply, TaskStep, x

-----------------------------------------------------------------------------
(* The handler's steps for a request.                                      *)

\* The request at the head of what a client sent has not been looked at.
LEMMA HeadIsUntouched ==
    ASSUME TypesInv, MailInv, NEW c \in Clients, Serving(c, "request")
    PROVE  /\ handler[c] = Idle /\ toServer[c] \in Seq(ToServer) /\ toServer[c] # <<>>
           /\ Head(toServer[c]).kind = "request"
           /\ Untouched(Head(toServer[c]).request, c, requests)
<1>1. toServer[c] \in Seq(ToServer) /\ toServer[c] # <<>> /\ handler[c] = Idle
      /\ Head(toServer[c]).kind = "request"
  BY DEF TypesInv, MailTypes, Serving
<1>2. 1 \in DOMAIN toServer[c] /\ toServer[c][1] = Head(toServer[c])
  BY <1>1, Taken
<1>3. Untouched(toServer[c][1].request, c, requests)
  BY <1>1, <1>2 DEF MailInv, SentMail
<1> QED
  BY <1>1, <1>2, <1>3

\* An answer written to the stream.
Answered(c, r) ==
    /\ requests'[r].task = "none" /\ requests'[r].reply = "none"
    /\ requests'[r].answer # "none"
    /\ toClient' = [toClient EXCEPT ![c] = Append(@, [kind |-> "result", request |-> r])]
    /\ handler' = [handler EXCEPT ![c] = Idle]
    /\ UNCHANGED <<current, active>>

\* A provider chosen for the request.
Chosen(c, r) ==
    /\ SameFate(requests'[r], requests[r])
    /\ requests[r].lane = "completion"
    /\ handler' = [handler EXCEPT ![c] = [at |-> "chosen", request |-> r]]
    /\ UNCHANGED <<toClient, current, active>>

\* The provider's task spawned.
Spawned(c, r) ==
    /\ requests'[r].task = "running" /\ requests'[r].reply = "open"
    /\ requests'[r].answer = "none"
    /\ handler' = [handler EXCEPT ![c] = [at |-> "spawned", request |-> r]]
    /\ UNCHANGED toClient
    /\ current' \in [Lanes -> [version : Int, generation : Nat]]
    /\ active' \in [Lanes -> SUBSET TaskEntry]
    /\ \A l \in Lanes : active'[l] \subseteq active[l]

Kept(r) == Evolve /\ DOMAIN requests' = Requests /\ Only(r)

LEMMA GreaterNumber ==
    ASSUME NEW m \in Nat, NEW n \in Nat
    PROVE  Max({m, n}) \in Nat /\ m <= Max({m, n}) /\ n <= Max({m, n})
<1>1. \E x \in {m, n} : \A y \in {m, n} : x >= y
  <2>1. CASE m >= n
    BY <2>1
  <2>2. CASE n >= m
    BY <2>2
  <2> QED
    BY <2>1, <2>2
<1>2. Max({m, n}) \in {m, n} /\ \A y \in {m, n} : Max({m, n}) >= y
  BY <1>1 DEF Max
<1> QED
  BY <1>2

LEMMA AnswerStep ==
    ASSUME TypesInv, NEW c \in Clients, NEW r, NEW how \in {"fallback", "status"},
           Untouched(r, c, requests), Answer(c, r, how), handler' = [handler EXCEPT ![c] = Idle],
           UNCHANGED <<current, active>>
    PROVE  Kept(r) /\ Answered(c, r)
<1> DEFINE x == requests[r]
           y == [x EXCEPT !.answer = how]
<1>1. requests \in Seq(Request) /\ r \in DOMAIN requests /\ x \in Request
      /\ x.task = "none" /\ x.reply = "none" /\ x.answer = "none"
  BY DEF TypesInv, CoordinatorTypes, Untouched
<1>2. requests' = [requests EXCEPT ![r] = y]
      /\ toClient' = [toClient EXCEPT ![c] = Append(@, [kind |-> "result", request |-> r])]
  BY DEF Answer
<1>3. y \in Request /\ SameAsked(y, x) /\ y.task = "none" /\ y.reply = "none" /\ y.answer = how
  BY <1>1 DEF Request, SameAsked
<1> HIDE DEF x, y
<1>4. /\ requests' \in Seq(Request) /\ Len(requests') = Len(requests)
      /\ DOMAIN requests' = DOMAIN requests /\ requests'[r] = y
      /\ \A s \in DOMAIN requests : s # r => requests'[s] = requests[s]
  BY <1>1, <1>2, <1>3, ChangedRequest
<1>5. Kept(r)
  BY <1>3, <1>4 DEF TypesInv, BoundsInv, Kept, Evolve, Only, Requests, SameAsked, SameFate, x
<1> QED
  BY <1>2, <1>3, <1>4, <1>5 DEF Answered

LEMMA ScheduledStep ==
    ASSUME TypesInv, NEW c \in Clients, NEW r, NEW generation \in Nat,
           Untouched(r, c, requests), Scheduled(c, r, generation), UNCHANGED toClient
    PROVE  Kept(r) /\ Spawned(c, r)
<1> DEFINE l == requests[r].lane
           superseded == {e \in active[l] : e.client = c}
           reqs == Aborting(requests, superseded)
           x == reqs[r]
           y == [x EXCEPT !.generation = generation, !.task = "running", !.reply = "open"]
<1>1. requests \in Seq(Request) /\ r \in DOMAIN requests /\ requests[r] \in Request
      /\ requests[r].answer = "none" /\ l \in Lanes /\ requests[r].version \in Int
  <2>1. requests \in Seq(Request) /\ r \in DOMAIN requests /\ requests[r] \in Request
    BY DEF TypesInv, CoordinatorTypes, Untouched
  <2> QED
    BY <2>1, RequestFields DEF Untouched
<1>2. /\ requests' = [reqs EXCEPT ![r] = y]
      /\ current' = [current EXCEPT ![l].version = requests[r].version,
                                    ![l].generation = Max({@, generation})]
      /\ active' = [active EXCEPT ![l] = @ \ superseded]
      /\ handler' = [handler EXCEPT ![c] = [at |-> "spawned", request |-> r]]
  <2>1. requests' = [reqs EXCEPT ![r].generation = generation, ![r].task = "running", ![r].reply = "open"]
    BY DEF Scheduled
  <2>2. requests' = [reqs EXCEPT ![r] = y]
    <3> HIDE DEF reqs
    <3> QED
      BY <2>1
  <2> QED
    BY <2>2 DEF Scheduled
<1>3. /\ reqs \in Seq(Request) /\ Len(reqs) = Len(requests) /\ DOMAIN reqs = DOMAIN requests
      /\ \A s \in Requests : SameAsked(reqs[s], requests[s]) /\ SameFate(reqs[s], requests[s])
  BY AbortedRequests DEF TypesInv
<1>4. active' \in [Lanes -> SUBSET TaskEntry] /\ \A k \in Lanes : active'[k] \subseteq active[k]
  BY <1>2 DEF TypesInv, CoordinatorTypes
<1>5. current' \in [Lanes -> [version : Int, generation : Nat]]
  <2>1. current \in [Lanes -> [version : Int, generation : Nat]]
    BY DEF TypesInv, CoordinatorTypes
  <2>2. Max({current[l].generation, generation}) \in Nat
    BY <1>1, <2>1, GreaterNumber
  <2> HIDE DEF l, superseded, reqs, x, y
  <2> DEFINE m == Max({current[l].generation, generation})
             v == requests[r].version
             new == [current[l] EXCEPT !.version = v, !.generation = m]
  <2>3. current' = [current EXCEPT ![l] = new]
    <3>1. current' = [current EXCEPT ![l].version = v, ![l].generation = m]
      BY <1>1, <1>2, <2>1
    <3> HIDE DEF m, v
    <3> QED
      BY <1>1, <2>1, <3>1
  <2>4. v \in Int /\ m \in Nat /\ current[l] \in [version : Int, generation : Nat]
    BY <1>1, <2>1, <2>2
  <2> HIDE DEF m, v
  <2>5. new \in [version : Int, generation : Nat]
    BY <2>4
  <2> HIDE DEF new
  <2> QED
    BY <1>1, <2>1, <2>3, <2>5
<1> HIDE DEF l, superseded, reqs
<1>6. x \in Request /\ SameAsked(x, requests[r]) /\ x.answer = "none"
  BY <1>1, <1>3 DEF SameFate, Requests
<1>7. y \in Request /\ SameAsked(y, x) /\ y.task = "running" /\ y.reply = "open" /\ y.answer = "none"
  <2> HIDE DEF x
  <2> QED
    BY <1>6 DEF Request, SameAsked
<1> HIDE DEF x, y
<1>8. /\ requests' \in Seq(Request) /\ Len(requests') = Len(reqs)
      /\ DOMAIN requests' = DOMAIN reqs /\ requests'[r] = y
      /\ \A s \in DOMAIN reqs : s # r => requests'[s] = reqs[s]
  BY <1>1, <1>2, <1>3, <1>7, ChangedRequest
<1>9. Kept(r)
  BY <1>3, <1>6, <1>7, <1>8 DEF TypesInv, BoundsInv, Kept, Evolve, Only, Requests, SameAsked, SameFate
<1> QED
  BY <1>2, <1>4, <1>5, <1>7, <1>8, <1>9 DEF Spawned

Handled(c, r) == Kept(r) /\ (Answered(c, r) \/ Chosen(c, r) \/ Spawned(c, r))

LEMMA ChooseStep ==
    ASSUME TypesInv, MailInv, NEW c \in Clients, ChooseProvider(c)
    PROVE  /\ Serving(c, "request")
           /\ Handled(c, Head(toServer[c]).request)
<1> DEFINE r == Head(toServer[c]).request
           x == requests[r]
<1>1. /\ Serving(c, "request") /\ handler[c] = Idle /\ Untouched(r, c, requests)
      /\ handler \in [Clients -> Handler]
  BY HeadIsUntouched DEF ChooseProvider, TypesInv, MailTypes
<1>2. x \in Request /\ r \in DOMAIN requests /\ x.lane = "completion" /\ x.lane \in Lanes
      /\ requests \in Seq(Request)
  <2>1. x \in Request /\ r \in DOMAIN requests /\ requests \in Seq(Request)
    BY <1>1 DEF TypesInv, CoordinatorTypes, Untouched
  <2> QED
    BY <2>1, RequestFields DEF ChooseProvider
<1> HIDE DEF r
<1>3. CASE registered["completion"] = 0
  <2>1. Answer(c, r, "fallback") /\ UNCHANGED <<handler, current, active>>
    BY <1>3 DEF ChooseProvider, coordinators, r
  <2>2. handler' = [handler EXCEPT ![c] = Idle]
    BY <1>1, <2>1
  <2> QED
    BY <1>1, <2>1, <2>2, AnswerStep DEF Handled, r
<1>4. CASE registered["completion"] # 0
  <2> DEFINE y == [x EXCEPT !.generation = registered["completion"]]
  <2>1. /\ requests' = [requests EXCEPT ![r] = y]
        /\ handler' = [handler EXCEPT ![c] = [at |-> "chosen", request |-> r]]
        /\ UNCHANGED <<toClient, current, active>>
    BY <1>4 DEF ChooseProvider, coordinators, r
  <2>2. registered["completion"] \in Nat
    BY <1>2 DEF TypesInv, CoordinatorTypes
  <2>3. y \in Request /\ SameAsked(y, x) /\ SameFate(y, x)
    <3> HIDE DEF x
    <3> QED
      BY <1>2, <2>2 DEF Request, SameAsked, SameFate
  <2> HIDE DEF y
  <2>4. /\ requests' \in Seq(Request) /\ Len(requests') = Len(requests)
        /\ DOMAIN requests' = DOMAIN requests /\ requests'[r] = y
        /\ \A s \in DOMAIN requests : s # r => requests'[s] = requests[s]
    BY <1>2, <2>1, <2>3, ChangedRequest
  <2>5. Kept(r)
    BY <2>3, <2>4 DEF TypesInv, BoundsInv, Kept, Evolve, Only, Requests, SameAsked, SameFate
  <2>6. Chosen(c, r)
    BY <1>2, <2>1, <2>3, <2>4 DEF Chosen
  <2> QED
    BY <1>1, <2>5, <2>6 DEF Handled, r
<1> QED
  BY <1>3, <1>4

LEMMA ScheduleCompletionStep ==
    ASSUME TypesInv, MailInv, NEW c \in Clients, schedule_completion(c)
    PROVE  /\ handler[c].at = "chosen" /\ handler[c] # Idle
           /\ Untouched(handler[c].request, c, requests)
           /\ Handled(c, handler[c].request)
<1> DEFINE r == handler[c].request
<1>1. handler[c].at = "chosen" /\ handler[c] # Idle
  BY DEF schedule_completion, Idle
<1>2. Untouched(r, c, requests)
  BY <1>1 DEF MailInv, HandledMail
<1>3. requests[r].generation \in Nat
  <2>1. requests[r] \in Request
    BY <1>2 DEF TypesInv, CoordinatorTypes, Untouched
  <2> QED
    BY <2>1, RequestFields
<1>4. CASE registered["completion"] = 0
  <2>1. /\ Answer(c, r, "fallback") /\ handler' = [handler EXCEPT ![c] = Idle]
        /\ UNCHANGED <<current, active>>
    BY <1>4 DEF schedule_completion
  <2> QED
    BY <1>1, <1>2, <2>1, AnswerStep DEF Handled
<1>5. CASE registered["completion"] # 0
  <2>1. Scheduled(c, r, requests[r].generation) /\ UNCHANGED toClient
    BY <1>5 DEF schedule_completion
  <2> QED
    BY <1>1, <1>2, <1>3, <2>1, ScheduledStep DEF Handled
<1> QED
  BY <1>4, <1>5

LEMMA ScheduleStep ==
    ASSUME TypesInv, MailInv, NEW c \in Clients, schedule(c)
    PROVE  /\ Serving(c, "request")
           /\ Handled(c, Head(toServer[c]).request)
<1> DEFINE r == Head(toServer[c]).request
<1>1. /\ Serving(c, "request") /\ handler[c] = Idle /\ Untouched(r, c, requests)
      /\ handler \in [Clients -> Handler]
  BY HeadIsUntouched DEF schedule, TypesInv, MailTypes
<1>2. registered["intelligence"] \in Nat
  <2>1. requests[r] \in Request /\ requests[r].lane = "intelligence"
    BY <1>1 DEF TypesInv, CoordinatorTypes, Untouched, schedule
  <2>2. requests[r].lane \in Lanes
    BY <2>1, RequestFields
  <2> QED
    BY <2>1, <2>2 DEF TypesInv, CoordinatorTypes
<1>3. CASE AtLimit \/ registered["intelligence"] = 0
  <2>1. Answer(c, r, "status") /\ UNCHANGED <<handler, current, active>>
    BY <1>3 DEF schedule
  <2>2. handler' = [handler EXCEPT ![c] = Idle]
    BY <1>1, <2>1
  <2> HIDE DEF r
  <2> QED
    BY <1>1, <2>1, <2>2, AnswerStep DEF Handled, r
<1>4. CASE ~(AtLimit \/ registered["intelligence"] = 0)
  <2>1. Scheduled(c, r, registered["intelligence"]) /\ UNCHANGED toClient
    BY <1>4 DEF schedule
  <2> QED
    BY <1>1, <1>2, <2>1, ScheduledStep DEF Handled
<1> QED
  BY <1>3, <1>4

-----------------------------------------------------------------------------
(* What a step keeps that does not touch the mail, or the panes.           *)

KeepsUntouched(c) ==
    \A r : Untouched(r, c, requests) => Untouched(r, c, requests')

LEMMA SteadyKeepsUntouched ==
    ASSUME Steady, NEW c \in Clients
    PROVE  KeepsUntouched(c)
BY DEF Steady, Evolve, KeepsUntouched, Untouched, Requests, SameAsked, SameFate

\* The mail of a client, with the requests of the next state.
MailAfter(c) ==
    /\ SentMail(toServer[c], c, requests')
    /\ HandledMail(handler[c], toServer[c], c, requests')

LEMMA MailStays ==
    ASSUME MailInv, Evolve, NEW c \in Clients
    PROVE  /\ KeepsUntouched(c) => MailAfter(c)
           /\ AnswerMail(toClient[c], c, requests')
           /\ \A l \in Lanes : ResultLane(results[c][l], c, l, requests')
<1>1. \A r \in DOMAIN requests : /\ r \in DOMAIN requests'
                                 /\ requests'[r].client = requests[r].client
                                 /\ requests'[r].lane = requests[r].lane
  BY DEF Evolve, Requests, SameAsked
<1>2. KeepsUntouched(c) => MailAfter(c)
  BY <1>1 DEF MailInv, MailAfter, KeepsUntouched, SentMail, HandledMail
<1>3. AnswerMail(toClient[c], c, requests')
  BY <1>1 DEF MailInv, AnswerMail
<1>4. \A l \in Lanes : ResultLane(results[c][l], c, l, requests')
  BY <1>1 DEF MailInv, ResultLane
<1> QED
  BY <1>2, <1>3, <1>4

LEMMA PanesStay ==
    ASSUME TypesInv, PaneInv, Evolve, NEW c \in Clients
    PROVE  /\ \A l \in Lanes : WaitsWell(pane[c], c, l, requests')
           /\ pane[c].menu.request \in DOMAIN requests' \union {None}
BY DEF PaneInv, WaitsWell, Evolve, Requests, SameAsked

\* The entries keep naming requests.
LEMMA EntriesStay ==
    ASSUME TypesInv, Evolve, NEW l \in Lanes
    PROVE  \A e \in active[l] : e.task \in DOMAIN requests'
BY DEF TypesInv, BoundsInv, Evolve, Requests

-----------------------------------------------------------------------------
(* Mail appended and taken                                                 *)

LEMMA SentTail ==
    ASSUME NEW q \in Seq(ToServer), q # <<>>, NEW c, NEW reqs, SentMail(q, c, reqs)
    PROVE  /\ Tail(q) \in Seq(ToServer) /\ SentMail(Tail(q), c, reqs)
           /\ Head(q).kind = "request" =>
                  /\ Untouched(Head(q).request, c, reqs)
                  /\ \A i \in DOMAIN Tail(q) : Tail(q)[i].kind = "request"
                                                  => Head(q).request < Tail(q)[i].request
BY Taken DEF SentMail

LEMMA SentEdit ==
    ASSUME NEW q \in Seq(ToServer), NEW c, NEW reqs, SentMail(q, c, reqs), NEW h,
           HandledMail(h, q, c, reqs)
    PROVE  /\ Append(q, EditMessage) \in Seq(ToServer)
           /\ SentMail(Append(q, EditMessage), c, reqs)
           /\ HandledMail(h, Append(q, EditMessage), c, reqs)
<1>1. EditMessage \in ToServer /\ EditMessage.kind # "request"
  BY DEF EditMessage, ToServer
<1>2. /\ Append(q, EditMessage) \in Seq(ToServer)
      /\ DOMAIN q = 1..Len(q) /\ DOMAIN Append(q, EditMessage) = 1..(Len(q) + 1)
      /\ \A i \in 1..Len(q) : Append(q, EditMessage)[i] = q[i]
      /\ Append(q, EditMessage)[Len(q) + 1] = EditMessage /\ Len(q) \in Nat
  BY <1>1, Appended
<1> QED
  BY <1>1, <1>2 DEF SentMail, HandledMail

LEMMA SentRequest ==
    ASSUME NEW q \in Seq(ToServer), NEW c, NEW reqs, SentMail(q, c, reqs), NEW h,
           HandledMail(h, q, c, reqs), NEW n \in Nat, Untouched(n, c, reqs),
           \A i \in DOMAIN q : q[i].kind = "request" => q[i].request < n,
           h # Idle => h.request < n
    PROVE  LET new == Append(q, [kind |-> "request", request |-> n])
           IN  new \in Seq(ToServer) /\ SentMail(new, c, reqs) /\ HandledMail(h, new, c, reqs)
<1> DEFINE m == [kind |-> "request", request |-> n]
           new == Append(q, m)
<1>1. m \in ToServer /\ m.kind = "request" /\ m.request = n
  BY DEF ToServer
<1> HIDE DEF m
<1>2. /\ new \in Seq(ToServer) /\ DOMAIN q = 1..Len(q) /\ DOMAIN new = 1..(Len(q) + 1)
      /\ \A i \in 1..Len(q) : new[i] = q[i]
      /\ new[Len(q) + 1] = m /\ Len(q) \in Nat
  BY <1>1, Appended
<1> HIDE DEF new
<1>3. SentMail(new, c, reqs)
  BY <1>1, <1>2 DEF SentMail
<1>4. HandledMail(h, new, c, reqs)
  BY <1>1, <1>2 DEF HandledMail
<1> QED
  BY <1>2, <1>3, <1>4 DEF new, m

LEMMA AnswerTail ==
    ASSUME NEW q \in Seq(ToClient), q # <<>>, NEW c, NEW reqs, AnswerMail(q, c, reqs)
    PROVE  /\ Tail(q) \in Seq(ToClient) /\ AnswerMail(Tail(q), c, reqs)
           /\ Head(q) \in ToClient
           /\ Head(q).kind = "result" => /\ Head(q).request \in DOMAIN reqs
                                         /\ reqs[Head(q).request].client = c
BY Taken DEF AnswerMail

LEMMA AnswerAppend ==
    ASSUME NEW q \in Seq(ToClient), NEW c, NEW reqs, AnswerMail(q, c, reqs),
           NEW m \in ToClient,
           m.kind = "result" => m.request \in DOMAIN reqs /\ reqs[m.request].client = c
    PROVE  Append(q, m) \in Seq(ToClient) /\ AnswerMail(Append(q, m), c, reqs)
<1>1. /\ Append(q, m) \in Seq(ToClient)
      /\ DOMAIN q = 1..Len(q) /\ DOMAIN Append(q, m) = 1..(Len(q) + 1)
      /\ \A i \in 1..Len(q) : Append(q, m)[i] = q[i]
      /\ Append(q, m)[Len(q) + 1] = m /\ Len(q) \in Nat
  BY Appended
<1> QED
  BY <1>1 DEF AnswerMail

LEMMA LaneTail ==
    ASSUME NEW q \in Seq(Nat), q # <<>>, NEW c, NEW l, NEW reqs, ResultLane(q, c, l, reqs)
    PROVE  /\ Tail(q) \in Seq(Nat) /\ ResultLane(Tail(q), c, l, reqs)
           /\ Head(q) \in Nat /\ Head(q) \in DOMAIN reqs /\ reqs[Head(q)].client = c
<1>1. /\ Head(q) \in Nat /\ Head(q) = q[1] /\ Tail(q) \in Seq(Nat)
      /\ Len(q) \in Nat \ {0} /\ Len(Tail(q)) = Len(q) - 1
      /\ DOMAIN q = 1..Len(q) /\ DOMAIN Tail(q) = 1..(Len(q) - 1)
      /\ \A i \in 1..(Len(q) - 1) : Tail(q)[i] = q[i + 1]
  BY Taken
<1>2. LaneCapacity \in Nat
  BY ProviderConstants
<1> QED
  BY <1>1, <1>2 DEF ResultLane

LEMMA LaneAppend ==
    ASSUME NEW q \in Seq(Nat), NEW c, NEW l, NEW reqs, ResultLane(q, c, l, reqs),
           Len(q) < LaneCapacity, NEW r \in Nat, r \in DOMAIN reqs,
           reqs[r].client = c, reqs[r].lane = l
    PROVE  Append(q, r) \in Seq(Nat) /\ ResultLane(Append(q, r), c, l, reqs)
<1>1. /\ Append(q, r) \in Seq(Nat) /\ Len(Append(q, r)) = Len(q) + 1
      /\ DOMAIN q = 1..Len(q) /\ DOMAIN Append(q, r) = 1..(Len(q) + 1)
      /\ \A i \in 1..Len(q) : Append(q, r)[i] = q[i]
      /\ Append(q, r)[Len(q) + 1] = r /\ Len(q) \in Nat
  BY Appended
<1>2. LaneCapacity \in Nat
  BY ProviderConstants
<1> QED
  BY <1>1, <1>2 DEF ResultLane

-----------------------------------------------------------------------------
(* Asking                                                                  *)

RequestMessage(n) == [kind |-> "request", request |-> n]

\* The queue before the request is appended.
Before(q, messages) == IF messages = <<>> THEN q ELSE Append(q, EditMessage)

LEMMA AskedQueue ==
    ASSUME TypesInv, NEW c \in Clients, NEW l \in Lanes, NEW p \in Pane,
           NEW messages \in {<<>>, <<EditMessage>>}, Ask(c, l, p, messages)
    PROVE  /\ toServer' = [toServer EXCEPT ![c] =
                  Append(Before(toServer[c], messages), RequestMessage(Len(requests) + 1))]
           /\ Before(toServer[c], messages) \in Seq(ToServer)
           /\ EditMessage \in ToServer /\ RequestMessage(Len(requests) + 1) \in ToServer
           /\ Len(requests) \in Nat
<1> DEFINE q == toServer[c]
           m == RequestMessage(Len(requests) + 1)
<1>1. q \in Seq(ToServer) /\ toServer \in [Clients -> Seq(ToServer)] /\ Len(requests) \in Nat
  BY DEF TypesInv, MailTypes, CoordinatorTypes
<1>2. EditMessage \in ToServer /\ m \in ToServer
  BY <1>1 DEF ToServer, RequestMessage
<1>3. toServer' = [toServer EXCEPT ![c] = q \o messages \o <<m>>]
  BY <1>1 DEF Ask, NextRequest, RequestMessage
<1>4. Before(q, messages) \in Seq(ToServer)
  BY <1>1, <1>2 DEF Before
<1> HIDE DEF q, m
<1>5. q \o messages \o <<m>> = Append(Before(q, messages), m)
  <2>1. CASE messages = <<>>
    <3>1. q \o messages = q
      BY <1>1, <2>1
    <3> QED
      BY <1>1, <1>2, <2>1, <3>1 DEF Before
  <2>2. CASE messages # <<>>
    <3>1. messages = <<EditMessage>>
      BY <2>2
    <3>2. q \o messages = Append(q, EditMessage)
      BY <1>1, <1>2, <3>1
    <3>3. Before(q, messages) = Append(q, EditMessage)
      BY <2>2 DEF Before
    <3> HIDE DEF EditMessage
    <3> QED
      BY <1>2, <1>4, <3>2, <3>3
  <2> QED
    BY <2>1, <2>2
<1> QED
  BY <1>1, <1>2, <1>3, <1>4, <1>5 DEF q, m

LEMMA AskEvolves ==
    ASSUME TypesInv, NEW c \in Clients, NEW l \in Lanes, NEW p \in Pane, NEW messages,
           Ask(c, l, p, messages)
    PROVE  /\ Evolve
           /\ \A k \in Clients : KeepsUntouched(k)
           /\ \A r \in Requests : requests'[r] = requests[r] /\ r <= Len(requests)
           /\ Requests = 1..Len(requests) /\ DOMAIN requests' = 1..(Len(requests) + 1)
           /\ Len(requests) \in Nat
<1>1. /\ requests' \in Seq(Request)
      /\ Len(requests') = Len(requests) + 1 /\ Len(requests') <= MaxRequests
      /\ DOMAIN requests = 1..Len(requests)
      /\ DOMAIN requests' = 1..(Len(requests) + 1)
      /\ \A r \in Requests : requests'[r] = requests[r]
  BY AskedRequests DEF TypesInv
<1>2. Len(requests) \in Nat
  BY DEF TypesInv, CoordinatorTypes
<1> QED
  BY <1>1, <1>2 DEF Evolve, KeepsUntouched, Untouched, Requests, SameAsked

LEMMA AskedMail ==
    ASSUME TypesInv, MailInv, NEW c \in Clients, NEW l \in Lanes, NEW p \in Pane,
           NEW messages \in {<<>>, <<EditMessage>>}, Ask(c, l, p, messages),
           UNCHANGED <<handler, toClient, results>>
    PROVE  toServer' \in [Clients -> Seq(ToServer)] /\ MailInv'
<1> DEFINE n == Len(requests) + 1
           q == Before(toServer[c], messages)
<1>1. /\ Evolve /\ \A k \in Clients : KeepsUntouched(k)
      /\ \A r \in Requests : r <= Len(requests)
      /\ Requests = 1..Len(requests) /\ DOMAIN requests' = 1..n /\ Len(requests) \in Nat
  BY AskEvolves
<1>2. /\ toServer' = [toServer EXCEPT ![c] = Append(q, RequestMessage(n))]
      /\ q \in Seq(ToServer) /\ EditMessage \in ToServer /\ RequestMessage(n) \in ToServer
  BY AskedQueue
<1>3. Untouched(n, c, requests')
  BY <1>1, AskedRequests DEF TypesInv, Untouched
<1>4. toServer \in [Clients -> Seq(ToServer)]
  BY DEF TypesInv, MailTypes
<1>5. SentMail(q, c, requests') /\ HandledMail(handler[c], q, c, requests')
  <2>1. SentMail(toServer[c], c, requests') /\ HandledMail(handler[c], toServer[c], c, requests')
    BY <1>1, MailStays DEF MailAfter
  <2> QED
    BY <1>4, <2>1, SentEdit DEF Before
<1>6. /\ \A i \in DOMAIN q : q[i].kind = "request" => q[i].request < n
      /\ handler[c] # Idle => handler[c].request < n
  <2>1. /\ \A i \in DOMAIN toServer[c] : toServer[c][i].kind = "request"
                                            => toServer[c][i].request \in Requests
        /\ handler[c] # Idle => handler[c].request \in Requests
    BY DEF MailInv, SentMail, HandledMail, Untouched, Requests
  <2>2. \A i \in DOMAIN q : q[i].kind = "request" => q[i].request \in Requests
    <3>1. CASE messages = <<>>
      BY <2>1, <3>1 DEF Before
    <3>2. CASE messages # <<>>
      <4>1. /\ DOMAIN toServer[c] = 1..Len(toServer[c])
            /\ DOMAIN Append(toServer[c], EditMessage) = 1..(Len(toServer[c]) + 1)
            /\ \A i \in 1..Len(toServer[c]) : Append(toServer[c], EditMessage)[i] = toServer[c][i]
            /\ Append(toServer[c], EditMessage)[Len(toServer[c]) + 1] = EditMessage
            /\ Len(toServer[c]) \in Nat
        BY <1>2, <1>4, Appended
      <4>2. EditMessage.kind # "request"
        BY DEF EditMessage
      <4> QED
        BY <2>1, <3>2, <4>1, <4>2 DEF Before
    <3> QED
      BY <3>1, <3>2
  <2> QED
    BY <1>1, <2>1, <2>2
<1>7. LET new == Append(q, RequestMessage(n))
      IN  new \in Seq(ToServer) /\ SentMail(new, c, requests') /\ HandledMail(handler[c], new, c, requests')
  <2>1. n \in Nat
    BY <1>1
  <2> HIDE DEF q, n
  <2> QED
    BY <1>2, <1>3, <1>5, <1>6, <2>1, SentRequest DEF RequestMessage
<1> HIDE DEF q, n
<1>8. /\ toServer' \in [Clients -> Seq(ToServer)]
      /\ toServer'[c] = Append(q, RequestMessage(n))
      /\ \A k \in Clients : k # c => toServer'[k] = toServer[k]
  BY <1>2, <1>4, <1>7
<1>9. ASSUME NEW k \in Clients
      PROVE  /\ SentMail(toServer'[k], k, requests')
             /\ HandledMail(handler'[k], toServer'[k], k, requests')
             /\ AnswerMail(toClient'[k], k, requests')
             /\ \A m \in Lanes : ResultLane(results'[k][m], k, m, requests')
  <2>1. /\ MailAfter(k) /\ AnswerMail(toClient[k], k, requests')
        /\ \A m \in Lanes : ResultLane(results[k][m], k, m, requests')
    BY <1>1, MailStays
  <2>2. CASE k = c
    BY <1>7, <1>8, <2>1, <2>2
  <2>3. CASE k # c
    BY <1>8, <2>1, <2>3 DEF MailAfter
  <2> QED
    BY <2>2, <2>3
<1> QED
  BY <1>8, <1>9 DEF MailInv

LEMMA PaneFields ==
    ASSUME NEW p \in Pane
    PROVE  /\ p.confirmed \in Nat /\ p.pending \in Int /\ p.text \in Nat
           /\ p.waiting \in [Lanes -> Nat] /\ p.menu \in Menu
BY DEF Pane

\* Waiting for a new request.
LEMMA AskedPane ==
    ASSUME TypesInv, PaneInv, NEW c \in Clients, NEW l \in Lanes, NEW p \in Pane,
           NEW messages, Ask(c, l, p, messages),
           \A k \in Lanes : k # l => WaitsWell(p, c, k, requests),
           p.menu.request \in Requests \union {None}
    PROVE  /\ pane' \in [Clients -> Pane] /\ PaneInv'
           /\ pane'[c].pending = p.pending
           /\ \A k \in Clients : k # c => pane'[k] = pane[k]
<1> DEFINE n == Len(requests) + 1
           new == Waiting(p, l, n)
<1>1. /\ Evolve /\ Requests = 1..Len(requests) /\ DOMAIN requests' = 1..n
      /\ Len(requests) \in Nat /\ \A r \in Requests : requests'[r] = requests[r]
  BY AskEvolves
<1>2. pane \in [Clients -> Pane] /\ pane' = [pane EXCEPT ![c] = new]
  BY DEF TypesInv, MailTypes, Ask, NextRequest
<1>3. /\ p.waiting \in [Lanes -> Nat] /\ p.menu \in Menu
  BY PaneFields
<1>4. new.waiting = [p.waiting EXCEPT ![l] = n] /\ new.text = p.text /\ new.menu = p.menu
      /\ new.pending = p.pending
  BY DEF Waiting, Pane
<1>5. new \in Pane
  <2>1. [p.waiting EXCEPT ![l] = n] \in [Lanes -> Nat]
    BY <1>1, <1>3
  <2>2. new = [p EXCEPT !.waiting = [p.waiting EXCEPT ![l] = n]]
    BY DEF Waiting
  <2> HIDE DEF new
  <2> QED
    BY <2>1, <2>2 DEF Pane
<1>6. /\ requests'[n].client = c /\ requests'[n].lane = l /\ requests'[n].text = p.text
  BY AskedRequests DEF TypesInv
<1> HIDE DEF new
<1>7. /\ \A k \in Lanes : WaitsWell(new, c, k, requests')
      /\ new.menu.request \in DOMAIN requests' \union {None}
  BY <1>1, <1>3, <1>4, <1>6 DEF WaitsWell
<1>8. /\ pane'[c] = new /\ \A k \in Clients : k # c => pane'[k] = pane[k]
      /\ pane' \in [Clients -> Pane]
  BY <1>2, <1>5
<1>9. PaneInv'
  <2> SUFFICES ASSUME NEW k \in Clients
               PROVE  /\ \A m \in Lanes : WaitsWell(pane'[k], k, m, requests')
                      /\ pane'[k].menu.request \in DOMAIN requests' \union {None}
    BY DEF PaneInv, Requests
  <2> QED
    BY <1>1, <1>7, <1>8, PanesStay
<1> QED
  BY <1>4, <1>8, <1>9

\* A new request is on its way to the server.
LEMMA AskedFates ==
    ASSUME TypesInv, RepliesInv, CarriedInv, NEW c \in Clients, NEW l \in Lanes,
           NEW p \in Pane, NEW messages \in {<<>>, <<EditMessage>>},
           Ask(c, l, p, messages), UNCHANGED handler
    PROVE  RepliesInv' /\ CarriedInv'
<1> DEFINE n == Len(requests) + 1
           old == toServer[c]
           q == Before(old, messages)
           x == requests'[n]
<1>1. /\ Requests = 1..Len(requests) /\ DOMAIN requests' = 1..n /\ Len(requests) \in Nat
      /\ \A r \in Requests : requests'[r] = requests[r]
  BY AskEvolves
<1>2. x.client = c /\ x.task = "none" /\ x.reply = "none" /\ x.answer = "none"
  BY AskedRequests DEF TypesInv
<1>3. /\ toServer' = [toServer EXCEPT ![c] = Append(q, RequestMessage(n))]
      /\ q \in Seq(ToServer) /\ EditMessage \in ToServer /\ RequestMessage(n) \in ToServer
      /\ toServer \in [Clients -> Seq(ToServer)]
  <2>1. toServer \in [Clients -> Seq(ToServer)]
    BY DEF TypesInv, MailTypes
  <2> QED
    BY <2>1, AskedQueue
<1>4. DOMAIN old \subseteq DOMAIN q /\ \A i \in DOMAIN old : q[i] = old[i]
  BY <1>3, Appended DEF Before
<1> HIDE DEF q, x
<1>5. LET new == Append(q, RequestMessage(n))
      IN  /\ DOMAIN old \subseteq DOMAIN new /\ \A i \in DOMAIN old : new[i] = old[i]
          /\ \E i \in DOMAIN new : new[i].kind = "request" /\ new[i].request = n
  <2> DEFINE new == Append(q, RequestMessage(n))
  <2>1. /\ DOMAIN q = 1..Len(q) /\ DOMAIN new = 1..(Len(q) + 1) /\ Len(q) \in Nat
        /\ \A i \in 1..Len(q) : new[i] = q[i]
        /\ new[Len(q) + 1] = RequestMessage(n)
    BY <1>3, Appended
  <2>2. RequestMessage(n).kind = "request" /\ RequestMessage(n).request = n
    BY DEF RequestMessage
  <2> HIDE DEF new, old
  <2> QED
    BY <1>4, <2>1, <2>2 DEF new
<1>6. RepliesInv'
  BY <1>1, <1>2 DEF RepliesInv, Requests, x
<1>7. CarriedInv'
  <2> SUFFICES ASSUME NEW r \in DOMAIN requests', requests'[r].answer = "none"
               PROVE  Carried(r)'
    BY DEF CarriedInv, Requests
  <2>1. CASE r = n
    <3>1. toServer'[c] = Append(q, RequestMessage(n))
      BY <1>3
    <3> QED
      BY <1>2, <1>5, <2>1, <3>1 DEF Carried, x
  <2>2. CASE r # n
    <3>1. r \in Requests /\ requests'[r] = requests[r] /\ Carried(r)
      BY <1>1, <2>2 DEF CarriedInv
    <3>2. CASE requests[r].client = c
      <4>1. toServer'[c] = Append(q, RequestMessage(n))
        BY <1>3
      <4> QED
        BY <1>5, <3>1, <3>2, <4>1 DEF Carried
    <3>3. CASE requests[r].client # c
      BY <1>3, <3>1, <3>3 DEF Carried
    <3> QED
      BY <3>2, <3>3
  <2> QED
    BY <2>1, <2>2
<1> QED
  BY <1>6, <1>7

\* What asking does to the numbers of edits on their way.
LEMMA AskedCounts ==
    ASSUME TypesInv, CountInv, NEW c \in Clients, NEW l \in Lanes, NEW p \in Pane,
           NEW messages \in {<<>>, <<EditMessage>>}, Ask(c, l, p, messages)
    PROVE  /\ Count(toServer'[c], "edit") = IF messages = <<>> THEN Count(toServer[c], "edit")
                                            ELSE Count(toServer[c], "edit") + 1
           /\ messages = <<>> => Places(toServer'[c], "edit") = Places(toServer[c], "edit")
           /\ \A k \in Clients : k # c => toServer'[k] = toServer[k]
           /\ Count(toServer[c], "edit") \in Nat
<1> DEFINE old == toServer[c]
           q == Before(old, messages)
           m == RequestMessage(Len(requests) + 1)
<1>1. toServer \in [Clients -> Seq(ToServer)]
  BY DEF TypesInv, MailTypes
<1>2. /\ toServer' = [toServer EXCEPT ![c] = Append(q, m)]
      /\ q \in Seq(ToServer) /\ EditMessage \in ToServer /\ m \in ToServer
  BY AskedQueue
<1>3. toServer'[c] = Append(q, m) /\ \A k \in Clients : k # c => toServer'[k] = toServer[k]
  BY <1>1, <1>2
<1>4. m.kind # "edit" /\ EditMessage.kind = "edit"
  BY DEF RequestMessage, EditMessage
<1>5. old \in Seq(ToServer)
  BY <1>1
<1> HIDE DEF m, old, q
<1>6. Count(Append(q, m), "edit") = Count(q, "edit")
      /\ Places(Append(q, m), "edit") = Places(q, "edit") /\ Count(old, "edit") \in Nat
  BY <1>2, <1>4, <1>5, CountAppended
<1>7. messages # <<>> => Count(q, "edit") = Count(old, "edit") + 1
  BY <1>2, <1>4, <1>5, CountAppended DEF Before, q
<1>8. messages = <<>> => q = old
  BY DEF Before, q
<1> QED
  BY <1>3, <1>6, <1>7, <1>8 DEF old

LEMMA ClientNames == Writer \in Clients /\ Readers = Clients \ {Writer}
BY ProviderConstants DEF Clients

\* The numbers of a client whose part of the mail stays.
LEMMA AskStep ==
    ASSUME RequestsInv, NEW c \in Clients, NEW l \in Lanes, NEW p \in Pane,
           NEW messages \in {<<>>, <<EditMessage>>}, Ask(c, l, p, messages),
           \A k \in Lanes : k # l => WaitsWell(p, c, k, requests),
           p.menu.request \in Requests \union {None},
           UNCHANGED <<version, committed, coordinators, handler, toClient, results>>,
           \/ messages = <<>> /\ UNCHANGED edits /\ p.pending = pane[c].pending
           \/ /\ messages # <<>> /\ c = Writer /\ edits' = edits + 1 /\ edits' <= MaxChanges
              /\ p.pending = pane[c].pending + 1
    PROVE  RequestsInv'
<1>1. /\ TypesInv /\ CoordinatorTypes /\ MailTypes /\ BoundsInv /\ MailInv /\ PaneInv
      /\ CountInv /\ RepliesInv /\ CarriedInv
  BY DEF RequestsInv, TypesInv
<1>2. Evolve
  BY <1>1, AskEvolves
<1>3. toServer' \in [Clients -> Seq(ToServer)] /\ MailInv'
  BY <1>1, AskedMail
<1>4. /\ pane' \in [Clients -> Pane] /\ PaneInv'
      /\ pane'[c].pending = p.pending
      /\ \A k \in Clients : k # c => pane'[k] = pane[k]
  BY <1>1, AskedPane
<1>5. RepliesInv' /\ CarriedInv'
  BY <1>1, AskedFates
<1>6. CoordinatorTypes' /\ MailTypes'
  BY <1>1, <1>2, <1>3, <1>4, SMTT(30) DEF CoordinatorTypes, MailTypes, Evolve, coordinators
<1>7. BoundsInv'
  <2>1. \A k \in Lanes : \A e \in active[k] : e.task \in DOMAIN requests'
    BY <1>1, <1>2, EntriesStay
  <2> QED
    BY <1>1, <1>2, <2>1 DEF BoundsInv, Evolve, coordinators, Requests
<1>8. CountInv'
  <2>1. /\ Count(toServer'[c], "edit") = IF messages = <<>> THEN Count(toServer[c], "edit")
                                         ELSE Count(toServer[c], "edit") + 1
        /\ messages = <<>> => Places(toServer'[c], "edit") = Places(toServer[c], "edit")
        /\ \A k \in Clients : k # c => toServer'[k] = toServer[k]
        /\ Count(toServer[c], "edit") \in Nat
    BY <1>1, AskedCounts
  <2>2. edits \in Nat /\ version \in Nat /\ pane[Writer].pending \in Int
        /\ Count(toClient[Writer], "ack") \in Nat
    <3>1. pane[Writer] \in Pane /\ toClient[Writer] \in Seq(ToClient)
      BY <1>1, ClientNames DEF MailTypes
    <3>2. Count(toClient[Writer], "ack") \in Nat
      <4>1. Places(toClient[Writer], "ack") \subseteq 1..Len(toClient[Writer])
        BY <3>1 DEF Places
      <4>2. IsFiniteSet(1..Len(toClient[Writer]))
        BY <3>1, FS_Interval
      <4>3. IsFiniteSet(Places(toClient[Writer], "ack"))
        BY <4>1, <4>2, FS_Subset
      <4> QED
        BY <4>3, FS_CardinalityType DEF Count
    <3> QED
      BY <1>1, <3>1, <3>2, PaneFields DEF CoordinatorTypes
  <2>3. CASE messages = <<>>
    <3>1. UNCHANGED <<edits, version, toClient>> /\ p.pending = pane[c].pending
      BY <2>3
    <3>2. /\ Count(toServer'[Writer], "edit") = Count(toServer[Writer], "edit")
          /\ \A k \in Readers : Places(toServer'[k], "edit") = Places(toServer[k], "edit")
          /\ \A k \in Clients : pane'[k].pending = pane[k].pending
      BY <1>4, <2>1, <2>3, <3>1, ClientNames
    <3> QED
      BY <1>1, <3>1, <3>2, ClientNames DEF CountInv
  <2>4. CASE messages # <<>>
    <3>1. /\ UNCHANGED <<version, toClient>> /\ c = Writer /\ edits' = edits + 1
          /\ p.pending = pane[c].pending + 1
      BY <2>4
    <3>2. /\ Count(toServer'[Writer], "edit") = Count(toServer[Writer], "edit") + 1
          /\ \A k \in Readers : toServer'[k] = toServer[k] /\ pane'[k] = pane[k]
          /\ pane'[Writer].pending = pane[Writer].pending + 1
          /\ Count(toServer[Writer], "edit") \in Nat
      BY <1>4, <2>1, <2>4, <3>1, ClientNames
    <3>3. version' = version /\ toClient' = toClient
      BY <3>1
    <3>4. /\ version + Count(toServer[Writer], "edit") = edits + 1
          /\ Count(toClient[Writer], "ack") < version
          /\ pane[Writer].pending = Count(toServer[Writer], "edit") + Count(toClient[Writer], "ack")
          /\ \A k \in Readers : /\ Places(toServer[k], "edit") = {}
                                /\ Places(toClient[k], "ack") = {} /\ pane[k].pending = 0
      BY <1>1 DEF CountInv
    <3>5. /\ version' + Count(toServer'[Writer], "edit") = edits' + 1
          /\ Count(toClient'[Writer], "ack") < version'
          /\ pane'[Writer].pending = Count(toServer'[Writer], "edit") + Count(toClient'[Writer], "ack")
      BY <2>2, <3>1, <3>2, <3>3, <3>4, SMTT(30)
    <3>6. \A k \in Readers : /\ Places(toServer'[k], "edit") = {}
                             /\ Places(toClient'[k], "ack") = {} /\ pane'[k].pending = 0
      BY <3>2, <3>3, <3>4
    <3> QED
      BY <3>5, <3>6 DEF CountInv
  <2> QED
    BY <2>3, <2>4
<1> QED
  BY <1>3, <1>4, <1>5, <1>6, <1>7, <1>8 DEF RequestsInv

\* The pane after an edit.
LEMMA EditedPane ==
    ASSUME NEW p \in Pane
    PROVE  /\ Edited(p) \in Pane /\ Edited(p).pending = p.pending + 1
           /\ Edited(p).text = p.text + 1
           /\ Edited(p).waiting = p.waiting /\ Edited(p).menu = p.menu
<1>1. Edited(p) \in Pane
  <2> DEFINE n == p.pending + 1
             t == p.text + 1
  <2>1. n \in Int /\ t \in Nat
    BY PaneFields
  <2>2. Edited(p) = [p EXCEPT !.pending = n, !.text = t]
    BY DEF Edited, Pane
  <2> HIDE DEF n, t
  <2>3. [p EXCEPT !.pending = n, !.text = t] \in Pane
    BY <2>1 DEF Pane
  <2> QED
    BY <2>2, <2>3
<1>2. Edited(p).pending = p.pending + 1 /\ Edited(p).text = p.text + 1
  BY DEF Edited, Pane
<1>3. Edited(p).waiting = p.waiting /\ Edited(p).menu = p.menu
  BY DEF Edited, Pane
<1> QED
  BY <1>1, <1>2, <1>3

LEMMA TriggerStep ==
    ASSUME RequestsInv, NEW c \in Clients, NEW l \in Lanes, Trigger(c, l)
    PROVE  RequestsInv'
<1>1. /\ pane[c] \in Pane /\ \A k \in Lanes : WaitsWell(pane[c], c, k, requests)
      /\ pane[c].menu.request \in Requests \union {None}
  BY DEF RequestsInv, MailTypes, PaneInv
<1> QED
  BY <1>1, AskStep DEF Trigger

\* An edit is made only below the bound.
LEMMA EditBound ==
    ASSUME CoordinatorTypes, MayEdit
    PROVE  edits + 1 <= MaxChanges
<1> DEFINE S == {committed} \union {registered[l] : l \in Lanes}
<1>1. S \subseteq Nat /\ committed \in S /\ committed >= 1 /\ edits \in Nat /\ MaxChanges \in Nat
  BY ProviderConstants DEF CoordinatorTypes
<1>2. \E x \in S : \A y \in S : x >= y
  <2> DEFINE a == IF "completion" \in Lanes THEN registered["completion"] ELSE committed
             b == IF "intelligence" \in Lanes THEN registered["intelligence"] ELSE committed
  <2>1. S = {committed, a, b}
    BY ProviderConstants
  <2>2. a \in Nat /\ b \in Nat /\ committed \in Nat
    BY DEF CoordinatorTypes
  <2> HIDE DEF S, a, b
  <2> QED
    BY <2>1, <2>2
<1>3. Max(S) \in S /\ \A y \in S : Max(S) >= y
  BY <1>2 DEF Max
<1>4. edits + Max(S) <= MaxChanges
  BY DEF MayEdit
<1> HIDE DEF S
<1>5. Max(S) \in Nat /\ Max(S) >= committed
  BY <1>1, <1>3
<1> QED
  BY <1>1, <1>4, <1>5

LEMMA TypeWordStep ==
    ASSUME RequestsInv, TypeWord
    PROVE  RequestsInv'
<1> DEFINE p == Edited(pane[Writer])
<1>1. /\ pane[Writer] \in Pane /\ \A k \in Lanes : WaitsWell(pane[Writer], Writer, k, requests)
      /\ pane[Writer].menu.request \in Requests \union {None}
  BY ClientNames DEF RequestsInv, MailTypes, PaneInv
<1>2. /\ p \in Pane /\ p.pending = pane[Writer].pending + 1
      /\ p.waiting = pane[Writer].waiting /\ p.menu = pane[Writer].menu
  BY <1>1, EditedPane
<1>3. edits' = edits + 1 /\ edits' <= MaxChanges
  BY EditBound DEF TypeWord, RequestsInv
<1>4. \A k \in Lanes : k # "completion" => WaitsWell(p, Writer, k, requests)
  <2> HIDE DEF p
  <2> QED
    BY <1>1, <1>2 DEF WaitsWell
<1>5. "completion" \in Lanes /\ Ask(Writer, "completion", p, <<EditMessage>>)
      /\ UNCHANGED <<version, committed, coordinators, handler, toClient, results>>
  BY DEF TypeWord
<1>6. <<EditMessage>> # <<>>
  OBVIOUS
<1> HIDE DEF p
<1> QED
  BY <1>1, <1>2, <1>3, <1>4, <1>5, <1>6, AskStep, ClientNames

-----------------------------------------------------------------------------
(* The pane's other steps                                                  *)

LEMMA CountsAreNumbers ==
    ASSUME MailTypes, NEW c \in Clients
    PROVE  /\ Count(toServer[c], "edit") \in Nat /\ Count(toClient[c], "ack") \in Nat
           /\ pane[c].pending \in Int
<1>1. toServer[c] \in Seq(ToServer) /\ toClient[c] \in Seq(ToClient) /\ pane[c] \in Pane
  BY DEF MailTypes
<1>2. ASSUME NEW T, NEW q \in Seq(T), NEW kind
      PROVE  Count(q, kind) \in Nat
  <2>1. Places(q, kind) \subseteq 1..Len(q) /\ Len(q) \in Nat
    BY DEF Places
  <2>2. IsFiniteSet(1..Len(q))
    BY <2>1, FS_Interval
  <2>3. IsFiniteSet(Places(q, kind))
    BY <2>1, <2>2, FS_Subset
  <2> QED
    BY <2>3, FS_CardinalityType DEF Count
<1> QED
  BY <1>1, <1>2, PaneFields

\* Requests that nobody touches are carried on while no message is taken.
LEMMA FatesStay ==
    ASSUME RepliesInv, CarriedInv, UNCHANGED <<requests, handler>>,
           \A c \in Clients : \A i \in DOMAIN toServer[c] :
               i \in DOMAIN toServer'[c] /\ toServer'[c][i] = toServer[c][i],
           CoordinatorTypes
    PROVE  RepliesInv' /\ CarriedInv'
<1>1. RepliesInv'
  BY DEF RepliesInv, Requests
<1>2. ASSUME NEW r \in Requests, Carried(r)
      PROVE  Carried(r)'
  <2>1. requests[r].client \in Clients
    BY RequestFields DEF CoordinatorTypes, Requests
  <2> QED
    BY <1>2, <2>1 DEF Carried
<1>3. CarriedInv'
  BY <1>2 DEF CarriedInv, Requests
<1> QED
  BY <1>1, <1>3

LEMMA MailUnchanged ==
    ASSUME MailInv, UNCHANGED <<requests, handler, toServer, toClient, results>>
    PROVE  MailInv'
BY DEF MailInv

Cleared(p) == [clear_active(p) EXCEPT !.menu = NoMenu]

LEMMA ClearedPane ==
    ASSUME NEW p \in Pane
    PROVE  /\ Cleared(p) \in Pane /\ Cleared(p).pending = p.pending
           /\ Cleared(p).waiting = [l \in Lanes |-> None] /\ Cleared(p).menu = NoMenu
<1> DEFINE w == [l \in Lanes |-> None]
<1>1. w \in [Lanes -> Nat] /\ NoMenu \in Menu
  BY DEF None, Menu
<1>2. Cleared(p) = [[p EXCEPT !.waiting = w] EXCEPT !.menu = NoMenu]
  BY DEF Cleared, clear_active
<1> HIDE DEF w
<1>3. [[p EXCEPT !.waiting = w] EXCEPT !.menu = NoMenu] \in Pane
  BY <1>1 DEF Pane
<1>4. LET q == [[p EXCEPT !.waiting = w] EXCEPT !.menu = NoMenu]
      IN  q.pending = p.pending /\ q.waiting = w /\ q.menu = NoMenu
  BY DEF Pane
<1> QED
  BY <1>2, <1>3, <1>4 DEF w

LEMMA ChangeStep ==
    ASSUME RequestsInv, Change(Cleared(pane[Writer]))
    PROVE  RequestsInv'
<1> DEFINE p == Cleared(pane[Writer])
           new == Edited(p)
           q == toServer[Writer]
<1>1. /\ TypesInv /\ CoordinatorTypes /\ MailTypes /\ BoundsInv /\ MailInv /\ PaneInv
      /\ CountInv /\ RepliesInv /\ CarriedInv /\ Writer \in Clients
  BY ClientNames DEF RequestsInv, TypesInv
<1>2. /\ q \in Seq(ToServer) /\ toServer \in [Clients -> Seq(ToServer)]
      /\ pane \in [Clients -> Pane] /\ pane[Writer] \in Pane
  BY <1>1 DEF MailTypes
<1>3. /\ p \in Pane /\ p.pending = pane[Writer].pending
      /\ p.waiting = [l \in Lanes |-> None] /\ p.menu = NoMenu
  BY <1>2, ClearedPane
<1>4. /\ new \in Pane /\ new.pending = pane[Writer].pending + 1
      /\ new.waiting = [l \in Lanes |-> None] /\ new.menu = NoMenu
  <2> HIDE DEF p
  <2> QED
    BY <1>3, EditedPane
<1>5. /\ MayEdit /\ edits' = edits + 1
      /\ pane' = [pane EXCEPT ![Writer] = new]
      /\ toServer' = [toServer EXCEPT ![Writer] = Append(q, EditMessage)]
      /\ UNCHANGED <<version, committed, coordinators, requests, handler, toClient, results>>
  BY DEF Change
<1> HIDE DEF new, p, q
<1>6. /\ Append(q, EditMessage) \in Seq(ToServer)
      /\ SentMail(Append(q, EditMessage), Writer, requests)
      /\ HandledMail(handler[Writer], Append(q, EditMessage), Writer, requests)
  BY <1>1, <1>2, SentEdit DEF MailInv, q
<1>7. EditMessage \in ToServer /\ EditMessage.kind = "edit"
  BY DEF EditMessage, ToServer
<1>8. /\ toServer'[Writer] = Append(q, EditMessage) /\ pane'[Writer] = new
      /\ \A k \in Clients : k # Writer => toServer'[k] = toServer[k] /\ pane'[k] = pane[k]
      /\ toServer' \in [Clients -> Seq(ToServer)] /\ pane' \in [Clients -> Pane]
  BY <1>2, <1>4, <1>5, <1>6, ClientNames
<1>9. CoordinatorTypes' /\ MailTypes'
  BY <1>1, <1>5, <1>8 DEF CoordinatorTypes, MailTypes, coordinators
<1>10. BoundsInv'
  BY <1>1, <1>5, EditBound DEF BoundsInv, coordinators, Requests
<1>11. MailInv'
  <2> SUFFICES ASSUME NEW k \in Clients
               PROVE  /\ SentMail(toServer'[k], k, requests)
                      /\ HandledMail(handler[k], toServer'[k], k, requests)
                      /\ AnswerMail(toClient[k], k, requests)
                      /\ \A m \in Lanes : ResultLane(results[k][m], k, m, requests)
    BY <1>5 DEF MailInv
  <2> QED
    BY <1>1, <1>6, <1>8 DEF MailInv
<1>12. PaneInv'
  <2> SUFFICES ASSUME NEW k \in Clients
               PROVE  /\ \A m \in Lanes : WaitsWell(pane'[k], k, m, requests)
                      /\ pane'[k].menu.request \in Requests \union {None}
    BY <1>5 DEF PaneInv, Requests
  <2>1. CASE k = Writer
    BY <1>4, <1>8, <2>1 DEF WaitsWell, NoMenu
  <2>2. CASE k # Writer
    BY <1>1, <1>8, <2>2 DEF PaneInv
  <2> QED
    BY <2>1, <2>2
<1>13. CountInv'
  <2>1. Count(toServer'[Writer], "edit") = Count(q, "edit") + 1
    BY <1>2, <1>7, <1>8, CountAppended DEF q
  <2>2. /\ Count(q, "edit") \in Nat /\ Count(toClient[Writer], "ack") \in Nat
        /\ pane[Writer].pending \in Int /\ version \in Nat /\ edits \in Nat
    BY <1>1, CountsAreNumbers DEF q, CoordinatorTypes
  <2>3. /\ version + Count(q, "edit") = edits + 1
        /\ Count(toClient[Writer], "ack") < version
        /\ pane[Writer].pending = Count(q, "edit") + Count(toClient[Writer], "ack")
        /\ \A k \in Readers : /\ Places(toServer[k], "edit") = {}
                              /\ Places(toClient[k], "ack") = {} /\ pane[k].pending = 0
    BY <1>1 DEF CountInv, q
  <2>4. version' = version /\ toClient' = toClient /\ edits' = edits + 1
    BY <1>5
  <2>5. /\ version' + Count(toServer'[Writer], "edit") = edits' + 1
        /\ Count(toClient'[Writer], "ack") < version'
        /\ pane'[Writer].pending = Count(toServer'[Writer], "edit") + Count(toClient'[Writer], "ack")
    <3>1. pane'[Writer].pending = pane[Writer].pending + 1
      BY <1>4, <1>8
    <3>2. Count(toClient'[Writer], "ack") = Count(toClient[Writer], "ack")
      BY <2>4
    <3> QED
      BY <2>1, <2>2, <2>3, <2>4, <3>1, <3>2
  <2>6. \A k \in Readers : /\ Places(toServer'[k], "edit") = {}
                           /\ Places(toClient'[k], "ack") = {} /\ pane'[k].pending = 0
    BY <1>8, <2>3, <2>4, ClientNames
  <2> QED
    BY <2>5, <2>6 DEF CountInv
<1>14. RepliesInv' /\ CarriedInv'
  <2>1. \A c \in Clients : \A i \in DOMAIN toServer[c] :
            i \in DOMAIN toServer'[c] /\ toServer'[c][i] = toServer[c][i]
    <3>1. \A i \in DOMAIN q : i \in DOMAIN Append(q, EditMessage) /\ Append(q, EditMessage)[i] = q[i]
      BY <1>2, <1>7, Appended
    <3> QED
      BY <1>8, <3>1 DEF q
  <2> QED
    BY <1>1, <1>5, <2>1, FatesStay
<1> QED
  BY <1>9, <1>10, <1>11, <1>12, <1>13, <1>14 DEF RequestsInv

\* Only panes and answers on their way change.
LEMMA PaneOnlyStep ==
    ASSUME RequestsInv, NEW c \in Clients, NEW p \in Pane,
           pane' = [pane EXCEPT ![c] = p],
           \A l \in Lanes : WaitsWell(p, c, l, requests),
           p.menu.request \in Requests \union {None},
           UNCHANGED <<version, committed, coordinators, requests, handler, toServer,
                       results, edits>>,
           \/ UNCHANGED toClient /\ p.pending = pane[c].pending
           \/ /\ toClient[c] # <<>> /\ toClient' = [toClient EXCEPT ![c] = Tail(@)]
              /\ IF Head(toClient[c]).kind = "ack" THEN p.pending = pane[c].pending - 1
                                                   ELSE p.pending = pane[c].pending
    PROVE  RequestsInv'
<1>1. /\ TypesInv /\ CoordinatorTypes /\ MailTypes /\ BoundsInv /\ MailInv /\ PaneInv
      /\ CountInv /\ RepliesInv /\ CarriedInv
  BY DEF RequestsInv, TypesInv
<1>2. /\ toClient \in [Clients -> Seq(ToClient)] /\ pane \in [Clients -> Pane]
  BY <1>1 DEF MailTypes
<1>3. /\ pane' \in [Clients -> Pane] /\ pane'[c] = p
      /\ \A k \in Clients : k # c => pane'[k] = pane[k]
  BY <1>2
<1>4. /\ toClient' \in [Clients -> Seq(ToClient)]
      /\ \A k \in Clients : k # c => toClient'[k] = toClient[k]
      /\ \A k \in Clients : AnswerMail(toClient'[k], k, requests)
  <2>1. \A k \in Clients : AnswerMail(toClient[k], k, requests)
    BY <1>1 DEF MailInv
  <2>2. CASE UNCHANGED toClient
    BY <1>2, <2>1, <2>2
  <2>3. CASE toClient[c] # <<>> /\ toClient' = [toClient EXCEPT ![c] = Tail(@)]
    <3>1. Tail(toClient[c]) \in Seq(ToClient) /\ AnswerMail(Tail(toClient[c]), c, requests)
      BY <1>2, <2>1, <2>3, AnswerTail
    <3> QED
      BY <1>2, <2>1, <2>3, <3>1
  <2> QED
    BY <2>2, <2>3
<1>5. CoordinatorTypes' /\ MailTypes' /\ BoundsInv'
  BY <1>1, <1>3, <1>4 DEF CoordinatorTypes, MailTypes, BoundsInv, coordinators, Requests
<1>6. MailInv'
  BY <1>1, <1>4 DEF MailInv
<1>7. PaneInv'
  BY <1>1, <1>3 DEF PaneInv, Requests
<1>8. RepliesInv' /\ CarriedInv'
  BY <1>1, FatesStay
<1>9. CountInv'
  <2>1. /\ version + Count(toServer[Writer], "edit") = edits + 1
        /\ Count(toClient[Writer], "ack") < version
        /\ pane[Writer].pending = Count(toServer[Writer], "edit") + Count(toClient[Writer], "ack")
        /\ \A k \in Readers : /\ Places(toServer[k], "edit") = {}
                              /\ Places(toClient[k], "ack") = {} /\ pane[k].pending = 0
    BY <1>1 DEF CountInv
  <2>2. /\ version' = version /\ toServer' = toServer /\ edits' = edits
        /\ version \in Nat /\ edits \in Nat
        /\ \A k \in Clients : /\ Count(toServer[k], "edit") \in Nat
                              /\ Count(toClient[k], "ack") \in Nat /\ pane[k].pending \in Int
    BY <1>1, CountsAreNumbers DEF CoordinatorTypes
  <2>3. CASE UNCHANGED toClient /\ p.pending = pane[c].pending
    <3>1. \A k \in Clients : pane'[k].pending = pane[k].pending
      BY <1>3, <2>3
    <3>2. toClient' = toClient
      BY <2>3
    <3> QED
      BY <2>1, <2>2, <3>1, <3>2, ClientNames DEF CountInv
  <2>4. CASE /\ toClient[c] # <<>> /\ toClient' = [toClient EXCEPT ![c] = Tail(@)]
             /\ IF Head(toClient[c]).kind = "ack" THEN p.pending = pane[c].pending - 1
                                                  ELSE p.pending = pane[c].pending
    <3>1. toClient'[c] = Tail(toClient[c])
      BY <1>2, <2>4
    <3>2. /\ Count(toClient'[c], "ack") \in Nat
          /\ Head(toClient[c]).kind = "ack" => /\ Count(toClient'[c], "ack") + 1 = Count(toClient[c], "ack")
                                               /\ Places(toClient[c], "ack") # {}
          /\ Head(toClient[c]).kind # "ack" => Count(toClient'[c], "ack") = Count(toClient[c], "ack")
          /\ Places(toClient[c], "ack") = {} => Places(toClient'[c], "ack") = {}
      BY <1>2, <2>4, <3>1, CountTaken, ZenonT(40)
    <3>3. CASE c = Writer
      <4>1. /\ Count(toClient'[Writer], "ack") <= Count(toClient[Writer], "ack")
            /\ pane'[Writer].pending - Count(toClient'[Writer], "ack")
                   = pane[Writer].pending - Count(toClient[Writer], "ack")
            /\ pane'[Writer].pending \in Int /\ Count(toClient'[Writer], "ack") \in Nat
        BY <1>3, <2>2, <2>4, <3>2, <3>3
      <4>2. /\ version' + Count(toServer'[Writer], "edit") = edits' + 1
            /\ Count(toClient'[Writer], "ack") < version'
            /\ pane'[Writer].pending = Count(toServer'[Writer], "edit") + Count(toClient'[Writer], "ack")
        BY <2>1, <2>2, <3>3, <4>1, SMTT(30)
      <4>3. \A k \in Readers : /\ Places(toServer'[k], "edit") = {}
                               /\ Places(toClient'[k], "ack") = {} /\ pane'[k].pending = 0
        BY <1>3, <1>4, <2>1, <2>2, <3>3, ClientNames
      <4> QED
        BY <4>2, <4>3 DEF CountInv
    <3>4. CASE c # Writer
      <4>1. c \in Readers /\ Places(toClient[c], "ack") = {} /\ Places(toClient'[c], "ack") = {}
            /\ p.pending = 0
        BY <2>1, <2>4, <3>2, <3>4, ClientNames
      <4>2. toClient'[Writer] = toClient[Writer] /\ pane'[Writer] = pane[Writer]
        BY <1>3, <1>4, <3>4, ClientNames
      <4>3. \A k \in Readers : /\ Places(toServer'[k], "edit") = {}
                               /\ Places(toClient'[k], "ack") = {} /\ pane'[k].pending = 0
        BY <1>3, <1>4, <2>1, <2>2, <4>1, ClientNames
      <4> QED
        BY <2>1, <2>2, <4>2, <4>3 DEF CountInv
    <3> QED
      BY <3>3, <3>4
  <2> QED
    BY <2>3, <2>4
<1> QED
  BY <1>5, <1>6, <1>7, <1>8, <1>9 DEF RequestsInv

LEMMA DismissStep ==
    ASSUME RequestsInv, NEW c \in Clients, Dismiss(c)
    PROVE  RequestsInv'
<1> DEFINE p == Cleared(pane[c])
<1>1. pane \in [Clients -> Pane] /\ pane[c] \in Pane
  BY DEF RequestsInv, MailTypes
<1>2. /\ p \in Pane /\ p.pending = pane[c].pending
      /\ p.waiting = [l \in Lanes |-> None] /\ p.menu = NoMenu
  BY <1>1, ClearedPane
<1>3. pane' = [pane EXCEPT ![c] = p]
  BY <1>1 DEF Dismiss, Cleared
<1>4. UNCHANGED <<version, committed, coordinators, requests, handler, toServer,
                  toClient, results, edits>>
  BY DEF Dismiss
<1> HIDE DEF p
<1>5. \A l \in Lanes : WaitsWell(p, c, l, requests)
  BY <1>2 DEF WaitsWell
<1>6. p.menu.request \in Requests \union {None}
  BY <1>2 DEF NoMenu
<1> QED
  BY <1>2, <1>3, <1>4, <1>5, <1>6, PaneOnlyStep

LEMMA ReceiveAckStep ==
    ASSUME RequestsInv, NEW c \in Clients, ReceiveAck(c)
    PROVE  RequestsInv'
<1> DEFINE m == Head(toClient[c])
           p == [pane[c] EXCEPT !.confirmed = m.version, !.pending = @ - 1]
<1>1. pane \in [Clients -> Pane] /\ pane[c] \in Pane /\ toClient[c] \in Seq(ToClient)
      /\ toClient[c] # <<>> /\ m.kind = "ack"
  BY DEF RequestsInv, MailTypes, ReceiveAck
<1>2. m.version \in Nat
  <2>1. m \in ToClient
    BY <1>1, Taken
  <2> HIDE DEF m
  <2> QED
    BY <1>1, <2>1 DEF ToClient
<1>3. /\ pane' = [pane EXCEPT ![c] = p] /\ toClient' = [toClient EXCEPT ![c] = Tail(@)]
      /\ UNCHANGED <<version, committed, coordinators, requests, handler, toServer,
                     results, edits>>
  BY <1>1 DEF ReceiveAck
<1> HIDE DEF m
<1>4. p \in Pane
  <2> DEFINE v == m.version
             n == pane[c].pending - 1
  <2>1. n \in Int /\ v \in Nat
    BY <1>1, <1>2, PaneFields
  <2>2. p = [pane[c] EXCEPT !.confirmed = v, !.pending = n]
    BY <1>1 DEF Pane
  <2> HIDE DEF p, v, n
  <2>3. [pane[c] EXCEPT !.confirmed = v, !.pending = n] \in Pane
    BY <1>1, <2>1 DEF Pane
  <2> QED
    BY <2>2, <2>3
<1>5. /\ p.pending = pane[c].pending - 1 /\ p.waiting = pane[c].waiting
      /\ p.menu = pane[c].menu /\ p.text = pane[c].text
  BY <1>1 DEF Pane
<1> HIDE DEF p
<1>6. /\ \A l \in Lanes : WaitsWell(p, c, l, requests)
      /\ p.menu.request \in Requests \union {None}
  BY <1>5 DEF RequestsInv, PaneInv, WaitsWell
<1> QED
  BY <1>1, <1>3, <1>4, <1>5, <1>6, PaneOnlyStep DEF m

LEMMA ReceiveResultStep ==
    ASSUME RequestsInv, NEW c \in Clients, ReceiveResult(c)
    PROVE  RequestsInv'
<1> DEFINE m == Head(toClient[c])
           r == m.request
           menu == IF Shows(pane[c], r) THEN [request |-> r, version |-> requests[r].version]
                   ELSE pane[c].menu
           p == [pane[c] EXCEPT !.menu = menu]
<1>1. /\ pane \in [Clients -> Pane] /\ pane[c] \in Pane /\ toClient[c] \in Seq(ToClient)
      /\ toClient[c] # <<>> /\ m.kind = "result" /\ requests \in Seq(Request)
  BY DEF RequestsInv, MailTypes, CoordinatorTypes, ReceiveResult
<1>2. r \in DOMAIN requests
  BY <1>1, AnswerTail DEF RequestsInv, MailInv
<1>3. /\ pane' = [pane EXCEPT ![c] = p] /\ toClient' = [toClient EXCEPT ![c] = Tail(@)]
      /\ UNCHANGED <<version, committed, coordinators, requests, handler, toServer,
                     results, edits>>
  BY <1>1 DEF ReceiveResult
<1>4. /\ menu \in Menu /\ menu.request \in Requests \union {None}
  <2>1. requests[r].version \in Int
    BY <1>1, <1>2, RequestFields
  <2>2. r \in Nat \ {0}
    BY <1>1, <1>2
  <2>3. pane[c].menu \in Menu /\ pane[c].menu.request \in Requests \union {None}
    BY <1>1, PaneFields DEF RequestsInv, PaneInv
  <2> HIDE DEF r
  <2> QED
    BY <1>2, <2>1, <2>2, <2>3 DEF Menu, Requests
<1> HIDE DEF menu, m
<1>5. /\ p \in Pane /\ p.pending = pane[c].pending /\ p.waiting = pane[c].waiting
      /\ p.menu = menu /\ p.text = pane[c].text
  BY <1>1, <1>4 DEF Pane
<1> HIDE DEF p
<1>6. /\ \A l \in Lanes : WaitsWell(p, c, l, requests)
      /\ p.menu.request \in Requests \union {None}
  BY <1>4, <1>5 DEF RequestsInv, PaneInv, WaitsWell
<1> QED
  BY <1>1, <1>3, <1>5, <1>6, PaneOnlyStep DEF m

-----------------------------------------------------------------------------
(* The server's steps                                                      *)

\* An aborted or settled request is carried as before.
LEMMA FateKept ==
    ASSUME RepliesInv, CarriedInv, Steady, CoordinatorTypes,
           \A r \in Requests : \/ SameFate(requests'[r], requests[r])
                               \/ Fate(requests[r], requests'[r]),
           UNCHANGED handler,
           \A c \in Clients : \A i \in DOMAIN toServer[c] : toServer[c][i].kind = "request" =>
               \E j \in DOMAIN toServer'[c] : toServer'[c][j] = toServer[c][i]
    PROVE  RepliesInv' /\ CarriedInv'
<1>1. DOMAIN requests' = Requests /\ \A r \in Requests : requests'[r].client = requests[r].client
  BY DEF Steady, Evolve, SameAsked
<1>2. ASSUME NEW r \in Requests
      PROVE  /\ requests'[r].reply \in {"open", "sent", "closed"} =>
                    requests'[r].answer = "none" /\ requests[r].reply \in {"open", "sent", "closed"}
             /\ requests'[r].reply = "open" => requests'[r].task \in Unsettled
             /\ requests'[r].task = "none" => requests'[r].reply = "none"
             /\ requests'[r].answer = "none" =>
                    /\ requests[r].answer = "none"
                    /\ requests[r].reply \in {"open", "sent", "closed"}
                           => requests'[r].reply \in {"open", "sent", "closed"}
  <2>1. /\ requests[r].reply \in {"open", "sent", "closed"} => requests[r].answer = "none"
        /\ requests[r].reply = "open" => requests[r].task \in Unsettled
        /\ requests[r].task = "none" => requests[r].reply = "none"
    BY DEF RepliesInv
  <2>2. CASE SameFate(requests'[r], requests[r])
    BY <2>1, <2>2 DEF SameFate
  <2>3. CASE Fate(requests[r], requests'[r])
    BY <2>1, <2>3 DEF Fate, Fates, Unsettled
  <2> QED
    BY <2>2, <2>3
<1>3. RepliesInv'
  BY <1>1, <1>2 DEF RepliesInv, Requests
<1>4. CarriedInv'
  <2> SUFFICES ASSUME NEW r \in Requests, requests'[r].answer = "none"
               PROVE  Carried(r)'
    BY <1>1 DEF CarriedInv, Requests
  <2>1. Carried(r) /\ requests[r].client \in Clients
    BY <1>2, RequestFields DEF CarriedInv, CoordinatorTypes, Requests
  <2>2. requests[r].reply \in {"open", "sent", "closed"}
            => requests'[r].reply \in {"open", "sent", "closed"}
    BY <1>2
  <2> QED
    BY <1>1, <2>1, <2>2 DEF Carried
<1> QED
  BY <1>3, <1>4

\* Tasks and replies: only the request, the entries and a result lane change.
LEMMA TaskStepsKeep ==
    ASSUME RequestsInv, NEW r \in Requests, TaskOrReply(r)
    PROVE  RequestsInv'
<1>1. /\ TypesInv /\ CoordinatorTypes /\ MailTypes /\ BoundsInv /\ MailInv /\ PaneInv
      /\ CountInv /\ RepliesInv /\ CarriedInv
  BY DEF RequestsInv, TypesInv
<1>2. Steady /\ Evolve /\ Only(r) /\ Fate(requests[r], requests'[r])
  BY <1>1, TaskSteps DEF Steady
<1>3. /\ UNCHANGED <<version, committed, registered, handler, toServer, toClient, pane, edits>>
      /\ UNCHANGED current
  BY DEF TaskOrReply, TaskStep, ProviderReturns, DropTask, CheckFreshness, CheckResult,
         Finish, Await, ServerOnly
<1>4. /\ active' \in [Lanes -> SUBSET TaskEntry]
      /\ \A l \in Lanes : active'[l] \subseteq active[l]
  <2>1. active \in [Lanes -> SUBSET TaskEntry]
    BY <1>1 DEF CoordinatorTypes
  <2>2. CASE Finish(r)
    BY <2>1, <2>2 DEF Finish
  <2>3. CASE ~Finish(r)
    <3>1. active' = active
      BY <2>3 DEF TaskOrReply, TaskStep, ProviderReturns, DropTask, CheckFreshness,
                  CheckResult, Await
    <3> QED
      BY <2>1, <3>1
  <2> QED
    BY <2>2, <2>3
<1>5. /\ results' \in [Clients -> [Lanes -> Seq(Nat)]]
      /\ \A c \in Clients, l \in Lanes : ResultLane(results'[c][l], c, l, requests')
  <2> DEFINE c == requests[r].client
             l == requests[r].lane
  <2>1. c \in Clients /\ l \in Lanes /\ r \in Nat /\ r \in DOMAIN requests
    BY <1>1, RequestFields DEF CoordinatorTypes, Requests
  <2>2. results \in [Clients -> [Lanes -> Seq(Nat)]]
    BY <1>1 DEF MailTypes
  <2>3. \A d \in Clients : \A k \in Lanes : ResultLane(results[d][k], d, k, requests')
    BY <1>1, <1>2, MailStays
  <2>4. \/ UNCHANGED results
        \/ /\ Len(results[c][l]) < LaneCapacity
           /\ results' = [results EXCEPT ![c][l] = Append(@, r)]
    BY DEF TaskOrReply, TaskStep, ProviderReturns, DropTask, CheckFreshness, CheckResult,
           Finish, Await, Deliver
  <2>5. CASE UNCHANGED results
    BY <2>2, <2>3, <2>5
  <2>6. CASE /\ Len(results[c][l]) < LaneCapacity
             /\ results' = [results EXCEPT ![c][l] = Append(@, r)]
    <3> DEFINE q == results[c][l]
    <3>1. q \in Seq(Nat) /\ ResultLane(q, c, l, requests')
      BY <2>1, <2>2, <2>3
    <3>2. r \in DOMAIN requests' /\ requests'[r].client = c /\ requests'[r].lane = l
      BY <1>2, <2>1 DEF Evolve, SameAsked, Requests
    <3> HIDE DEF c, l
    <3>3. Append(q, r) \in Seq(Nat) /\ ResultLane(Append(q, r), c, l, requests')
      BY <2>1, <2>6, <3>1, <3>2, LaneAppend
    <3> HIDE DEF q
    <3>4. results' = [results EXCEPT ![c] = [results[c] EXCEPT ![l] = Append(q, r)]]
      BY <2>1, <2>2, <2>6 DEF q
    <3>5. [results[c] EXCEPT ![l] = Append(q, r)] \in [Lanes -> Seq(Nat)]
      BY <2>1, <2>2, <3>3
    <3>6. results' \in [Clients -> [Lanes -> Seq(Nat)]]
      BY <2>1, <2>2, <3>4, <3>5
    <3>7. ASSUME NEW d \in Clients, NEW k \in Lanes
          PROVE  ResultLane(results'[d][k], d, k, requests')
      <4>1. CASE d = c /\ k = l
        <5>1. results'[d][k] = Append(q, r)
          BY <2>1, <2>2, <3>4, <4>1
        <5> QED
          BY <3>3, <4>1, <5>1
      <4>2. CASE ~(d = c /\ k = l)
        <5>1. results'[d][k] = results[d][k]
          BY <2>1, <2>2, <3>4, <4>2
        <5> QED
          BY <2>3, <5>1
      <4> QED
        BY <4>1, <4>2
    <3> QED
      BY <3>6, <3>7
  <2> QED
    BY <2>4, <2>5, <2>6
<1>6. CoordinatorTypes' /\ MailTypes'
  BY <1>1, <1>2, <1>3, <1>4, <1>5 DEF CoordinatorTypes, MailTypes, Evolve
<1>7. BoundsInv'
  BY <1>1, <1>2, <1>3, <1>4 DEF BoundsInv, Evolve, Requests
<1>8. MailInv'
  <2> SUFFICES ASSUME NEW k \in Clients
               PROVE  /\ SentMail(toServer[k], k, requests')
                      /\ HandledMail(handler[k], toServer[k], k, requests')
                      /\ AnswerMail(toClient[k], k, requests')
                      /\ \A m \in Lanes : ResultLane(results'[k][m], k, m, requests')
    BY <1>3 DEF MailInv
  <2> QED
    BY <1>1, <1>2, <1>5, MailStays, SteadyKeepsUntouched DEF MailAfter
<1>9. PaneInv'
  BY <1>1, <1>2, <1>3, PanesStay DEF PaneInv, Requests
<1>10. CountInv'
  BY <1>1, <1>3 DEF CountInv
<1>11. RepliesInv' /\ CarriedInv'
  <2>1. \A s \in Requests : SameFate(requests'[s], requests[s]) \/ Fate(requests[s], requests'[s])
    BY <1>2 DEF Only
  <2>2. \A c \in Clients : \A i \in DOMAIN toServer[c] : toServer[c][i].kind = "request" =>
               \E j \in DOMAIN toServer'[c] : toServer'[c][j] = toServer[c][i]
    BY <1>3
  <2> QED
    BY <1>1, <1>2, <1>3, <2>1, <2>2, FateKept
<1> QED
  BY <1>6, <1>7, <1>8, <1>9, <1>10, <1>11 DEF RequestsInv

\* A reload ends work, and registers providers.
LEMMA ReloadStep ==
    ASSUME RequestsInv, CommitGeneration \/ \E l \in Lanes : RegisterCandidate(l)
    PROVE  RequestsInv'
<1>1. /\ TypesInv /\ CoordinatorTypes /\ MailTypes /\ BoundsInv /\ MailInv /\ PaneInv
      /\ CountInv /\ RepliesInv /\ CarriedInv
  BY DEF RequestsInv, TypesInv
<1>2. /\ UNCHANGED <<version, handler, toServer, toClient, results, pane, edits>>
      /\ MayReload
  BY DEF CommitGeneration, RegisterCandidate
<1>3. Steady /\ Evolve /\ \A r \in Requests : SameFate(requests'[r], requests[r])
  <2>1. CASE CommitGeneration
    <3>1. PICK gone : requests' = Aborting(requests, gone)
      BY <2>1 DEF CommitGeneration
    <3> QED
      BY <1>1, <3>1, AbortingSteps, AbortedRequests DEF Steady
  <2>2. CASE \E l \in Lanes : RegisterCandidate(l)
    <3>1. requests' = requests
      BY <2>2 DEF RegisterCandidate
    <3> QED
      BY <1>1, <3>1, UnchangedRequests DEF Steady, SameFate
  <2> QED
    BY <2>1, <2>2
<1>4. /\ committed' \in Nat \ {0} /\ committed' <= MaxChanges + 1
      /\ registered' \in [Lanes -> Nat]
      /\ \A l \in Lanes : registered'[l] <= MaxChanges + 1
      /\ current' \in [Lanes -> [version : Int, generation : Nat]]
      /\ active' \in [Lanes -> SUBSET TaskEntry]
      /\ \A l \in Lanes : active'[l] \subseteq active[l]
  <2>1. /\ committed \in Nat \ {0} /\ edits \in Nat /\ registered \in [Lanes -> Nat]
        /\ current \in [Lanes -> [version : Int, generation : Nat]]
        /\ active \in [Lanes -> SUBSET TaskEntry]
        /\ \A l \in Lanes : registered[l] <= MaxChanges + 1
        /\ MaxChanges \in Nat /\ committed <= MaxChanges + 1
    BY <1>1, ProviderConstants DEF CoordinatorTypes, BoundsInv
  <2>2. committed + 1 <= MaxChanges + 1
    BY <1>2, <2>1 DEF MayReload
  <2>3. CASE CommitGeneration
    <3>1. committed' = committed + 1
      BY <2>3 DEF CommitGeneration
    <3>2. registered' = [l \in Lanes |-> IF registered[l] < committed + 1 THEN 0 ELSE registered[l]]
      BY <2>3 DEF CommitGeneration
    <3>3. registered' \in [Lanes -> Nat] /\ \A l \in Lanes : registered'[l] <= MaxChanges + 1
      BY <2>1, <3>2
    <3>4. active' = [l \in Lanes |-> active[l] \ {e \in active[l] : e.generation < committed + 1}]
      BY <2>3 DEF CommitGeneration
    <3>5. active' \in [Lanes -> SUBSET TaskEntry] /\ \A l \in Lanes : active'[l] \subseteq active[l]
      BY <2>1, <3>4
    <3>6. current' \in [Lanes -> [version : Int, generation : Nat]]
      <4> DEFINE After(l) == IF current[l].generation = 0 THEN current[l]
                             ELSE [current[l] EXCEPT !.generation = Max({@, committed + 1})]
      <4>1. current' = [l \in Lanes |-> After(l)]
        BY <2>3 DEF CommitGeneration
      <4>2. ASSUME NEW l \in Lanes
            PROVE  After(l) \in [version : Int, generation : Nat]
        <5> DEFINE x == current[l]
                   m == Max({x.generation, committed + 1})
        <5>1. x \in [version : Int, generation : Nat]
          BY <2>1
        <5>2. m \in Nat
          BY <2>1, <5>1, GreaterNumber
        <5>3. After(l) = IF x.generation = 0 THEN x ELSE [x EXCEPT !.generation = m]
          BY <5>1
        <5> HIDE DEF m, x, After
        <5> QED
          BY <5>1, <5>2, <5>3
      <4> HIDE DEF After
      <4> QED
        BY <4>1, <4>2
    <3> QED
      BY <2>1, <2>2, <3>1, <3>3, <3>5, <3>6
  <2>4. CASE \E l \in Lanes : RegisterCandidate(l)
    <3>1. PICK l \in Lanes : RegisterCandidate(l)
      BY <2>4
    <3>2. /\ registered' = [registered EXCEPT ![l] = committed + 1]
          /\ committed' = committed /\ current' = current /\ active' = active
      BY <3>1 DEF RegisterCandidate
    <3> QED
      BY <2>1, <2>2, <3>2
  <2> QED
    BY <2>3, <2>4
<1>5. CoordinatorTypes' /\ MailTypes'
  BY <1>1, <1>2, <1>3, <1>4 DEF CoordinatorTypes, MailTypes, Evolve
<1>6. BoundsInv'
  BY <1>1, <1>2, <1>3, <1>4 DEF BoundsInv, Evolve, Requests
<1>7. MailInv'
  <2> SUFFICES ASSUME NEW k \in Clients
               PROVE  /\ SentMail(toServer[k], k, requests')
                      /\ HandledMail(handler[k], toServer[k], k, requests')
                      /\ AnswerMail(toClient[k], k, requests')
                      /\ \A m \in Lanes : ResultLane(results[k][m], k, m, requests')
    BY <1>2 DEF MailInv
  <2> QED
    BY <1>1, <1>3, MailStays, SteadyKeepsUntouched DEF MailAfter
<1>8. PaneInv'
  BY <1>1, <1>2, <1>3, PanesStay DEF PaneInv, Requests
<1>9. CountInv'
  BY <1>1, <1>2 DEF CountInv
<1>10. RepliesInv' /\ CarriedInv'
  <2>1. \A c \in Clients : \A i \in DOMAIN toServer[c] : toServer[c][i].kind = "request" =>
               \E j \in DOMAIN toServer'[c] : toServer'[c][j] = toServer[c][i]
    BY <1>2
  <2> QED
    BY <1>1, <1>2, <1>3, <2>1, FateKept
<1> QED
  BY <1>5, <1>6, <1>7, <1>8, <1>9, <1>10 DEF RequestsInv


-----------------------------------------------------------------------------
(* The handler's steps                                                     *)

\* What becomes of the handler, of the stream and of the coordinator.
LEMMA HandledTypes ==
    ASSUME TypesInv, MailInv, NEW c \in Clients, NEW r, Untouched(r, c, requests), Handled(c, r)
    PROVE  /\ handler' \in [Clients -> Handler]
           /\ \A k \in Clients : k # c => handler'[k] = handler[k]
           /\ toClient' \in [Clients -> Seq(ToClient)]
           /\ \A k \in Clients : AnswerMail(toClient'[k], k, requests')
           /\ \A k \in Clients : Count(toClient'[k], "ack") = Count(toClient[k], "ack")
           /\ \A k \in Clients : Places(toClient'[k], "ack") = Places(toClient[k], "ack")
           /\ current' \in [Lanes -> [version : Int, generation : Nat]]
           /\ active' \in [Lanes -> SUBSET TaskEntry]
           /\ \A l \in Lanes : active'[l] \subseteq active[l]
<1>1. /\ handler \in [Clients -> Handler] /\ toClient \in [Clients -> Seq(ToClient)]
      /\ current \in [Lanes -> [version : Int, generation : Nat]]
      /\ active \in [Lanes -> SUBSET TaskEntry] /\ requests \in Seq(Request)
  BY DEF TypesInv, MailTypes, CoordinatorTypes
<1>2. Evolve /\ r \in Nat /\ r \in DOMAIN requests' /\ requests'[r].client = c
  BY <1>1 DEF Handled, Kept, Evolve, Untouched, SameAsked, Requests
<1>3. \A k \in Clients : AnswerMail(toClient[k], k, requests')
  BY <1>2, MailStays
<1>4. /\ [at |-> "chosen", request |-> r] \in Handler /\ [at |-> "spawned", request |-> r] \in Handler
      /\ Idle \in Handler
  BY <1>2 DEF Handler
<1>5. /\ handler' \in [Clients -> Handler]
      /\ \A k \in Clients : k # c => handler'[k] = handler[k]
  <2>1. PICK h \in Handler : handler' = [handler EXCEPT ![c] = h]
    BY <1>4 DEF Handled, Answered, Chosen, Spawned
  <2> QED
    BY <1>1, <2>1
<1>6. /\ current' \in [Lanes -> [version : Int, generation : Nat]]
      /\ active' \in [Lanes -> SUBSET TaskEntry]
      /\ \A l \in Lanes : active'[l] \subseteq active[l]
  <2>1. CASE Spawned(c, r)
    BY <2>1 DEF Spawned
  <2>2. CASE ~Spawned(c, r)
    <3>1. current' = current /\ active' = active
      BY <2>2 DEF Handled, Answered, Chosen
    <3> QED
      BY <1>1, <3>1
  <2> QED
    BY <2>1, <2>2
<1>7. /\ toClient' \in [Clients -> Seq(ToClient)]
      /\ \A k \in Clients : AnswerMail(toClient'[k], k, requests')
      /\ \A k \in Clients : Count(toClient'[k], "ack") = Count(toClient[k], "ack")
      /\ \A k \in Clients : Places(toClient'[k], "ack") = Places(toClient[k], "ack")
  <2>1. CASE Answered(c, r)
    <3> DEFINE m == [kind |-> "result", request |-> r]
    <3>1. m \in ToClient /\ m.kind = "result" /\ m.request = r /\ m.kind # "ack"
      BY <1>2 DEF ToClient
    <3>2. toClient' = [toClient EXCEPT ![c] = Append(@, m)]
      BY <2>1 DEF Answered
    <3> HIDE DEF m
    <3>3. Append(toClient[c], m) \in Seq(ToClient) /\ AnswerMail(Append(toClient[c], m), c, requests')
      BY <1>1, <1>2, <1>3, <3>1, AnswerAppend
    <3>4. /\ Count(Append(toClient[c], m), "ack") = Count(toClient[c], "ack")
          /\ Places(Append(toClient[c], m), "ack") = Places(toClient[c], "ack")
      BY <1>1, <3>1, CountAppended
    <3>5. /\ toClient'[c] = Append(toClient[c], m)
          /\ \A k \in Clients : k # c => toClient'[k] = toClient[k]
          /\ toClient' \in [Clients -> Seq(ToClient)]
      BY <1>1, <3>2, <3>3
    <3>6. ASSUME NEW k \in Clients
          PROVE  /\ AnswerMail(toClient'[k], k, requests')
                 /\ Count(toClient'[k], "ack") = Count(toClient[k], "ack")
                 /\ Places(toClient'[k], "ack") = Places(toClient[k], "ack")
      <4>1. CASE k = c
        BY <3>3, <3>4, <3>5, <4>1
      <4>2. CASE k # c
        BY <1>3, <3>5, <3>6, <4>2
      <4> QED
        BY <4>1, <4>2
    <3> QED
      BY <3>5, <3>6
  <2>2. CASE ~Answered(c, r)
    <3>1. toClient' = toClient
      BY <2>2 DEF Handled, Chosen, Spawned
    <3> QED
      BY <1>1, <1>3, <3>1
  <2> QED
    BY <2>1, <2>2
<1> QED
  BY <1>5, <1>6, <1>7

\* The requests a handler has not turned to stay untouched.
LEMMA HandledMailKept ==
    ASSUME TypesInv, MailInv, NEW c \in Clients, NEW r, Untouched(r, c, requests), Handled(c, r),
           SentMail(toServer'[c], c, requests),
           \A i \in DOMAIN toServer'[c] :
               toServer'[c][i].kind = "request" => r < toServer'[c][i].request,
           \A k \in Clients : k # c => toServer'[k] = toServer[k],
           UNCHANGED results
    PROVE  MailInv'
<1>1. /\ Evolve /\ Only(r) /\ \A s \in Requests : SameAsked(requests'[s], requests[s])
      /\ r \in Requests /\ r \in Nat /\ DOMAIN requests' = Requests
  BY DEF Handled, Kept, Evolve, Untouched, Requests, TypesInv, CoordinatorTypes
<1>2. ASSUME NEW k, NEW s, s # r, Untouched(s, k, requests)
      PROVE  Untouched(s, k, requests')
  BY <1>1, <1>2 DEF Only, SameAsked, SameFate, Untouched, Requests
<1>3. \A k \in Clients : k # c => KeepsUntouched(k)
  BY <1>2 DEF KeepsUntouched, Untouched
<1>4. SentMail(toServer'[c], c, requests')
  <2>1. \A i \in DOMAIN toServer'[c] : toServer'[c][i].kind = "request" =>
            Untouched(toServer'[c][i].request, c, requests) /\ toServer'[c][i].request # r
    BY <1>1 DEF SentMail
  <2> QED
    BY <1>2, <2>1 DEF SentMail
<1>5. HandledMail(handler'[c], toServer'[c], c, requests')
  <2>1. handler \in [Clients -> Handler]
    BY DEF TypesInv, MailTypes
  <2>2. requests'[r].client = c /\ r \in DOMAIN requests'
    BY <1>1 DEF Untouched, SameAsked
  <2>3. CASE Answered(c, r)
    BY <2>1, <2>3 DEF Answered, HandledMail
  <2>4. CASE Spawned(c, r)
    <3>1. handler'[c] = [at |-> "spawned", request |-> r]
      BY <2>1, <2>4 DEF Spawned
    <3> QED
      BY <2>2, <3>1 DEF HandledMail
  <2>5. CASE Chosen(c, r)
    <3>1. handler'[c] = [at |-> "chosen", request |-> r]
      BY <2>1, <2>5 DEF Chosen
    <3>2. Untouched(r, c, requests') /\ requests'[r].lane = "completion"
      BY <1>1, <2>2, <2>5 DEF Chosen, Untouched, SameFate, SameAsked
    <3> QED
      BY <2>2, <3>1, <3>2 DEF HandledMail
  <2> QED
    BY <2>3, <2>4, <2>5 DEF Handled
<1>6. ASSUME NEW k \in Clients
      PROVE  /\ SentMail(toServer'[k], k, requests')
             /\ HandledMail(handler'[k], toServer'[k], k, requests')
             /\ AnswerMail(toClient'[k], k, requests')
             /\ \A m \in Lanes : ResultLane(results'[k][m], k, m, requests')
  <2>1. /\ AnswerMail(toClient'[k], k, requests')
        /\ \A j \in Clients : j # c => handler'[j] = handler[j]
    BY <1>6, HandledTypes
  <2>2. \A m \in Lanes : ResultLane(results'[k][m], k, m, requests')
    BY <1>1, <1>6, MailStays
  <2>3. CASE k = c
    BY <1>4, <1>5, <2>1, <2>2, <2>3
  <2>4. CASE k # c
    <3>1. MailAfter(k)
      BY <1>1, <1>3, <1>6, <2>4, MailStays
    <3> QED
      BY <1>6, <2>1, <2>2, <2>4, <3>1 DEF MailAfter
  <2> QED
    BY <2>3, <2>4
<1> QED
  BY <1>6 DEF MailInv

\* An answered request is done with; the others are carried on.
LEMMA HandledFates ==
    ASSUME TypesInv, RepliesInv, CarriedInv, NEW c \in Clients, NEW r,
           Untouched(r, c, requests), Handled(c, r),
           handler[c].at = "chosen" => handler[c].request = r,
           \A i \in DOMAIN toServer[c] :
               toServer[c][i].kind = "request" /\ toServer[c][i].request # r =>
                   \E j \in DOMAIN toServer'[c] : toServer'[c][j] = toServer[c][i],
           \A k \in Clients : k # c => toServer'[k] = toServer[k] /\ handler'[k] = handler[k]
    PROVE  RepliesInv' /\ CarriedInv'
<1>1. /\ Evolve /\ Only(r) /\ DOMAIN requests' = Requests /\ r \in Requests
      /\ \A s \in Requests : requests'[s].client = requests[s].client
      /\ handler \in [Clients -> Handler]
  BY DEF Handled, Kept, Evolve, Untouched, Requests, SameAsked, TypesInv, MailTypes
<1>2. RepliesInv'
  <2> SUFFICES ASSUME NEW s \in Requests
               PROVE  /\ requests'[s].reply \in {"open", "sent", "closed"} => requests'[s].answer = "none"
                      /\ requests'[s].reply = "open" => requests'[s].task \in Unsettled
                      /\ requests'[s].task = "none" => requests'[s].reply = "none"
    BY <1>1 DEF RepliesInv, Requests
  <2>1. CASE s = r
    <3>1. CASE Answered(c, r)
      BY <2>1, <3>1 DEF Answered
    <3>2. CASE Chosen(c, r)
      BY <2>1, <3>2 DEF Chosen, SameFate, Untouched
    <3>3. CASE Spawned(c, r)
      BY <2>1, <3>3 DEF Spawned, Unsettled
    <3> QED
      BY <3>1, <3>2, <3>3 DEF Handled
  <2>2. CASE s # r
    BY <1>1, <2>2 DEF RepliesInv, Only, SameFate
  <2> QED
    BY <2>1, <2>2
<1>3. CarriedInv'
  <2> SUFFICES ASSUME NEW s \in Requests, requests'[s].answer = "none"
               PROVE  Carried(s)'
    BY <1>1 DEF CarriedInv, Requests
  <2>1. CASE s = r
    <3>1. requests'[r].client = c
      BY <1>1 DEF Untouched
    <3>2. CASE Answered(c, r)
      BY <2>1, <3>2 DEF Answered
    <3>3. CASE Chosen(c, r)
      <4>1. handler'[c] = [at |-> "chosen", request |-> r]
        BY <1>1, <3>3 DEF Chosen
      <4> QED
        BY <2>1, <3>1, <4>1 DEF Carried
    <3>4. CASE Spawned(c, r)
      BY <2>1, <3>4 DEF Spawned, Carried
    <3> QED
      BY <3>2, <3>3, <3>4 DEF Handled
  <2>2. CASE s # r
    <3>1. SameFate(requests'[s], requests[s])
      BY <1>1, <2>2 DEF Only
    <3>2. Carried(s) /\ requests[s].client \in Clients
      <4>1. requests[s].client \in Clients
        BY RequestFields DEF TypesInv, CoordinatorTypes, Requests
      <4> QED
        BY <3>1, <4>1 DEF SameFate, CarriedInv
    <3>3. requests'[s].client = requests[s].client
      BY <1>1
    <3>4. CASE requests[s].client = c
      BY <2>2, <3>1, <3>2, <3>3, <3>4 DEF Carried, SameFate
    <3>5. CASE requests[s].client # c
      BY <3>1, <3>2, <3>3, <3>5 DEF Carried, SameFate
    <3> QED
      BY <3>4, <3>5
  <2> QED
    BY <2>1, <2>2
<1> QED
  BY <1>2, <1>3

LEMMA HandledStep ==
    ASSUME RequestsInv, NEW c \in Clients, NEW r, Untouched(r, c, requests), Handled(c, r),
           toServer' \in [Clients -> Seq(ToServer)],
           SentMail(toServer'[c], c, requests),
           \A i \in DOMAIN toServer'[c] :
               toServer'[c][i].kind = "request" => r < toServer'[c][i].request,
           \A k \in Clients : k # c => toServer'[k] = toServer[k],
           handler[c].at = "chosen" => handler[c].request = r,
           \A i \in DOMAIN toServer[c] :
               toServer[c][i].kind = "request" /\ toServer[c][i].request # r =>
                   \E j \in DOMAIN toServer'[c] : toServer'[c][j] = toServer[c][i],
           Count(toServer'[c], "edit") = Count(toServer[c], "edit"),
           Places(toServer[c], "edit") = {} => Places(toServer'[c], "edit") = {},
           UNCHANGED <<version, committed, registered, results, pane, edits>>
    PROVE  RequestsInv'
<1>1. /\ TypesInv /\ CoordinatorTypes /\ MailTypes /\ BoundsInv /\ MailInv /\ PaneInv
      /\ CountInv /\ RepliesInv /\ CarriedInv
  BY DEF RequestsInv, TypesInv
<1>2. /\ handler' \in [Clients -> Handler]
      /\ \A k \in Clients : k # c => handler'[k] = handler[k]
      /\ toClient' \in [Clients -> Seq(ToClient)]
      /\ \A k \in Clients : Count(toClient'[k], "ack") = Count(toClient[k], "ack")
      /\ \A k \in Clients : Places(toClient'[k], "ack") = Places(toClient[k], "ack")
      /\ current' \in [Lanes -> [version : Int, generation : Nat]]
      /\ active' \in [Lanes -> SUBSET TaskEntry]
      /\ \A l \in Lanes : active'[l] \subseteq active[l]
  BY <1>1, HandledTypes
<1>3. Evolve /\ DOMAIN requests' = Requests
  BY DEF Handled, Kept
<1>4. MailInv'
  BY <1>1, HandledMailKept
<1>5. RepliesInv' /\ CarriedInv'
  BY <1>1, <1>2, HandledFates
<1>6. CoordinatorTypes' /\ MailTypes'
  BY <1>1, <1>2, <1>3 DEF CoordinatorTypes, MailTypes, Evolve
<1>7. BoundsInv'
  BY <1>1, <1>2, <1>3 DEF BoundsInv, Evolve, Requests
<1>8. PaneInv'
  BY <1>1, <1>3, PanesStay DEF PaneInv, Requests
<1>9. CountInv'
  <2>1. /\ \A k \in Clients : Count(toServer'[k], "edit") = Count(toServer[k], "edit")
        /\ \A k \in Clients : Places(toServer[k], "edit") = {} => Places(toServer'[k], "edit") = {}
    <3> SUFFICES ASSUME NEW k \in Clients
                 PROVE  /\ Count(toServer'[k], "edit") = Count(toServer[k], "edit")
                        /\ Places(toServer[k], "edit") = {} => Places(toServer'[k], "edit") = {}
      OBVIOUS
    <3>1. CASE k = c
      BY <3>1
    <3>2. CASE k # c
      BY <3>2
    <3> QED
      BY <3>1, <3>2
  <2>2. Writer \in Clients /\ Readers \subseteq Clients
    BY ClientNames
  <2> QED
    BY <1>1, <1>2, <2>1, <2>2 DEF CountInv
<1> QED
  BY <1>4, <1>5, <1>6, <1>7, <1>8, <1>9 DEF RequestsInv

\* The head of what a client sent is served.
LEMMA ServedStep ==
    ASSUME RequestsInv, NEW c \in Clients, Serving(c, "request"),
           Handled(c, Head(toServer[c]).request),
           UNCHANGED <<version, committed, registered, results, pane, edits>>
    PROVE  RequestsInv'
<1> DEFINE q == toServer[c]
           r == Head(q).request
<1>1. TypesInv /\ MailInv /\ toServer \in [Clients -> Seq(ToServer)]
  BY DEF RequestsInv, TypesInv, MailTypes
<1>2. /\ handler[c] = Idle /\ q \in Seq(ToServer) /\ q # <<>>
      /\ Head(q).kind = "request" /\ Untouched(r, c, requests)
  BY <1>1, HeadIsUntouched
<1>3. toServer' = [toServer EXCEPT ![c] = Tail(q)]
  BY DEF Serving
<1>4. SentMail(q, c, requests)
  BY <1>1 DEF MailInv
<1> HIDE DEF q
<1>5. /\ Tail(q) \in Seq(ToServer) /\ SentMail(Tail(q), c, requests)
      /\ \A i \in DOMAIN Tail(q) : Tail(q)[i].kind = "request" => r < Tail(q)[i].request
  BY <1>2, <1>4, SentTail
<1>6. /\ toServer'[c] = Tail(q) /\ toServer' \in [Clients -> Seq(ToServer)]
      /\ \A k \in Clients : k # c => toServer'[k] = toServer[k]
  BY <1>1, <1>3, <1>5
<1>7. \A i \in DOMAIN q : q[i].request # r => \E j \in DOMAIN Tail(q) : Tail(q)[j] = q[i]
  <2>1. /\ Head(q) = q[1] /\ Len(q) \in Nat
        /\ DOMAIN q = 1..Len(q) /\ DOMAIN Tail(q) = 1..(Len(q) - 1)
        /\ \A i \in 1..(Len(q) - 1) : Tail(q)[i] = q[i + 1]
    BY <1>2, Taken
  <2> SUFFICES ASSUME NEW i \in DOMAIN q, q[i].request # r
               PROVE  \E j \in DOMAIN Tail(q) : Tail(q)[j] = q[i]
    OBVIOUS
  <2>2. i # 1
    BY <2>1
  <2>3. i - 1 \in 1..(Len(q) - 1) /\ Tail(q)[i - 1] = q[i]
    BY <2>1, <2>2
  <2> QED
    BY <2>1, <2>3
<1>8. /\ Count(Tail(q), "edit") = Count(q, "edit")
      /\ Places(q, "edit") = {} => Places(Tail(q), "edit") = {}
  BY <1>2, CountTaken
<1>9. handler[c].at # "chosen"
  BY <1>2 DEF Idle
<1>10. /\ Untouched(r, c, requests) /\ Handled(c, r)
       /\ SentMail(toServer'[c], c, requests)
       /\ \A i \in DOMAIN toServer'[c] :
              toServer'[c][i].kind = "request" => r < toServer'[c][i].request
  BY <1>2, <1>5, <1>6 DEF q
<1>11. /\ \A i \in DOMAIN toServer[c] :
              toServer[c][i].kind = "request" /\ toServer[c][i].request # r =>
                  \E j \in DOMAIN toServer'[c] : toServer'[c][j] = toServer[c][i]
       /\ Count(toServer'[c], "edit") = Count(toServer[c], "edit")
       /\ Places(toServer[c], "edit") = {} => Places(toServer'[c], "edit") = {}
  BY <1>6, <1>7, <1>8 DEF q
<1> HIDE DEF r
<1> QED
  BY <1>6, <1>9, <1>10, <1>11, HandledStep

LEMMA RequestServedStep ==
    ASSUME RequestsInv, NEW c \in Clients, ChooseProvider(c) \/ schedule(c)
    PROVE  RequestsInv'
<1>1. TypesInv /\ MailInv
  BY DEF RequestsInv, TypesInv
<1>2. Serving(c, "request") /\ Handled(c, Head(toServer[c]).request)
  BY <1>1, ChooseStep, ScheduleStep
<1>3. UNCHANGED <<version, committed, registered, results, pane, edits>>
  BY DEF ChooseProvider, schedule, coordinators
<1> QED
  BY <1>2, <1>3, ServedStep

LEMMA CompletionScheduledStep ==
    ASSUME RequestsInv, NEW c \in Clients, schedule_completion(c)
    PROVE  RequestsInv'
<1> DEFINE r == handler[c].request
<1>1. TypesInv /\ MailInv /\ toServer \in [Clients -> Seq(ToServer)]
  BY DEF RequestsInv, TypesInv, MailTypes
<1>2. handler[c].at = "chosen" /\ handler[c] # Idle /\ Untouched(r, c, requests) /\ Handled(c, r)
  BY <1>1, ScheduleCompletionStep
<1>3. toServer' = toServer /\ UNCHANGED <<version, committed, registered, results, pane, edits>>
  BY DEF schedule_completion
<1>4. /\ SentMail(toServer[c], c, requests)
      /\ \A i \in DOMAIN toServer[c] : toServer[c][i].kind = "request" => r < toServer[c][i].request
  BY <1>1, <1>2 DEF MailInv, HandledMail
<1> HIDE DEF r
<1> QED
  BY <1>1, <1>2, <1>3, <1>4, HandledStep DEF r

\* An edit is accepted: every running task is aborted, and the client told.
LEMMA AcceptEditStep ==
    ASSUME RequestsInv, NEW c \in Clients, AcceptEdit(c)
    PROVE  RequestsInv'
<1> DEFINE q == toServer[c]
           m == [kind |-> "ack", version |-> version + 1]
<1>1. /\ TypesInv /\ CoordinatorTypes /\ MailTypes /\ BoundsInv /\ MailInv /\ PaneInv
      /\ CountInv /\ RepliesInv /\ CarriedInv
  BY DEF RequestsInv, TypesInv
<1>2. /\ toServer \in [Clients -> Seq(ToServer)] /\ toClient \in [Clients -> Seq(ToClient)]
      /\ q # <<>> /\ Head(q).kind = "edit" /\ version \in Nat \ {0} /\ edits \in Nat
  BY <1>1 DEF AcceptEdit, Serving, MailTypes, CoordinatorTypes
<1>3. /\ version' = version + 1
      /\ current' = [l \in Lanes |-> [current[l] EXCEPT !.version = version + 1]]
      /\ active' = [l \in Lanes |-> {}]
      /\ toServer' = [toServer EXCEPT ![c] = Tail(q)]
      /\ toClient' = [toClient EXCEPT ![c] = Append(@, m)]
      /\ UNCHANGED <<committed, registered, handler, results, pane, edits>>
  BY DEF AcceptEdit, Serving
<1>4. Steady /\ Evolve /\ \A r \in Requests : SameFate(requests'[r], requests[r])
  <2>1. PICK gone : requests' = Aborting(requests, gone)
    BY DEF AcceptEdit
  <2> QED
    BY <1>1, <2>1, AbortingSteps, AbortedRequests DEF Steady
<1>5. m \in ToClient /\ m.kind = "ack" /\ m.kind # "result"
  BY <1>2 DEF ToClient
<1> HIDE DEF q, m
<1>6. q \in Seq(ToServer)
  BY <1>2 DEF q
<1>7. c = Writer /\ Count(Tail(q), "edit") + 1 = Count(q, "edit") /\ Count(Tail(q), "edit") \in Nat
  <2>1. Count(Tail(q), "edit") + 1 = Count(q, "edit") /\ Places(q, "edit") # {}
        /\ Count(Tail(q), "edit") \in Nat
    BY <1>2, <1>6, CountTaken
  <2> QED
    BY <1>1, <2>1, ClientNames DEF CountInv, q
<1>8. /\ SentMail(q, c, requests') /\ HandledMail(handler[c], q, c, requests')
      /\ AnswerMail(toClient[c], c, requests')
  BY <1>1, <1>4, MailStays, SteadyKeepsUntouched DEF MailAfter, q
<1>9. /\ Tail(q) \in Seq(ToServer) /\ SentMail(Tail(q), c, requests')
      /\ HandledMail(handler[c], Tail(q), c, requests')
  <2>1. handler[c] = Idle
    BY DEF AcceptEdit, Serving
  <2> QED
    BY <1>2, <1>6, <1>8, <2>1, SentTail DEF HandledMail
<1>10. Append(toClient[c], m) \in Seq(ToClient) /\ AnswerMail(Append(toClient[c], m), c, requests')
  BY <1>2, <1>5, <1>8, AnswerAppend
<1>11. Count(Append(toClient[c], m), "ack") = Count(toClient[c], "ack") + 1
  BY <1>2, <1>5, CountAppended
<1>12. /\ toServer'[c] = Tail(q) /\ toClient'[c] = Append(toClient[c], m)
       /\ \A k \in Clients : k # c => toServer'[k] = toServer[k] /\ toClient'[k] = toClient[k]
       /\ toServer' \in [Clients -> Seq(ToServer)] /\ toClient' \in [Clients -> Seq(ToClient)]
  BY <1>2, <1>3, <1>9, <1>10
<1>13. /\ current' \in [Lanes -> [version : Int, generation : Nat]]
       /\ active' \in [Lanes -> SUBSET TaskEntry]
  <2>1. ASSUME NEW l \in Lanes
        PROVE  [current[l] EXCEPT !.version = version + 1] \in [version : Int, generation : Nat]
    <3> DEFINE x == current[l]
               v == version + 1
    <3>1. x \in [version : Int, generation : Nat] /\ v \in Int
      BY <1>1, <1>2 DEF CoordinatorTypes
    <3> HIDE DEF x, v
    <3>2. [x EXCEPT !.version = v] \in [version : Int, generation : Nat]
      BY <3>1
    <3> QED
      BY <3>2 DEF x, v
  <2> QED
    BY <1>3, <2>1
<1>14. CoordinatorTypes' /\ MailTypes'
  BY <1>1, <1>2, <1>3, <1>4, <1>12, <1>13, SMTT(30) DEF CoordinatorTypes, MailTypes, Evolve
<1>15. BoundsInv'
  BY <1>1, <1>3, <1>4 DEF BoundsInv, Evolve, Requests
<1>16. MailInv'
  <2> SUFFICES ASSUME NEW k \in Clients
               PROVE  /\ SentMail(toServer'[k], k, requests')
                      /\ HandledMail(handler[k], toServer'[k], k, requests')
                      /\ AnswerMail(toClient'[k], k, requests')
                      /\ \A l \in Lanes : ResultLane(results[k][l], k, l, requests')
    BY <1>3 DEF MailInv
  <2>1. /\ MailAfter(k) /\ AnswerMail(toClient[k], k, requests')
        /\ \A l \in Lanes : ResultLane(results[k][l], k, l, requests')
    BY <1>1, <1>4, MailStays, SteadyKeepsUntouched
  <2>2. CASE k = c
    BY <1>9, <1>10, <1>12, <2>1, <2>2
  <2>3. CASE k # c
    BY <1>12, <2>1, <2>3 DEF MailAfter
  <2> QED
    BY <2>2, <2>3
<1>17. PaneInv'
  BY <1>1, <1>3, <1>4, PanesStay DEF PaneInv, Requests
<1>18. CountInv'
  <2>1. /\ Count(toServer'[Writer], "edit") + 1 = Count(toServer[Writer], "edit")
        /\ Count(toServer'[Writer], "edit") \in Nat
        /\ Count(toClient'[Writer], "ack") = Count(toClient[Writer], "ack") + 1
    BY <1>7, <1>11, <1>12 DEF q
  <2>2. /\ Count(toServer[Writer], "edit") \in Nat /\ Count(toClient[Writer], "ack") \in Nat
        /\ pane[Writer].pending \in Int
    BY <1>1, CountsAreNumbers, ClientNames
  <2>3. /\ version + Count(toServer[Writer], "edit") = edits + 1
        /\ Count(toClient[Writer], "ack") < version
        /\ pane[Writer].pending = Count(toServer[Writer], "edit") + Count(toClient[Writer], "ack")
        /\ \A k \in Readers : /\ Places(toServer[k], "edit") = {}
                              /\ Places(toClient[k], "ack") = {} /\ pane[k].pending = 0
    BY <1>1 DEF CountInv
  <2>4. version' = version + 1 /\ pane' = pane /\ edits' = edits
    BY <1>3
  <2>5. /\ version' + Count(toServer'[Writer], "edit") = edits' + 1
        /\ Count(toClient'[Writer], "ack") < version'
        /\ pane'[Writer].pending = Count(toServer'[Writer], "edit") + Count(toClient'[Writer], "ack")
    BY <1>2, <2>1, <2>2, <2>3, <2>4, SMTT(30)
  <2>6. \A k \in Readers : /\ Places(toServer'[k], "edit") = {}
                           /\ Places(toClient'[k], "ack") = {} /\ pane'[k].pending = 0
    BY <1>7, <1>12, <2>3, <2>4, ClientNames
  <2> QED
    BY <2>5, <2>6 DEF CountInv
<1>19. RepliesInv' /\ CarriedInv'
  <2>1. \A k \in Clients : \A i \in DOMAIN toServer[k] : toServer[k][i].kind = "request" =>
               \E j \in DOMAIN toServer'[k] : toServer'[k][j] = toServer[k][i]
    <3> SUFFICES ASSUME NEW k \in Clients, NEW i \in DOMAIN toServer[k],
                        toServer[k][i].kind = "request"
                 PROVE  \E j \in DOMAIN toServer'[k] : toServer'[k][j] = toServer[k][i]
      OBVIOUS
    <3>1. CASE k = c
      <4>1. /\ Head(q) = q[1] /\ Len(q) \in Nat
            /\ DOMAIN q = 1..Len(q) /\ DOMAIN Tail(q) = 1..(Len(q) - 1)
            /\ \A j \in 1..(Len(q) - 1) : Tail(q)[j] = q[j + 1]
        BY <1>2, <1>6, Taken
      <4>2. i \in DOMAIN q /\ q[i].kind = "request"
        BY <3>1 DEF q
      <4>3. i # 1
        BY <1>2, <4>1, <4>2
      <4>4. i - 1 \in 1..(Len(q) - 1) /\ Tail(q)[i - 1] = q[i]
        BY <4>1, <4>2, <4>3
      <4> QED
        BY <1>12, <3>1, <4>1, <4>4 DEF q
    <3>2. CASE k # c
      BY <1>12, <3>2
    <3> QED
      BY <3>1, <3>2
  <2>2. handler' = handler
    BY <1>3
  <2> QED
    BY <1>1, <1>4, <2>1, <2>2, FateKept
<1> QED
  BY <1>14, <1>15, <1>16, <1>17, <1>18, <1>19 DEF RequestsInv

\* The spawned task's entry is inserted.
LEMMA InsertTaskStep ==
    ASSUME RequestsInv, NEW c \in Clients, InsertTask(c)
    PROVE  RequestsInv'
<1> DEFINE r == handler[c].request
           l == requests[r].lane
<1>1. /\ TypesInv /\ CoordinatorTypes /\ MailTypes /\ BoundsInv /\ MailInv /\ PaneInv
      /\ CountInv /\ RepliesInv /\ CarriedInv
  BY DEF RequestsInv, TypesInv
<1>2. handler[c].at = "spawned" /\ handler \in [Clients -> Handler]
  BY <1>1 DEF InsertTask, MailTypes
<1>3. /\ r \in DOMAIN requests /\ requests[r] \in Request /\ r \in Nat
  <2>1. handler[c] # Idle
    BY <1>2 DEF Idle
  <2>2. r \in DOMAIN requests
    BY <1>1, <2>1 DEF MailInv, HandledMail
  <2>3. requests \in Seq(Request)
    BY <1>1 DEF CoordinatorTypes
  <2> HIDE DEF r
  <2> QED
    BY <2>2, <2>3
<1>4. /\ active' = [active EXCEPT ![l] = {e \in @ : ~SameKey(e, Entry(r))} \union {Entry(r)}]
      /\ handler' = [handler EXCEPT ![c] = Idle]
      /\ UNCHANGED <<version, committed, registered, current, requests, toServer,
                     toClient, results, pane, edits>>
  BY DEF InsertTask
<1>5. Entry(r) \in TaskEntry /\ Entry(r).task = r /\ l \in Lanes
  BY <1>3, RequestFields DEF Entry, TaskEntry
<1> HIDE DEF r, l
<1>6. /\ active' \in [Lanes -> SUBSET TaskEntry]
      /\ \A k \in Lanes : \A e \in active'[k] : e.task \in Requests
  <2>1. active \in [Lanes -> SUBSET TaskEntry]
        /\ \A k \in Lanes : \A e \in active[k] : e.task \in Requests
    BY <1>1 DEF CoordinatorTypes, BoundsInv
  <2> DEFINE new == {e \in active[l] : ~SameKey(e, Entry(r))} \union {Entry(r)}
  <2>2. new \subseteq TaskEntry /\ \A e \in new : e.task \in Requests
    BY <1>3, <1>5, <2>1 DEF Requests
  <2>3. active' = [active EXCEPT ![l] = new]
    BY <1>4
  <2> HIDE DEF new
  <2> QED
    BY <1>5, <2>1, <2>2, <2>3
<1>7. /\ handler' \in [Clients -> Handler] /\ handler'[c] = Idle
      /\ \A k \in Clients : k # c => handler'[k] = handler[k]
  BY <1>2, <1>4 DEF Handler
<1>8. CoordinatorTypes' /\ MailTypes' /\ BoundsInv'
  BY <1>1, <1>4, <1>6, <1>7 DEF CoordinatorTypes, MailTypes, BoundsInv, Requests
<1>9. MailInv'
  <2> SUFFICES ASSUME NEW k \in Clients
               PROVE  /\ SentMail(toServer[k], k, requests)
                      /\ HandledMail(handler'[k], toServer[k], k, requests)
                      /\ AnswerMail(toClient[k], k, requests)
                      /\ \A m \in Lanes : ResultLane(results[k][m], k, m, requests)
    BY <1>4 DEF MailInv
  <2>1. HandledMail(handler'[k], toServer[k], k, requests)
    BY <1>1, <1>7 DEF MailInv, HandledMail
  <2> QED
    BY <1>1, <2>1 DEF MailInv
<1>10. PaneInv' /\ CountInv' /\ RepliesInv'
  BY <1>1, <1>4 DEF PaneInv, CountInv, RepliesInv, Requests
<1>11. CarriedInv'
  <2> SUFFICES ASSUME NEW s \in Requests, requests[s].answer = "none"
               PROVE  Carried(s)'
    BY <1>4 DEF CarriedInv, Requests
  <2>1. Carried(s) /\ requests[s].client \in Clients
    BY <1>1, RequestFields DEF CarriedInv, CoordinatorTypes, Requests
  <2>2. CASE requests[s].client = c
    BY <1>2, <1>4, <2>1, <2>2 DEF Carried
  <2>3. CASE requests[s].client # c
    BY <1>4, <1>7, <2>1, <2>3 DEF Carried
  <2> QED
    BY <2>2, <2>3
<1> QED
  BY <1>8, <1>9, <1>10, <1>11 DEF RequestsInv

\* A result leaves its lane for the stream.
LEMMA DrainStep ==
    ASSUME RequestsInv, NEW c \in Clients, NEW l \in Lanes, Drain(c, l)
    PROVE  RequestsInv'
<1> DEFINE q == results[c][l]
           m == [kind |-> "result", request |-> Head(q)]
<1>1. /\ TypesInv /\ CoordinatorTypes /\ MailTypes /\ BoundsInv /\ MailInv /\ PaneInv
      /\ CountInv /\ RepliesInv /\ CarriedInv
  BY DEF RequestsInv, TypesInv
<1>2. /\ results \in [Clients -> [Lanes -> Seq(Nat)]] /\ toClient \in [Clients -> Seq(ToClient)]
      /\ q \in Seq(Nat) /\ q # <<>> /\ ResultLane(q, c, l, requests)
      /\ AnswerMail(toClient[c], c, requests)
  BY <1>1 DEF MailTypes, MailInv, Drain
<1>3. /\ results' = [results EXCEPT ![c][l] = Tail(@)]
      /\ toClient' = [toClient EXCEPT ![c] = Append(@, m)]
      /\ UNCHANGED <<version, committed, coordinators, requests, handler, toServer, pane, edits>>
  BY DEF Drain
<1> HIDE DEF q
<1>4. /\ Tail(q) \in Seq(Nat) /\ ResultLane(Tail(q), c, l, requests)
      /\ Head(q) \in Nat /\ Head(q) \in DOMAIN requests /\ requests[Head(q)].client = c
  BY <1>2, LaneTail
<1>5. m \in ToClient /\ m.kind # "ack" /\ m.request = Head(q)
  BY <1>4 DEF ToClient
<1> HIDE DEF m
<1>6. Append(toClient[c], m) \in Seq(ToClient) /\ AnswerMail(Append(toClient[c], m), c, requests)
  BY <1>2, <1>4, <1>5, AnswerAppend
<1>7. /\ Count(Append(toClient[c], m), "ack") = Count(toClient[c], "ack")
      /\ Places(Append(toClient[c], m), "ack") = Places(toClient[c], "ack")
  BY <1>2, <1>5, CountAppended
<1>8. /\ toClient'[c] = Append(toClient[c], m) /\ toClient' \in [Clients -> Seq(ToClient)]
      /\ \A k \in Clients : k # c => toClient'[k] = toClient[k]
  BY <1>2, <1>3, <1>6
<1>9. /\ results' \in [Clients -> [Lanes -> Seq(Nat)]]
      /\ \A d \in Clients : \A k \in Lanes : ResultLane(results'[d][k], d, k, requests)
  <2>1. results' = [results EXCEPT ![c] = [results[c] EXCEPT ![l] = Tail(q)]]
    BY <1>2, <1>3 DEF q
  <2>2. [results[c] EXCEPT ![l] = Tail(q)] \in [Lanes -> Seq(Nat)]
    BY <1>2, <1>4
  <2>3. results' \in [Clients -> [Lanes -> Seq(Nat)]]
    BY <1>2, <2>1, <2>2
  <2>4. ASSUME NEW d \in Clients, NEW k \in Lanes
        PROVE  ResultLane(results'[d][k], d, k, requests)
    <3>1. CASE d = c /\ k = l
      <4>1. results'[d][k] = Tail(q)
        BY <1>2, <2>1, <3>1
      <4> QED
        BY <1>4, <3>1, <4>1
    <3>2. CASE ~(d = c /\ k = l)
      <4>1. results'[d][k] = results[d][k]
        BY <1>2, <2>1, <3>2, <2>4
      <4> QED
        BY <1>1, <2>4, <4>1 DEF MailInv
    <3> QED
      BY <3>1, <3>2
  <2> QED
    BY <2>3, <2>4
<1>10. CoordinatorTypes' /\ MailTypes' /\ BoundsInv'
  BY <1>1, <1>3, <1>8, <1>9 DEF CoordinatorTypes, MailTypes, BoundsInv, coordinators, Requests
<1>11. MailInv'
  <2> SUFFICES ASSUME NEW k \in Clients
               PROVE  /\ SentMail(toServer[k], k, requests)
                      /\ HandledMail(handler[k], toServer[k], k, requests)
                      /\ AnswerMail(toClient'[k], k, requests)
                      /\ \A n \in Lanes : ResultLane(results'[k][n], k, n, requests)
    BY <1>3 DEF MailInv
  <2>1. CASE k = c
    BY <1>1, <1>6, <1>8, <1>9, <2>1 DEF MailInv
  <2>2. CASE k # c
    BY <1>1, <1>8, <1>9, <2>2 DEF MailInv
  <2> QED
    BY <2>1, <2>2
<1>12. PaneInv'
  BY <1>1, <1>3 DEF PaneInv, Requests
<1>13. RepliesInv' /\ CarriedInv'
  BY <1>1, <1>3, FatesStay
<1>14. CountInv'
  <2>1. \A k \in Clients : /\ Count(toClient'[k], "ack") = Count(toClient[k], "ack")
                           /\ Places(toClient'[k], "ack") = Places(toClient[k], "ack")
    <3> SUFFICES ASSUME NEW k \in Clients
                 PROVE  /\ Count(toClient'[k], "ack") = Count(toClient[k], "ack")
                        /\ Places(toClient'[k], "ack") = Places(toClient[k], "ack")
      OBVIOUS
    <3>1. CASE k = c
      BY <1>7, <1>8, <3>1
    <3>2. CASE k # c
      BY <1>8, <3>2
    <3> QED
      BY <3>1, <3>2
  <2> QED
    BY <1>1, <1>3, <2>1, ClientNames DEF CountInv
<1> QED
  BY <1>10, <1>11, <1>12, <1>13, <1>14 DEF RequestsInv

-----------------------------------------------------------------------------
(* Every step                                                              *)

LEMMA RequestsInit == Init => RequestsInv
<1> SUFFICES ASSUME Init PROVE RequestsInv
  OBVIOUS
<1>1. /\ version = 1 /\ committed = 1 /\ edits = 0 /\ requests = <<>>
      /\ registered = [l \in Lanes |-> 1]
      /\ current = [l \in Lanes |-> [version |-> 0, generation |-> 0]]
      /\ active = [l \in Lanes |-> {}]
      /\ handler = [c \in Clients |-> Idle]
      /\ toServer = [c \in Clients |-> <<>>] /\ toClient = [c \in Clients |-> <<>>]
      /\ results = [c \in Clients |-> [l \in Lanes |-> <<>>]]
  BY DEF Init
<1> DEFINE p == [confirmed |-> 1, pending |-> 0, text |-> 1,
                 waiting |-> [l \in Lanes |-> None], menu |-> NoMenu]
<1>2. pane = [c \in Clients |-> p]
  BY DEF Init
<1>3. p \in Pane
  BY DEF Pane, Menu, None
<1>4. p.pending = 0 /\ p.waiting = [l \in Lanes |-> None] /\ p.menu = NoMenu
  OBVIOUS
<1> HIDE DEF p
<1>5. MaxChanges \in Nat /\ MaxRequests \in Nat /\ LaneCapacity \in Nat
  BY ProviderConstants
<1>6. CoordinatorTypes
  BY <1>1 DEF CoordinatorTypes
<1>7. MailTypes
  BY <1>1, <1>2, <1>3 DEF MailTypes, Handler
<1>8. BoundsInv
  BY <1>1, <1>5 DEF BoundsInv
<1>9. MailInv
  BY <1>1, <1>5 DEF MailInv, SentMail, HandledMail, AnswerMail, ResultLane
<1>10. PaneInv
  BY <1>2, <1>4 DEF PaneInv, WaitsWell, NoMenu, None
<1>11. CountInv
  <2>1. ASSUME NEW kind PROVE Places(<<>>, kind) = {} /\ Count(<<>>, kind) = 0
    BY FS_EmptySet DEF Places, Count
  <2> QED
    BY <1>1, <1>2, <1>4, <2>1, ClientNames DEF CountInv
<1>12. RepliesInv /\ CarriedInv
  BY <1>1 DEF RepliesInv, CarriedInv, Requests
<1> QED
  BY <1>6, <1>7, <1>8, <1>9, <1>10, <1>11, <1>12 DEF RequestsInv

LEMMA RequestsStutter ==
    ASSUME RequestsInv, UNCHANGED vars
    PROVE  RequestsInv'
<1>1. UNCHANGED <<version, committed, registered, current, active, requests, handler,
                  toServer, toClient, results, pane, edits>>
  BY DEF vars, coordinators
<1>2. CoordinatorTypes' /\ MailTypes' /\ BoundsInv'
  BY <1>1 DEF RequestsInv, CoordinatorTypes, MailTypes, BoundsInv, Requests
<1>3. MailInv' /\ PaneInv' /\ CountInv'
  BY <1>1 DEF RequestsInv, MailInv, PaneInv, CountInv, Requests
<1>4. RepliesInv' /\ CarriedInv'
  BY <1>1 DEF RequestsInv, RepliesInv, CarriedInv, Carried, Requests
<1> QED
  BY <1>2, <1>3, <1>4 DEF RequestsInv

LEMMA RequestsNext == RequestsInv /\ [Next]_vars => RequestsInv'
<1> SUFFICES ASSUME RequestsInv, [Next]_vars PROVE RequestsInv'
  OBVIOUS
<1>1. ASSUME NEW c \in Clients, HandlerStep(c)
      PROVE  RequestsInv'
  BY <1>1, AcceptEditStep, RequestServedStep, CompletionScheduledStep, InsertTaskStep
     DEF HandlerStep
<1>2. ASSUME NEW c \in Clients, PaneStep(c) \/ Dismiss(c)
      PROVE  RequestsInv'
  BY <1>2, ReceiveAckStep, ReceiveResultStep, DismissStep DEF PaneStep
<1>3. ASSUME NEW c \in Clients, NEW l \in Lanes, Trigger(c, l) \/ Drain(c, l)
      PROVE  RequestsInv'
  BY <1>3, TriggerStep, DrainStep
<1>4. ASSUME NEW r \in Requests, TaskStep(r) \/ Await(r)
      PROVE  RequestsInv'
  BY <1>4, TaskStepsKeep DEF TaskOrReply
<1>5. CASE TypeWord
  BY <1>5, TypeWordStep
<1>6. CASE TypeOther \/ Accept
  <2>1. Change(Cleared(pane[Writer]))
    BY <1>6 DEF TypeOther, Accept, Cleared
  <2> QED
    BY <2>1, ChangeStep
<1>7. CASE CommitGeneration \/ \E l \in Lanes : RegisterCandidate(l)
  BY <1>7, ReloadStep
<1>8. CASE UNCHANGED vars
  BY <1>8, RequestsStutter
<1> QED
  BY <1>1, <1>2, <1>3, <1>4, <1>5, <1>6, <1>7, <1>8 DEF Next

THEOREM RequestsInductive == Spec => []RequestsInv
BY RequestsInit, RequestsNext, PTL DEF Spec

-----------------------------------------------------------------------------
(* The theorems                                                            *)

(* Versions, generations, entries, panes and lanes keep their types and    *)
(* their bounds: the lanes of a connection are bounded by their capacity,  *)
(* and the pending edits of a pane are those that the server has not       *)
(* confirmed to it.                                                        *)
THEOREM RequestsTypeCorrect == Spec => []TypeOK
<1>1. RequestsInv => TypeOK
  <2> SUFFICES ASSUME RequestsInv PROVE TypeOK
    OBVIOUS
  <2>1. CoordinatorTypes /\ MailTypes /\ BoundsInv /\ MailInv /\ PaneInv /\ CountInv
    BY DEF RequestsInv
  <2>2. /\ version \in Nat \ {0} /\ committed \in Nat \ {0} /\ edits \in Nat /\ MaxChanges \in Nat
        /\ edits <= MaxChanges /\ committed <= MaxChanges + 1 /\ Len(requests) <= MaxRequests
    BY <2>1, ProviderConstants DEF CoordinatorTypes, BoundsInv
  <2>3. /\ Count(toServer[Writer], "edit") \in Nat /\ Count(toClient[Writer], "ack") \in Nat
        /\ pane[Writer].pending \in Int
        /\ version + Count(toServer[Writer], "edit") = edits + 1
        /\ Count(toClient[Writer], "ack") < version
        /\ pane[Writer].pending = Count(toServer[Writer], "edit") + Count(toClient[Writer], "ack")
    BY <2>1, CountsAreNumbers, ClientNames DEF CountInv
  <2>4. /\ version \in 1..(MaxChanges + 1) /\ committed \in 1..(MaxChanges + 1)
        /\ pane[Writer].pending \in 0..MaxChanges
    BY <2>2, <2>3
  <2>5. \A l \in Lanes :
           /\ registered[l] \in 0..(MaxChanges + 1)
           /\ \A e \in active[l] : e.client \in Clients /\ e.task \in Requests
    BY <2>1, <2>2 DEF CoordinatorTypes, BoundsInv, TaskEntry
  <2>6. \A c \in Clients :
           /\ pane[c].pending \in 0..MaxChanges
           /\ \A l \in Lanes : Len(results[c][l]) <= LaneCapacity
           /\ pane[c].menu.request \in Requests \union {None}
    <3> SUFFICES ASSUME NEW c \in Clients
                 PROVE  /\ pane[c].pending \in 0..MaxChanges
                        /\ \A l \in Lanes : Len(results[c][l]) <= LaneCapacity
                        /\ pane[c].menu.request \in Requests \union {None}
      OBVIOUS
    <3>1. pane[c].pending \in 0..MaxChanges
      <4>1. CASE c = Writer
        BY <2>4, <4>1
      <4>2. CASE c # Writer
        BY <2>1, <2>2, <4>2, ClientNames DEF CountInv
      <4> QED
        BY <4>1, <4>2
    <3> QED
      BY <2>1, <3>1 DEF MailInv, ResultLane, PaneInv
  <2> QED
    BY <2>2, <2>4, <2>5, <2>6 DEF TypeOK
<1> QED
  BY <1>1, RequestsInductive, PTL

\* A menu is installed by the arrival of a result only.
LEMMA MenusAreInstalled ==
    ASSUME RequestsInv, [Next]_vars, NEW c \in Clients
    PROVE  pane'[c].menu \in {pane[c].menu, NoMenu} \/ ReceiveResult(c)
<1>1. /\ pane \in [Clients -> Pane] /\ \A k \in Clients : pane[k] \in Pane
  BY DEF RequestsInv, MailTypes
<1>2. ASSUME NEW k \in Clients, NEW l \in Lanes, NEW p \in Pane, NEW messages,
             Ask(k, l, p, messages), p.menu = pane[k].menu
      PROVE  pane'[c].menu = pane[c].menu
  <2>1. Waiting(p, l, NextRequest).menu = p.menu
    BY DEF Waiting, Pane
  <2> QED
    BY <1>1, <1>2, <2>1 DEF Ask
<1>3. ASSUME NEW k \in Clients, HandlerStep(k)
      PROVE  pane' = pane
  BY <1>3 DEF HandlerStep, AcceptEdit, ChooseProvider, schedule_completion, schedule, InsertTask
<1>4. ASSUME NEW k \in Clients, NEW l \in Lanes, Trigger(k, l) \/ Drain(k, l)
      PROVE  pane'[c].menu = pane[c].menu
  <2>1. CASE Trigger(k, l)
    BY <1>1, <1>2, <1>4, <2>1 DEF Trigger
  <2>2. CASE Drain(k, l)
    BY <2>2 DEF Drain
  <2> QED
    BY <1>4, <2>1, <2>2
<1>5. ASSUME NEW k \in Clients, PaneStep(k) \/ Dismiss(k)
      PROVE  pane'[c].menu \in {pane[c].menu, NoMenu} \/ ReceiveResult(c)
  <2>1. CASE ReceiveAck(k)
    <3> DEFINE v == Head(toClient[k]).version
    <3>1. pane' = [pane EXCEPT ![k].confirmed = v, ![k].pending = @ - 1]
      BY <2>1 DEF ReceiveAck
    <3> HIDE DEF v
    <3>2. [pane[k] EXCEPT !.confirmed = v, !.pending = @ - 1].menu = pane[k].menu
      BY <1>1, <1>5 DEF Pane
    <3>3. pane' = [pane EXCEPT ![k] = [pane[k] EXCEPT !.confirmed = v, !.pending = @ - 1]]
      BY <1>1, <3>1
    <3> QED
      BY <1>1, <3>2, <3>3
  <2>2. CASE ReceiveResult(k)
    <3>1. CASE k = c
      BY <2>2, <3>1
    <3>2. CASE k # c
      <4>1. pane'[c] = pane[c]
        BY <1>1, <2>2, <3>2 DEF ReceiveResult
      <4> QED
        BY <4>1
    <3> QED
      BY <3>1, <3>2
  <2>3. CASE Dismiss(k)
    <3>1. pane' = [pane EXCEPT ![k] = Cleared(pane[k])]
      BY <1>1, <1>5, <2>3 DEF Dismiss, Cleared
    <3>2. Cleared(pane[k]).menu = NoMenu
      BY <1>1, <1>5, ClearedPane
    <3> QED
      BY <1>1, <3>1, <3>2
  <2> QED
    BY <1>5, <2>1, <2>2, <2>3 DEF PaneStep
<1>6. ASSUME NEW r \in Requests, TaskStep(r) \/ Await(r)
      PROVE  pane' = pane
  BY <1>6 DEF TaskStep, ProviderReturns, DropTask, CheckFreshness, CheckResult, Finish, Await,
              ServerOnly
<1>7. CASE TypeWord
  <2>1. Edited(pane[Writer]) \in Pane /\ Edited(pane[Writer]).menu = pane[Writer].menu
    BY <1>1, EditedPane, ClientNames
  <2> QED
    BY <1>2, <1>7, <2>1, ClientNames DEF TypeWord
<1>8. CASE TypeOther \/ Accept
  <2>1. Change(Cleared(pane[Writer]))
    BY <1>8 DEF TypeOther, Accept, Cleared
  <2>2. Edited(Cleared(pane[Writer])).menu = NoMenu
    BY <1>1, ClearedPane, EditedPane, ClientNames
  <2> QED
    BY <1>1, <2>1, <2>2 DEF Change
<1>9. CASE CommitGeneration \/ \E l \in Lanes : RegisterCandidate(l)
  BY <1>9 DEF CommitGeneration, RegisterCandidate
<1>10. CASE UNCHANGED vars
  BY <1>10 DEF vars
<1> QED
  BY <1>3, <1>4, <1>5, <1>6, <1>7, <1>8, <1>9, <1>10 DEF Next

(* A completion menu is installed only for the text it was asked for: the  *)
(* pane forgets the requests in flight at every edit that is not a word's, *)
(* a word's edit makes a new request, and a result that the pane does not  *)
(* wait for is dropped.                                                    *)
THEOREM InstalledMenusFitText == Spec => InstalledMenusFit
<1> DEFINE Fits == \A c \in Clients :
               LET r == pane'[c].menu.request
               IN  (/\ r # None /\ pane'[c].menu # pane[c].menu
                    /\ requests[r].lane = "completion")
                       => requests[r].text = pane[c].text
<1>1. RequestsInv /\ [Next]_vars => Fits
  <2> SUFFICES ASSUME RequestsInv, [Next]_vars, NEW c \in Clients,
                      pane'[c].menu.request # None, pane'[c].menu # pane[c].menu,
                      requests[pane'[c].menu.request].lane = "completion"
               PROVE  requests[pane'[c].menu.request].text = pane[c].text
    OBVIOUS
  <2>1. ReceiveResult(c)
    BY MenusAreInstalled DEF NoMenu
  <2> DEFINE r == Head(toClient[c]).request
             old == pane[c].menu
             new == [request |-> r, version |-> requests[r].version]
  <2>2. pane \in [Clients -> Pane] /\ pane[c] \in Pane
    BY DEF RequestsInv, MailTypes
  <2>3. /\ pane' = [pane EXCEPT ![c].menu = IF Shows(pane[c], r) THEN new ELSE @]
        /\ new.request = r
    BY <2>1 DEF ReceiveResult
  <2>4. pane'[c].menu = IF Shows(pane[c], r) THEN new ELSE old
    <3> HIDE DEF r, new
    <3> QED
      BY <2>2, <2>3 DEF Pane
  <2> HIDE DEF r, new
  <2>5. Shows(pane[c], r) /\ pane'[c].menu.request = r
    BY <2>3, <2>4
  <2>6. pane[c].waiting["completion"] = r /\ r # None /\ requests[r].lane = "completion"
    BY <2>5 DEF Shows
  <2>7. "completion" \in Lanes
    <3>1. r \in DOMAIN requests
      <4>1. toClient[c] \in Seq(ToClient) /\ toClient[c] # <<>> /\ Head(toClient[c]).kind = "result"
        BY <2>1 DEF RequestsInv, MailTypes, ReceiveResult
      <4> QED
        BY <4>1, AnswerTail DEF RequestsInv, MailInv, r
    <3>2. requests[r] \in Request
      BY <3>1 DEF RequestsInv, CoordinatorTypes
    <3> QED
      BY <2>6, <3>2, RequestFields
  <2>8. WaitsWell(pane[c], c, "completion", requests)
    BY <2>7 DEF RequestsInv, PaneInv
  <2> QED
    BY <2>5, <2>6, <2>8 DEF WaitsWell
<1> QED
  BY <1>1, RequestsInductive, PTL DEF Spec, InstalledMenusFit

(* Nobody forgets a request: as long as it is unanswered it is on its way  *)
(* to the server, or with the handler that has chosen its provider, or     *)
(* somebody waits for its reply; and a reply that is still open has a task *)
(* that will settle it.  It is the safety that EveryRequestIsAnswered      *)
(* rests on.                                                               *)
NoRequestForgotten ==
    \A r \in Requests :
        /\ requests[r].answer = "none" => Carried(r)
        /\ requests[r].reply = "open" => requests[r].task \in Unsettled
THEOREM RequestsAreCarried == Spec => []NoRequestForgotten
<1>1. RequestsInv => NoRequestForgotten
  BY DEF RequestsInv, RepliesInv, CarriedInv, NoRequestForgotten
<1> QED
  BY <1>1, RequestsInductive, PTL

(* A request is answered once: neither a late result, nor the end of an    *)
(* aborted task, nor a reload gives it a second answer after a timeout,    *)
(* the fallback or a result.                                               *)
AnsweredOnce ==
    [][\A r \in Requests :
           requests[r].answer # "none" => requests'[r].answer = requests[r].answer]_vars
LEMMA AnswersStay ==
    ASSUME RequestsInv, [Next]_vars, NEW r \in Requests, requests[r].answer # "none"
    PROVE  requests'[r].answer = requests[r].answer
<1>1. TypesInv /\ MailInv /\ RepliesInv /\ CoordinatorTypes
  BY DEF RequestsInv, TypesInv
<1>2. ASSUME UNCHANGED requests PROVE requests'[r].answer = requests[r].answer
  BY <1>2
<1>3. ASSUME NEW gone, requests' = Aborting(requests, gone)
      PROVE  requests'[r].answer = requests[r].answer
  BY <1>1, <1>3, AbortedRequests DEF SameFate
<1>4. ASSUME NEW c \in Clients, NEW s, Untouched(s, c, requests), Handled(c, s)
      PROVE  requests'[r].answer = requests[r].answer
  BY <1>4 DEF Handled, Kept, Only, Untouched, SameFate
<1>5. ASSUME NEW c \in Clients, HandlerStep(c)
      PROVE  requests'[r].answer = requests[r].answer
  <2>1. CASE AcceptEdit(c)
    BY <1>3, <2>1 DEF AcceptEdit
  <2>2. CASE ChooseProvider(c) \/ schedule(c)
    <3>1. Serving(c, "request") /\ Handled(c, Head(toServer[c]).request)
      BY <1>1, <1>5, <2>2, ChooseStep, ScheduleStep
    <3> QED
      BY <1>1, <1>4, <1>5, <3>1, HeadIsUntouched
  <2>3. CASE schedule_completion(c)
    BY <1>1, <1>4, <1>5, <2>3, ScheduleCompletionStep
  <2>4. CASE InsertTask(c)
    BY <1>2, <2>4 DEF InsertTask
  <2> QED
    BY <1>5, <2>1, <2>2, <2>3, <2>4 DEF HandlerStep
<1>6. ASSUME NEW s \in Requests, TaskStep(s) \/ Await(s)
      PROVE  requests'[r].answer = requests[r].answer
  <2>1. Only(s) /\ Fate(requests[s], requests'[s])
    BY <1>1, <1>6, TaskSteps DEF TaskOrReply
  <2>2. CASE s # r
    BY <2>1, <2>2 DEF Only, SameFate
  <2>3. CASE s = r
    <3>1. requests[r].reply \notin {"open", "sent", "closed"}
      BY <1>1 DEF RepliesInv
    <3> QED
      BY <2>1, <2>3, <3>1 DEF Fate, Fates
  <2> QED
    BY <2>2, <2>3
<1>7. ASSUME NEW c \in Clients, NEW l \in Lanes, NEW p \in Pane, NEW messages, Ask(c, l, p, messages)
      PROVE  requests'[r].answer = requests[r].answer
  BY <1>1, <1>7, AskEvolves
<1>8. ASSUME NEW c \in Clients, NEW l \in Lanes, Trigger(c, l) \/ Drain(c, l)
      PROVE  requests'[r].answer = requests[r].answer
  <2>1. CASE Trigger(c, l)
    <3>1. pane[c] \in Pane
      BY <1>8 DEF RequestsInv, MailTypes
    <3> QED
      BY <1>7, <1>8, <2>1, <3>1 DEF Trigger
  <2>2. CASE Drain(c, l)
    BY <1>2, <2>2 DEF Drain
  <2> QED
    BY <1>8, <2>1, <2>2
<1>9. CASE TypeWord
  <2>1. Edited(pane[Writer]) \in Pane
    BY EditedPane, ClientNames DEF RequestsInv, MailTypes
  <2> QED
    BY <1>7, <1>9, <2>1, ClientNames DEF TypeWord
<1>10. CASE TypeOther \/ Accept
  BY <1>2, <1>10 DEF TypeOther, Accept, Change
<1>11. CASE CommitGeneration \/ \E l \in Lanes : RegisterCandidate(l)
  BY <1>2, <1>3, <1>11 DEF CommitGeneration, RegisterCandidate
<1>12. ASSUME NEW c \in Clients, PaneStep(c) \/ Dismiss(c)
       PROVE  requests'[r].answer = requests[r].answer
  BY <1>2, <1>12 DEF PaneStep, ReceiveAck, ReceiveResult, Dismiss
<1>13. CASE UNCHANGED vars
  BY <1>2, <1>13 DEF vars
<1> QED
  BY <1>5, <1>6, <1>8, <1>9, <1>10, <1>11, <1>12, <1>13 DEF Next
THEOREM AnswersAreFinal == Spec => AnsweredOnce
<1>1. RequestsInv /\ [Next]_vars =>
          \A r \in Requests :
              requests[r].answer # "none" => requests'[r].answer = requests[r].answer
  BY AnswersStay
<1> QED
  BY <1>1, RequestsInductive, PTL DEF Spec, AnsweredOnce

=============================================================================
