------------------------- MODULE RuntimeReloadProofs -------------------------
(***************************************************************************)
(* Every change of the manifests takes the next version and keeps every    *)
(* mode layer, the grace window of a replaced manifest is bounded, and     *)
(* nothing that a client holds is ahead of the server, for any number of   *)
(* connections, documents, saves and reloads.                              *)
(***************************************************************************)
EXTENDS RuntimeReload, FiniteSetTheorems, TLAPS

\* The manifests are a record of a version and a set of layers.
Shaped ==
    /\ behavior = [version |-> behavior.version, layers |-> behavior.layers]
    /\ behavior.version \in Nat

\* What a step may do to the manifests.
SerialStep ==
    \/ UNCHANGED behavior
    \/ /\ behavior' = [version |-> behavior'.version, layers |-> behavior'.layers]
       /\ behavior'.version = behavior.version + 1
       /\ behavior.layers \subseteq behavior'.layers

\* Activating a mode (classify_open_document) is serial.
LEMMA ActivationIsSerial ==
    ASSUME NEW d, behavior' \in Activated(d)
    PROVE  SerialStep
  BY DEF Activated, SerialStep

\* A commit replaces exactly the state that its candidate was prepared from.
LEMMA CommitIsSerial ==
    ASSUME Shaped, Commit
    PROVE  SerialStep
<1>1. CASE UNCHANGED behavior
  BY <1>1 DEF SerialStep
<1>2. CASE behavior = reload.expected /\ behavior' = Candidate
  <2>1. behavior' = Candidate
    BY <1>2
  <2>2. CASE reload.publishes
    BY <1>2, <2>1, <2>2 DEF Candidate, Shaped, SerialStep
  <2>3. CASE ~reload.publishes
    <3>1. behavior' = [version |-> behavior.version + 0, layers |-> behavior.layers]
      BY <1>2, <2>1, <2>3 DEF Candidate
    <3>2. behavior' = behavior
      BY <3>1 DEF Shaped
    <3> QED
      BY <3>2 DEF SerialStep
  <2> QED
    BY <2>2, <2>3
<1> QED
  BY <1>1, <1>2 DEF Commit, runtimeVars

\* Every step of the specification is serial.
LEMMA StepsAreSerial ==
    ASSUME Shaped, [Next]_vars
    PROVE  SerialStep
<1>1. CASE UNCHANGED vars
  BY <1>1 DEF vars, SerialStep
<1>2. CASE Save \/ QuietScanFails \/ GraceExpires
  BY <1>2 DEF Save, QuietScanFails, GraceExpires, runtimeVars, SerialStep
<1>3. CASE WatchStep
  BY <1>3 DEF WatchStep, Poll, QuietScan, WatchReload, Rebaseline, runtimeVars, SerialStep
<1>4. CASE Prepare \/ Publish
  BY <1>4 DEF Prepare, Publish, runtimeVars, SerialStep
<1>5. CASE Commit
  BY <1>5, CommitIsSerial
<1>6. CASE Refresh
  <2>1. \/ \E d \in reload.refresh : behavior' \in Activated(d)
        \/ UNCHANGED behavior
    BY <1>6 DEF Refresh
  <2> QED
    BY <2>1, ActivationIsSerial DEF SerialStep
<1>7. ASSUME NEW c \in Clients, ServeOpen(c)
      PROVE  SerialStep
  <2>1. \/ behavior' \in Activated(serving[c].about)
        \/ UNCHANGED behavior
    BY <1>7 DEF ServeOpen, runtimeVars
  <2> QED
    BY <2>1, ActivationIsSerial DEF SerialStep
<1>8. ASSUME NEW c \in Clients,
             \/ Subscribe(c) \/ Welcome(c) \/ ReceiveUpdate(c) \/ ServeInstalled(c)
             \/ ServeEdit(c) \/ ApplyEdit(c) \/ ServeReload(c) \/ ClientReceive(c)
             \/ ClientSends(c)
      PROVE  UNCHANGED behavior
  BY <1>8 DEF Subscribe, Welcome, ReceiveUpdate, ServeInstalled, ServeEdit, ApplyEdit,
              ServeReload, ClientReceive, ClientSends, runtimeVars
<1> QED
  BY <1>1, <1>2, <1>3, <1>4, <1>5, <1>6, <1>7, <1>8
  DEF Next, ReloadStep, ServerStep, SerialStep

\* Shaped is an invariant.
LEMMA ShapedInvariant == Spec => []Shaped
<1>1. Init => Shaped
  BY DEF Init, Shaped, FirstBehavior
<1>2. Shaped /\ [Next]_vars => Shaped'
  <2> SUFFICES ASSUME Shaped, [Next]_vars PROVE Shaped'
    OBVIOUS
  <2>1. SerialStep
    BY StepsAreSerial
  <2> QED
    BY <2>1 DEF SerialStep, Shaped
<1> QED
  BY <1>1, <1>2, PTL DEF Spec

\* A behaviour version names one state of the manifests: a reload that was
\* prepared before a mode activation never commits over it, whatever connections
\* do in between (commit_runtime_generation's comparison, install_staged).
THEOREM ManifestsChangeSerially == Spec => ManifestChangesAreSerial
<1>1. Shaped /\ [Next]_vars =>
        [behavior' # behavior => /\ behavior'.version = behavior.version + 1
                                 /\ behavior.layers \subseteq behavior'.layers]_vars
  <2> SUFFICES ASSUME Shaped, [Next]_vars
      PROVE  behavior' # behavior => /\ behavior'.version = behavior.version + 1
                                     /\ behavior.layers \subseteq behavior'.layers
    OBVIOUS
  <2>1. SerialStep
    BY StepsAreSerial
  <2> QED
    BY <2>1 DEF SerialStep
<1> QED
  BY <1>1, ShapedInvariant, PTL DEF Spec, ManifestChangesAreSerial
-----------------------------------------------------------------------------
(* The grace window                                                        *)

\* The handlers that have let an edit of generation g pass and not counted it.
InFlight(g) == {c \in Clients : serving[c].task = "grace" /\ serving[c].about = g}

ServingShape ==
    /\ serving = [c \in Clients |-> serving[c]]
    /\ \A c \in Clients :
           serving[c] = [task |-> serving[c].task, about |-> serving[c].about]

GraceShape ==
    /\ generation \in Nat \ {0}
    /\ accepted \in [Generations -> Nat]
    /\ grace \in [version : Nat, generation : Nat, accepted : Nat]
    /\ grace.accepted < GraceLimit
    /\ grace.generation < generation
    /\ grace.generation = 0 => grace = NoGrace

\* A manifest that is not replaced yet has no edits by grace; while its window
\* is open, its edits are among those counted; once it is closed, the edits that
\* are still in flight fit under the bound.
Counted(g) ==
    /\ g >= generation => accepted[g] = 0 /\ InFlight(g) = {}
    /\ g = grace.generation => accepted[g] <= grace.accepted
    /\ g < generation /\ g # grace.generation =>
           accepted[g] + Cardinality(InFlight(g)) <= GraceLimit + Cardinality(Clients) - 1

GraceInv == Shaped /\ ServingShape /\ GraceShape /\ \A g \in Generations : Counted(g)

\* Sets of handlers are counted.
LEMMA HandlersCounted ==
    /\ Cardinality(Clients) \in Nat
    /\ \A S \in SUBSET Clients :
           /\ Cardinality(S) \in Nat /\ Cardinality(S) <= Cardinality(Clients)
           /\ \A T \in SUBSET S : Cardinality(T) <= Cardinality(S)
           /\ \A c \in S : Cardinality(S \ {c}) = Cardinality(S) - 1
<1>1. IsFiniteSet(Clients)
  BY ReloadConstants
<1>2. Cardinality(Clients) \in Nat
  BY <1>1, FS_CardinalityType
<1>3. ASSUME NEW S \in SUBSET Clients
      PROVE  /\ Cardinality(S) \in Nat /\ Cardinality(S) <= Cardinality(Clients)
             /\ \A T \in SUBSET S : Cardinality(T) <= Cardinality(S)
             /\ \A c \in S : Cardinality(S \ {c}) = Cardinality(S) - 1
  <2>1. IsFiniteSet(S) /\ Cardinality(S) <= Cardinality(Clients)
    BY <1>1, FS_Subset
  <2>2. Cardinality(S) \in Nat
    BY <2>1, FS_CardinalityType
  <2>3. \A T \in SUBSET S : Cardinality(T) <= Cardinality(S)
    BY <2>1, FS_Subset
  <2>4. \A c \in S : Cardinality(S \ {c}) = Cardinality(S) - 1
    BY <2>1, FS_RemoveElement
  <2> QED
    BY <2>1, <2>2, <2>3, <2>4
<1> QED
  BY <1>2, <1>3

\* A step that lets no further edit pass and keeps the window.
LEMMA WindowKept ==
    ASSUME GraceInv, UNCHANGED <<generation, grace, accepted>>,
           \A g \in Generations : InFlight(g)' \subseteq InFlight(g)
    PROVE  \A g \in Generations : Counted(g)'
<1> SUFFICES ASSUME NEW g \in Generations
             PROVE  Counted(g)'
  OBVIOUS
<1>1. Counted(g) /\ InFlight(g)' \subseteq InFlight(g)
  BY DEF GraceInv
<1>2. /\ InFlight(g) \in SUBSET Clients /\ InFlight(g)' \in SUBSET Clients
  BY DEF InFlight
<1>3. /\ Cardinality(InFlight(g)) \in Nat /\ Cardinality(InFlight(g)') \in Nat
      /\ Cardinality(InFlight(g)') <= Cardinality(InFlight(g))
  BY <1>1, <1>2, HandlersCounted
<1>4. accepted[g] \in Nat /\ Cardinality(Clients) \in Nat /\ GraceLimit \in Nat
  BY HandlersCounted, ReloadConstants DEF GraceInv, GraceShape
<1> QED
  BY <1>1, <1>3, <1>4 DEF Counted

\* A window closes without being used: it expires or a newer one replaces it.
LEMMA WindowClosed ==
    ASSUME GraceInv, UNCHANGED <<accepted, serving>>,
           generation' \in Nat,
           \/ generation' = generation /\ grace'.generation = 0
           \/ /\ generation' = generation + 1 /\ grace'.generation = generation
              /\ grace'.accepted = 0
    PROVE  \A g \in Generations : Counted(g)'
<1> SUFFICES ASSUME NEW g \in Generations
             PROVE  Counted(g)'
  OBVIOUS
<1>1. Counted(g)
  BY DEF GraceInv
<1>2. InFlight(g)' = InFlight(g) /\ InFlight(g) \in SUBSET Clients
  BY DEF InFlight
<1>3. Cardinality(InFlight(g)) \in Nat /\ Cardinality(InFlight(g)) <= Cardinality(Clients)
  BY <1>2, HandlersCounted
<1>4. /\ accepted[g] \in Nat /\ Cardinality(Clients) \in Nat /\ GraceLimit \in Nat
      /\ grace.accepted \in Nat /\ grace.accepted < GraceLimit
      /\ g \in Nat \ {0} /\ generation \in Nat
  BY HandlersCounted, ReloadConstants DEF GraceInv, GraceShape, Generations
<1>5. g < generation => accepted[g] + Cardinality(InFlight(g)) <= GraceLimit + Cardinality(Clients) - 1
  BY <1>1, <1>3, <1>4 DEF Counted
<1> QED
  BY <1>1, <1>2, <1>4, <1>5 DEF Counted

\* A handler turns to something that is not an edit by grace.
LEMMA HandlerTurns ==
    ASSUME ServingShape, NEW c, NEW s,
           s = [task |-> s.task, about |-> s.about], s.task # "grace",
           serving' = [serving EXCEPT ![c] = s]
    PROVE  /\ ServingShape'
           /\ \A g \in Generations : InFlight(g)' = InFlight(g) \ {c}
<1>1. \A x \in Clients : serving'[x] = IF x = c THEN s ELSE serving[x]
  BY DEF ServingShape
<1>2. ServingShape'
  <2>1. serving' = [x \in Clients |-> serving'[x]]
    BY DEF ServingShape
  <2> QED
    BY <1>1, <2>1 DEF ServingShape
<1> QED
  BY <1>1, <1>2 DEF InFlight

\* Changing the task of a handler.
LEMMA Retasked ==
    ASSUME ServingShape, NEW c \in Clients, NEW x,
           serving' = [serving EXCEPT ![c].task = x]
    PROVE  serving' = [serving EXCEPT ![c] = [task |-> x, about |-> serving[c].about]]
<1> DEFINE s == serving[c]
<1>1. s = [task |-> s.task, about |-> s.about]
  BY DEF ServingShape
<1>2. [s EXCEPT !.task = x] = [task |-> x, about |-> s.about]
  <2> HIDE DEF s
  <2> QED
    BY <1>1
<1>3. serving' = [serving EXCEPT ![c] = [s EXCEPT !.task = x]]
  OBVIOUS
<1> QED
  BY <1>2, <1>3

\* EndReload frees the handler that ran the reload.
LEMMA EndReloadTurns ==
    ASSUME ServingShape, EndReload
    PROVE  ServingShape' /\ \A g \in Generations : InFlight(g)' \subseteq InFlight(g)
<1>1. CASE serving' = serving
  BY <1>1 DEF ServingShape, InFlight
<1>2. CASE serving' = [serving EXCEPT ![reload.by] = Idle]
  <2>1. Idle = [task |-> Idle.task, about |-> Idle.about] /\ Idle.task # "grace"
    BY DEF Idle
  <2> HIDE DEF Idle
  <2> QED
    BY <1>2, <2>1, HandlerTurns
<1> QED
  BY <1>1, <1>2 DEF EndReload

\* Counting an edit that is applied (record_previous_accepted).
LEMMA EditCounted ==
    ASSUME GraceInv, NEW c \in Clients, serving[c].task = "grace",
           serving' = [serving EXCEPT ![c] = Idle], generation' = generation,
           \/ /\ accepted' = [accepted EXCEPT ![serving[c].about] = @ + 1]
              /\ RecordPreviousAccepted
           \/ UNCHANGED <<accepted, grace>>
    PROVE  GraceShape' /\ ServingShape' /\ \A g \in Generations : Counted(g)'
<1>1. ServingShape' /\ \A g \in Generations : InFlight(g)' = InFlight(g) \ {c}
  <2>1. Idle = [task |-> Idle.task, about |-> Idle.about] /\ Idle.task # "grace"
    BY DEF Idle
  <2> HIDE DEF Idle
  <2> QED
    BY <2>1, HandlerTurns DEF GraceInv
<1>2. CASE UNCHANGED <<accepted, grace>>
  <2>1. \A g \in Generations : Counted(g)'
    BY <1>1, <1>2, WindowKept
  <2> QED
    BY <1>1, <1>2, <2>1 DEF GraceInv, GraceShape
<1>3. CASE accepted' = [accepted EXCEPT ![serving[c].about] = @ + 1] /\ RecordPreviousAccepted
  <2> DEFINE a == serving[c].about
  <2>1. /\ accepted \in [Generations -> Nat] /\ GraceLimit \in Nat
        /\ grace \in [version : Nat, generation : Nat, accepted : Nat]
        /\ grace.accepted < GraceLimit /\ grace.generation < generation
        /\ generation \in Nat \ {0}
        /\ grace.generation = 0 => grace = NoGrace
    BY ReloadConstants DEF GraceInv, GraceShape
  <2>2. \A g \in Generations :
           accepted'[g] = IF g = a THEN accepted[g] + 1 ELSE accepted[g]
    BY <1>3, <2>1
  <2>3. accepted' \in [Generations -> Nat]
    <3>1. \A g \in Generations : accepted'[g] \in Nat
      BY <2>1, <2>2
    <3>2. accepted' = [g \in Generations |-> accepted'[g]]
      BY <1>3, <2>1
    <3> QED
      BY <3>1, <3>2
  <2>4. \/ /\ grace.accepted + 1 < GraceLimit
           /\ grace' \in [version : Nat, generation : Nat, accepted : Nat]
           /\ grace'.generation = grace.generation
           /\ grace'.accepted = grace.accepted + 1
           /\ grace # NoGrace
        \/ grace' = NoGrace
    BY <1>3, <2>1 DEF RecordPreviousAccepted
  <2>5. /\ NoGrace \in [version : Nat, generation : Nat, accepted : Nat]
        /\ NoGrace.generation = 0 /\ NoGrace.accepted = 0 /\ 0 < GraceLimit
    BY ReloadConstants DEF NoGrace
  <2>6. GraceShape'
    <3>1. /\ grace' \in [version : Nat, generation : Nat, accepted : Nat]
          /\ grace'.accepted < GraceLimit /\ grace'.generation < generation
          /\ grace'.generation = 0 => grace' = NoGrace
      <4>1. CASE grace' = NoGrace
        BY <2>1, <2>5, <4>1
      <4>2. CASE grace' # NoGrace
        BY <2>1, <2>4, <4>2
      <4> QED
        BY <4>1, <4>2
    <3> QED
      BY <2>1, <2>3, <3>1 DEF GraceShape
  <2>7. ASSUME NEW g \in Generations
        PROVE  Counted(g)'
    <3>1. Counted(g) /\ InFlight(g)' = InFlight(g) \ {c} /\ InFlight(g) \in SUBSET Clients
      BY <1>1 DEF GraceInv, InFlight
    <3>2. c \in InFlight(g) <=> g = a
      BY DEF InFlight
    <3>3. /\ Cardinality(Clients) \in Nat /\ Cardinality(InFlight(g)) \in Nat
          /\ Cardinality(InFlight(g)) <= Cardinality(Clients)
          /\ c \in InFlight(g) =>
                 Cardinality(InFlight(g) \ {c}) = Cardinality(InFlight(g)) - 1
          /\ c \notin InFlight(g) => InFlight(g) \ {c} = InFlight(g)
      BY <3>1, HandlersCounted
    <3>4. g \in Nat \ {0} /\ accepted[g] \in Nat /\ accepted'[g] \in Nat
      BY <2>1, <2>3 DEF Generations
    <3>5. g >= generation => accepted'[g] = 0 /\ InFlight(g)' = {}
      BY <2>2, <3>1, <3>2 DEF Counted
    <3>6. CASE g = grace'.generation
      BY <2>1, <2>2, <2>4, <2>5, <3>1, <3>4, <3>5, <3>6 DEF Counted
    <3>7. CASE g # grace'.generation
      <4>1. ASSUME g < generation
            PROVE  accepted'[g] + Cardinality(InFlight(g)')
                       <= GraceLimit + Cardinality(Clients) - 1
        <5>1. CASE g = a
          BY <2>1, <2>2, <3>1, <3>2, <3>3, <3>4, <4>1, <5>1 DEF Counted
        <5>2. CASE g # a
          <6>1. InFlight(g)' = InFlight(g) /\ accepted'[g] = accepted[g]
            BY <2>2, <3>1, <3>2, <5>2
          <6>2. \/ accepted[g] <= GraceLimit - 1
                \/ accepted[g] + Cardinality(InFlight(g))
                       <= GraceLimit + Cardinality(Clients) - 1
            BY <2>1, <3>1, <3>4, <4>1 DEF Counted
          <6> QED
            BY <2>1, <3>3, <3>4, <6>1, <6>2
        <5> QED
          BY <5>1, <5>2
      <4> QED
        BY <3>5, <3>7, <4>1 DEF Counted
    <3> QED
      BY <3>6, <3>7
  <2> QED
    BY <1>1, <2>6, <2>7
<1> QED
  BY <1>2, <1>3

\* validate_edit_version: the edit that passes is one of the open window.
LEMMA EditPasses ==
    ASSUME GraceInv, NEW c \in Clients, ServeEdit(c)
    PROVE  ServingShape' /\ \A g \in Generations : Counted(g)'
<1>1. serving[c] = Idle /\ UNCHANGED <<generation, grace, accepted>> /\ ServingShape
  BY DEF ServeEdit, NextMessage, runtimeVars, GraceInv
<1>2. PICK stamp : \/ serving' = [serving EXCEPT ![c].task = "current"]
                   \/ /\ WithinGrace(c, stamp)
                      /\ serving' = [serving EXCEPT ![c] = [task |-> "grace",
                                                            about |-> grace.generation]]
                   \/ serving' = serving
  BY DEF ServeEdit
<1>3. CASE serving' = [serving EXCEPT ![c].task = "current"]
  <2>1. serving' = [serving EXCEPT ![c] = [task |-> "current", about |-> 0]]
    <3>1. serving' = [serving EXCEPT ![c] = [task |-> "current", about |-> serving[c].about]]
      BY <1>1, <1>3, Retasked
    <3> QED
      BY <1>1, <3>1 DEF Idle
  <2>2. ServingShape' /\ \A g \in Generations : InFlight(g)' = InFlight(g) \ {c}
    BY <1>1, <2>1, HandlerTurns
  <2> QED
    BY <1>1, <2>2, WindowKept
<1>4. CASE serving' = serving
  <2>1. ServingShape' /\ \A g \in Generations : InFlight(g)' = InFlight(g)
    BY <1>1, <1>4 DEF ServingShape, InFlight
  <2> QED
    BY <1>1, <2>1, WindowKept
<1>5. CASE WithinGrace(c, stamp)
           /\ serving' = [serving EXCEPT ![c] = [task |-> "grace", about |-> grace.generation]]
  <2>1. \A x \in Clients :
           serving'[x] = IF x = c THEN [task |-> "grace", about |-> grace.generation]
                         ELSE serving[x]
    BY <1>1, <1>5 DEF ServingShape
  <2>2. ServingShape'
    <3>1. serving' = [x \in Clients |-> serving'[x]]
      BY <1>1, <1>5 DEF ServingShape
    <3> QED
      BY <1>1, <2>1, <3>1 DEF ServingShape
  <2>3. \A g : g # grace.generation => InFlight(g)' = InFlight(g)
    BY <1>1, <2>1 DEF InFlight, Idle
  <2>4. grace.generation < generation /\ grace.generation \in Nat /\ generation \in Nat
    BY DEF GraceInv, GraceShape
  <2>5. ASSUME NEW g \in Generations
        PROVE  Counted(g)'
    <3>1. Counted(g) /\ g \in Nat
      BY DEF GraceInv, Generations
    <3>2. CASE g = grace.generation
      BY <1>1, <2>4, <3>1, <3>2 DEF Counted
    <3>3. CASE g # grace.generation
      BY <1>1, <2>3, <3>1, <3>3 DEF Counted
    <3> QED
      BY <3>2, <3>3
  <2> QED
    BY <2>2, <2>5
<1> QED
  BY <1>2, <1>3, <1>4, <1>5

\* Steps that touch neither the window nor what handlers let pass.
UntouchedStep ==
    /\ UNCHANGED <<generation, grace, accepted>>
    /\ ServingShape' /\ \A g \in Generations : InFlight(g)' \subseteq InFlight(g)

LEMMA ServerStepsAreUntouched ==
    ASSUME ServingShape, NEW c \in Clients,
           \/ Subscribe(c) \/ Welcome(c) \/ ReceiveUpdate(c) \/ ServeInstalled(c)
           \/ ServeOpen(c) \/ ServeReload(c) \/ ClientReceive(c) \/ ClientSends(c)
    PROVE  UntouchedStep
<1>0. CASE UNCHANGED <<generation, grace, accepted, serving>>
  BY <1>0 DEF UntouchedStep, ServingShape, InFlight
<1>1. CASE \E s : /\ s = [task |-> s.task, about |-> s.about] /\ s.task # "grace"
                  /\ serving' = [serving EXCEPT ![c] = s]
                  /\ UNCHANGED <<generation, grace, accepted>>
  BY <1>1, HandlerTurns DEF UntouchedStep
<1>2. CASE ServeOpen(c)
  <2>1. UNCHANGED <<generation, grace, accepted>>
    BY <1>2 DEF ServeOpen, runtimeVars
  <2>2. CASE serving' = [serving EXCEPT ![c] = [task |-> "opening", about |-> Head(up[c]).value]]
    BY <1>1, <2>1, <2>2
  <2>3. CASE serving' = [serving EXCEPT ![c].task = "opened"]
    <3>1. serving' = [serving EXCEPT ![c] = [task |-> "opened", about |-> serving[c].about]]
      BY <2>3, Retasked
    <3> QED
      BY <1>1, <2>1, <3>1
  <2>4. CASE serving' = [serving EXCEPT ![c] = Idle]
    BY <1>1, <2>1, <2>4 DEF Idle
  <2> QED
    BY <1>2, <2>2, <2>3, <2>4 DEF ServeOpen
<1>3. CASE ServeReload(c)
  <2>1. UNCHANGED <<generation, grace, accepted>>
    BY <1>3 DEF ServeReload, runtimeVars
  <2>2. CASE serving' = [serving EXCEPT ![c].task = "reload"]
    <3>1. serving' = [serving EXCEPT ![c] = [task |-> "reload", about |-> serving[c].about]]
      BY <2>2, Retasked
    <3> QED
      BY <1>1, <2>1, <3>1
  <2> QED
    BY <1>0, <1>3, <2>1, <2>2 DEF ServeReload
<1>4. CASE \/ Subscribe(c) \/ Welcome(c) \/ ReceiveUpdate(c) \/ ServeInstalled(c)
           \/ ClientReceive(c) \/ ClientSends(c)
  <2>1. UNCHANGED <<generation, grace, accepted, serving>>
    BY <1>4 DEF Subscribe, Welcome, ReceiveUpdate, ServeInstalled, ClientReceive,
                ClientSends, runtimeVars
  <2> QED
    BY <1>0, <2>1
<1> QED
  BY <1>2, <1>3, <1>4

\* Every step keeps the count.
LEMMA GraceStep ==
    ASSUME GraceInv, [Next]_vars
    PROVE  ServingShape' /\ GraceShape' /\ \A g \in Generations : Counted(g)'
<1>0. ServingShape /\ GraceShape /\ Shaped
  BY DEF GraceInv
<1>1. CASE UntouchedStep
  <2>1. GraceShape'
    BY <1>0, <1>1 DEF UntouchedStep, GraceShape
  <2> QED
    BY <1>1, <2>1, WindowKept DEF UntouchedStep
<1>2. CASE UNCHANGED <<generation, grace, accepted, serving>>
  BY <1>0, <1>1, <1>2 DEF UntouchedStep, ServingShape, InFlight
<1>3. CASE EndReload /\ UNCHANGED <<generation, grace, accepted>>
  BY <1>0, <1>1, <1>3, EndReloadTurns DEF UntouchedStep
<1>4. CASE Commit
  <2>1. CASE EndReload /\ UNCHANGED runtimeVars
    BY <1>3, <1>4, <2>1 DEF Commit, runtimeVars
  <2>2. CASE /\ generation' = generation + 1 /\ UNCHANGED <<serving, accepted>>
             /\ grace' = [version |-> behavior.version, generation |-> generation,
                          accepted |-> 0]
    <3>1. /\ grace' \in [version : Nat, generation : Nat, accepted : Nat]
          /\ grace'.generation = generation /\ grace'.accepted = 0
      BY <1>0, <2>2 DEF GraceShape, Shaped
    <3>2. generation \in Nat \ {0} /\ generation' \in Nat \ {0} /\ 0 < GraceLimit
      BY <1>0, <2>2, ReloadConstants DEF GraceShape
    <3>3. GraceShape'
      BY <1>0, <2>2, <3>1, <3>2 DEF GraceShape
    <3>4. ServingShape'
      BY <1>0, <2>2 DEF ServingShape
    <3> QED
      BY <2>2, <3>1, <3>2, <3>3, <3>4, WindowClosed
  <2> QED
    BY <1>4, <2>1, <2>2 DEF Commit
<1>5. CASE GraceExpires
  <2>1. UNCHANGED <<generation, accepted, serving>> /\ grace' = NoGrace
    BY <1>5 DEF GraceExpires
  <2>2. /\ NoGrace \in [version : Nat, generation : Nat, accepted : Nat]
        /\ NoGrace.generation = 0 /\ NoGrace.accepted = 0 /\ 0 < GraceLimit
    BY ReloadConstants DEF NoGrace
  <2>3. GraceShape'
    BY <1>0, <2>1, <2>2 DEF GraceShape
  <2>4. ServingShape'
    BY <1>0, <2>1 DEF ServingShape
  <2>5. generation' = generation /\ generation' \in Nat /\ grace'.generation = 0
    BY <1>0, <2>1, <2>2 DEF GraceShape
  <2> QED
    BY <2>1, <2>3, <2>4, <2>5, WindowClosed
<1>6. CASE Save \/ QuietScanFails \/ WatchStep \/ Publish \/ UNCHANGED vars
  BY <1>2, <1>6 DEF Save, QuietScanFails, WatchStep, Poll, QuietScan, WatchReload, Rebaseline,
                    Publish, runtimeVars, vars
<1>7. CASE Prepare
  BY <1>2, <1>3, <1>7 DEF Prepare, runtimeVars
<1>8. CASE Refresh
  BY <1>2, <1>3, <1>8 DEF Refresh
<1>9. ASSUME NEW c \in Clients, ApplyEdit(c)
      PROVE  ServingShape' /\ GraceShape' /\ \A g \in Generations : Counted(g)'
  <2>1. serving' = [serving EXCEPT ![c] = Idle] /\ generation' = generation
    BY <1>9 DEF ApplyEdit
  <2>2. CASE serving[c].task = "grace"
    BY <1>9, <2>1, <2>2, EditCounted DEF ApplyEdit
  <2>3. CASE serving[c].task # "grace"
    <3>1. UNCHANGED <<generation, grace, accepted>>
      BY <1>9, <2>1, <2>3 DEF ApplyEdit
    <3>2. Idle = [task |-> Idle.task, about |-> Idle.about] /\ Idle.task # "grace"
      BY DEF Idle
    <3>3. ServingShape' /\ \A g \in Generations : InFlight(g)' = InFlight(g) \ {c}
      <4> HIDE DEF Idle
      <4> QED
        BY <1>0, <2>1, <3>2, HandlerTurns
    <3> QED
      BY <1>1, <3>1, <3>3 DEF UntouchedStep
  <2> QED
    BY <2>2, <2>3
<1>10. ASSUME NEW c \in Clients, ServeEdit(c)
       PROVE  ServingShape' /\ GraceShape' /\ \A g \in Generations : Counted(g)'
  <2>1. GraceShape'
    BY <1>0, <1>10 DEF ServeEdit, runtimeVars, GraceShape
  <2> QED
    BY <1>10, <2>1, EditPasses
<1> QED
  BY <1>0, <1>1, <1>4, <1>5, <1>6, <1>7, <1>8, <1>9, <1>10, ServerStepsAreUntouched
     DEF Next, ReloadStep, ServerStep

LEMMA GraceInitially == Init => GraceInv
<1> SUFFICES ASSUME Init PROVE GraceInv
  OBVIOUS
<1>1. Shaped
  BY DEF Init, Shaped, FirstBehavior
<1>2. serving = [c \in Clients |-> Idle] /\ Idle.task # "grace"
      /\ Idle = [task |-> Idle.task, about |-> Idle.about]
  BY DEF Init, Idle
<1>3. ServingShape /\ \A g \in Generations : InFlight(g) = {}
  <2> HIDE DEF Idle
  <2> QED
    BY <1>2 DEF ServingShape, InFlight
<1>4. /\ NoGrace \in [version : Nat, generation : Nat, accepted : Nat]
      /\ NoGrace.generation = 0 /\ NoGrace.accepted = 0 /\ 0 < GraceLimit
  BY ReloadConstants DEF NoGrace
<1>5. GraceShape
  BY <1>4 DEF Init, GraceShape
<1>6. \A g \in Generations : Counted(g)
  BY <1>3, <1>4 DEF Init, Counted, Generations
<1> QED
  BY <1>1, <1>3, <1>5, <1>6 DEF GraceInv

LEMMA GraceInvariant == Spec => []GraceInv
<1>1. Init => GraceInv
  BY GraceInitially
<1>2. GraceInv /\ [Next]_vars => GraceInv'
  <2> SUFFICES ASSUME GraceInv, [Next]_vars PROVE GraceInv'
    OBVIOUS
  <2>1. Shaped'
    BY StepsAreSerial DEF GraceInv, SerialStep, Shaped
  <2> QED
    BY <2>1, GraceStep DEF GraceInv
<1> QED
  BY <1>1, <1>2, PTL DEF Spec

\* No handler lets an edit by grace pass.
NothingAdmitted ==
    \A d \in Clients : serving'[d].task = "grace" => serving[d].task = "grace"

LEMMA TurnsAdmitNothing ==
    ASSUME ServingShape, NEW c, NEW s, s.task # "grace",
           serving' = [serving EXCEPT ![c] = s]
    PROVE  NothingAdmitted
<1>1. \A x \in Clients : serving'[x] = IF x = c THEN s ELSE serving[x]
  BY DEF ServingShape
<1> QED
  BY <1>1 DEF NothingAdmitted

\* Only validate_edit_version lets edits by grace pass.
LEMMA EditsAreAdmittedByServeEdit ==
    ASSUME ServingShape, [Next]_vars
    PROVE  NothingAdmitted \/ \E c \in Clients : ServeEdit(c)
<1>1. ASSUME serving' = serving
      PROVE  NothingAdmitted
  BY <1>1 DEF NothingAdmitted
<1>2. ASSUME EndReload
      PROVE  NothingAdmitted
  <2>1. Idle.task # "grace"
    BY DEF Idle
  <2> QED
    BY <1>1, <1>2, <2>1, TurnsAdmitNothing DEF EndReload
<1>3. ASSUME NEW c \in Clients, ServeOpen(c) \/ ServeReload(c) \/ ApplyEdit(c)
      PROVE  NothingAdmitted
  <2>1. CASE \E s : s.task # "grace" /\ serving' = [serving EXCEPT ![c] = s]
    BY <2>1, TurnsAdmitNothing
  <2>2. ASSUME NEW x, x # "grace", serving' = [serving EXCEPT ![c].task = x]
        PROVE  NothingAdmitted
    <3>1. serving' = [serving EXCEPT ![c] = [task |-> x, about |-> serving[c].about]]
      BY <2>2, Retasked
    <3> QED
      BY <2>1, <2>2, <3>1
  <2>3. CASE ServeOpen(c)
    <3>1. \/ serving' = [serving EXCEPT ![c] = [task |-> "opening", about |-> Head(up[c]).value]]
          \/ serving' = [serving EXCEPT ![c].task = "opened"]
          \/ serving' = [serving EXCEPT ![c] = Idle]
      BY <2>3 DEF ServeOpen
    <3> QED
      BY <2>1, <2>2, <3>1 DEF Idle
  <2>4. CASE ServeReload(c)
    <3>1. serving' = serving \/ serving' = [serving EXCEPT ![c].task = "reload"]
      BY <2>4 DEF ServeReload
    <3> QED
      BY <1>1, <2>2, <3>1
  <2>5. CASE ApplyEdit(c)
    <3>1. serving' = [serving EXCEPT ![c] = Idle]
      BY <2>5 DEF ApplyEdit
    <3> QED
      BY <2>1, <3>1 DEF Idle
  <2> QED
    BY <1>3, <2>3, <2>4, <2>5
<1>4. CASE \/ Save \/ QuietScanFails \/ GraceExpires \/ WatchStep \/ Publish
           \/ UNCHANGED vars
  <2>1. serving' = serving
    BY <1>4 DEF Save, QuietScanFails, GraceExpires, WatchStep, Poll, QuietScan, WatchReload,
                Rebaseline, Publish, vars
  <2> QED
    BY <1>1, <2>1
<1>5. CASE Prepare \/ Commit \/ Refresh
  <2>1. CASE Prepare \/ Commit
    BY <1>1, <1>2, <2>1 DEF Prepare, Commit
  <2>2. CASE Refresh
    BY <1>1, <1>2, <2>2 DEF Refresh
  <2> QED
    BY <1>5, <2>1, <2>2
<1>6. ASSUME NEW c \in Clients,
             \/ Subscribe(c) \/ Welcome(c) \/ ReceiveUpdate(c) \/ ServeInstalled(c)
             \/ ClientReceive(c) \/ ClientSends(c)
      PROVE  NothingAdmitted
  <2>1. serving' = serving
    BY <1>6 DEF Subscribe, Welcome, ReceiveUpdate, ServeInstalled, ClientReceive, ClientSends
  <2> QED
    BY <1>1, <2>1
<1> QED
  BY <1>3, <1>4, <1>5, <1>6 DEF Next, ReloadStep, ServerStep

\* Edits stamped with a replaced manifest are accepted GraceLimit times and once
\* more for every other connection, however the checks and the counts of the
\* handlers interleave with expiry and with further reloads.
THEOREM GraceStaysBounded == Spec => []GraceIsBounded
<1>1. GraceInv => GraceIsBounded
  <2> SUFFICES ASSUME GraceInv, NEW g \in Generations
               PROVE  accepted[g] <= GraceLimit + Cardinality(Clients) - 1
    BY DEF GraceIsBounded
  <2>1. Counted(g) /\ InFlight(g) \in SUBSET Clients /\ g \in Nat
    BY DEF GraceInv, InFlight, Generations
  <2>2. Cardinality(InFlight(g)) \in Nat /\ Cardinality(Clients) \in Nat
    BY <2>1, HandlersCounted
  <2>3. Cardinality(Clients) >= 1
    <3>1. IsFiniteSet(Clients) /\ Clients # {}
      BY ReloadConstants
    <3>2. Cardinality(Clients) # 0
      BY <3>1, FS_EmptySet
    <3> QED
      BY <2>2, <3>2
  <2>4. /\ accepted[g] \in Nat /\ GraceLimit \in Nat \ {0} /\ generation \in Nat
        /\ grace.accepted \in Nat /\ grace.accepted < GraceLimit
    BY ReloadConstants DEF GraceInv, GraceShape
  <2> QED
    BY <2>1, <2>2, <2>3, <2>4 DEF Counted
<1> QED
  BY <1>1, GraceInvariant, PTL

-----------------------------------------------------------------------------
(* Types                                                                   *)

\* The watcher works on a revision newer than its baseline, and waits for a
\* reload exactly while that reload is its own.
WatchInv ==
    /\ config \in 0..MaxSaves /\ tried \in 0..config
    /\ watch \in [phase : {"idle", "quiet", "due", "reloading", "rescan"},
                  baseline : Nat, seen : Nat, rescans : 0..(MaxRescans - 1)]
    /\ watch.baseline <= config /\ watch.seen <= config
    /\ watch.phase # "idle" => watch.baseline < watch.seen
    /\ watch.phase = "reloading" <=> reload.phase # "none" /\ reload.by = "watcher"

\* What a reload and the fanout hold is never ahead of what is in effect.
ReloadInv ==
    /\ reload \in [phase : ReloadPhase, by : Clients \cup {"watcher"},
                   publishes : BOOLEAN,
                   expected : [version : Nat, layers : SUBSET Documents],
                   refresh : SUBSET Documents]
    /\ reload.refresh \subseteq opened
    /\ opened \subseteq Documents /\ behavior.layers \subseteq opened
    /\ latest \in [generation : Nat, version : Nat]
    /\ latest.generation <= generation /\ latest.version <= behavior.version
    /\ reload.phase = "committed" => Candidate.version <= behavior.version

\* A handler runs a reload exactly while the attempt is its own.
HandlerInv ==
    \A c \in Clients :
        /\ serving[c].task \in Task
        /\ serving[c].task = "opening" => serving[c].about \in opened
        /\ serving[c].task = "reload" <=> reload.phase # "none" /\ reload.by = c

Request == [type : {"installed", "edit", "reload"}, value : Nat]
           \cup [type : {"open"}, value : Documents]
Update == [type : {"manifest", "snapshot"}, generation : Nat, version : Nat]

\* Nothing on its way to a client, and nothing a client has installed or
\* acknowledged, is ahead of the latest snapshot and the manifests.
MessageInv ==
    /\ ack \in [Clients -> Nat] /\ conn \in [Clients -> {"off", "subscribed", "on"}]
    /\ unread \in [Clients -> [buffered : 0..FanoutCapacity, lagged : BOOLEAN]]
    /\ up \in [Clients -> Seq(Request)]
    /\ down \in [Clients -> Seq(Update)]
    /\ client \in [Clients -> [generation : Nat, version : Nat]]
    /\ \A c \in Clients :
           /\ ack[c] <= latest.generation
           /\ Len(up[c]) <= QueueCapacity
           /\ client[c].generation <= latest.generation
           /\ client[c].version <= behavior.version
           /\ \A i \in DOMAIN down[c] :
                  /\ down[c][i].generation <= latest.generation
                  /\ down[c][i].version <= behavior.version

\* The requests that may still be granted: those queued, and those a handler
\* is working on.
Working(c) ==
    \/ serving[c].task = "grace"
    \/ serving[c].task = "reload" /\ reload.phase \in {"evaluating", "prepared"}
Pending ==
    {p \in Clients \X (0..QueueCapacity) :
        IF p[2] = 0 THEN Working(p[1])
        ELSE p[2] <= Len(up[p[1]]) /\ up[p[1]][p[2]].type # "installed"}

\* The revisions of the watcher that are behind it or committed.
Watched ==
    watch.baseline
    + (IF \/ watch.phase = "rescan"
          \/ reload.by = "watcher" /\ reload.phase \in {"committed", "stored", "refreshing"}
       THEN 1 ELSE 0)

\* Every generation is paid for by a request or a revision of the configuration,
\* and every edit by grace by a request.
BudgetInv ==
    /\ used \in [requests : 0..MaxRequests, faults : Nat]
    /\ generation + Cardinality(Pending) <= 1 + used.requests + Watched
    /\ \A g \in Generations : accepted[g] + Cardinality(Pending) <= used.requests

ReloadTypes ==
    GraceInv /\ WatchInv /\ ReloadInv /\ HandlerInv /\ MessageInv /\ BudgetInv

\* What a reload that goes on, and one that ends, leaves of the record.
LEMMA ReloadGoesOn ==
    ASSUME ReloadInv
    PROVE  /\ \A x : /\ [reload EXCEPT !.phase = x].phase = x
                     /\ [reload EXCEPT !.phase = x].by = reload.by
                     /\ [reload EXCEPT !.phase = x].publishes = reload.publishes
                     /\ [reload EXCEPT !.phase = x].expected = reload.expected
                     /\ [reload EXCEPT !.phase = x].refresh = reload.refresh
                     /\ x \in ReloadPhase =>
                          [reload EXCEPT !.phase = x] \in
                             [phase : ReloadPhase, by : Clients \cup {"watcher"},
                              publishes : BOOLEAN,
                              expected : [version : Nat, layers : SUBSET Documents],
                              refresh : SUBSET Documents]
  BY DEF ReloadInv

\* A new attempt.
LEMMA ReloadBegins ==
    ASSUME NEW by, StartReload(by), by \in Clients \cup {"watcher"}
    PROVE  /\ reload.phase = "none"
           /\ reload'.phase = "evaluating" /\ reload'.by = by /\ reload'.refresh = {}
           /\ reload' \in [phase : ReloadPhase, by : Clients \cup {"watcher"},
                           publishes : BOOLEAN,
                           expected : [version : Nat, layers : SUBSET Documents],
                           refresh : SUBSET Documents]
<1> DEFINE r == [phase |-> "evaluating", by |-> by, publishes |-> FALSE,
                 expected |-> [version |-> 0, layers |-> {}], refresh |-> {}]
<1>1. reload.phase = "none" /\ reload' = r
  BY DEF StartReload, NoReload
<1> QED
  BY <1>1 DEF ReloadPhase

LEMMA NoReloadTyped ==
    /\ NoReload.phase = "none" /\ NoReload.by = "watcher" /\ NoReload.refresh = {}
    /\ NoReload \in [phase : ReloadPhase, by : Clients \cup {"watcher"},
                     publishes : BOOLEAN,
                     expected : [version : Nat, layers : SUBSET Documents],
                     refresh : SUBSET Documents]
  BY DEF NoReload, ReloadPhase

\* The watcher's own steps, and what a save and the reload do to it.
LEMMA WatcherKept ==
    ASSUME WatchInv, ReloadInv, HandlerInv, [Next]_vars
    PROVE  WatchInv'
<1> DEFINE Type == [phase : {"idle", "quiet", "due", "reloading", "rescan"},
                    baseline : Nat, seen : Nat, rescans : 0..(MaxRescans - 1)]
<1>0. /\ config \in 0..MaxSaves /\ tried \in 0..config
      /\ watch \in Type
      /\ watch.baseline \in 0..config /\ watch.seen \in 0..config
      /\ watch.phase # "idle" => watch.baseline < watch.seen
      /\ watch.phase = "reloading" <=> reload.phase # "none" /\ reload.by = "watcher"
      /\ MaxSaves \in Nat /\ MaxRescans \in Nat \ {0} /\ "watcher" \notin Clients
      /\ config \in Nat /\ 0 \in 0..(MaxRescans - 1)
  BY ReloadConstants DEF WatchInv
<1>1. CASE UNCHANGED <<config, tried, watch, reload>>
  BY <1>1 DEF WatchInv
<1>2. CASE Save
  <2>1. config' = config + 1 /\ config' \in 0..MaxSaves /\ UNCHANGED <<tried, watch, reload>>
    BY <1>0, <1>2 DEF Save
  <2> QED
    BY <1>0, <2>1 DEF WatchInv
<1>3. ASSUME UNCHANGED <<config, tried, reload>>, watch' \in Type,
             watch'.baseline \in 0..config, watch'.seen \in 0..config,
             watch'.phase # "idle" => watch'.baseline < watch'.seen,
             watch'.phase = "reloading" <=> watch.phase = "reloading"
      PROVE  WatchInv'
  BY <1>0, <1>3 DEF WatchInv
<1>4. CASE Poll
  <2>1. watch' \in Type /\ watch'.phase = "quiet" /\ watch'.seen = config
        /\ watch'.baseline = watch.baseline
    <3>1. watch' = [watch EXCEPT !.phase = "quiet", !.seen = config, !.rescans = 0]
      BY <1>4 DEF Poll, Scan
    <3> QED
      BY <1>0, <3>1
  <2>2. watch.phase = "idle" /\ config # watch.baseline /\ UNCHANGED <<config, tried, reload>>
    BY <1>4 DEF Poll, Scan
  <2> QED
    BY <1>0, <1>3, <2>1, <2>2
<1>5. CASE QuietScan
  <2>1. watch.phase = "quiet" /\ UNCHANGED <<config, tried, reload>>
    BY <1>5 DEF QuietScan
  <2>2. watch' \in Type /\ watch'.phase \in {"quiet", "due"} /\ watch'.seen = config
        /\ watch'.baseline = watch.baseline
    <3>1. CASE Scan = watch.seen \/ watch.rescans = MaxRescans - 1
      <4>1. watch' = [watch EXCEPT !.phase = "due", !.seen = config]
        BY <1>5, <3>1 DEF QuietScan, Scan
      <4> QED
        BY <1>0, <4>1
    <3>2. CASE ~(Scan = watch.seen \/ watch.rescans = MaxRescans - 1)
      <4>1. watch.rescans + 1 \in 0..(MaxRescans - 1)
        BY <1>0, <3>2
      <4>2. watch' = [watch EXCEPT !.seen = config, !.rescans = watch.rescans + 1]
        BY <1>5, <3>2 DEF QuietScan, Scan
      <4> DEFINE n == watch.rescans + 1
      <4> HIDE DEF n
      <4> QED
        BY <1>0, <2>1, <4>1, <4>2 DEF n
    <3> QED
      BY <3>1, <3>2
  <2> QED
    BY <1>0, <1>3, <2>1, <2>2
<1>6. CASE QuietScanFails
  <2>1. watch' \in Type /\ watch'.phase = "idle" /\ watch'.seen = watch.seen
        /\ watch'.baseline = watch.baseline
    BY <1>0, <1>6 DEF QuietScanFails
  <2>2. watch.phase = "quiet" /\ UNCHANGED <<config, tried, reload>>
    BY <1>6 DEF QuietScanFails
  <2> QED
    BY <1>0, <1>3, <2>1, <2>2
<1>7. CASE Rebaseline
  <2>1. watch' \in Type /\ watch'.phase = "idle" /\ watch'.seen = watch.seen
        /\ watch'.baseline \in {config, watch.seen}
    <3>1. \E b \in {config, watch.seen} : watch' = [watch EXCEPT !.phase = "idle", !.baseline = b]
      BY <1>7 DEF Rebaseline, Scan
    <3> QED
      BY <1>0, <3>1
  <2>2. watch.phase = "rescan" /\ UNCHANGED <<config, tried, reload>>
    BY <1>7 DEF Rebaseline
  <2> QED
    BY <1>0, <1>3, <2>1, <2>2
<1>8. CASE WatchReload
  <2>1. watch.phase = "due" /\ UNCHANGED <<config, tried>>
    BY <1>8 DEF WatchReload
  <2>2. CASE StartReload("watcher") /\ watch' = [watch EXCEPT !.phase = "reloading"]
    <3>1. reload'.phase = "evaluating" /\ reload'.by = "watcher"
      BY <2>2, ReloadBegins
    <3>2. watch' \in Type /\ watch'.phase = "reloading" /\ watch'.seen = watch.seen
          /\ watch'.baseline = watch.baseline
      BY <1>0, <2>2
    <3> QED
      BY <1>0, <2>1, <3>1, <3>2 DEF WatchInv
  <2>3. CASE UNCHANGED reload /\ watch' = [watch EXCEPT !.phase = "rescan"]
    <3>2. watch' \in Type /\ watch'.phase = "rescan" /\ watch'.seen = watch.seen
          /\ watch'.baseline = watch.baseline
      BY <1>0, <2>3
    <3> QED
      BY <1>0, <1>3, <2>1, <2>3, <3>2
  <2> QED
    BY <1>8, <2>2, <2>3 DEF WatchReload
<1>9. ASSUME EndReload, reload.phase # "none", config' = config, tried' \in {tried, config}
      PROVE  WatchInv'
  <2>1. reload'.phase = "none"
    BY <1>9, NoReloadTyped DEF EndReload
  <2>2. CASE reload.by = "watcher"
    <3>1. watch' \in Type /\ watch'.phase = "rescan" /\ watch'.seen = watch.seen
          /\ watch'.baseline = watch.baseline
      BY <1>0, <1>9, <2>2 DEF EndReload
    <3> QED
      BY <1>0, <1>9, <2>1, <2>2, <3>1 DEF WatchInv
  <2>3. CASE reload.by # "watcher"
    <3>1. watch' = watch
      BY <1>9, <2>3 DEF EndReload
    <3> QED
      BY <1>0, <1>9, <2>1, <2>3, <3>1 DEF WatchInv
  <2> QED
    BY <2>2, <2>3
<1>10. ASSUME reload.phase # "none", reload'.phase # "none", reload'.by = reload.by,
              UNCHANGED <<config, watch>>, tried' \in {tried, config}
       PROVE  WatchInv'
  BY <1>0, <1>10 DEF WatchInv
<1>11. CASE Prepare
  <2>1. reload.phase = "evaluating" /\ tried' = config /\ config' = config
    BY <1>11 DEF Prepare
  <2>2. CASE EndReload
    BY <1>9, <2>1, <2>2
  <2>3. ASSUME NEW p \in BOOLEAN, UNCHANGED watch,
               reload' = [reload EXCEPT !.phase = "prepared", !.publishes = p,
                                        !.expected = behavior, !.refresh = opened]
        PROVE  WatchInv'
    <3>1. reload'.phase = "prepared" /\ reload'.by = reload.by
      BY <2>3 DEF ReloadInv
    <3> QED
      BY <1>10, <2>1, <2>3, <3>1
  <2> QED
    BY <1>11, <2>2, <2>3 DEF Prepare
<1>12. CASE Commit
  <2>1. reload.phase = "prepared" /\ UNCHANGED <<config, tried>>
    BY <1>12 DEF Commit
  <2>2. CASE EndReload
    BY <1>9, <2>1, <2>2
  <2>3. CASE reload' = [reload EXCEPT !.phase = "committed"] /\ UNCHANGED watch
    BY <1>10, <2>1, <2>3, ReloadGoesOn
  <2> QED
    BY <1>12, <2>2, <2>3 DEF Commit
<1>13. CASE Publish
  <2>1. reload.phase \in {"committed", "stored"} /\ UNCHANGED <<config, tried, watch>>
        /\ \E x \in {"stored", "refreshing"} : reload' = [reload EXCEPT !.phase = x]
    BY <1>13 DEF Publish
  <2> QED
    BY <1>10, <2>1, ReloadGoesOn
<1>14. CASE Refresh
  <2>1. reload.phase = "refreshing" /\ UNCHANGED <<config, tried>>
    BY <1>14 DEF Refresh
  <2>2. CASE EndReload
    BY <1>9, <2>1, <2>2
  <2>3. ASSUME NEW d, reload' = [reload EXCEPT !.refresh = @ \ {d}], UNCHANGED watch
        PROVE  WatchInv'
    <3>1. reload'.phase = reload.phase /\ reload'.by = reload.by
      BY <2>3 DEF ReloadInv
    <3> QED
      BY <1>10, <2>1, <2>3, <3>1
  <2> QED
    BY <1>14, <2>2, <2>3 DEF Refresh
<1>15. ASSUME NEW c \in Clients, ServeReload(c)
       PROVE  WatchInv'
  <2>1. UNCHANGED <<config, tried, watch>>
    BY <1>15 DEF ServeReload, watcherVars
  <2>2. CASE StartReload(c)
    <3>1. reload.phase = "none" /\ reload'.by = c
      BY <1>15, <2>2, ReloadBegins
    <3> QED
      BY <1>0, <1>15, <2>1, <3>1 DEF WatchInv
  <2> QED
    BY <1>1, <1>15, <2>1, <2>2 DEF ServeReload
<1>16. ASSUME NEW c \in Clients,
              \/ Subscribe(c) \/ Welcome(c) \/ ReceiveUpdate(c) \/ ServeInstalled(c)
              \/ ServeEdit(c) \/ ApplyEdit(c) \/ ServeOpen(c) \/ ClientReceive(c)
              \/ ClientSends(c)
       PROVE  UNCHANGED <<config, tried, watch, reload>>
  BY <1>16 DEF Subscribe, Welcome, ReceiveUpdate, ServeInstalled, ServeEdit, ApplyEdit,
               ServeOpen, ClientReceive, ClientSends, watcherVars
<1>17. CASE GraceExpires \/ UNCHANGED vars
  BY <1>1, <1>17 DEF GraceExpires, watcherVars, vars
<1> QED
  BY <1>1, <1>2, <1>4, <1>5, <1>6, <1>7, <1>8, <1>11, <1>12, <1>13, <1>14, <1>15, <1>16, <1>17
  DEF Next, WatchStep, ReloadStep, ServerStep

\* Candidates are built from fields that a reload keeps once it is prepared.
LEMMA CandidateTyped ==
    ASSUME ReloadInv
    PROVE  /\ Candidate.version \in Nat
           /\ Candidate.layers = reload.expected.layers
           /\ Candidate.version \in {reload.expected.version, reload.expected.version + 1}
<1>1. reload.expected.version \in Nat
  BY DEF ReloadInv
<1> QED
  BY <1>1 DEF Candidate

\* What a reload holds stays behind what is in effect.
LEMMA ReloadKept ==
    ASSUME GraceInv, ReloadInv, HandlerInv, MessageInv, [Next]_vars
    PROVE  ReloadInv'
<1> DEFINE Type == [phase : ReloadPhase, by : Clients \cup {"watcher"},
                    publishes : BOOLEAN,
                    expected : [version : Nat, layers : SUBSET Documents],
                    refresh : SUBSET Documents]
<1>0. /\ reload \in Type /\ reload.refresh \subseteq opened
      /\ opened \subseteq Documents /\ behavior.layers \subseteq opened
      /\ latest \in [generation : Nat, version : Nat]
      /\ latest.generation <= generation /\ latest.version <= behavior.version
      /\ reload.phase = "committed" => Candidate.version <= behavior.version
      /\ generation \in Nat /\ behavior.version \in Nat
      /\ latest.generation \in Nat /\ latest.version \in Nat
      /\ Candidate.version \in Nat
  BY CandidateTyped DEF ReloadInv, GraceInv, GraceShape, Shaped
<1>1. CASE UNCHANGED <<reload, opened, behavior, latest, generation>>
  BY <1>1 DEF ReloadInv, Candidate
<1>2. ASSUME reload' \in Type, reload'.refresh \subseteq opened, reload'.phase # "committed",
             UNCHANGED <<opened, behavior, latest, generation>>
      PROVE  ReloadInv'
  BY <1>0, <1>2 DEF ReloadInv
<1>3. CASE EndReload /\ UNCHANGED <<opened, behavior, latest, generation>>
  <2>1. reload' = NoReload
    BY <1>3 DEF EndReload
  <2> HIDE DEF Type
  <2>2. reload' \in Type /\ reload'.refresh \subseteq opened /\ reload'.phase # "committed"
    BY <2>1, NoReloadTyped DEF Type
  <2> QED
    BY <1>2, <1>3, <2>2
<1>4. ASSUME NEW by \in Clients \cup {"watcher"}, StartReload(by),
             UNCHANGED <<opened, behavior, latest, generation>>
      PROVE  ReloadInv'
  BY <1>2, <1>4, ReloadBegins
<1>5. ASSUME NEW d \in opened, behavior' \in Activated(d), UNCHANGED <<opened, latest, generation>>,
             reload' \in Type, reload'.refresh \subseteq opened, reload'.phase # "committed"
      PROVE  ReloadInv'
  <2>1. behavior'.version \in Nat /\ behavior.version <= behavior'.version
        /\ behavior'.layers \subseteq opened
    BY <1>0, <1>5 DEF Activated
  <2> QED
    BY <1>0, <1>5, <2>1 DEF ReloadInv
<1>6. CASE Prepare
  <2>1. UNCHANGED <<opened, behavior, latest, generation>>
    BY <1>6 DEF Prepare, runtimeVars
  <2>2. ASSUME NEW p \in BOOLEAN,
               reload' = [reload EXCEPT !.phase = "prepared", !.publishes = p,
                                        !.expected = behavior, !.refresh = opened]
        PROVE  ReloadInv'
    <3>1. behavior = [version |-> behavior.version, layers |-> behavior.layers]
      BY DEF GraceInv, Shaped
    <3>2. behavior \in [version : Nat, layers : SUBSET Documents]
      BY <1>0, <3>1
    <3>3. reload' \in Type /\ reload'.refresh = opened /\ reload'.phase = "prepared"
      BY <1>0, <2>2, <3>2 DEF ReloadPhase
    <3> QED
      BY <1>2, <2>1, <3>3
  <2> QED
    BY <1>3, <1>6, <2>1, <2>2 DEF Prepare
<1>7. CASE Commit
  <2>0. opened' = opened
    BY <1>7 DEF Commit
  <2>1. CASE EndReload /\ UNCHANGED runtimeVars
    BY <1>3, <2>0, <2>1 DEF runtimeVars
  <2>2. CASE /\ behavior = reload.expected /\ behavior' = Candidate
             /\ generation' = generation + 1 /\ latest' = latest
             /\ reload' = [reload EXCEPT !.phase = "committed"]
    <3>1. /\ reload' \in Type /\ reload'.refresh = reload.refresh
          /\ reload'.expected = reload.expected /\ reload'.publishes = reload.publishes
      BY <2>2, ReloadGoesOn DEF ReloadPhase
    <3>2. Candidate' = Candidate
      BY <3>1 DEF Candidate
    <3>3. behavior'.layers = behavior.layers /\ behavior.version <= behavior'.version
          /\ behavior'.version = Candidate.version
      BY <1>0, <2>2, CandidateTyped
    <3>4. /\ latest'.generation <= generation' /\ latest'.version <= behavior'.version
          /\ Candidate'.version <= behavior'.version
      BY <1>0, <2>2, <3>2, <3>3
    <3> HIDE DEF Type
    <3>5. latest' \in [generation : Nat, version : Nat] /\ reload'.refresh \subseteq opened'
          /\ opened' \subseteq Documents /\ behavior'.layers \subseteq opened'
      BY <1>0, <2>0, <2>2, <3>1, <3>3
    <3> QED
      BY <3>1, <3>4, <3>5 DEF ReloadInv, Type
  <2> QED
    BY <1>7, <2>1, <2>2 DEF Commit
<1>8. CASE Publish
  <2>1. UNCHANGED <<opened, behavior, generation>>
    BY <1>8 DEF Publish
  <2>2. PICK x \in {"stored", "refreshing"} :
           /\ reload' = [reload EXCEPT !.phase = x]
           /\ \/ reload.phase = "committed"
                 /\ latest' = [generation |-> generation, version |-> Candidate.version]
              \/ latest' = latest
    BY <1>8 DEF Publish, Store, Announce
  <2>3. /\ reload' \in Type /\ reload'.refresh = reload.refresh
        /\ reload'.phase \in {"stored", "refreshing"}
    BY <2>2, ReloadGoesOn DEF ReloadPhase
  <2>4. latest' \in [generation : Nat, version : Nat]
        /\ latest'.generation <= generation /\ latest'.version <= behavior.version
    BY <1>0, <2>2
  <2> QED
    BY <1>0, <2>1, <2>3, <2>4 DEF ReloadInv
<1>9. CASE Refresh
  <2>1. UNCHANGED <<opened, latest, generation>> /\ reload.phase = "refreshing"
    BY <1>9 DEF Refresh
  <2>2. ASSUME NEW d \in reload.refresh, behavior' \in Activated(d),
               reload' = [reload EXCEPT !.refresh = @ \ {d}]
        PROVE  ReloadInv'
    <3> DEFINE rest == reload.refresh \ {d}
    <3>1. rest \in SUBSET Documents /\ rest \subseteq opened /\ d \in opened
      BY <1>0, <2>2
    <3>2. reload' = [reload EXCEPT !.refresh = rest]
      BY <2>2
    <3> HIDE DEF rest
    <3>3. reload' \in Type /\ reload'.refresh = rest /\ reload'.phase = "refreshing"
      BY <1>0, <2>1, <3>1, <3>2
    <3> QED
      BY <1>5, <2>1, <2>2, <3>1, <3>3
  <2> QED
    BY <1>3, <1>9, <2>1, <2>2 DEF Refresh
<1>10. ASSUME NEW c \in Clients, ServeOpen(c)
       PROVE  ReloadInv'
  <2>1. UNCHANGED <<reload, latest, generation>>
    BY <1>10 DEF ServeOpen, runtimeVars
  <2>2. CASE NextMessage(c, "open") /\ opened' = opened \cup {Head(up[c]).value}
             /\ behavior' = behavior
    <3>1. Head(up[c]) \in Request /\ Head(up[c]).type = "open"
      BY <1>10, <2>2 DEF NextMessage, MessageInv
    <3>2. Head(up[c]).value \in Documents
      BY <3>1 DEF Request
    <3> QED
      BY <1>0, <2>1, <2>2, <3>2 DEF ReloadInv, Candidate
  <2>3. CASE serving[c].task = "opening" /\ behavior' \in Activated(serving[c].about)
             /\ opened' = opened
    <3>1. serving[c].about \in opened
      BY <1>10, <2>3 DEF HandlerInv
    <3>2. behavior'.version \in Nat /\ behavior.version <= behavior'.version
          /\ behavior'.layers \subseteq opened
      BY <1>0, <2>3, <3>1 DEF Activated
    <3>3. Candidate' = Candidate
      BY <2>1 DEF Candidate
    <3> QED
      BY <1>0, <2>1, <2>3, <3>2, <3>3 DEF ReloadInv
  <2>4. CASE UNCHANGED <<behavior, opened>>
    BY <1>1, <2>1, <2>4
  <2> QED
    BY <1>10, <2>2, <2>3, <2>4 DEF ServeOpen, runtimeVars
<1>11. ASSUME NEW c \in Clients, ServeReload(c)
       PROVE  ReloadInv'
  <2>1. UNCHANGED <<opened, behavior, latest, generation>>
    BY <1>11 DEF ServeReload, runtimeVars
  <2>2. CASE StartReload(c)
    BY <1>4, <1>11, <2>1, <2>2
  <2> QED
    BY <1>1, <1>11, <2>1, <2>2 DEF ServeReload
<1>12. CASE WatchReload
  <2>1. UNCHANGED <<opened, behavior, latest, generation>>
    BY <1>12 DEF WatchReload, runtimeVars
  <2>2. CASE StartReload("watcher")
    BY <1>4, <2>1, <2>2
  <2> QED
    BY <1>1, <1>12, <2>1, <2>2 DEF WatchReload
<1>13. ASSUME NEW c \in Clients,
              \/ Subscribe(c) \/ Welcome(c) \/ ReceiveUpdate(c) \/ ServeInstalled(c)
              \/ ServeEdit(c) \/ ApplyEdit(c) \/ ClientReceive(c) \/ ClientSends(c)
       PROVE  UNCHANGED <<reload, opened, behavior, latest, generation>>
  BY <1>13 DEF Subscribe, Welcome, ReceiveUpdate, ServeInstalled, ServeEdit, ApplyEdit,
               ClientReceive, ClientSends, runtimeVars
<1>14. CASE Save \/ QuietScanFails \/ GraceExpires \/ Poll \/ QuietScan \/ Rebaseline
            \/ UNCHANGED vars
  BY <1>1, <1>14 DEF Save, QuietScanFails, GraceExpires, Poll, QuietScan, Rebaseline, runtimeVars,
                     vars
<1> QED
  BY <1>1, <1>6, <1>7, <1>8, <1>9, <1>10, <1>11, <1>12, <1>13, <1>14
  DEF Next, WatchStep, ReloadStep, ServerStep

\* A handler turns to s: the others go on with what they do.
LEMMA HandlersTurn ==
    ASSUME ServingShape, HandlerInv, NEW c \in Clients, NEW s,
           serving' = [serving EXCEPT ![c] = s],
           opened \subseteq opened', s.task \in Task,
           s.task = "opening" => s.about \in opened',
           s.task = "reload" <=> reload'.phase # "none" /\ reload'.by = c,
           \A x \in Clients \ {c} : (reload'.phase # "none" /\ reload'.by = x)
                                        <=> (reload.phase # "none" /\ reload.by = x)
    PROVE  HandlerInv'
<1>1. \A x \in Clients : serving'[x] = IF x = c THEN s ELSE serving[x]
  BY DEF ServingShape
<1> SUFFICES ASSUME NEW x \in Clients
             PROVE  /\ serving'[x].task \in Task
                    /\ serving'[x].task = "opening" => serving'[x].about \in opened'
                    /\ serving'[x].task = "reload" <=> reload'.phase # "none" /\ reload'.by = x
  BY DEF HandlerInv
<1>2. CASE x = c
  BY <1>1, <1>2
<1>3. CASE x # c
  <2>1. serving'[x] = serving[x]
    BY <1>1, <1>3
  <2> QED
    BY <1>3, <2>1 DEF HandlerInv
<1> QED
  BY <1>2, <1>3

\* Handlers and the attempt lock agree after every step.
LEMMA HandlersKept ==
    ASSUME GraceInv, WatchInv, ReloadInv, HandlerInv, [Next]_vars
    PROVE  HandlerInv'
<1>0. ServingShape /\ "watcher" \notin Clients /\ reload.by \in Clients \cup {"watcher"}
  BY ReloadConstants DEF GraceInv, ReloadInv
<1>1. ASSUME UNCHANGED serving, opened \subseteq opened',
             \A x \in Clients : (reload'.phase # "none" /\ reload'.by = x)
                                    <=> (reload.phase # "none" /\ reload.by = x)
      PROVE  HandlerInv'
  BY <1>1 DEF HandlerInv
<1>2. Idle.task = "idle" /\ "idle" \in Task
  BY DEF Idle, Task
<1>3. CASE EndReload /\ reload.phase # "none" /\ UNCHANGED opened
  <2>1. reload'.phase = "none"
    BY <1>3, NoReloadTyped DEF EndReload
  <2>2. CASE reload.by = "watcher"
    BY <1>0, <1>1, <1>3, <2>1, <2>2 DEF EndReload
  <2>3. CASE reload.by # "watcher"
    <3>1. serving' = [serving EXCEPT ![reload.by] = Idle] /\ reload.by \in Clients
      BY <1>0, <1>3, <2>3 DEF EndReload
    <3> HIDE DEF Idle
    <3> QED
      BY <1>0, <1>2, <1>3, <2>1, <3>1, HandlersTurn
  <2> QED
    BY <2>2, <2>3
<1>4. ASSUME NEW x \in ReloadPhase \ {"none"}, reload.phase # "none",
             reload'.phase = x, reload'.by = reload.by, UNCHANGED <<serving, opened>>
      PROVE  HandlerInv'
  BY <1>1, <1>4
<1>5. CASE Prepare
  <2>1. reload.phase = "evaluating" /\ UNCHANGED opened
    BY <1>5 DEF Prepare
  <2>2. ASSUME NEW p \in BOOLEAN, UNCHANGED serving,
               reload' = [reload EXCEPT !.phase = "prepared", !.publishes = p,
                                        !.expected = behavior, !.refresh = opened]
        PROVE  HandlerInv'
    <3>1. reload'.phase = "prepared" /\ reload'.by = reload.by
      BY <2>2 DEF ReloadInv
    <3> QED
      BY <1>1, <2>1, <2>2, <3>1
  <2> QED
    BY <1>3, <1>5, <2>1, <2>2 DEF Prepare
<1>6. CASE Commit
  <2>1. reload.phase = "prepared" /\ UNCHANGED opened
    BY <1>6 DEF Commit
  <2>2. CASE reload' = [reload EXCEPT !.phase = "committed"] /\ UNCHANGED serving
    BY <1>1, <2>1, <2>2, ReloadGoesOn
  <2> QED
    BY <1>3, <1>6, <2>1, <2>2 DEF Commit
<1>7. CASE Publish
  <2>1. /\ reload.phase \in {"committed", "stored"} /\ UNCHANGED <<serving, opened>>
        /\ \E x \in {"stored", "refreshing"} : reload' = [reload EXCEPT !.phase = x]
    BY <1>7 DEF Publish
  <2> QED
    BY <1>1, <2>1, ReloadGoesOn
<1>8. CASE Refresh
  <2>1. reload.phase = "refreshing" /\ UNCHANGED opened
    BY <1>8 DEF Refresh
  <2>2. ASSUME NEW d, reload' = [reload EXCEPT !.refresh = @ \ {d}], UNCHANGED serving
        PROVE  HandlerInv'
    <3>1. reload'.phase = reload.phase /\ reload'.by = reload.by
      BY <2>2 DEF ReloadInv
    <3> QED
      BY <1>1, <2>1, <2>2, <3>1
  <2> QED
    BY <1>3, <1>8, <2>1, <2>2 DEF Refresh
<1>9. ASSUME NEW c \in Clients, ServeOpen(c)
      PROVE  HandlerInv'
  <2>1. reload' = reload
    BY <1>9 DEF ServeOpen
  <2>2. CASE NextMessage(c, "open") /\ opened' = opened \cup {Head(up[c]).value}
             /\ serving' = [serving EXCEPT ![c] = [task |-> "opening", about |-> Head(up[c]).value]]
    <3> DEFINE s == [task |-> "opening", about |-> Head(up[c]).value]
    <3>1. s.task = "opening" /\ s.about \in opened' /\ s.task \in Task
      BY <2>2 DEF Task
    <3>2. ~(reload.phase # "none" /\ reload.by = c)
      BY <1>9, <1>2, <2>2 DEF NextMessage, HandlerInv
    <3>3. serving' = [serving EXCEPT ![c] = s] /\ opened \subseteq opened'
      BY <2>2
    <3> HIDE DEF s
    <3> QED
      BY <1>0, <1>9, <2>1, <3>1, <3>2, <3>3, HandlersTurn
  <2>3. CASE /\ serving[c].task = "opening" /\ opened' = opened
             /\ serving' = [serving EXCEPT ![c].task = "opened"]
    <3> DEFINE s == [task |-> "opened", about |-> serving[c].about]
    <3>1. s.task = "opened" /\ s.task \in Task
      BY DEF Task
    <3>2. ~(reload.phase # "none" /\ reload.by = c)
      BY <1>9, <2>3 DEF HandlerInv
    <3>3. serving' = [serving EXCEPT ![c] = s]
      BY <1>0, <1>9, <2>3, Retasked
    <3> HIDE DEF s
    <3> QED
      BY <1>0, <1>9, <2>1, <2>3, <3>1, <3>2, <3>3, HandlersTurn
  <2>4. CASE serving[c].task = "opened" /\ opened' = opened /\ serving' = [serving EXCEPT ![c] = Idle]
    <3>2. ~(reload.phase # "none" /\ reload.by = c)
      BY <1>9, <2>4 DEF HandlerInv
    <3> HIDE DEF Idle
    <3> QED
      BY <1>0, <1>2, <1>9, <2>1, <2>4, <3>2, HandlersTurn
  <2> QED
    BY <1>9, <2>2, <2>3, <2>4 DEF ServeOpen
<1>10. ASSUME NEW c \in Clients, ServeReload(c)
       PROVE  HandlerInv'
  <2>1. UNCHANGED opened /\ serving[c] = Idle
    BY <1>10 DEF ServeReload, NextMessage
  <2>2. CASE StartReload(c) /\ serving' = [serving EXCEPT ![c].task = "reload"]
    <3> DEFINE s == [task |-> "reload", about |-> serving[c].about]
    <3>1. s.task = "reload" /\ s.task \in Task
      BY DEF Task
    <3>2. serving' = [serving EXCEPT ![c] = s]
      BY <1>0, <1>10, <2>2, Retasked
    <3>3. reload.phase = "none" /\ reload'.phase = "evaluating" /\ reload'.by = c
      BY <1>10, <2>2, ReloadBegins
    <3> HIDE DEF s
    <3> QED
      BY <1>0, <1>10, <2>1, <3>1, <3>2, <3>3, HandlersTurn
  <2>3. CASE UNCHANGED <<reload, serving>>
    BY <1>1, <2>1, <2>3
  <2> QED
    BY <1>10, <2>2, <2>3 DEF ServeReload
<1>11. CASE WatchReload
  <2>1. UNCHANGED <<serving, opened>>
    BY <1>11 DEF WatchReload
  <2>2. CASE StartReload("watcher")
    <3>1. reload.phase = "none" /\ reload'.by = "watcher"
      BY <2>2, ReloadBegins
    <3> QED
      BY <1>0, <1>1, <2>1, <3>1
  <2> QED
    BY <1>1, <1>11, <2>1, <2>2 DEF WatchReload
<1>12. ASSUME NEW c \in Clients, ServeEdit(c)
       PROVE  HandlerInv'
  <2>1. UNCHANGED <<opened, reload>> /\ serving[c] = Idle
    BY <1>12 DEF ServeEdit, NextMessage
  <2>2. ~(reload.phase # "none" /\ reload.by = c)
    BY <1>12, <1>2, <2>1 DEF HandlerInv
  <2>3. CASE serving' = [serving EXCEPT ![c].task = "current"]
    <3> DEFINE s == [task |-> "current", about |-> serving[c].about]
    <3>1. s.task = "current" /\ s.task \in Task /\ serving' = [serving EXCEPT ![c] = s]
      BY <1>0, <1>12, <2>3, Retasked DEF Task
    <3> HIDE DEF s
    <3> QED
      BY <1>0, <1>12, <2>1, <2>2, <3>1, HandlersTurn
  <2>4. CASE serving' = [serving EXCEPT ![c] = [task |-> "grace", about |-> grace.generation]]
    <3> DEFINE s == [task |-> "grace", about |-> grace.generation]
    <3>1. s.task = "grace" /\ s.task \in Task /\ serving' = [serving EXCEPT ![c] = s]
      BY <2>4 DEF Task
    <3> HIDE DEF s
    <3> QED
      BY <1>0, <1>12, <2>1, <2>2, <3>1, HandlersTurn
  <2>5. CASE serving' = serving
    BY <1>1, <2>1, <2>5
  <2> QED
    BY <1>12, <2>3, <2>4, <2>5 DEF ServeEdit
<1>13. ASSUME NEW c \in Clients, ApplyEdit(c)
       PROVE  HandlerInv'
  <2>1. /\ UNCHANGED <<opened, reload>> /\ serving' = [serving EXCEPT ![c] = Idle]
        /\ serving[c].task \in {"current", "grace"}
    BY <1>13 DEF ApplyEdit
  <2>2. ~(reload.phase # "none" /\ reload.by = c)
    BY <1>13, <2>1 DEF HandlerInv
  <2> HIDE DEF Idle
  <2> QED
    BY <1>0, <1>2, <1>13, <2>1, <2>2, HandlersTurn
<1>14. ASSUME NEW c \in Clients,
              \/ Subscribe(c) \/ Welcome(c) \/ ReceiveUpdate(c) \/ ServeInstalled(c)
              \/ ClientReceive(c) \/ ClientSends(c)
       PROVE  UNCHANGED <<serving, opened, reload>>
  BY <1>14 DEF Subscribe, Welcome, ReceiveUpdate, ServeInstalled, ClientReceive, ClientSends
<1>15. CASE Save \/ QuietScanFails \/ GraceExpires \/ Poll \/ QuietScan \/ Rebaseline
            \/ UNCHANGED vars
  BY <1>1, <1>15 DEF Save, QuietScanFails, GraceExpires, Poll, QuietScan, Rebaseline, vars
<1> QED
  BY <1>1, <1>5, <1>6, <1>7, <1>8, <1>9, <1>10, <1>11, <1>12, <1>13, <1>14, <1>15
  DEF Next, WatchStep, ReloadStep, ServerStep

\* The queues, and what clients hold: a step that adds nothing to a client and
\* sends it nothing that is ahead of the latest snapshot.
LEMMA MessagesMonotone ==
    ASSUME MessageInv, ReloadInv, ReloadInv', GraceInv, GraceInv',
           latest.generation <= latest'.generation, behavior.version <= behavior'.version,
           ack' \in [Clients -> Nat], conn' \in [Clients -> {"off", "subscribed", "on"}],
           unread' \in [Clients -> [buffered : 0..FanoutCapacity, lagged : BOOLEAN]],
           up' \in [Clients -> Seq(Request)],
           down' \in [Clients -> Seq(Update)],
           client' \in [Clients -> [generation : Nat, version : Nat]],
           \A c \in Clients :
               /\ ack'[c] <= latest.generation
               /\ Len(up'[c]) <= QueueCapacity
               /\ client'[c].generation <= latest.generation
               /\ client'[c].version <= behavior.version
               /\ \A i \in DOMAIN down'[c] :
                      /\ down'[c][i].generation <= latest.generation
                      /\ down'[c][i].version <= behavior.version
    PROVE  MessageInv'
<1>1. /\ latest.generation \in Nat /\ latest'.generation \in Nat
      /\ behavior.version \in Nat /\ behavior'.version \in Nat
  BY DEF ReloadInv, GraceInv, Shaped
<1>2. ASSUME NEW c \in Clients
      PROVE  /\ ack'[c] <= latest'.generation
             /\ Len(up'[c]) <= QueueCapacity
             /\ client'[c].generation <= latest'.generation
             /\ client'[c].version <= behavior'.version
             /\ \A i \in DOMAIN down'[c] :
                    /\ down'[c][i].generation <= latest'.generation
                    /\ down'[c][i].version <= behavior'.version
  <2>1. ack'[c] \in Nat /\ client'[c].generation \in Nat /\ client'[c].version \in Nat
    BY <1>2
  <2>2. \A i \in DOMAIN down'[c] :
           down'[c][i].generation \in Nat /\ down'[c][i].version \in Nat
    <3>1. \A i \in DOMAIN down'[c] : down'[c][i] \in Update
      BY <1>2
    <3> QED
      BY <3>1 DEF Update
  <2>3. /\ ack'[c] <= latest'.generation
        /\ client'[c].generation <= latest'.generation
        /\ client'[c].version <= behavior'.version
    BY <1>1, <1>2, <2>1
  <2>4. ASSUME NEW i \in DOMAIN down'[c]
        PROVE  /\ down'[c][i].generation <= latest'.generation
               /\ down'[c][i].version <= behavior'.version
    BY <1>1, <1>2, <2>2, <2>4
  <2> QED
    BY <1>2, <2>3, <2>4
<1> QED
  BY <1>2 DEF MessageInv

\* Taking the first message of a queue, and appending one.
LEMMA QueueTail ==
    ASSUME NEW S, NEW q \in [Clients -> Seq(S)], NEW c \in Clients, q[c] # <<>>
    PROVE  /\ [q EXCEPT ![c] = Tail(@)] \in [Clients -> Seq(S)]
           /\ Head(q[c]) \in S /\ Head(q[c]) = q[c][1] /\ 1 \in DOMAIN q[c]
           /\ Len(Tail(q[c])) = Len(q[c]) - 1
           /\ \A i \in DOMAIN Tail(q[c]) : i + 1 \in DOMAIN q[c] /\ Tail(q[c])[i] = q[c][i + 1]
           /\ \A x \in Clients : [q EXCEPT ![c] = Tail(@)][x] =
                                     IF x = c THEN Tail(q[c]) ELSE q[x]
  OBVIOUS

LEMMA QueueAppend ==
    ASSUME NEW S, NEW q \in [Clients -> Seq(S)], NEW c \in Clients, NEW m \in S
    PROVE  /\ [q EXCEPT ![c] = Append(@, m)] \in [Clients -> Seq(S)]
           /\ Len(Append(q[c], m)) = Len(q[c]) + 1 /\ Len(q[c]) \in Nat
           /\ \A i \in DOMAIN Append(q[c], m) :
                 Append(q[c], m)[i] = IF i = Len(q[c]) + 1 THEN m ELSE q[c][i]
           /\ \A i \in DOMAIN Append(q[c], m) : i = Len(q[c]) + 1 \/ i \in DOMAIN q[c]
           /\ \A x \in Clients : [q EXCEPT ![c] = Append(@, m)][x] =
                                     IF x = c THEN Append(q[c], m) ELSE q[x]
  OBVIOUS

\* Something is sent to a client.
LEMMA Sent ==
    ASSUME MessageInv, NEW c \in Clients, NEW m \in Update, Send(c, m),
           m.generation <= latest.generation, m.version <= behavior.version
    PROVE  /\ down' \in [Clients -> Seq(Update)]
           /\ \A x \in Clients : \A i \in DOMAIN down'[x] :
                  /\ down'[x][i].generation <= latest.generation
                  /\ down'[x][i].version <= behavior.version
<1>1. down \in [Clients -> Seq(Update)] /\ down' = [down EXCEPT ![c] = Append(@, m)]
  BY DEF MessageInv, Send
<1>2. /\ down' \in [Clients -> Seq(Update)]
      /\ \A i \in DOMAIN Append(down[c], m) :
            Append(down[c], m)[i] = IF i = Len(down[c]) + 1 THEN m ELSE down[c][i]
      /\ \A i \in DOMAIN Append(down[c], m) : i = Len(down[c]) + 1 \/ i \in DOMAIN down[c]
      /\ \A x \in Clients : down'[x] = IF x = c THEN Append(down[c], m) ELSE down[x]
  BY <1>1, QueueAppend
<1> QED
  BY <1>2 DEF MessageInv

\* The latest snapshot, or nothing where there is none.
LEMMA LatestSent ==
    ASSUME MessageInv, ReloadInv, GraceInv, NEW c \in Clients, SendLatest(c)
    PROVE  /\ down' \in [Clients -> Seq(Update)]
           /\ \A x \in Clients : \A i \in DOMAIN down'[x] :
                  /\ down'[x][i].generation <= latest.generation
                  /\ down'[x][i].version <= behavior.version
<1>1. CASE UNCHANGED down
  BY <1>1 DEF MessageInv
<1>2. CASE Send(c, Snapshot)
  <2>1. /\ Snapshot \in Update /\ Snapshot.generation <= latest.generation
        /\ Snapshot.version <= behavior.version
    BY DEF Snapshot, Update, ReloadInv
  <2> HIDE DEF Snapshot
  <2> QED
    BY <1>2, <2>1, Sent
<1> QED
  BY <1>1, <1>2 DEF SendLatest

LEMMA ManifestSent ==
    ASSUME MessageInv, ReloadInv, GraceInv, NEW c \in Clients, Send(c, Manifest)
    PROVE  /\ down' \in [Clients -> Seq(Update)]
           /\ \A x \in Clients : \A i \in DOMAIN down'[x] :
                  /\ down'[x][i].generation <= latest.generation
                  /\ down'[x][i].version <= behavior.version
<1>1. /\ Manifest \in Update /\ Manifest.generation <= latest.generation
      /\ Manifest.version <= behavior.version
  BY DEF Manifest, Update, ReloadInv, GraceInv, Shaped
<1> HIDE DEF Manifest
<1> QED
  BY <1>1, Sent

\* A handler takes the next message of its client.
LEMMA RequestTaken ==
    ASSUME MessageInv, NEW c \in Clients, NEW type, NextMessage(c, type)
    PROVE  /\ up' \in [Clients -> Seq(Request)]
           /\ \A x \in Clients : Len(up'[x]) <= QueueCapacity
           /\ Head(up[c]) \in Request /\ Head(up[c]).type = type
<1>1. up \in [Clients -> Seq(Request)] /\ up[c] # <<>> /\ up' = [up EXCEPT ![c] = Tail(@)]
      /\ \A x \in Clients : Len(up[x]) <= QueueCapacity
      /\ QueueCapacity \in Nat /\ Head(up[c]).type = type
  BY ReloadConstants DEF MessageInv, NextMessage
<1>2. /\ up' \in [Clients -> Seq(Request)]
      /\ Head(up[c]) \in Request
      /\ Len(Tail(up[c])) = Len(up[c]) - 1
      /\ \A x \in Clients : up'[x] = IF x = c THEN Tail(up[c]) ELSE up[x]
  BY <1>1, QueueTail
<1>3. Len(up[c]) \in Nat
  BY <1>1
<1> QED
  BY <1>1, <1>2, <1>3

\* A client queues a request, or finds the queue full.
LEMMA RequestQueued ==
    ASSUME MessageInv, NEW c \in Clients, NEW type, NEW value,
           [type |-> type, value |-> value] \in Request, Enqueue(c, type, value)
    PROVE  /\ up' \in [Clients -> Seq(Request)]
           /\ \A x \in Clients : Len(up'[x]) <= QueueCapacity
<1> DEFINE m == [type |-> type, value |-> value]
<1>1. up \in [Clients -> Seq(Request)] /\ QueueCapacity \in Nat /\ m \in Request
      /\ \A x \in Clients : Len(up[x]) <= QueueCapacity
      /\ up' = [up EXCEPT ![c] = IF Len(@) = QueueCapacity THEN @ ELSE Append(@, m)]
  BY ReloadConstants DEF MessageInv, Enqueue
<1> HIDE DEF m
<1>2. CASE Len(up[c]) = QueueCapacity
  <2>1. up' = up
    BY <1>1, <1>2
  <2> QED
    BY <1>1, <2>1
<1>3. CASE Len(up[c]) # QueueCapacity
  <2>1. up' = [up EXCEPT ![c] = Append(@, m)]
    BY <1>1, <1>3
  <2>2. /\ up' \in [Clients -> Seq(Request)]
        /\ Len(Append(up[c], m)) = Len(up[c]) + 1 /\ Len(up[c]) \in Nat
        /\ \A x \in Clients : up'[x] = IF x = c THEN Append(up[c], m) ELSE up[x]
    BY <1>1, <2>1, QueueAppend
  <2> QED
    BY <1>1, <1>3, <2>2
<1> QED
  BY <1>2, <1>3

\* What a snapshot or a manifest does to its client.
LEMMA ClientsInstall ==
    ASSUME MessageInv, ReloadInv, GraceInv, NEW c \in Clients, ClientReceive(c)
    PROVE  /\ down' \in [Clients -> Seq(Update)]
           /\ \A x \in Clients : \A i \in DOMAIN down'[x] :
                  /\ down'[x][i].generation <= latest.generation
                  /\ down'[x][i].version <= behavior.version
           /\ client' \in [Clients -> [generation : Nat, version : Nat]]
           /\ \A x \in Clients : /\ client'[x].generation <= latest.generation
                                 /\ client'[x].version <= behavior.version
           /\ up' \in [Clients -> Seq(Request)]
           /\ \A x \in Clients : Len(up'[x]) <= QueueCapacity
<1> DEFINE m == Head(down[c])
<1>1. /\ down \in [Clients -> Seq(Update)] /\ down[c] # <<>>
      /\ down' = [down EXCEPT ![c] = Tail(@)]
  BY DEF MessageInv, ClientReceive
<1>2. /\ down' \in [Clients -> Seq(Update)] /\ m \in Update /\ m = down[c][1] /\ 1 \in DOMAIN down[c]
      /\ \A i \in DOMAIN Tail(down[c]) : i + 1 \in DOMAIN down[c]
                                         /\ Tail(down[c])[i] = down[c][i + 1]
      /\ \A x \in Clients : down'[x] = IF x = c THEN Tail(down[c]) ELSE down[x]
  BY <1>1, QueueTail
<1>3. \A x \in Clients : \A i \in DOMAIN down'[x] :
          /\ down'[x][i].generation <= latest.generation
          /\ down'[x][i].version <= behavior.version
  <2>1. \A x \in Clients : \A i \in DOMAIN down[x] :
            /\ down[x][i].generation <= latest.generation
            /\ down[x][i].version <= behavior.version
    BY DEF MessageInv
  <2>2. \A i \in DOMAIN Tail(down[c]) :
            /\ Tail(down[c])[i].generation <= latest.generation
            /\ Tail(down[c])[i].version <= behavior.version
    BY <1>2, <2>1
  <2> QED
    BY <1>2, <2>1, <2>2
<1>4. /\ m.generation \in Nat /\ m.version \in Nat
      /\ m.generation <= latest.generation /\ m.version <= behavior.version
  BY <1>2 DEF MessageInv, Update
<1>5. client \in [Clients -> [generation : Nat, version : Nat]]
      /\ \A x \in Clients : /\ client[x].generation <= latest.generation
                            /\ client[x].version <= behavior.version
  BY DEF MessageInv
<1>6. \/ ApplyBehaviorManifest(c, m) \/ InstallRuntimeStateSnapshot(c, m)
  BY DEF ClientReceive
<1> HIDE DEF m
<1>7. CASE ApplyBehaviorManifest(c, m)
  <2> DEFINE v == IF m.version <= client[c].version THEN client[c].version ELSE m.version
  <2>1. client' = [client EXCEPT ![c].version = v] /\ up' = up
    BY <1>7 DEF ApplyBehaviorManifest
  <2>2. v \in Nat /\ v <= behavior.version
    BY <1>4, <1>5
  <2> HIDE DEF v
  <2>3. /\ client' \in [Clients -> [generation : Nat, version : Nat]]
        /\ client'[c].generation = client[c].generation /\ client'[c].version = v
        /\ \A x \in Clients : x # c => client'[x] = client[x]
    BY <1>5, <2>1, <2>2
  <2>4. \A x \in Clients : /\ client'[x].generation <= latest.generation
                           /\ client'[x].version <= behavior.version
    BY <1>5, <2>2, <2>3
  <2> QED
    BY <1>2, <1>3, <2>1, <2>3, <2>4 DEF MessageInv
<1>8. CASE UNCHANGED <<client, up>>
  BY <1>2, <1>3, <1>5, <1>8 DEF MessageInv
<1>9. CASE /\ client' = [client EXCEPT ![c] = [generation |-> m.generation, version |-> m.version]]
           /\ Enqueue(c, "installed", m.generation)
  <2> DEFINE n == [generation |-> m.generation, version |-> m.version]
  <2>1. n \in [generation : Nat, version : Nat] /\ n.generation = m.generation
        /\ n.version = m.version /\ client' = [client EXCEPT ![c] = n]
    BY <1>4, <1>9
  <2> HIDE DEF n
  <2>2. /\ client' \in [Clients -> [generation : Nat, version : Nat]]
        /\ \A x \in Clients : client'[x] = IF x = c THEN n ELSE client[x]
    BY <1>5, <2>1
  <2>3. \A x \in Clients : /\ client'[x].generation <= latest.generation
                           /\ client'[x].version <= behavior.version
    BY <1>4, <1>5, <2>1, <2>2
  <2>4. [type |-> "installed", value |-> m.generation] \in Request
    BY <1>4 DEF Request
  <2>5. /\ up' \in [Clients -> Seq(Request)]
        /\ \A x \in Clients : Len(up'[x]) <= QueueCapacity
    BY <1>9, <2>4, RequestQueued
  <2> QED
    BY <1>2, <1>3, <2>2, <2>3, <2>5
<1> QED
  BY <1>6, <1>7, <1>8, <1>9 DEF InstallRuntimeStateSnapshot

\* A receiver that is told of an update, or hands one on.
LEMMA ReceiversTyped ==
    ASSUME NEW u \in [buffered : 0..FanoutCapacity, lagged : BOOLEAN]
    PROVE  /\ Announced(u) \in [buffered : 0..FanoutCapacity, lagged : BOOLEAN]
           /\ u.buffered > 0 =>
                 Received(u) \in [buffered : 0..FanoutCapacity, lagged : BOOLEAN]
<1>0. FanoutCapacity \in Nat /\ u.buffered \in 0..FanoutCapacity
  BY ReloadConstants
<1>1. \A n \in 0..FanoutCapacity :
         [u EXCEPT !.buffered = n] \in [buffered : 0..FanoutCapacity, lagged : BOOLEAN]
  OBVIOUS
<1>2. \A b \in BOOLEAN :
         [u EXCEPT !.lagged = b] \in [buffered : 0..FanoutCapacity, lagged : BOOLEAN]
  OBVIOUS
<1>3. u.buffered # FanoutCapacity => u.buffered + 1 \in 0..FanoutCapacity
  BY <1>0
<1>4. u.buffered > 0 => u.buffered - 1 \in 0..FanoutCapacity
  BY <1>0
<1> QED
  BY <1>1, <1>2, <1>3, <1>4 DEF Announced, Received

\* Nothing that clients hold or are sent runs ahead.
LEMMA MessagesKept ==
    ASSUME GraceInv, GraceInv', ReloadInv, ReloadInv', HandlerInv, MessageInv, [Next]_vars
    PROVE  MessageInv'
<1> DEFINE Sound == /\ down' \in [Clients -> Seq(Update)]
                    /\ \A x \in Clients : \A i \in DOMAIN down'[x] :
                           /\ down'[x][i].generation <= latest.generation
                           /\ down'[x][i].version <= behavior.version
           Queued == /\ up' \in [Clients -> Seq(Request)]
                     /\ \A x \in Clients : Len(up'[x]) <= QueueCapacity
           Grown == latest.generation <= latest'.generation
           Acked == ack' \in [Clients -> Nat] /\ \A x \in Clients : ack'[x] <= latest.generation
           Lined == /\ conn' \in [Clients -> {"off", "subscribed", "on"}]
                    /\ unread' \in [Clients -> [buffered : 0..FanoutCapacity, lagged : BOOLEAN]]
           Held == /\ client' \in [Clients -> [generation : Nat, version : Nat]]
                   /\ \A x \in Clients : /\ client'[x].generation <= latest.generation
                                         /\ client'[x].version <= behavior.version
<1>0. Shaped /\ latest.generation \in Nat /\ behavior.version \in Nat
  BY DEF GraceInv, Shaped, ReloadInv
<1>1. behavior.version <= behavior'.version
  BY <1>0, StepsAreSerial DEF SerialStep
<1>2. /\ (down' = down => Sound) /\ (up' = up => Queued)
      /\ (ack' = ack => Acked) /\ (UNCHANGED <<conn, unread>> => Lined)
      /\ (client' = client => Held)
  BY DEF MessageInv
<1>3. latest' = latest => Grown
  BY <1>0
<1>17. ASSUME Grown, Acked, Lined, Held, Sound, Queued
       PROVE  MessageInv'
  BY <1>1, <1>17, MessagesMonotone
<1> HIDE DEF Acked, Lined, Held, Sound, Queued, Grown
<1>18. CASE UNCHANGED <<latest, ack, conn, unread, client>> /\ Sound /\ Queued
  BY <1>2, <1>3, <1>17, <1>18
<1>4. CASE UNCHANGED <<latest, ack, conn, unread, client, up, down>>
  BY <1>2, <1>18, <1>4
<1>5. CASE Publish
  <2>1. UNCHANGED <<ack, conn, up, down, client>>
    BY <1>5 DEF Publish
  <2>2. latest.generation <= latest'.generation
    <3>1. \/ latest' = [generation |-> generation, version |-> Candidate.version]
          \/ latest' = latest
      BY <1>5 DEF Publish, Store, Announce
    <3> QED
      BY <1>0, <3>1 DEF ReloadInv
  <2>3. unread' \in [Clients -> [buffered : 0..FanoutCapacity, lagged : BOOLEAN]]
    <3>1. CASE unread' = unread
      BY <3>1 DEF MessageInv
    <3>2. CASE unread' = [c \in Clients |-> IF conn[c] = "off" THEN unread[c]
                                            ELSE Announced(unread[c])]
      <4>1. \A c \in Clients : /\ unread[c] \in [buffered : 0..FanoutCapacity, lagged : BOOLEAN]
                               /\ Announced(unread[c]) \in
                                     [buffered : 0..FanoutCapacity, lagged : BOOLEAN]
        BY ReceiversTyped DEF MessageInv
      <4> QED
        BY <3>2, <4>1
    <3> QED
      BY <1>5, <3>1, <3>2 DEF Publish, Store, Announce
  <2>4. Lined
    BY <2>1, <2>3 DEF Lined, MessageInv
  <2> QED
    BY <1>2, <1>17, <2>1, <2>2, <2>4 DEF Grown
<1>6. ASSUME NEW c \in Clients, Subscribe(c)
      PROVE  MessageInv'
  <2>1. UNCHANGED <<latest, ack, unread, up, down, client>>
        /\ conn' = [conn EXCEPT ![c] = "subscribed"]
    BY <1>6 DEF Subscribe, runtimeVars
  <2>2. conn' \in [Clients -> {"off", "subscribed", "on"}]
    BY <2>1 DEF MessageInv
  <2>3. Lined
    BY <2>1, <2>2 DEF Lined, MessageInv
  <2> QED
    BY <1>2, <1>3, <1>17, <2>1, <2>3
<1>7. ASSUME NEW c \in Clients, Welcome(c)
      PROVE  MessageInv'
  <2>1. UNCHANGED <<latest, ack, unread, up, client>> /\ Send(c, Manifest)
        /\ conn' = [conn EXCEPT ![c] = "on"]
    BY <1>7 DEF Welcome, runtimeVars
  <2>2. conn' \in [Clients -> {"off", "subscribed", "on"}]
    BY <2>1 DEF MessageInv
  <2>3. Sound
    BY <1>7, <2>1, ManifestSent DEF Sound
  <2>4. Lined
    BY <2>1, <2>2 DEF Lined, MessageInv
  <2> QED
    BY <1>2, <1>3, <1>17, <2>1, <2>3, <2>4
<1>8. ASSUME NEW c \in Clients, ReceiveUpdate(c)
      PROVE  MessageInv'
  <2> DEFINE u == Received(unread[c])
  <2>1. /\ UNCHANGED <<latest, ack, conn, up, client>> /\ SendLatest(c)
        /\ unread' = [unread EXCEPT ![c] = u] /\ unread[c].buffered > 0
    BY <1>8 DEF ReceiveUpdate, runtimeVars
  <2>2. u \in [buffered : 0..FanoutCapacity, lagged : BOOLEAN]
    BY <1>8, <2>1, ReceiversTyped DEF MessageInv
  <2> HIDE DEF u
  <2>3. unread' \in [Clients -> [buffered : 0..FanoutCapacity, lagged : BOOLEAN]]
    BY <2>1, <2>2 DEF MessageInv
  <2>4. Sound
    BY <1>8, <2>1, LatestSent DEF Sound
  <2>5. Lined
    BY <2>1, <2>3 DEF Lined, MessageInv
  <2> QED
    BY <1>2, <1>3, <1>17, <2>1, <2>4, <2>5
<1>9. ASSUME NEW c \in Clients, ServeInstalled(c)
      PROVE  MessageInv'
  <2> DEFINE g == Noted(c, Head(up[c]).value)
  <2>1. /\ UNCHANGED <<latest, conn, unread, down, client>> /\ NextMessage(c, "installed")
        /\ ack' = [ack EXCEPT ![c] = g]
    BY <1>9 DEF ServeInstalled, runtimeVars
  <2>2. Queued /\ Head(up[c]) \in Request /\ Head(up[c]).type = "installed"
    BY <1>9, <2>1, RequestTaken DEF Queued
  <2>3. Head(up[c]).value \in Nat
    BY <2>2 DEF Request
  <2>4. g \in Nat /\ g <= latest.generation
    BY <1>9, <2>3 DEF Noted, MessageInv
  <2> HIDE DEF g
  <2>5. Acked
    BY <2>1, <2>4 DEF Acked, MessageInv
  <2> QED
    BY <1>2, <1>3, <1>17, <2>1, <2>2, <2>5
<1>10. ASSUME NEW c \in Clients, ServeEdit(c)
       PROVE  MessageInv'
  <2>1. /\ UNCHANGED <<latest, ack, conn, unread, client>> /\ NextMessage(c, "edit")
        /\ UNCHANGED down \/ SendLatest(c)
    BY <1>10 DEF ServeEdit, runtimeVars
  <2>2. Queued
    BY <1>10, <2>1, RequestTaken DEF Queued
  <2>3. Sound
    BY <1>2, <1>10, <2>1, LatestSent DEF Sound
  <2> QED
    BY <1>18, <2>1, <2>2, <2>3
<1>11. ASSUME NEW c \in Clients, ServeOpen(c)
       PROVE  MessageInv'
  <2>1. /\ UNCHANGED <<latest, ack, conn, unread, client>>
        /\ \/ NextMessage(c, "open") /\ UNCHANGED down
           \/ UNCHANGED <<up, down>>
           \/ Send(c, Manifest) /\ UNCHANGED up
    BY <1>11 DEF ServeOpen, runtimeVars, clientVars
  <2>2. Queued
    BY <1>2, <1>11, <2>1, RequestTaken DEF Queued
  <2>3. Sound
    BY <1>2, <1>11, <2>1, ManifestSent DEF Sound
  <2> QED
    BY <1>18, <2>1, <2>2, <2>3
<1>12. ASSUME NEW c \in Clients, ServeReload(c)
       PROVE  MessageInv'
  <2>1. UNCHANGED <<latest, ack, conn, unread, down, client>> /\ NextMessage(c, "reload")
    BY <1>12 DEF ServeReload, runtimeVars
  <2>2. Queued
    BY <1>12, <2>1, RequestTaken DEF Queued
  <2> QED
    BY <1>2, <1>18, <2>1, <2>2
<1>13. ASSUME NEW c \in Clients, ClientReceive(c)
       PROVE  MessageInv'
  <2>1. UNCHANGED <<latest, ack, conn, unread>>
    BY <1>13 DEF ClientReceive, runtimeVars
  <2>2. Sound /\ Queued /\ Held
    BY <1>13, ClientsInstall DEF Sound, Queued, Held
  <2> QED
    BY <1>2, <1>3, <1>17, <2>1, <2>2
<1>14. ASSUME NEW c \in Clients, ClientSends(c)
       PROVE  MessageInv'
  <2>1. UNCHANGED <<latest, ack, conn, unread, down, client>>
    BY <1>14 DEF ClientSends, runtimeVars
  <2>2. client[c].version \in Nat
    BY <1>14 DEF MessageInv
  <2>3. \E type, value : [type |-> type, value |-> value] \in Request /\ Enqueue(c, type, value)
    <3>1. CASE Enqueue(c, "edit", client[c].version)
      BY <2>2, <3>1 DEF Request
    <3>2. CASE Enqueue(c, "reload", 0)
      BY <3>2 DEF Request
    <3>3. ASSUME NEW d \in Documents, Enqueue(c, "open", d)
          PROVE  \E type, value : [type |-> type, value |-> value] \in Request
                                  /\ Enqueue(c, type, value)
      BY <3>3 DEF Request
    <3> QED
      BY <1>14, <3>1, <3>2, <3>3 DEF ClientSends
  <2>4. Queued
    BY <1>14, <2>3, RequestQueued DEF Queued
  <2> QED
    BY <1>2, <1>18, <2>1, <2>4
<1>15. ASSUME NEW c \in Clients, ApplyEdit(c)
       PROVE  UNCHANGED <<latest, ack, conn, unread, client, up, down>>
  BY <1>15 DEF ApplyEdit, clientVars
<1>16. CASE Save \/ QuietScanFails \/ GraceExpires \/ WatchStep \/ Prepare \/ Commit \/ Refresh
            \/ UNCHANGED vars
  BY <1>4, <1>16 DEF Save, QuietScanFails, GraceExpires, WatchStep, Poll, QuietScan, WatchReload,
                     Rebaseline, Prepare, Commit, Refresh, runtimeVars, clientVars, vars
<1> QED
  BY <1>4, <1>5, <1>6, <1>7, <1>8, <1>9, <1>10, <1>11, <1>12, <1>13, <1>14, <1>15, <1>16
  DEF Next, ReloadStep, ServerStep

-----------------------------------------------------------------------------
(* Every generation and every edit by grace is paid for                    *)

\* The places of pending requests are counted.
LEMMA PendingCounted ==
    /\ IsFiniteSet(Clients \X (0..QueueCapacity))
    /\ \A S \in SUBSET (Clients \X (0..QueueCapacity)) :
           IsFiniteSet(S) /\ Cardinality(S) \in Nat
    /\ IsFiniteSet(Pending) /\ Cardinality(Pending) \in Nat
<1>1. IsFiniteSet(Clients) /\ IsFiniteSet(0..QueueCapacity)
  BY ReloadConstants, FS_Interval
<1>2. IsFiniteSet(Clients \X (0..QueueCapacity))
  BY <1>1, FS_Product
<1>3. \A S \in SUBSET (Clients \X (0..QueueCapacity)) :
          IsFiniteSet(S) /\ Cardinality(S) \in Nat
  BY <1>2, FS_Subset, FS_CardinalityType
<1>4. Pending \in SUBSET (Clients \X (0..QueueCapacity))
  BY DEF Pending
<1> QED
  BY <1>2, <1>3, <1>4

\* Nothing new is pending.
LEMMA NothingAdded ==
    ASSUME Pending' \subseteq Pending
    PROVE  Cardinality(Pending') \in Nat /\ Cardinality(Pending') <= Cardinality(Pending)
  BY PendingCounted, FS_Subset, FS_CardinalityType

\* One request is granted.
LEMMA OneGranted ==
    ASSUME NEW p \in Pending, Pending' \subseteq Pending \ {p}
    PROVE  Cardinality(Pending') \in Nat /\ Cardinality(Pending') + 1 <= Cardinality(Pending)
<1>1. IsFiniteSet(Pending) /\ Cardinality(Pending) \in Nat
  BY PendingCounted
<1>2. IsFiniteSet(Pending \ {p}) /\ Cardinality(Pending \ {p}) = Cardinality(Pending) - 1
  BY <1>1, FS_RemoveElement
<1>3. IsFiniteSet(Pending') /\ Cardinality(Pending') <= Cardinality(Pending \ {p})
  BY <1>2, FS_Subset
<1>4. Cardinality(Pending') \in Nat
  BY <1>3, FS_CardinalityType
<1> QED
  BY <1>1, <1>2, <1>3, <1>4

\* One request is made.
LEMMA OneAdded ==
    ASSUME NEW p, Pending' \subseteq Pending \cup {p}
    PROVE  Cardinality(Pending') \in Nat /\ Cardinality(Pending') <= Cardinality(Pending) + 1
<1>1. IsFiniteSet(Pending) /\ Cardinality(Pending) \in Nat
  BY PendingCounted
<1>2. /\ IsFiniteSet(Pending \cup {p})
      /\ Cardinality(Pending \cup {p}) \in {Cardinality(Pending), Cardinality(Pending) + 1}
  BY <1>1, FS_AddElement
<1>3. IsFiniteSet(Pending') /\ Cardinality(Pending') <= Cardinality(Pending \cup {p})
  BY <1>2, FS_Subset
<1>4. Cardinality(Pending') \in Nat
  BY <1>3, FS_CardinalityType
<1> QED
  BY <1>1, <1>2, <1>3, <1>4

\* A handler takes the next message: what is pending moves up by one place, the
\* message taken into the handler's own place where it is still to be granted.
LEMMA PendingMoves ==
    ASSUME MessageInv, HandlerInv, NEW c \in Clients, NEW type, NextMessage(c, type),
           Working(c)' => type # "installed",
           \A x \in Clients \ {c} : Working(x)' => Working(x)
    PROVE  Cardinality(Pending') \in Nat /\ Cardinality(Pending') <= Cardinality(Pending)
<1> DEFINE place(p) == IF p[1] = c THEN <<c, p[2] + 1>> ELSE p
           f == [p \in Pending' |-> place(p)]
<1>1. /\ up \in [Clients -> Seq(Request)] /\ up[c] # <<>> /\ up' = [up EXCEPT ![c] = Tail(@)]
      /\ Head(up[c]).type = type /\ QueueCapacity \in Nat
      /\ \A x \in Clients : Len(up[x]) <= QueueCapacity
  BY ReloadConstants DEF MessageInv, NextMessage
<1>2. /\ Head(up[c]) = up[c][1]
      /\ Len(Tail(up[c])) = Len(up[c]) - 1
      /\ \A i \in DOMAIN Tail(up[c]) : Tail(up[c])[i] = up[c][i + 1]
      /\ \A x \in Clients : up'[x] = IF x = c THEN Tail(up[c]) ELSE up[x]
  BY <1>1, QueueTail
<1>3. Len(up[c]) \in Nat /\ Len(up[c]) >= 1 /\ Len(up[c]) <= QueueCapacity
      /\ DOMAIN Tail(up[c]) = 1..(Len(up[c]) - 1)
  BY <1>1
<1>4. ASSUME NEW p \in Pending'
      PROVE  place(p) \in Pending
  <2>1. PICK x \in Clients, i \in 0..QueueCapacity :
           p = <<x, i>> /\ IF i = 0 THEN Working(x)'
                           ELSE i <= Len(up'[x]) /\ up'[x][i].type # "installed"
    BY <1>4 DEF Pending
  <2>2. CASE x # c
    <3>1. up'[x] = up[x] /\ place(p) = <<x, i>>
      BY <1>2, <2>1, <2>2
    <3>2. IF i = 0 THEN Working(x) ELSE i <= Len(up[x]) /\ up[x][i].type # "installed"
      BY <2>1, <2>2, <3>1
    <3> QED
      BY <2>1, <3>1, <3>2 DEF Pending
  <2>3. CASE x = c
    <3>1. place(p) = <<c, i + 1>> /\ up'[c] = Tail(up[c])
      BY <1>2, <2>1, <2>3
    <3>2. i + 1 <= Len(up[c]) /\ up[c][i + 1].type # "installed"
      <4>1. CASE i = 0
        BY <1>1, <1>2, <1>3, <2>1, <2>3, <4>1
      <4>2. CASE i # 0
        <5>1. i <= Len(up[c]) - 1 /\ i \in DOMAIN Tail(up[c])
          BY <1>2, <1>3, <2>1, <2>3, <3>1, <4>2
        <5>2. Tail(up[c])[i] = up[c][i + 1]
          BY <1>2, <5>1
        <5> QED
          BY <1>3, <2>1, <2>3, <3>1, <4>2, <5>1, <5>2
      <4> QED
        BY <4>1, <4>2
    <3>3. i + 1 \in 0..QueueCapacity /\ i + 1 # 0
      BY <1>1, <1>3, <2>1, <3>2
    <3> QED
      BY <3>1, <3>2, <3>3 DEF Pending
  <2> QED
    BY <2>2, <2>3
<1>5. ASSUME NEW p \in Pending', NEW q \in Pending', place(p) = place(q)
      PROVE  p = q
  <2>1. /\ p = <<p[1], p[2]>> /\ p[2] \in 0..QueueCapacity
        /\ q = <<q[1], q[2]>> /\ q[2] \in 0..QueueCapacity
    BY <1>5 DEF Pending
  <2>2. p[2] \in Int /\ q[2] \in Int
    BY <1>1, <2>1
  <2>3. place(p)[1] = p[1] /\ place(q)[1] = q[1]
    BY <2>1
  <2>4. p[1] = q[1]
    BY <1>5, <2>3
  <2>5. p[2] = q[2]
    <3>1. CASE p[1] = c
      <4>1. place(p)[2] = p[2] + 1 /\ place(q)[2] = q[2] + 1
        BY <2>4, <3>1
      <4> QED
        BY <1>5, <2>2, <4>1
    <3>2. CASE p[1] # c
      BY <1>5, <2>4, <3>2
    <3> QED
      BY <3>1, <3>2
  <2> QED
    BY <2>1, <2>4, <2>5
<1> HIDE DEF place
<1>6. f \in Injection(Pending', Pending)
  <2>1. f \in [Pending' -> Pending]
    BY <1>4
  <2>2. \A p, q \in Pending' : f[p] = f[q] => p = q
    BY <1>5
  <2> QED
    BY <2>1, <2>2 DEF Injection, IsInjective
<1>7. IsFiniteSet(Pending) /\ Cardinality(Pending) \in Nat
  BY PendingCounted
<1>8. IsFiniteSet(Pending') /\ Cardinality(Pending') <= Cardinality(Pending)
  BY <1>6, <1>7, FS_Injection
<1> QED
  BY <1>8, FS_CardinalityType

\* What the watcher's revisions pay for.
LEMMA WatchedTyped ==
    ASSUME WatchInv
    PROVE  /\ Watched \in Nat /\ Watched <= config
           /\ Watched \in {watch.baseline, watch.baseline + 1}
<1>1. /\ watch.baseline \in Nat /\ watch.seen \in Nat /\ config \in Nat
      /\ watch.baseline <= config /\ watch.seen <= config
      /\ watch.phase # "idle" => watch.baseline < watch.seen
      /\ watch.phase = "reloading" <=> reload.phase # "none" /\ reload.by = "watcher"
  BY DEF WatchInv
<1>2. CASE watch.phase = "idle"
  BY <1>1, <1>2 DEF Watched
<1>3. CASE watch.phase # "idle"
  BY <1>1, <1>3 DEF Watched
<1> QED
  BY <1>2, <1>3

\* A step that grants no more than it takes from what is pending or from the
\* revisions keeps within the budget.
LEMMA BudgetBalanced ==
    ASSUME GraceInv, GraceInv', WatchInv, WatchInv', BudgetInv,
           used' \in [requests : 0..MaxRequests, faults : Nat],
           Cardinality(Pending') \in Nat,
           generation' + Cardinality(Pending') + used.requests + Watched
               <= generation + Cardinality(Pending) + used'.requests + Watched',
           \A g \in Generations :
              accepted'[g] + Cardinality(Pending') + used.requests
                  <= accepted[g] + Cardinality(Pending) + used'.requests
    PROVE  BudgetInv'
<1> SUFFICES ASSUME NEW g
             PROVE  /\ generation' + Cardinality(Pending') <= 1 + used'.requests + Watched'
                    /\ g \in Generations =>
                           accepted'[g] + Cardinality(Pending') <= used'.requests
  BY DEF BudgetInv
<1>1. /\ generation \in Nat /\ generation' \in Nat
      /\ g \in Generations => accepted[g] \in Nat /\ accepted'[g] \in Nat
      /\ Watched \in Nat /\ Watched' \in Nat
      /\ used.requests \in Nat /\ used'.requests \in Nat
      /\ Cardinality(Pending) \in Nat
  <2>1. accepted \in [Generations -> Nat] /\ accepted' \in [Generations -> Nat]
        /\ generation \in Nat /\ generation' \in Nat
    BY DEF GraceInv, GraceShape
  <2>2. Watched \in Nat /\ Watched' \in Nat
    <3>1. watch.baseline \in Nat /\ watch'.baseline \in Nat
      BY DEF WatchInv
    <3> QED
      BY <3>1 DEF Watched
  <2>3. used.requests \in Nat /\ used'.requests \in Nat
    BY ReloadConstants DEF BudgetInv
  <2> QED
    BY <2>1, <2>2, <2>3, PendingCounted
<1>2. /\ generation + Cardinality(Pending) <= 1 + used.requests + Watched
      /\ g \in Generations => accepted[g] + Cardinality(Pending) <= used.requests
  BY DEF BudgetInv
<1>3. /\ generation' + Cardinality(Pending') + used.requests + Watched
             <= generation + Cardinality(Pending) + used'.requests + Watched'
      /\ g \in Generations =>
             accepted'[g] + Cardinality(Pending') + used.requests
                 <= accepted[g] + Cardinality(Pending) + used'.requests
  OBVIOUS
<1> QED
  BY <1>1, <1>2, <1>3

\* Nothing is pending that was not, where queues stay and handlers take on nothing.
LEMMA PendingKept ==
    ASSUME up' = up, \A c \in Clients : Working(c)' => Working(c)
    PROVE  Pending' \subseteq Pending
  BY DEF Pending

\* The end of a reload.
LEMMA BudgetAtEnd ==
    ASSUME GraceInv, GraceInv', WatchInv, WatchInv', ReloadInv, HandlerInv, HandlerInv', BudgetInv,
           reload.phase # "none", EndReload,
           UNCHANGED <<generation, accepted, used, up>>
    PROVE  BudgetInv'
<1>1. reload'.phase = "none"
  BY NoReloadTyped DEF EndReload
<1>2. \A c \in Clients : Working(c)' => Working(c)
  <2> SUFFICES ASSUME NEW c \in Clients, Working(c)'
               PROVE  Working(c)
    OBVIOUS
  <2>1. serving'[c].task = "grace"
    BY <1>1 DEF Working
  <2>2. serving'[c] = serving[c]
    <3>1. CASE serving' = serving
      BY <3>1
    <3>2. CASE serving' = [serving EXCEPT ![reload.by] = Idle]
      <4>1. \A x \in Clients : serving'[x] = IF x = reload.by THEN Idle ELSE serving[x]
        BY <3>2 DEF GraceInv, ServingShape
      <4>2. Idle.task # "grace"
        BY DEF Idle
      <4> HIDE DEF Idle
      <4> QED
        BY <2>1, <4>1, <4>2
    <3> QED
      BY <3>1, <3>2 DEF EndReload
  <2> QED
    BY <2>1, <2>2 DEF Working
<1>3. Cardinality(Pending') \in Nat /\ Cardinality(Pending') <= Cardinality(Pending)
  BY <1>2, PendingKept, NothingAdded
<1>4. Watched \in Nat /\ Watched' \in Nat /\ Watched <= Watched'
  <2>1. watch.baseline \in Nat /\ Watched \in {watch.baseline, watch.baseline + 1}
    BY WatchedTyped DEF WatchInv
  <2>2. CASE reload.by = "watcher"
    <3>1. watch' = [watch EXCEPT !.phase = "rescan"]
      BY <2>2 DEF EndReload
    <3>2. watch'.phase = "rescan" /\ watch'.baseline = watch.baseline
      BY <3>1 DEF WatchInv
    <3> QED
      BY <2>1, <3>2 DEF Watched
  <2>3. CASE reload.by # "watcher"
    <3>1. watch' = watch
      BY <2>3 DEF EndReload
    <3> QED
      BY <2>1, <2>3, <3>1 DEF Watched
  <2> QED
    BY <2>2, <2>3
<1>5. /\ used \in [requests : 0..MaxRequests, faults : Nat] /\ used.requests \in Nat
      /\ generation \in Nat /\ accepted \in [Generations -> Nat] /\ Cardinality(Pending) \in Nat
  BY ReloadConstants, PendingCounted DEF BudgetInv, GraceInv, GraceShape
<1> QED
  BY <1>3, <1>4, <1>5, BudgetBalanced

\* A step that grants nothing: what is pending does not grow, nor the revisions
\* behind the watcher shrink.
LEMMA NothingGranted ==
    ASSUME GraceInv, GraceInv', WatchInv, WatchInv', BudgetInv,
           UNCHANGED <<generation, accepted>>,
           used' \in [requests : 0..MaxRequests, faults : Nat], used'.requests = used.requests,
           Cardinality(Pending') \in Nat, Cardinality(Pending') <= Cardinality(Pending),
           Watched' \in Nat, Watched <= Watched'
    PROVE  BudgetInv'
<1>1. /\ used.requests \in Nat /\ Watched \in Nat
      /\ generation \in Nat /\ accepted \in [Generations -> Nat] /\ Cardinality(Pending) \in Nat
  BY ReloadConstants, PendingCounted, WatchedTyped DEF BudgetInv, GraceInv, GraceShape
<1>2. \A g \in Generations : accepted[g] \in Nat
  BY <1>1
<1> QED
  BY <1>1, <1>2, BudgetBalanced

\* The steps of the watcher.
LEMMA BudgetOfWatcher ==
    ASSUME GraceInv, GraceInv', WatchInv, WatchInv', ReloadInv, HandlerInv, BudgetInv,
           WatchStep \/ QuietScanFails
    PROVE  BudgetInv'
<1>1. UNCHANGED <<generation, accepted, up, serving>>
  BY DEF WatchStep, QuietScanFails, Poll, QuietScan, WatchReload, Rebaseline, runtimeVars, clientVars
<1>2. used' \in [requests : 0..MaxRequests, faults : Nat] /\ used'.requests = used.requests
  <2>1. used \in [requests : 0..MaxRequests, faults : Nat]
    BY DEF BudgetInv
  <2>2. used' = used \/ used' = [used EXCEPT !.faults = used.faults + 1]
    BY DEF WatchStep, QuietScanFails, Poll, QuietScan, WatchReload, Rebaseline
  <2> DEFINE n == used.faults + 1
  <2>3. n \in Nat
    BY <2>1
  <2> HIDE DEF n
  <2> QED
    BY <2>1, <2>2, <2>3 DEF n
<1>3. Cardinality(Pending') \in Nat /\ Cardinality(Pending') <= Cardinality(Pending)
  <2>1. reload' = reload \/ StartReload("watcher")
    BY DEF WatchStep, QuietScanFails, Poll, QuietScan, WatchReload, Rebaseline
  <2>2. \A c \in Clients : Working(c)' => Working(c)
    <3>1. CASE reload' = reload
      BY <1>1, <3>1 DEF Working
    <3>2. CASE StartReload("watcher")
      <4>1. reload.phase = "none"
        BY <3>2, ReloadBegins
      <4>2. \A c \in Clients : serving[c].task # "reload"
        BY <4>1 DEF HandlerInv
      <4> QED
        BY <1>1, <4>2 DEF Working
    <3> QED
      BY <2>1, <3>1, <3>2
  <2> QED
    BY <1>1, <2>2, PendingKept, NothingAdded
<1>4. Watched' \in Nat /\ Watched <= Watched'
  <2>0. /\ watch.baseline \in Nat /\ watch'.baseline \in Nat
        /\ Watched \in {watch.baseline, watch.baseline + 1}
    BY WatchedTyped DEF WatchInv
  <2>1. CASE Rebaseline
    <3>1. watch.phase = "rescan" /\ reload' = reload
          /\ \E b \in {config, watch.seen} : watch' = [watch EXCEPT !.phase = "idle", !.baseline = b]
      BY <2>1 DEF Rebaseline, Scan
    <3>2. watch'.baseline \in {config, watch.seen} /\ watch.baseline < watch.seen
          /\ watch.seen <= config /\ watch.seen \in Nat /\ config \in Nat
      BY <3>1 DEF WatchInv
    <3>3. Watched <= watch'.baseline
      BY <2>0, <3>2
    <3> QED
      BY <2>0, <3>3 DEF Watched
  <2>2. CASE QuietScanFails \/ Poll \/ QuietScan
    <3>1. watch.phase # "rescan" /\ reload' = reload /\ watch'.baseline = watch.baseline
      BY <2>2 DEF QuietScanFails, Poll, QuietScan, WatchInv
    <3> QED
      BY <2>0, <3>1 DEF Watched
  <2>3. CASE WatchReload
    <3>1. watch.phase = "due" /\ watch'.baseline = watch.baseline
      BY <2>3 DEF WatchReload, WatchInv
    <3>2. reload.phase # "none" => reload.by # "watcher"
      BY <3>1 DEF WatchInv
    <3>3. Watched = watch.baseline
      BY <2>0, <3>1, <3>2 DEF Watched
    <3> QED
      BY <2>0, <3>1, <3>3 DEF Watched
  <2> QED
    BY <2>1, <2>2, <2>3 DEF WatchStep
<1> QED
  BY <1>1, <1>2, <1>3, <1>4, NothingGranted

\* A request is queued: it is one more that is pending, unless it only
\* acknowledges a snapshot.
LEMMA PendingQueued ==
    ASSUME MessageInv, NEW c \in Clients, NEW type, NEW value,
           Enqueue(c, type, value), \A x \in Clients : Working(x)' => Working(x)
    PROVE  /\ Cardinality(Pending') \in Nat /\ Cardinality(Pending') <= Cardinality(Pending) + 1
           /\ type = "installed" => Cardinality(Pending') <= Cardinality(Pending)
<1> DEFINE m == [type |-> type, value |-> value]
           p == <<c, Len(up[c]) + 1>>
<1>1. /\ up \in [Clients -> Seq(Request)] /\ m.type = type
      /\ up' = [up EXCEPT ![c] = IF Len(@) = QueueCapacity THEN @ ELSE Append(@, m)]
  BY DEF MessageInv, Enqueue
<1> HIDE DEF m
<1>2. \A x \in Clients : x # c => up'[x] = up[x]
  BY <1>1
<1>3. /\ Len(up[c]) \in Nat
      /\ \A i \in 1..Len(up'[c]) :
            \/ i <= Len(up[c]) /\ up'[c][i] = up[c][i]
            \/ i = Len(up[c]) + 1 /\ up'[c][i] = m
  <2>1. CASE Len(up[c]) = QueueCapacity
    <3>1. up'[c] = up[c]
      BY <1>1, <2>1
    <3> QED
      BY <1>1, <3>1
  <2>2. CASE Len(up[c]) # QueueCapacity
    <3>1. up'[c] = Append(up[c], m)
      BY <1>1, <2>2
    <3>2. up[c] \in Seq(Request)
      BY <1>1
    <3> QED
      BY <3>1, <3>2
  <2> QED
    BY <2>1, <2>2
<1>4. ASSUME NEW q \in Pending'
      PROVE  q \in Pending \/ (q = p /\ type # "installed")
  <2>1. PICK x \in Clients, i \in 0..QueueCapacity :
           q = <<x, i>> /\ IF i = 0 THEN Working(x)'
                           ELSE i <= Len(up'[x]) /\ up'[x][i].type # "installed"
    BY <1>4 DEF Pending
  <2>2. CASE i = 0
    BY <2>1, <2>2 DEF Pending
  <2>3. CASE i # 0 /\ x # c
    <3>1. i <= Len(up[x]) /\ up[x][i].type # "installed"
      BY <1>2, <2>1, <2>3
    <3> QED
      BY <2>1, <2>3, <3>1 DEF Pending
  <2>4. CASE i # 0 /\ x = c
    <3>1. i \in 1..Len(up'[c])
      <4>1. i \in Nat \ {0} /\ i <= Len(up'[c])
        BY <2>1, <2>4, ReloadConstants
      <4>2. Len(up'[c]) \in Nat
        <5>1. \/ up'[c] = up[c]
              \/ up'[c] = Append(up[c], m)
          BY <1>1
        <5>2. up[c] \in Seq(Request)
          BY <1>1
        <5> QED
          BY <5>1, <5>2
      <4> QED
        BY <4>1, <4>2
    <3>2. CASE i <= Len(up[c]) /\ up'[c][i] = up[c][i]
      BY <2>1, <2>4, <3>2 DEF Pending
    <3>3. CASE i = Len(up[c]) + 1 /\ up'[c][i] = m
      BY <1>1, <2>1, <2>4, <3>3
    <3> QED
      BY <1>3, <3>1, <3>2, <3>3
  <2> QED
    BY <2>2, <2>3, <2>4
<1>5. CASE type = "installed"
  <2>1. Pending' \subseteq Pending
    BY <1>4, <1>5
  <2> QED
    BY <1>5, <2>1, NothingAdded, PendingCounted
<1>6. CASE type # "installed"
  <2>1. Pending' \subseteq Pending \cup {p}
    BY <1>4
  <2> QED
    BY <1>6, <2>1, OneAdded
<1> QED
  BY <1>5, <1>6

\* A handler's own place is freed.
LEMMA WorkDone ==
    ASSUME up' = up, NEW c \in Clients, Working(c), ~Working(c)',
           \A x \in Clients : Working(x)' => Working(x)
    PROVE  Cardinality(Pending') \in Nat /\ Cardinality(Pending') + 1 <= Cardinality(Pending)
<1>1. <<c, 0>> \in Pending
  BY ReloadConstants DEF Pending
<1>2. <<c, 0>> \notin Pending'
  BY DEF Pending
<1>3. Pending' \subseteq Pending \ {<<c, 0>>}
  BY <1>2, PendingKept
<1> QED
  BY <1>1, <1>3, OneGranted

\* Requests that handlers take.
LEMMA BudgetOfServing ==
    ASSUME GraceInv, GraceInv', WatchInv, WatchInv', ReloadInv, HandlerInv, HandlerInv', MessageInv,
           BudgetInv, NEW c \in Clients,
           \/ ServeInstalled(c) \/ ServeEdit(c) \/ ServeReload(c)
           \/ ServeOpen(c) /\ NextMessage(c, "open")
    PROVE  BudgetInv'
<1>1. UNCHANGED <<generation, accepted, used, watch>>
  BY DEF ServeInstalled, ServeEdit, ServeReload, ServeOpen, runtimeVars, watcherVars
<1>2. ServingShape /\ "watcher" \notin Clients
  BY ReloadConstants DEF GraceInv
<1>3. Cardinality(Pending') \in Nat /\ Cardinality(Pending') <= Cardinality(Pending)
      /\ Watched' = Watched
  <2>1. CASE ServeInstalled(c)
    <3>1. NextMessage(c, "installed") /\ UNCHANGED <<serving, reload>>
      BY <2>1 DEF ServeInstalled
    <3>2. ~Working(c)
      BY <3>1 DEF NextMessage, Working, Idle
    <3>3. \A x \in Clients : Working(x)' => Working(x)
      BY <3>1 DEF Working
    <3> QED
      BY <1>1, <3>1, <3>2, <3>3, PendingMoves DEF Watched
  <2>2. ASSUME ServeEdit(c) \/ (ServeOpen(c) /\ NextMessage(c, "open"))
        PROVE  Cardinality(Pending') \in Nat /\ Cardinality(Pending') <= Cardinality(Pending)
               /\ Watched' = Watched
    <3>1. /\ reload' = reload
          /\ \E type \in {"edit", "open"} : NextMessage(c, type)
      BY <2>2 DEF ServeEdit, ServeOpen
    <3>2. \A x \in Clients \ {c} : serving'[x] = serving[x]
      BY <1>2, <2>2 DEF ServeEdit, ServeOpen, ServingShape
    <3>3. \A x \in Clients \ {c} : Working(x)' => Working(x)
      BY <3>1, <3>2 DEF Working
    <3> QED
      BY <1>1, <3>1, <3>3, PendingMoves DEF Watched
  <2>3. CASE ServeReload(c)
    <3>1. NextMessage(c, "reload")
      BY <2>3 DEF ServeReload
    <3>2. \A x \in Clients \ {c} : serving'[x] = serving[x]
      BY <1>2, <2>3 DEF ServeReload, ServingShape
    <3>3. CASE StartReload(c)
      <4>1. reload.phase = "none" /\ reload'.phase = "evaluating"
        BY <3>3, ReloadBegins
      <4>2. \A x \in Clients \ {c} : Working(x)' => Working(x)
        BY <3>2, <4>1 DEF HandlerInv, Working
      <4>3. Watched' = Watched
        BY <1>1, <4>1 DEF Watched
      <4> QED
        BY <3>1, <4>2, <4>3, PendingMoves
    <3>4. CASE reload' = reload
      <4>1. \A x \in Clients \ {c} : Working(x)' => Working(x)
        BY <3>2, <3>4 DEF Working
      <4> QED
        BY <1>1, <3>1, <3>4, <4>1, PendingMoves DEF Watched
    <3> QED
      BY <2>3, <3>3, <3>4 DEF ServeReload
  <2>4. ServeInstalled(c) \/ ServeReload(c) \/ ServeEdit(c)
        \/ (ServeOpen(c) /\ NextMessage(c, "open"))
    OBVIOUS
  <2> QED
    BY <2>1, <2>2, <2>3, <2>4
<1>4. /\ used' \in [requests : 0..MaxRequests, faults : Nat] /\ used'.requests = used.requests
      /\ Watched' \in Nat /\ Watched <= Watched'
  BY <1>1, <1>3, WatchedTyped DEF BudgetInv
<1> QED
  BY <1>1, <1>3, <1>4, NothingGranted

\* The commit of a reload: paid for by the request of its handler, or by the
\* revision that the watcher saw.
LEMMA BudgetOfCommit ==
    ASSUME GraceInv, GraceInv', WatchInv, WatchInv', ReloadInv, HandlerInv, BudgetInv,
           reload.phase = "prepared", reload' = [reload EXCEPT !.phase = "committed"],
           generation' = generation + 1, UNCHANGED <<accepted, used, up, watch, serving>>
    PROVE  BudgetInv'
<1>1. reload'.phase = "committed" /\ reload'.by = reload.by
  BY ReloadGoesOn
<1>2. \A c \in Clients : Working(c)' => Working(c)
  BY <1>1 DEF Working
<1>3. /\ used \in [requests : 0..MaxRequests, faults : Nat] /\ used.requests \in Nat
      /\ generation \in Nat /\ accepted \in [Generations -> Nat] /\ Cardinality(Pending) \in Nat
      /\ Watched \in Nat /\ watch.baseline \in Nat /\ "watcher" \notin Clients
      /\ reload.by \in Clients \cup {"watcher"}
  BY ReloadConstants, PendingCounted, WatchedTyped
  DEF BudgetInv, GraceInv, GraceShape, WatchInv, ReloadInv
<1>4. \A g \in Generations : accepted[g] \in Nat
  BY <1>3
<1>5. CASE reload.by = "watcher"
  <2>1. watch.phase = "reloading"
    BY <1>5 DEF WatchInv
  <2>2. Watched' = Watched + 1
    BY <1>1, <1>3, <1>5, <2>1 DEF Watched
  <2>3. Cardinality(Pending') \in Nat /\ Cardinality(Pending') <= Cardinality(Pending)
    BY <1>2, PendingKept, NothingAdded
  <2> QED
    BY <1>3, <1>4, <2>2, <2>3, BudgetBalanced
<1>6. CASE reload.by \in Clients
  <2>1. serving[reload.by].task = "reload"
    BY <1>6 DEF HandlerInv
  <2>2. Working(reload.by) /\ ~Working(reload.by)'
    BY <1>1, <2>1 DEF Working
  <2>3. Cardinality(Pending') \in Nat /\ Cardinality(Pending') + 1 <= Cardinality(Pending)
    BY <1>2, <1>6, <2>2, WorkDone
  <2>4. Watched' = Watched
    <3>1. reload.by # "watcher"
      BY <1>3, <1>6
    <3> QED
      BY <1>1, <3>1 DEF Watched
  <2> QED
    BY <1>3, <1>4, <2>3, <2>4, BudgetBalanced
<1> QED
  BY <1>3, <1>5, <1>6

\* An edit by grace is applied, and counted or refused.
LEMMA BudgetOfEdit ==
    ASSUME GraceInv, GraceInv', WatchInv, WatchInv', ReloadInv, HandlerInv, BudgetInv,
           NEW c \in Clients, ApplyEdit(c)
    PROVE  BudgetInv'
<1>1. /\ UNCHANGED <<generation, used, up, watch, reload>>
      /\ serving' = [serving EXCEPT ![c] = Idle]
      /\ serving[c].task \in {"current", "grace"}
      /\ \/ accepted' = accepted
         \/ /\ serving[c].task = "grace"
            /\ accepted' = [accepted EXCEPT ![serving[c].about] = @ + 1]
  BY DEF ApplyEdit, clientVars, watcherVars
<1>2. /\ \A x \in Clients \ {c} : serving'[x] = serving[x]
      /\ serving'[c] = Idle
  BY <1>1 DEF GraceInv, ServingShape
<1>3. ~Working(c)'
  BY <1>2 DEF Working, Idle
<1>4. \A x \in Clients : Working(x)' => Working(x)
  BY <1>1, <1>2, <1>3 DEF Working
<1>5. /\ used \in [requests : 0..MaxRequests, faults : Nat] /\ used.requests \in Nat
      /\ generation \in Nat /\ accepted \in [Generations -> Nat] /\ Cardinality(Pending) \in Nat
      /\ Watched \in Nat /\ Watched' = Watched
  BY <1>1, ReloadConstants, PendingCounted, WatchedTyped
  DEF BudgetInv, GraceInv, GraceShape, Watched
<1>6. CASE accepted' = accepted
  <2>1. Cardinality(Pending') \in Nat /\ Cardinality(Pending') <= Cardinality(Pending)
    BY <1>1, <1>4, PendingKept, NothingAdded
  <2> QED
    BY <1>1, <1>5, <1>6, <2>1, NothingGranted
<1>7. CASE /\ serving[c].task = "grace"
           /\ accepted' = [accepted EXCEPT ![serving[c].about] = @ + 1]
  <2>1. Working(c)
    BY <1>7 DEF Working
  <2>2. Cardinality(Pending') \in Nat /\ Cardinality(Pending') + 1 <= Cardinality(Pending)
    BY <1>1, <1>3, <1>4, <2>1, WorkDone
  <2>3. \A g \in Generations : accepted[g] \in Nat /\ accepted'[g] \in {accepted[g], accepted[g] + 1}
    BY <1>5, <1>7
  <2>4. \A g \in Generations :
           accepted'[g] + Cardinality(Pending') + used.requests
               <= accepted[g] + Cardinality(Pending) + used'.requests
    BY <1>1, <1>5, <2>2, <2>3
  <2> QED
    BY <1>1, <1>5, <2>2, <2>4, BudgetBalanced
<1> QED
  BY <1>1, <1>6, <1>7

\* The user makes a request.
LEMMA BudgetOfRequest ==
    ASSUME GraceInv, GraceInv', WatchInv, WatchInv', ReloadInv, HandlerInv, MessageInv, BudgetInv,
           NEW c \in Clients, ClientSends(c)
    PROVE  BudgetInv'
<1>1. /\ UNCHANGED <<generation, accepted, watch, reload, serving>>
      /\ used.requests < MaxRequests /\ used' = [used EXCEPT !.requests = used.requests + 1]
      /\ \E type, value : Enqueue(c, type, value)
  BY DEF ClientSends, runtimeVars, watcherVars
<1>2. \A x \in Clients : Working(x)' => Working(x)
  BY <1>1 DEF Working
<1>3. Cardinality(Pending') \in Nat /\ Cardinality(Pending') <= Cardinality(Pending) + 1
  BY <1>1, <1>2, PendingQueued
<1>4. /\ used \in [requests : 0..MaxRequests, faults : Nat] /\ used.requests \in Nat
      /\ MaxRequests \in Nat
      /\ generation \in Nat /\ accepted \in [Generations -> Nat] /\ Cardinality(Pending) \in Nat
      /\ Watched \in Nat /\ Watched' = Watched
  BY <1>1, ReloadConstants, PendingCounted, WatchedTyped
  DEF BudgetInv, GraceInv, GraceShape, Watched
<1> DEFINE n == used.requests + 1
<1>5. n \in 0..MaxRequests /\ used' = [used EXCEPT !.requests = n]
  BY <1>1, <1>4
<1> HIDE DEF n
<1>6. used' \in [requests : 0..MaxRequests, faults : Nat] /\ used'.requests = n
  BY <1>4, <1>5
<1>7. used'.requests = used.requests + 1
  BY <1>6 DEF n
<1>8. \A g \in Generations : accepted[g] \in Nat
  BY <1>4
<1> QED
  BY <1>1, <1>3, <1>4, <1>6, <1>7, <1>8, BudgetBalanced

\* Every step keeps within the budget.
LEMMA BudgetKept ==
    ASSUME GraceInv, GraceInv', WatchInv, WatchInv', ReloadInv, HandlerInv, HandlerInv', MessageInv,
           BudgetInv, [Next]_vars
    PROVE  BudgetInv'
<1>0. used \in [requests : 0..MaxRequests, faults : Nat] /\ used.requests \in Nat
      /\ Watched \in Nat
  BY ReloadConstants, WatchedTyped DEF BudgetInv
<1>1. ASSUME UNCHANGED <<generation, accepted, used, up>>,
             \A x \in Clients : Working(x)' => Working(x), Watched' = Watched
      PROVE  BudgetInv'
  <2>1. Cardinality(Pending') \in Nat /\ Cardinality(Pending') <= Cardinality(Pending)
    BY <1>1, PendingKept, NothingAdded
  <2> QED
    BY <1>0, <1>1, <2>1, NothingGranted
<1>2. CASE UNCHANGED <<generation, accepted, used, up, serving, watch, reload>>
  <2>1. (\A x \in Clients : Working(x)' => Working(x)) /\ Watched' = Watched
    BY <1>2 DEF Working, Watched
  <2> QED
    BY <1>1, <1>2, <2>1
<1>3. CASE Save \/ GraceExpires \/ UNCHANGED vars
  BY <1>2, <1>3 DEF Save, GraceExpires, runtimeVars, clientVars, watcherVars, vars
<1>4. CASE Prepare
  <2>1. reload.phase = "evaluating" /\ UNCHANGED <<generation, accepted, used, up>>
    BY <1>4 DEF Prepare, runtimeVars, clientVars
  <2>2. CASE EndReload
    BY <2>1, <2>2, BudgetAtEnd
  <2>3. ASSUME NEW p \in BOOLEAN, UNCHANGED <<watch, serving>>,
               reload' = [reload EXCEPT !.phase = "prepared", !.publishes = p,
                                        !.expected = behavior, !.refresh = opened]
        PROVE  BudgetInv'
    <3>1. reload'.phase = "prepared" /\ reload'.by = reload.by
      BY <2>3 DEF ReloadInv
    <3>2. (\A x \in Clients : Working(x)' => Working(x)) /\ Watched' = Watched
      BY <2>1, <2>3, <3>1 DEF Working, Watched
    <3> QED
      BY <1>1, <2>1, <3>2
  <2> QED
    BY <1>4, <2>2, <2>3 DEF Prepare
<1>5. CASE Commit
  <2>1. reload.phase = "prepared" /\ UNCHANGED <<accepted, used, up>>
    BY <1>5 DEF Commit, clientVars
  <2>2. CASE EndReload /\ UNCHANGED runtimeVars
    BY <2>1, <2>2, BudgetAtEnd DEF runtimeVars
  <2>3. CASE /\ generation' = generation + 1 /\ UNCHANGED <<watch, serving>>
             /\ reload' = [reload EXCEPT !.phase = "committed"]
    BY <2>1, <2>3, BudgetOfCommit
  <2> QED
    BY <1>5, <2>2, <2>3 DEF Commit
<1>6. CASE Publish
  <2>1. /\ reload.phase \in {"committed", "stored"}
        /\ UNCHANGED <<generation, accepted, used, up, watch, serving>>
        /\ \E x \in {"stored", "refreshing"} : reload' = [reload EXCEPT !.phase = x]
    BY <1>6 DEF Publish
  <2>2. reload'.phase \in {"stored", "refreshing"} /\ reload'.by = reload.by
    BY <2>1, ReloadGoesOn
  <2>3. (\A x \in Clients : Working(x)' => Working(x)) /\ Watched' = Watched
    BY <2>1, <2>2 DEF Working, Watched
  <2> QED
    BY <1>1, <2>1, <2>3
<1>7. CASE Refresh
  <2>1. reload.phase = "refreshing" /\ UNCHANGED <<generation, accepted, used, up>>
    BY <1>7 DEF Refresh, clientVars
  <2>2. CASE EndReload
    BY <2>1, <2>2, BudgetAtEnd
  <2>3. ASSUME NEW d, reload' = [reload EXCEPT !.refresh = @ \ {d}], UNCHANGED <<watch, serving>>
        PROVE  BudgetInv'
    <3>1. reload'.phase = reload.phase /\ reload'.by = reload.by
      BY <2>3 DEF ReloadInv
    <3>2. (\A x \in Clients : Working(x)' => Working(x)) /\ Watched' = Watched
      BY <2>3, <3>1 DEF Working, Watched
    <3> QED
      BY <1>1, <2>1, <3>2
  <2> QED
    BY <1>7, <2>2, <2>3 DEF Refresh
<1>8. ASSUME NEW c \in Clients, Subscribe(c) \/ Welcome(c) \/ ReceiveUpdate(c)
      PROVE  BudgetInv'
  BY <1>2, <1>8 DEF Subscribe, Welcome, ReceiveUpdate, runtimeVars, watcherVars
<1>9. ASSUME NEW c \in Clients, ServeOpen(c)
      PROVE  BudgetInv'
  <2>1. UNCHANGED <<generation, accepted, used, watch, reload>>
    BY <1>9 DEF ServeOpen, runtimeVars, watcherVars
  <2>2. CASE NextMessage(c, "open")
    BY <1>9, <2>2, BudgetOfServing
  <2>3. CASE up' = up /\ \E s : s.task \notin {"grace", "reload"}
                                /\ serving' = [serving EXCEPT ![c] = s]
    <3>1. \A x \in Clients : serving'[x] = serving[x] \/ serving'[x].task \notin {"grace", "reload"}
      BY <2>3 DEF GraceInv, ServingShape
    <3>2. (\A x \in Clients : Working(x)' => Working(x)) /\ Watched' = Watched
      BY <2>1, <3>1 DEF Working, Watched
    <3> QED
      BY <1>1, <2>1, <2>3, <3>2
  <2>4. CASE up' = up /\ serving' = [serving EXCEPT ![c].task = "opened"]
    <3> DEFINE s == [task |-> "opened", about |-> serving[c].about]
    <3>1. s.task \notin {"grace", "reload"} /\ serving' = [serving EXCEPT ![c] = s]
      BY <1>9, <2>4, Retasked DEF GraceInv
    <3> HIDE DEF s
    <3> QED
      BY <2>3, <2>4, <3>1
  <2>5. CASE up' = up /\ serving' = [serving EXCEPT ![c] = Idle]
    <3>1. Idle.task \notin {"grace", "reload"}
      BY DEF Idle
    <3> HIDE DEF Idle
    <3> QED
      BY <2>3, <2>5, <3>1
  <2> QED
    BY <1>9, <2>2, <2>4, <2>5 DEF ServeOpen, clientVars
<1>10. ASSUME NEW c \in Clients, ClientReceive(c)
       PROVE  BudgetInv'
  <2>1. UNCHANGED <<generation, accepted, used, watch, reload, serving>>
    BY <1>10 DEF ClientReceive, runtimeVars, watcherVars
  <2>2. up' = up \/ \E value : Enqueue(c, "installed", value)
    BY <1>10 DEF ClientReceive, ApplyBehaviorManifest, InstallRuntimeStateSnapshot
  <2>3. (\A x \in Clients : Working(x)' => Working(x)) /\ Watched' = Watched
    BY <2>1 DEF Working, Watched
  <2>4. CASE up' = up
    BY <1>1, <2>1, <2>3, <2>4
  <2>5. CASE \E value : Enqueue(c, "installed", value)
    <3>1. Cardinality(Pending') \in Nat /\ Cardinality(Pending') <= Cardinality(Pending)
      BY <1>10, <2>3, <2>5, PendingQueued
    <3> QED
      BY <1>0, <2>1, <2>3, <3>1, NothingGranted
  <2> QED
    BY <2>2, <2>4, <2>5
<1> QED
  BY <1>3, <1>4, <1>5, <1>6, <1>7, <1>8, <1>9, <1>10, BudgetOfWatcher, BudgetOfServing, BudgetOfEdit,
     BudgetOfRequest
  DEF Next, ReloadStep, ServerStep

\* The first states.
LEMMA ReloadTypesInitially ==
    ASSUME Init, GraceInv
    PROVE  ReloadTypes
<1>0. /\ {MaxSaves, MaxRequests} \subseteq Nat
      /\ {MaxRescans, FanoutCapacity, QueueCapacity} \subseteq Nat \ {0}
  BY ReloadConstants
<1>1. reload = NoReload /\ reload.phase = "none" /\ reload.by = "watcher" /\ reload.refresh = {}
      /\ reload \in [phase : ReloadPhase, by : Clients \cup {"watcher"}, publishes : BOOLEAN,
                     expected : [version : Nat, layers : SUBSET Documents],
                     refresh : SUBSET Documents]
  BY NoReloadTyped DEF Init
<1>2. WatchInv
  <2>1. watch = [phase |-> "idle", baseline |-> 0, seen |-> 0, rescans |-> 0]
        /\ config = 0 /\ tried = 0 /\ 0 \in 0..(MaxRescans - 1) /\ 0 \in 0..MaxSaves
    BY <1>0 DEF Init
  <2> QED
    BY <1>1, <2>1 DEF WatchInv
<1>3. ReloadInv
  <2>1. latest = NoSnapshot \/ latest = [generation |-> 1, version |-> 1]
    BY DEF Init
  <2>2. latest \in [generation : Nat, version : Nat] /\ latest.generation <= 1
        /\ latest.version <= 1
    BY <2>1 DEF NoSnapshot
  <2>3. generation = 1 /\ behavior.version = 1 /\ behavior.layers = {} /\ opened = {}
    BY DEF Init, FirstBehavior
  <2> QED
    BY <1>1, <2>2, <2>3 DEF ReloadInv
<1>4. serving = [c \in Clients |-> Idle] /\ Idle.task = "idle"
  BY DEF Init, Idle
<1>5. HandlerInv
  <2> HIDE DEF Idle
  <2> QED
    BY <1>1, <1>4 DEF HandlerInv, Task
<1>6. MessageInv
  <2>1. latest.generation \in Nat /\ behavior.version \in Nat
    BY <1>3 DEF ReloadInv, GraceInv, Shaped
  <2>2. /\ ack = [c \in Clients |-> 0] /\ conn = [c \in Clients |-> "off"]
        /\ unread = [c \in Clients |-> [buffered |-> 0, lagged |-> FALSE]]
        /\ up = [c \in Clients |-> <<>>] /\ down = [c \in Clients |-> <<>>]
        /\ client = [c \in Clients |-> [generation |-> 0, version |-> 0]]
    BY DEF Init
  <2>3. unread \in [Clients -> [buffered : 0..FanoutCapacity, lagged : BOOLEAN]]
    <3>1. [buffered |-> 0, lagged |-> FALSE] \in [buffered : 0..FanoutCapacity, lagged : BOOLEAN]
      BY <1>0
    <3> QED
      BY <2>2, <3>1
  <2>4. /\ ack \in [Clients -> Nat] /\ conn \in [Clients -> {"off", "subscribed", "on"}]
        /\ up \in [Clients -> Seq(Request)] /\ down \in [Clients -> Seq(Update)]
        /\ client \in [Clients -> [generation : Nat, version : Nat]]
    BY <2>2
  <2>5. \A c \in Clients : /\ ack[c] = 0 /\ Len(up[c]) = 0 /\ DOMAIN down[c] = {}
                           /\ client[c].generation = 0 /\ client[c].version = 0
    BY <2>2
  <2>6. QueueCapacity \in Nat
    BY <1>0
  <2> QED
    BY <2>1, <2>3, <2>4, <2>5, <2>6 DEF MessageInv
<1>7. BudgetInv
  <2>1. Pending = {}
    <3> SUFFICES ASSUME NEW p \in Pending PROVE FALSE
      OBVIOUS
    <3>1. PICK x \in Clients, i \in 0..QueueCapacity :
             p = <<x, i>> /\ IF i = 0 THEN Working(x)
                             ELSE i <= Len(up[x]) /\ up[x][i].type # "installed"
      BY DEF Pending
    <3>2. ~Working(x)
      <4> HIDE DEF Idle
      <4> QED
        BY <1>4 DEF Working
    <3>3. Len(up[x]) = 0
      BY DEF Init
    <3>4. i \in Nat
      BY <1>0
    <3> QED
      BY <3>1, <3>2, <3>3, <3>4
  <2>2. Cardinality(Pending) = 0
    BY <2>1, FS_EmptySet
  <2>3. Watched = 0
    <3>1. watch.phase = "idle" /\ watch.baseline = 0
      BY DEF Init
    <3> QED
      BY <1>1, <3>1 DEF Watched
  <2>4. used \in [requests : 0..MaxRequests, faults : Nat] /\ used.requests = 0
    BY <1>0 DEF Init
  <2>5. generation = 1 /\ \A g \in Generations : accepted[g] = 0
    BY DEF Init
  <2> QED
    BY <2>2, <2>3, <2>4, <2>5 DEF BudgetInv
<1> QED
  BY <1>2, <1>3, <1>5, <1>6, <1>7 DEF ReloadTypes

\* ReloadTypes is an inductive invariant.
LEMMA ReloadTypesInvariant == Spec => []ReloadTypes
<1>1. Init => ReloadTypes
  BY GraceInitially, ReloadTypesInitially
<1>2. ReloadTypes /\ [Next]_vars => ReloadTypes'
  <2> SUFFICES ASSUME ReloadTypes, [Next]_vars PROVE ReloadTypes'
    OBVIOUS
  <2>1. GraceInv /\ WatchInv /\ ReloadInv /\ HandlerInv /\ MessageInv /\ BudgetInv
    BY DEF ReloadTypes
  <2>2. GraceInv'
    BY <2>1, StepsAreSerial, GraceStep DEF GraceInv, SerialStep, Shaped
  <2>3. WatchInv'
    BY <2>1, WatcherKept
  <2>4. ReloadInv'
    BY <2>1, ReloadKept
  <2>5. HandlerInv'
    BY <2>1, HandlersKept
  <2>6. MessageInv'
    BY <2>1, <2>2, <2>4, MessagesKept
  <2>7. BudgetInv'
    BY <2>1, <2>2, <2>3, <2>5, BudgetKept
  <2> QED
    BY <2>2, <2>3, <2>4, <2>5, <2>6, <2>7 DEF ReloadTypes
<1> QED
  BY <1>1, <1>2, PTL DEF Spec

\* Types of a reload: no client has installed or acknowledged a generation that
\* is not published, nor a behaviour version that is not in effect; layers
\* belong to open documents; the watcher's baseline is a revision that was on
\* disk; queues and receivers keep their capacities; and there are no more
\* generations than saves and requests.
THEOREM ReloadTypeCorrect == Spec => []TypeOK
<1>1. ReloadTypes => TypeOK
  <2> SUFFICES ASSUME ReloadTypes PROVE TypeOK
    OBVIOUS
  <2>0. /\ GraceInv /\ WatchInv /\ ReloadInv /\ HandlerInv /\ MessageInv /\ BudgetInv
        /\ GraceShape /\ Shaped
        /\ {MaxSaves, MaxRequests, GraceLimit, MaxRescans} \subseteq Nat
    BY ReloadConstants DEF ReloadTypes, GraceInv
  <2>1. /\ config \in 0..MaxSaves /\ tried \in 0..config /\ watch \in Watcher
        /\ {watch.baseline, watch.seen} \subseteq 0..config
    <3>1. \A n \in 0..(MaxRescans - 1) : n \in 0..MaxRescans
      BY <2>0
    <3>2. watch \in Watcher
      BY <2>0, <3>1 DEF WatchInv, Watcher
    <3>3. watch.baseline \in Nat /\ watch.seen \in Nat /\ config \in Nat
          /\ watch.baseline <= config /\ watch.seen <= config
      BY <2>0 DEF WatchInv
    <3>4. config \in 0..MaxSaves /\ tried \in 0..config
      BY <2>0 DEF WatchInv
    <3> QED
      BY <3>2, <3>3, <3>4
  <2>2. /\ reload.phase \in ReloadPhase /\ reload.by \in Clients \cup {"watcher"}
        /\ reload.refresh \subseteq opened /\ behavior.layers \subseteq opened
        /\ opened \subseteq Documents
    BY <2>0 DEF ReloadInv
  <2>3. /\ generation \in Nat \ {0} /\ behavior.version \in Nat
        /\ latest.generation \in 0..generation /\ latest.version \in 0..behavior.version
        /\ latest.generation \in Nat
    <3>1. generation \in Nat \ {0} /\ behavior.version \in Nat
      BY <2>0 DEF GraceShape, Shaped
    <3>2. /\ latest.generation \in Nat /\ latest.version \in Nat
          /\ latest.generation <= generation /\ latest.version <= behavior.version
      BY <2>0 DEF ReloadInv
    <3> QED
      BY <3>1, <3>2
  <2>4. grace.generation \in 0..(generation - 1) /\ grace.accepted \in 0..(GraceLimit - 1)
    <3>1. /\ grace.generation \in Nat /\ grace.accepted \in Nat
          /\ grace.accepted < GraceLimit /\ grace.generation < generation
      BY <2>0 DEF GraceShape
    <3> QED
      BY <2>0, <2>3, <3>1
  <2>5. generation \in Generations /\ accepted \in [Generations -> 0..MaxRequests]
    <3>1. Watched \in Nat /\ Watched <= config /\ config \in 0..MaxSaves
      BY <2>0, <2>1, WatchedTyped
    <3>2. used.requests \in 0..MaxRequests /\ Cardinality(Pending) \in Nat
          /\ accepted \in [Generations -> Nat]
      BY <2>0, PendingCounted DEF BudgetInv, GraceShape
    <3>3. /\ generation + Cardinality(Pending) <= 1 + used.requests + Watched
          /\ \A g \in Generations : accepted[g] + Cardinality(Pending) <= used.requests
      BY <2>0 DEF BudgetInv
    <3>4. generation \in Generations
      <4>1. /\ generation <= 1 + used.requests + Watched
            /\ used.requests \in Nat /\ used.requests <= MaxRequests
            /\ Watched \in Nat /\ Watched <= MaxSaves
        BY <2>0, <2>3, <3>1, <3>2, <3>3
      <4>2. MaxSaves \in Nat /\ MaxRequests \in Nat
        BY <2>0
      <4>3. generation <= 1 + MaxSaves + MaxRequests
        BY <2>3, <4>1, <4>2
      <4> QED
        BY <2>3, <4>2, <4>3 DEF Generations, MaxGeneration
    <3>5. ASSUME NEW g \in Generations
          PROVE  accepted[g] \in 0..MaxRequests
      <4>1. accepted[g] \in Nat
        BY <3>2
      <4> QED
        BY <2>0, <3>2, <3>3, <4>1
    <3> QED
      BY <3>2, <3>4, <3>5
  <2>6. /\ ack \in [Clients -> 0..latest.generation]
        /\ conn \in [Clients -> {"off", "subscribed", "on"}]
        /\ unread \in [Clients -> [buffered : 0..FanoutCapacity, lagged : BOOLEAN]]
    <3>1. \A c \in Clients : ack[c] \in Nat /\ ack[c] <= latest.generation
      BY <2>0 DEF MessageInv
    <3>2. \A c \in Clients : ack[c] \in 0..latest.generation
      BY <2>3, <3>1
    <3> QED
      BY <2>0, <3>2 DEF MessageInv
  <2>7. ASSUME NEW c \in Clients
        PROVE  /\ serving[c].task \in Task
               /\ Len(up[c]) <= QueueCapacity
               /\ client[c].generation \in 0..latest.generation
               /\ client[c].version \in 0..behavior.version
    <3>1. /\ client[c].generation \in Nat /\ client[c].version \in Nat
          /\ client[c].generation <= latest.generation
          /\ client[c].version <= behavior.version
      BY <2>0 DEF MessageInv
    <3>2. serving[c].task \in Task /\ Len(up[c]) <= QueueCapacity
      BY <2>0 DEF MessageInv, HandlerInv
    <3> QED
      BY <2>3, <3>1, <3>2
  <2> QED
    BY <2>1, <2>2, <2>3, <2>4, <2>5, <2>6, <2>7 DEF TypeOK
<1> QED
  BY <1>1, ReloadTypesInvariant, PTL

\* An edit stamped with a replaced manifest passes the check only while fewer
\* than GraceLimit such edits have been accepted (validate_edit_version): the
\* edits of the open window are among those that it has counted.
THEOREM GraceAdmissionsAreWithinLimit == Spec => GraceAdmitsWithinLimit
<1>1. GraceInv /\ TypeOK /\ [Next]_vars =>
        [\A c \in Clients :
            serving[c].task # "grace" /\ serving'[c].task = "grace"
                => accepted[serving'[c].about] < GraceLimit]_vars
  <2> SUFFICES ASSUME GraceInv, TypeOK, [Next]_vars, NEW c \in Clients,
                      serving[c].task # "grace", serving'[c].task = "grace"
               PROVE  accepted[serving'[c].about] < GraceLimit
    OBVIOUS
  <2>1. PICK d \in Clients : ServeEdit(d)
    BY EditsAreAdmittedByServeEdit DEF GraceInv, NothingAdmitted
  <2>2. PICK stamp : \/ serving' = [serving EXCEPT ![d].task = "current"]
                     \/ /\ WithinGrace(d, stamp)
                        /\ serving' = [serving EXCEPT ![d] = [task |-> "grace",
                                                              about |-> grace.generation]]
                     \/ serving' = serving
    BY <2>1 DEF ServeEdit
  <2>3. ServingShape /\ GraceShape
    BY DEF GraceInv
  <2>4. serving' # [serving EXCEPT ![d].task = "current"]
    <3> SUFFICES ASSUME serving' = [serving EXCEPT ![d].task = "current"] PROVE FALSE
      OBVIOUS
    <3>1. serving' = [serving EXCEPT ![d] = [task |-> "current", about |-> serving[d].about]]
      BY <2>3, Retasked
    <3> QED
      BY <2>3, <3>1, TurnsAdmitNothing DEF NothingAdmitted
  <2>5. WithinGrace(d, stamp) /\ serving'[c].about = grace.generation
    BY <2>2, <2>3, <2>4 DEF ServingShape
  <2>6. grace.generation \in Generations
    <3>1. generation \in 1..MaxGeneration /\ grace.generation = generation - 1
      BY <2>5 DEF TypeOK, Generations, WithinGrace
    <3>2. grace.generation \in Nat /\ grace.generation # 0
      BY <2>3, <2>5 DEF WithinGrace, GraceShape
    <3>3. MaxGeneration \in Nat
      BY ReloadConstants DEF MaxGeneration
    <3> QED
      BY <3>1, <3>2, <3>3 DEF Generations
  <2>7. Counted(grace.generation)
    BY <2>6 DEF GraceInv
  <2>8. accepted[grace.generation] \in Nat /\ grace.accepted \in Nat /\ GraceLimit \in Nat
    BY <2>3, <2>6, ReloadConstants DEF GraceShape
  <2> QED
    BY <2>5, <2>7, <2>8 DEF WithinGrace, Counted
<1> QED
  BY <1>1, GraceInvariant, ReloadTypeCorrect, PTL DEF Spec, GraceAdmitsWithinLimit
=============================================================================
