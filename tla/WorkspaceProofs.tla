---------------------------- MODULE WorkspaceProofs ----------------------------
(***************************************************************************)
(* The document registry of WorkspaceFiles and what its saves and reloads  *)
(* leave on disk, for any number of clients, runtime tasks and files and   *)
(* any limits.  The last part rests on SaveInv: what each operation in     *)
(* flight may rely on at its step, and why no two saves of one file can    *)
(* both be past their comparison with the file's metadata.                 *)
(***************************************************************************)
EXTENDS WorkspaceFiles, FiniteSetTheorems, TLAPS

--------------------------------------------------------------------------------
(* Type correctness.                                                       *)

(* The client on whose behalf an actor works.                              *)
LEMMA ClientOfType == \A a \in Actors : ClientOf(a) \in Clients
BY DEF Actors, ClientOf, Clients

(* What is known of an actor's operation.                                  *)
LEMMA OperationOf ==
    ASSUME TypeOK, NEW a \in Actors
    PROVE  /\ op[a] \in Operation /\ Grounded(op[a])
           /\ op[a].file \in Files => disk[op[a].file] \in Node
           /\ op[a].doc \in 1..Len(docs) => docs[op[a].doc] \in Document
BY DEF TypeOK

(* Ending an operation or moving it on keeps every operation well formed.  *)
LEMMA OperationUpdate ==
    ASSUME TypeOK, NEW a \in Actors, NEW o \in Operation,
           op' = [op EXCEPT ![a] = o],
           Len(docs') \in Nat, Len(docs) <= Len(docs'), Grounded(o)'
    PROVE  op' \in [Actors -> Operation] /\ \A b \in Actors : Grounded(op[b])'
<1>1. op' \in [Actors -> Operation]
  BY DEF TypeOK
<1>2. ASSUME NEW b \in Actors PROVE Grounded(op[b])'
  <2>1. CASE b = a
    BY <2>1 DEF TypeOK, Grounded
  <2>2. CASE b # a
    <3>1. op'[b] = op[b] /\ op[b] \in Operation /\ Grounded(op[b])
      BY <2>2 DEF TypeOK
    <3>2. op[b].doc \in Nat /\ Len(docs) \in Nat
      BY <3>1 DEF Operation, TypeOK
    <3> QED
      BY <3>1, <3>2 DEF Grounded
  <2> QED
    BY <2>1, <2>2
<1> QED
  BY <1>1, <1>2

(* An actor between operations.                                           *)
LEMMA IdleType == Idle \in Operation /\ (Len(docs) \in Nat => Grounded(Idle))
BY DEF Idle, Operation, Grounded, NoDocument, NoFile, Step

(* A phase that only moves an operation on.                                *)
LEMMA OnlyOperation ==
    ASSUME TypeOK, NEW a \in Actors, NEW o \in Operation, Grounded(o),
           op' = [op EXCEPT ![a] = o], UNCHANGED <<disk, registry, clock, raced>>
    PROVE  TypeOK'
<1>1. Len(docs) \in Nat /\ Len(docs') = Len(docs)
  BY DEF TypeOK, registry
<1>2. Grounded(o)'
  BY DEF Grounded, registry
<1>3. op' \in [Actors -> Operation] /\ \A b \in Actors : Grounded(op[b])'
  <2>1. Len(docs') \in Nat /\ Len(docs) <= Len(docs')
    BY <1>1
  <2> QED
    BY <1>2, <2>1, OperationUpdate
<1> QED
  BY <1>3 DEF TypeOK, registry

(* The phases of an open and of the read of a reload.                      *)
LEMMA OpenType ==
    ASSUME TypeOK, NEW a \in Actors,
           \/ \E f \in Files, kind \in OpenKinds : PrepareOpen(a, f, kind)
           \/ OpenHandle(a) \/ ReadHandle(a) \/ FailIO(a)
    PROVE  TypeOK'
<1>1. Len(docs) \in Nat /\ Idle \in Operation /\ Grounded(Idle)
  BY IdleType DEF TypeOK
<1>2. CASE Finish(a) /\ UNCHANGED <<disk, registry, clock, raced>>
  BY <1>1, <1>2, OnlyOperation DEF Finish
<1>3. ASSUME NEW f \in Files, NEW kind \in OpenKinds, PrepareOpen(a, f, kind)
      PROVE  TypeOK'
  <2> DEFINE o == [Idle EXCEPT !.step = "open", !.file = f, !.selected = (kind = "selected")]
  <2>1. o \in Operation /\ Grounded(o)
    BY <1>1 DEF Idle, Operation, Step, Grounded, NoDocument
  <2>2. op' = [op EXCEPT ![a] = o] /\ UNCHANGED <<disk, registry, clock, raced>>
    BY <1>3 DEF PrepareOpen
  <2> HIDE DEF o
  <2> QED
    BY <2>1, <2>2, OnlyOperation
<1>4. CASE OpenHandle(a)
  <2> DEFINE n == disk[op[a].file]
             o == [op[a] EXCEPT !.step = "read", !.node = n.node, !.stamp = n.stamp,
                                !.text = n.text]
  <2>1. op[a] \in Operation /\ Grounded(op[a]) /\ op[a].step = "open"
    BY <1>4, OperationOf DEF OpenHandle
  <2>2. n \in Node
    BY <2>1, OperationOf DEF Grounded
  <2>3. o \in Operation /\ Grounded(o)
    BY <2>1, <2>2 DEF Operation, Step, Node, Grounded
  <2>4. CASE n = Missing
    BY <1>2, <1>4, <2>4 DEF OpenHandle
  <2>5. CASE n # Missing
    <3>1. op' = [op EXCEPT ![a] = o] /\ UNCHANGED <<disk, registry, clock, raced>>
      BY <1>4, <2>5 DEF OpenHandle, TypeOK
    <3> HIDE DEF o
    <3> QED
      BY <2>3, <3>1, OnlyOperation
  <2> QED
    BY <2>4, <2>5
<1>5. CASE ReadHandle(a)
  <2> DEFINE o == [op[a] EXCEPT !.node = 0,
                                !.step = IF op[a].doc = NoDocument THEN "register"
                                         ELSE "commit reload"]
  <2>1. op[a] \in Operation /\ Grounded(op[a]) /\ op[a].step = "read"
    BY <1>5, OperationOf DEF ReadHandle
  <2>2. o \in Operation /\ Grounded(o)
    BY <2>1 DEF Operation, Step, Grounded
  <2>3. op' = [op EXCEPT ![a] = o] /\ UNCHANGED <<disk, registry, clock, raced>>
    BY <1>5 DEF ReadHandle, TypeOK
  <2> HIDE DEF o
  <2> QED
    BY <2>2, <2>3, OnlyOperation
<1>6. CASE FailIO(a)
  BY <1>2, <1>6 DEF FailIO
<1> QED
  BY <1>3, <1>4, <1>5, <1>6

(* Replacing one document keeps the registry a sequence of documents.      *)
LEMMA ReplaceDocument ==
    ASSUME docs \in Seq(Document), NEW d \in 1..Len(docs), NEW doc \in Document,
           docs' = [docs EXCEPT ![d] = doc]
    PROVE  docs' \in Seq(Document) /\ Len(docs') = Len(docs)
OBVIOUS

(* So does recomputing each of them.                                       *)
LEMMA MapDocuments ==
    ASSUME docs \in Seq(Document), NEW f, 
           docs' = [d \in 1..Len(docs) |-> f[d]], \A d \in 1..Len(docs) : f[d] \in Document
    PROVE  docs' \in Seq(Document) /\ Len(docs') = Len(docs)
<1>1. Len(docs) \in Nat /\ DOMAIN docs' = 1..Len(docs)
  OBVIOUS
<1>2. docs' \in [1..Len(docs) -> Document]
  OBVIOUS
<1> QED
  BY <1>1, <1>2

(* A step that keeps the number of documents.                              *)
LEMMA SameDocuments ==
    ASSUME TypeOK, docs' \in Seq(Document), Len(docs') = Len(docs),
           index' \in [Files -> 0..Len(docs)], grants' = grants,
           disk' \in [Files -> Node], clock' \in Nat, raced' \in SUBSET Files,
           NEW a \in Actors, NEW o \in Operation, Grounded(o), op' = [op EXCEPT ![a] = o]
    PROVE  TypeOK'
<1>1. Len(docs') \in Nat /\ Len(docs) <= Len(docs')
  OBVIOUS
<1>2. Grounded(o)'
  BY DEF Grounded
<1>3. op' \in [Actors -> Operation] /\ \A b \in Actors : Grounded(op[b])'
  BY <1>1, <1>2, OperationUpdate
<1> QED
  BY <1>3 DEF TypeOK

(* Granting and releasing access.                                          *)
LEMMA AccessType ==
    ASSUME NEW doc \in Document, NEW c \in Clients
    PROVE  acquire_access(doc, c) \in Document /\ Released(doc, c) \in Document
BY DEF acquire_access, Released, release_access, Document

(* An open of a path that is open already.                                 *)
LEMMA ExistingLeaseType ==
    ASSUME TypeOK, NEW d \in 1..Len(docs), NEW c \in Clients, ExistingLease(d, c)
    PROVE  docs' \in Seq(Document) /\ Len(docs') = Len(docs)
<1>1. docs \in Seq(Document) /\ docs[d] \in Document
  BY DEF TypeOK
<1>2. acquire_access(docs[d], c) \in Document
  BY <1>1, AccessType
<1> QED
  BY <1>1, <1>2, ReplaceDocument DEF ExistingLease

(* A step that leaves every operation where it is.                         *)
LEMMA SameOperations ==
    ASSUME TypeOK, docs' \in Seq(Document), Len(docs') = Len(docs),
           index' \in [Files -> 0..Len(docs)], grants' = grants,
           disk' \in [Files -> Node], clock' \in Nat, raced' \in SUBSET Files, op' = op
    PROVE  TypeOK'
BY DEF TypeOK, Grounded

(* The commit of an open.                                                  *)
LEMMA RegisterType ==
    ASSUME TypeOK, NEW a \in Actors,
           Register(a) \/ \E f \in Files : OpenExisting(a, f)
    PROVE  TypeOK'
<1> DEFINE c == ClientOf(a)
           o == op[a]
<1>1. c \in Clients /\ Idle \in Operation /\ Grounded(Idle)
  BY ClientOfType, IdleType DEF TypeOK
<1>2. ASSUME NEW f \in Files, OpenExisting(a, f) PROVE TypeOK'
  <2>1. index[f] \in 1..Len(docs)
    BY <1>2 DEF OpenExisting, TypeOK, NoDocument
  <2>2. docs' \in Seq(Document) /\ Len(docs') = Len(docs)
    BY <1>1, <1>2, <2>1, ExistingLeaseType DEF OpenExisting
  <2> QED
    BY <1>2, <2>2, SameOperations DEF OpenExisting, TypeOK
<1>3. CASE Register(a)
  <2>1. o \in Operation /\ o.file \in Files
    BY <1>3, OperationOf DEF Register, Registering, Grounded
  <2>2. op' = [op EXCEPT ![a] = Idle] /\ UNCHANGED <<disk, clock, raced>>
    BY <1>3 DEF Register, Registering, Finish
  <2>3. CASE index[o.file] # NoDocument
    <3>1. index[o.file] \in 1..Len(docs)
      BY <2>1, <2>3 DEF TypeOK, NoDocument
    <3>2. ExistingLease(index[o.file], c) /\ UNCHANGED <<index, grants>>
      BY <1>3, <2>3 DEF Register
    <3>3. docs' \in Seq(Document) /\ Len(docs') = Len(docs)
      BY <1>1, <3>1, <3>2, ExistingLeaseType
    <3> QED
      BY <1>1, <2>2, <3>2, <3>3, SameDocuments DEF TypeOK
  <2>4. CASE UNCHANGED registry
    BY <1>1, <2>2, <2>4, OnlyOperation
  <2>5. CASE AddDocument(o, c) /\ (o.selected => grants < MaxRoots)
    <3> DEFINE doc == NewDocument(o, c)
    <3>1. doc \in Document
      BY <1>1, <2>1 DEF NewDocument, Document, Operation
    <3>2. docs' = Append(docs, doc) /\ index' = [index EXCEPT ![o.file] = Len(docs) + 1]
      BY <2>5 DEF AddDocument
    <3> HIDE DEF doc
    <3>3. docs' \in Seq(Document) /\ Len(docs') = Len(docs) + 1 /\ Len(docs) \in Nat
      BY <3>1, <3>2 DEF TypeOK
    <3>4. index' \in [Files -> 0..Len(docs')]
      BY <2>1, <3>2, <3>3 DEF TypeOK
    <3>5. grants' \in 0..MaxRoots
      BY <2>5, LimitsAssumption DEF AddDocument, TypeOK
    <3>6. Len(docs') \in Nat /\ Len(docs) <= Len(docs') /\ Grounded(Idle)'
      BY <3>3 DEF Grounded, Idle, NoDocument
    <3>7. op' \in [Actors -> Operation] /\ \A b \in Actors : Grounded(op[b])'
      BY <1>1, <2>2, <3>6, OperationUpdate
    <3> QED
      BY <2>2, <3>3, <3>4, <3>5, <3>7 DEF TypeOK
  <2> QED
    BY <1>3, <2>3, <2>4, <2>5 DEF Register
<1> QED
  BY <1>2, <1>3

(* The operation an actor is in the middle of, when it names a document.   *)
LEMMA DocumentOf ==
    ASSUME TypeOK, NEW a \in Actors, op[a].step \notin {"idle", "open", "read", "register"}
    PROVE  /\ op[a] \in Operation /\ Grounded(op[a])
           /\ op[a].doc \in 1..Len(docs) /\ docs[op[a].doc] \in Document
           /\ op[a].file \in Files /\ disk[op[a].file] \in Node
<1>1. op[a] \in Operation /\ Grounded(op[a]) /\ Len(docs) \in Nat
  BY DEF TypeOK
<1>2. op[a].doc \in 1..Len(docs) /\ op[a].file \in Files
  BY <1>1 DEF Grounded, Operation, NoDocument
<1> QED
  BY <1>1, <1>2 DEF TypeOK

(* A new operation on a document.                                          *)
LEMMA OnType ==
    ASSUME TypeOK, NEW d \in 1..Len(docs), NEW s \in Step
    PROVE  /\ On(d, s) \in Operation /\ Grounded(On(d, s))
           /\ \A forced \in BOOLEAN : [On(d, s) EXCEPT !.force = forced] \in Operation
           /\ \A forced \in BOOLEAN : Grounded([On(d, s) EXCEPT !.force = forced])
<1>1. docs[d].file \in Files /\ Len(docs) \in Nat
  <2>1. docs[d] \in Document /\ docs \in Seq(Document)
    BY DEF TypeOK
  <2> QED
    BY <2>1 DEF Document
<1>2. On(d, s) \in Operation
  <2>1. d \in Nat
    BY <1>1
  <2>2. \A o \in Operation : [o EXCEPT !.step = s, !.doc = d, !.file = docs[d].file] \in Operation
    BY <1>1, <2>1 DEF Operation
  <2> QED
    BY <2>2, IdleType DEF On
<1>3. Grounded(On(d, s))
  BY <1>1 DEF On, Idle, Grounded, NoDocument
<1> DEFINE o == On(d, s)
<1> HIDE DEF o
<1>4. o \in Operation /\ Grounded(o)
  BY <1>2, <1>3 DEF o
<1>5. ASSUME NEW forced \in BOOLEAN
      PROVE  [o EXCEPT !.force = forced] \in Operation /\ Grounded([o EXCEPT !.force = forced])
  BY <1>4 DEF Operation, Grounded
<1> QED
  BY <1>4, <1>5 DEF o

(* Operations start on a document.                                         *)
LEMMA StartType ==
    ASSUME TypeOK, NEW a \in Actors, NEW d \in 1..Len(docs),
           \/ AuthorizeSave(a, d) \/ FindDocument(a, d)
           \/ \E forced \in BOOLEAN : AuthorizeReload(a, d, forced)
    PROVE  TypeOK'
<1>1. "authorized save" \in Step /\ "edit" \in Step /\ "authorized reload" \in Step
  BY DEF Step
<1>2. CASE AuthorizeSave(a, d)
  BY <1>1, <1>2, OnType, OnlyOperation DEF AuthorizeSave
<1>3. CASE FindDocument(a, d)
  BY <1>1, <1>3, OnType, OnlyOperation DEF FindDocument
<1>4. ASSUME NEW forced \in BOOLEAN, AuthorizeReload(a, d, forced) PROVE TypeOK'
  <2> DEFINE o == [On(d, "authorized reload") EXCEPT !.force = forced]
  <2>1. o \in Operation /\ Grounded(o)
    BY <1>1, OnType
  <2>2. op' = [op EXCEPT ![a] = o] /\ UNCHANGED <<disk, registry, clock, raced>>
    BY <1>4 DEF AuthorizeReload
  <2> HIDE DEF o
  <2> QED
    BY <2>1, <2>2, OnlyOperation
<1> QED
  BY <1>2, <1>3, <1>4

(* The phases of a save.                                                   *)
LEMMA SaveType ==
    ASSUME TypeOK, NEW a \in Actors,
           \/ PrepareSave(a) \/ CaptureSave(a) \/ CheckTarget(a)
           \/ RenameTemp(a) \/ StatSaved(a) \/ CommitSave(a)
    PROVE  TypeOK'
<1> DEFINE o == op[a]
           doc == docs[o.doc]
<1>1. o.step \notin {"idle", "open", "read", "register"}
  BY DEF PrepareSave, CaptureSave, CheckTarget, RenameTemp, StatSaved, CommitSave
<1>2. /\ o \in Operation /\ Grounded(o) /\ o.doc \in 1..Len(docs) /\ doc \in Document
      /\ o.file \in Files /\ disk[o.file] \in Node /\ docs \in Seq(Document)
      /\ Idle \in Operation /\ Grounded(Idle)
  BY <1>1, DocumentOf, IdleType DEF TypeOK
<1>3. CASE Finish(a) /\ UNCHANGED <<disk, registry, clock, raced>>
  BY <1>2, <1>3, OnlyOperation DEF Finish
<1>4. ASSUME NEW p \in Operation, Grounded(p), op' = [op EXCEPT ![a] = p],
             UNCHANGED <<disk, registry, clock, raced>>
      PROVE  TypeOK'
  BY <1>4, OnlyOperation
<1>5. CASE PrepareSave(a)
  <2> DEFINE p == [o EXCEPT !.step = "capture", !.stamp = disk[o.file].stamp]
  <2>1. p \in Operation /\ Grounded(p)
    BY <1>1, <1>2 DEF Operation, Step, Node, Grounded
  <2>2. CASE op' = [op EXCEPT ![a] = p]
    <3> HIDE DEF p
    <3> QED
      BY <1>4, <1>5, <2>1, <2>2 DEF PrepareSave
  <2> QED
    BY <1>3, <1>5, <2>2 DEF PrepareSave, TypeOK
<1>6. CASE CaptureSave(a)
  <2> DEFINE p == [o EXCEPT !.step = "check", !.text = doc.text, !.version = doc.version]
  <2>1. p \in Operation /\ Grounded(p)
    BY <1>1, <1>2 DEF Operation, Step, Document, Grounded
  <2>2. op' = [op EXCEPT ![a] = p]
    BY <1>6 DEF CaptureSave, TypeOK
  <2> HIDE DEF p
  <2> QED
    BY <1>4, <1>6, <2>1, <2>2 DEF CaptureSave
<1>7. CASE CheckTarget(a)
  <2> DEFINE p == [o EXCEPT !.step = "rename"]
  <2>1. p \in Operation /\ Grounded(p)
    BY <1>1, <1>2 DEF Operation, Step, Grounded
  <2>2. CASE op' = [op EXCEPT ![a] = p]
    <3> HIDE DEF p
    <3> QED
      BY <1>4, <1>7, <2>1, <2>2 DEF CheckTarget
  <2> QED
    BY <1>3, <1>7, <2>2 DEF CheckTarget, TypeOK
<1>8. CASE RenameTemp(a)
  <2> DEFINE p == [o EXCEPT !.step = "stat", !.text = 0, !.stamp = 0]
             new == [doc EXCEPT !.seen = TRUE]
  <2>1. p \in Operation /\ Grounded(p) /\ new \in Document
    BY <1>1, <1>2 DEF Operation, Step, Grounded, Document
  <2>2. op' = [op EXCEPT ![a] = p] /\ docs' = [docs EXCEPT ![o.doc] = new]
    BY <1>8 DEF RenameTemp, TypeOK
  <2>3. /\ disk' \in [Files -> Node] /\ clock' \in Nat /\ raced' \in SUBSET Files
        /\ UNCHANGED <<index, grants>>
    <3>1. o.text \in Nat /\ clock + 1 \in Nat
      BY <1>2 DEF Operation, TypeOK
    <3>2. [node |-> clock + 1, stamp |-> clock + 1, text |-> o.text] \in Node
      BY <3>1 DEF Node
    <3> QED
      BY <1>2, <1>8, <3>1, <3>2 DEF RenameTemp, TypeOK
  <2> HIDE DEF p, new
  <2>4. docs' \in Seq(Document) /\ Len(docs') = Len(docs)
    BY <1>2, <2>1, <2>2, ReplaceDocument
  <2> QED
    BY <2>1, <2>2, <2>3, <2>4, SameDocuments DEF TypeOK
<1>9. CASE StatSaved(a)
  <2> DEFINE p == [o EXCEPT !.step = "commit save", !.stamp = disk[o.file].stamp]
  <2>1. p \in Operation /\ Grounded(p)
    BY <1>1, <1>2 DEF Operation, Step, Node, Grounded
  <2>2. CASE op' = [op EXCEPT ![a] = p]
    <3> HIDE DEF p
    <3> QED
      BY <1>4, <1>9, <2>1, <2>2 DEF StatSaved
  <2> QED
    BY <1>3, <1>9, <2>2 DEF StatSaved, TypeOK
<1>10. CASE CommitSave(a)
  <2> DEFINE new == [mark_clean_if_version(doc, o.version)
                       EXCEPT !.known = IF doc.open THEN o.stamp ELSE @]
  <2>1. new \in Document
    BY <1>2 DEF mark_clean_if_version, Document, Operation
  <2>2. docs' = [docs EXCEPT ![o.doc] = new] /\ op' = [op EXCEPT ![a] = Idle]
    BY <1>10 DEF CommitSave, Finish
  <2> HIDE DEF new
  <2>3. docs' \in Seq(Document) /\ Len(docs') = Len(docs)
    BY <1>2, <2>1, <2>2, ReplaceDocument
  <2> QED
    BY <1>2, <1>10, <2>2, <2>3, SameDocuments DEF CommitSave, TypeOK
<1> QED
  BY <1>5, <1>6, <1>7, <1>8, <1>9, <1>10

(* The phases of a reload that are not those of a read.                    *)
LEMMA ReloadType ==
    ASSUME TypeOK, NEW a \in Actors, PrepareReload(a) \/ CheckReload(a) \/ ReplaceText(a)
    PROVE  TypeOK'
<1> DEFINE o == op[a]
           doc == docs[o.doc]
<1>1. o.step \notin {"idle", "open", "read", "register"}
  BY DEF PrepareReload, CheckReload, ReplaceText
<1>2. /\ o \in Operation /\ Grounded(o) /\ o.doc \in 1..Len(docs) /\ doc \in Document
      /\ o.file \in Files /\ docs \in Seq(Document)
      /\ Idle \in Operation /\ Grounded(Idle)
  BY <1>1, DocumentOf, IdleType DEF TypeOK
<1>3. ASSUME NEW s \in {"open", "replace"}, op' = [op EXCEPT ![a] = [o EXCEPT !.step = s]],
             UNCHANGED <<disk, registry, clock, raced>>
      PROVE  TypeOK'
  <2> DEFINE p == [o EXCEPT !.step = s]
  <2>1. p \in Operation /\ Grounded(p)
    BY <1>1, <1>2 DEF Operation, Step, Grounded
  <2> HIDE DEF p
  <2>2. op' = [op EXCEPT ![a] = p]
    BY <1>3 DEF p
  <2> QED
    BY <1>3, <2>1, <2>2, OnlyOperation
<1>4. CASE Finish(a) /\ UNCHANGED <<disk, registry, clock, raced>>
  BY <1>2, <1>4, OnlyOperation DEF Finish
<1>5. CASE PrepareReload(a)
  BY <1>3, <1>4, <1>5 DEF PrepareReload, TypeOK
<1>6. CASE CheckReload(a)
  BY <1>3, <1>4, <1>6 DEF CheckReload, TypeOK
<1>7. CASE ReplaceText(a)
  <2> DEFINE new == [replace_text_from_storage(doc, o.text)
                       EXCEPT !.known = IF doc.open THEN o.stamp ELSE @]
  <2>1. new \in Document
    <3>1. o.text \in Nat /\ o.stamp \in Nat
      BY <1>2 DEF Operation
    <3>2. \A x \in Document, k \in Nat : [x EXCEPT !.known = k] \in Document
      BY DEF Document
    <3>3. \A x \in Document, b \in BOOLEAN, v \in Nat :
            [x EXCEPT !.text = o.text, !.dirty = FALSE, !.seen = b, !.version = v] \in Document
      BY <3>1 DEF Document
    <3>4. /\ (doc.seen \/ o.text = disk[doc.file].text) \in BOOLEAN
          /\ (IF doc.text = o.text THEN doc.version ELSE doc.version + 1) \in Nat
      <4>1. (doc.seen \/ o.text = disk[doc.file].text) \in BOOLEAN
        OBVIOUS
      <4>2. doc.version \in Nat
        BY <1>2 DEF Document
      <4>3. (IF doc.text = o.text THEN doc.version ELSE doc.version + 1) \in Nat
        BY <4>2
      <4> QED
        BY <4>1, <4>3
    <3>5. replace_text_from_storage(doc, o.text) \in Document
      BY <1>2, <3>3, <3>4 DEF replace_text_from_storage
    <3>6. replace_text_from_storage(doc, o.text).known \in Nat
      BY <3>5 DEF Document
    <3> QED
      BY <3>1, <3>2, <3>5, <3>6
  <2>2. docs' = [docs EXCEPT ![o.doc] = new] /\ op' = [op EXCEPT ![a] = Idle]
    BY <1>7 DEF ReplaceText, Finish
  <2>3. raced' \in SUBSET Files /\ UNCHANGED <<disk, index, grants, clock>>
    BY <1>2, <1>7 DEF ReplaceText, TypeOK
  <2> HIDE DEF new
  <2>4. docs' \in Seq(Document) /\ Len(docs') = Len(docs)
    BY <1>2, <2>1, <2>2, ReplaceDocument
  <2> QED
    BY <1>2, <2>2, <2>3, <2>4, SameDocuments DEF TypeOK
<1> QED
  BY <1>5, <1>6, <1>7

(* Editing, closing and leaving.                                           *)
LEMMA ConnectionType ==
    ASSUME TypeOK, NEW c \in Connections,
           \/ ApplyEdit(c)
           \/ \E d \in 1..Len(docs), forced \in BOOLEAN : close_document(c, d, forced)
           \/ release_client_access(c)
    PROVE  TypeOK'
<1>1. /\ c \in Actors /\ c \in Clients /\ docs \in Seq(Document) /\ Len(docs) \in Nat
      /\ Idle \in Operation /\ Grounded(Idle)
  BY IdleType DEF Actors, Clients, TypeOK
<1>2. CASE ApplyEdit(c)
  <2> DEFINE d == op[c].doc
             new == [docs[d] EXCEPT !.text = clock + 1, !.version = @ + 1, !.dirty = TRUE]
  <2>1. d \in 1..Len(docs) /\ docs[d] \in Document /\ clock \in Nat
    BY <1>1, <1>2, DocumentOf DEF ApplyEdit, TypeOK
  <2>2. new \in Document
    <3>1. \A doc \in Document : doc.version + 1 \in Nat
      BY DEF Document
    <3>2. \A doc \in Document, t \in Nat, v \in Nat :
            [doc EXCEPT !.text = t, !.version = v, !.dirty = TRUE] \in Document
      BY DEF Document
    <3>3. clock + 1 \in Nat /\ docs[d].version + 1 \in Nat
      BY <2>1, <3>1
    <3> HIDE DEF d
    <3> QED
      BY <2>1, <3>2, <3>3
  <2>3. op' = [op EXCEPT ![c] = Idle] /\ UNCHANGED <<disk, index, grants, raced>>
    BY <1>2 DEF ApplyEdit, Finish
  <2>4. \/ docs' = [docs EXCEPT ![d] = new] /\ clock' = clock + 1
        \/ UNCHANGED <<docs, clock>>
    BY <1>1, <1>2, <2>1 DEF ApplyEdit
  <2> HIDE DEF new
  <2>5. docs' \in Seq(Document) /\ Len(docs') = Len(docs) /\ clock' \in Nat
    BY <1>1, <2>1, <2>2, <2>4, ReplaceDocument
  <2> QED
    BY <1>1, <2>3, <2>5, SameDocuments DEF TypeOK
<1>3. ASSUME NEW d \in 1..Len(docs), NEW forced \in BOOLEAN, close_document(c, d, forced)
      PROVE  TypeOK'
  <2> DEFINE left == Released(docs[d], c)
  <2>1. left \in Document
    BY <1>1, AccessType
  <2>2. docs' = [docs EXCEPT ![d] = left] /\ UNCHANGED <<disk, grants, op, clock, raced>>
    BY <1>3 DEF close_document
  <2>3. index' = index \/ index' = [index EXCEPT ![left.file] = NoDocument]
    BY <1>3 DEF close_document
  <2> HIDE DEF left
  <2>4. docs' \in Seq(Document) /\ Len(docs') = Len(docs)
    BY <1>1, <2>1, <2>2, ReplaceDocument
  <2>5. index' \in [Files -> 0..Len(docs)]
    BY <1>1, <2>3 DEF TypeOK, NoDocument
  <2> QED
    BY <2>2, <2>4, <2>5, SameOperations DEF TypeOK
<1>4. CASE release_client_access(c)
  <2> DEFINE new == [d \in 1..Len(docs) |-> IF docs[d].open THEN Released(docs[d], c)
                                            ELSE docs[d]]
  <2>1. \A d \in 1..Len(docs) : new[d] \in Document
    BY <1>1, AccessType
  <2>2. docs' = [d \in 1..Len(docs) |-> new[d]]
    BY <1>4 DEF release_client_access
  <2> HIDE DEF new
  <2>3. docs' \in Seq(Document) /\ Len(docs') = Len(docs)
    BY <1>1, <2>1, <2>2, MapDocuments
  <2>4. index' \in [Files -> 0..Len(docs)]
    <3>1. \A f \in Files : index[f] \in 0..Len(docs) /\ 0 \in 0..Len(docs)
      BY <1>1 DEF TypeOK
    <3> QED
      BY <1>4, <3>1 DEF release_client_access, NoDocument
  <2> QED
    BY <1>4, <2>3, <2>4, SameOperations DEF release_client_access, TypeOK
<1> QED
  BY <1>2, <1>3, <1>4

(* Other programs' writes.                                                 *)
LEMMA ExternalType ==
    ASSUME TypeOK, NEW f \in Files, ExternalStep(f)
    PROVE  TypeOK'
<1> DEFINE new == [d \in 1..Len(docs) |-> IF docs[d].file = f THEN [docs[d] EXCEPT !.seen = FALSE]
                                          ELSE docs[d]]
<1>1. docs \in Seq(Document) /\ Len(docs) \in Nat /\ disk[f] \in Node /\ clock + 1 \in Nat
  BY DEF TypeOK
<1>2. Changed(f)
  BY DEF ExternalStep, WriteInPlace, ReplaceFile, RemoveFile
<1>3. \A d \in 1..Len(docs) : new[d] \in Document
  <2>1. \A doc \in Document : [doc EXCEPT !.seen = FALSE] \in Document
    BY DEF Document
  <2> QED
    BY <1>1, <2>1
<1>4. docs' = [d \in 1..Len(docs) |-> new[d]]
  BY <1>2 DEF Changed
<1> HIDE DEF new
<1>5. docs' \in Seq(Document) /\ Len(docs') = Len(docs)
  BY <1>1, <1>3, <1>4, MapDocuments
<1>6. raced' \in SUBSET Files /\ UNCHANGED <<index, grants>>
  BY <1>2 DEF Changed, TypeOK
<1>7. disk' \in [Files -> Node] /\ clock' \in Nat
  <2>1. [node |-> clock + 1, stamp |-> clock + 1, text |-> clock + 1] \in Node
    BY <1>1 DEF Node
  <2>2. [disk[f] EXCEPT !.stamp = clock + 1, !.text = clock + 1] \in Node
    BY <1>1 DEF Node
  <2>3. Missing \in Node
    BY DEF Missing, Node
  <2>4. CASE WriteInPlace(f)
    <3>1. disk' = [disk EXCEPT ![f] = [disk[f] EXCEPT !.stamp = clock + 1, !.text = clock + 1]]
      BY <2>4 DEF WriteInPlace, TypeOK
    <3> QED
      BY <1>1, <2>2, <2>4, <3>1 DEF WriteInPlace, TypeOK
  <2>5. CASE ReplaceFile(f)
    BY <1>1, <2>1, <2>5 DEF ReplaceFile, TypeOK
  <2>6. CASE RemoveFile(f)
    BY <2>3, <2>6 DEF RemoveFile, TypeOK
  <2> QED
    BY <2>4, <2>5, <2>6 DEF ExternalStep
<1>8. op' \in [Actors -> Operation] /\ \A a \in Actors : Grounded(op[a])'
  <2>1. ASSUME op' = op PROVE op' \in [Actors -> Operation] /\ \A a \in Actors : Grounded(op[a])'
    BY <1>5, <2>1 DEF TypeOK, Grounded
  <2>2. CASE WriteInPlace(f)
    <3>1. \A o \in Operation : [o EXCEPT !.text = clock + 1] \in Operation
      BY <1>1 DEF Operation
    <3>2. ASSUME NEW a \in Actors
          PROVE  op'[a] \in Operation /\ Grounded(op[a])'
      <4>1. op[a] \in Operation /\ Grounded(op[a])
        BY DEF TypeOK
      <4>2. op'[a] = op[a] \/ op'[a] = [op[a] EXCEPT !.text = clock + 1]
        BY <2>2 DEF WriteInPlace
      <4>3. op'[a] \in Operation
        BY <3>1, <4>1, <4>2
      <4>4. op'[a].doc = op[a].doc /\ op'[a].step = op[a].step /\ op'[a].file = op[a].file
        BY <4>1, <4>2 DEF Operation
      <4> QED
        BY <1>5, <4>1, <4>3, <4>4 DEF Grounded
    <3>3. op' = [a \in Actors |-> op'[a]]
      BY <2>2 DEF WriteInPlace
    <3> QED
      BY <3>2, <3>3
  <2> QED
    BY <2>1, <2>2 DEF ExternalStep, ReplaceFile, RemoveFile
<1> QED
  BY <1>5, <1>6, <1>7, <1>8 DEF TypeOK

(* Every step of the workspace keeps the types.                            *)
LEMMA TypeStep == TypeOK /\ [Next]_vars => TypeOK'
<1> SUFFICES ASSUME TypeOK, [Next]_vars PROVE TypeOK'
  OBVIOUS
<1>1. ASSUME NEW a \in Actors, OpenStep(a) \/ FailIO(a) PROVE TypeOK'
  BY <1>1, OpenType, RegisterType DEF OpenStep
<1>2. ASSUME NEW a \in Actors, SaveStep(a) PROVE TypeOK'
  BY <1>2, StartType, SaveType DEF SaveStep
<1>3. ASSUME NEW a \in Actors, ReloadStep(a) PROVE TypeOK'
  BY <1>3, StartType, ReloadType DEF ReloadStep
<1>4. ASSUME NEW c \in Connections, ConnectionStep(c) PROVE TypeOK'
  BY <1>4, StartType, ConnectionType DEF ConnectionStep, Actors
<1>5. ASSUME NEW f \in Files, ExternalStep(f) PROVE TypeOK'
  BY <1>5, ExternalType
<1>6. CASE UNCHANGED vars
  BY <1>6 DEF vars, registry, TypeOK, Grounded
<1> QED
  BY <1>1, <1>2, <1>3, <1>4, <1>5, <1>6 DEF Next

(* The registry, the disk and the operations in progress keep their types: *)
(* no operation refers to a document that was never registered, and the    *)
(* single-file grants never exceed the limit of roots.                     *)
THEOREM WorkspaceTypeCorrect == Spec => []TypeOK
<1>1. Init => TypeOK
  <2> SUFFICES ASSUME Init PROVE TypeOK
    OBVIOUS
  <2>1. docs \in Seq(Document) /\ Len(docs) = 0
    BY DEF Init
  <2>2. op \in [Actors -> Operation] /\ \A a \in Actors : Grounded(op[a])
    BY <2>1, IdleType DEF Init
  <2>3. disk \in [Files -> Node] /\ index \in [Files -> 0..Len(docs)]
    BY <2>1 DEF Init, Node, NoDocument
  <2> QED
    BY <2>1, <2>2, <2>3, LimitsAssumption DEF Init, TypeOK
<1> QED
  BY <1>1, TypeStep, PTL DEF Spec

--------------------------------------------------------------------------------
(* What a step may do to the registry: nothing, give a client access to a  *)
(* document, add a document, or take accesses away.                        *)

SameDocument(d) ==
    /\ docs'[d].file = docs[d].file
    /\ docs'[d].open <=> docs[d].open
    /\ docs'[d].access = docs[d].access

SameRegistry ==
    /\ Len(docs') = Len(docs) /\ index' = index
    /\ \A d \in 1..Len(docs) : SameDocument(d)

Leased(d, c) ==
    /\ Len(docs') = Len(docs) /\ index' = index
    /\ \A e \in 1..Len(docs) \ {d} : SameDocument(e)
    /\ docs'[d].file = docs[d].file
    /\ docs'[d].open <=> docs[d].open
    /\ docs'[d].access = docs[d].access \cup {c}
    /\ c \in docs[d].access \/ enforce_document_ceilings(c)

Added(f, c) ==
    LET n == Len(docs) + 1
    IN  /\ index[f] = NoDocument /\ index' = [index EXCEPT ![f] = n]
        /\ Len(docs') = n
        /\ \A d \in 1..Len(docs) : SameDocument(d)
        /\ docs'[n].file = f /\ docs'[n].open /\ docs'[n].access = {c}
        /\ enforce_document_ceilings(c)

Shrunk ==
    /\ Len(docs') = Len(docs)
    /\ \A d \in 1..Len(docs) :
          /\ docs'[d].file = docs[d].file
          /\ docs'[d].open => docs[d].open /\ docs'[d].access # {}
          /\ docs'[d].access \subseteq docs[d].access
    /\ index' = [f \in Files |-> IF index[f] # NoDocument /\ docs'[index[f]].open
                                   THEN index[f] ELSE NoDocument]

(* The commit of an open, on a path that is open already.                  *)
LEMMA LeaseChange ==
    ASSUME TypeOK, NEW d \in 1..Len(docs), NEW c \in Clients, ExistingLease(d, c), index' = index
    PROVE  SameRegistry \/ Leased(d, c)
<1>1. docs \in Seq(Document) /\ docs[d] \in Document
  BY DEF TypeOK
<1>2. CASE docs' = docs
  BY <1>2 DEF SameRegistry, SameDocument
<1>3. CASE /\ docs' = [docs EXCEPT ![d] = acquire_access(@, c)]
           /\ c \in docs[d].access \/ enforce_document_ceilings(c)
  <2> DEFINE doc == acquire_access(docs[d], c)
  <2>1. /\ doc.file = docs[d].file /\ doc.access = docs[d].access \cup {c}
        /\ doc.open <=> docs[d].open
    BY <1>1 DEF acquire_access, Document
  <2>2. doc \in Document
    BY <1>1, AccessType
  <2> HIDE DEF doc
  <2>3. docs' = [docs EXCEPT ![d] = doc]
    BY <1>3 DEF doc
  <2>4. Len(docs') = Len(docs) /\ docs'[d] = doc
    BY <1>1, <2>2, <2>3, ReplaceDocument
  <2>5. \A e \in 1..Len(docs) \ {d} : SameDocument(e)
    BY <1>1, <2>3 DEF SameDocument
  <2> QED
    BY <1>3, <2>1, <2>4, <2>5 DEF Leased
<1> QED
  BY <1>2, <1>3 DEF ExistingLease

(* The actions that open files.                                            *)
LEMMA OpenChange ==
    ASSUME TypeOK, NEW a \in Actors, OpenStep(a) \/ FailIO(a)
    PROVE  \/ SameRegistry
           \/ \E d \in 1..Len(docs), c \in Clients : Leased(d, c)
           \/ \E f \in Files, c \in Clients : Added(f, c)
<1> DEFINE c == ClientOf(a)
           o == op[a]
<1>1. c \in Clients /\ docs \in Seq(Document)
  BY ClientOfType DEF TypeOK
<1>2. CASE UNCHANGED registry
  BY <1>2 DEF registry, SameRegistry, SameDocument
<1>3. ASSUME NEW f \in Files, OpenExisting(a, f)
      PROVE  SameRegistry \/ \E d \in 1..Len(docs), k \in Clients : Leased(d, k)
  <2>1. index[f] \in 1..Len(docs)
    BY <1>3 DEF OpenExisting, TypeOK, NoDocument
  <2> QED
    BY <1>1, <1>3, <2>1, LeaseChange DEF OpenExisting
<1>4. CASE Register(a)
  <2>1. o \in Operation /\ o.file \in Files
    BY <1>4, OperationOf DEF Register, Registering, Grounded
  <2>2. CASE index[o.file] # NoDocument
    <3>1. index[o.file] \in 1..Len(docs)
      BY <2>1, <2>2 DEF TypeOK, NoDocument
    <3> QED
      BY <1>1, <1>4, <2>2, <3>1, LeaseChange DEF Register
  <2>3. CASE /\ index[o.file] = NoDocument /\ enforce_document_ceilings(c)
             /\ AddDocument(o, c)
    <3> DEFINE doc == NewDocument(o, c)
    <3>1. doc.file = o.file /\ doc.open /\ doc.access = {c}
      BY DEF NewDocument
    <3>2. docs' = Append(docs, doc) /\ index' = [index EXCEPT ![o.file] = Len(docs) + 1]
      BY <2>3 DEF AddDocument
    <3> HIDE DEF doc
    <3>3. Len(docs') = Len(docs) + 1 /\ docs'[Len(docs) + 1] = doc
      BY <1>1, <3>2
    <3>4. \A d \in 1..Len(docs) : SameDocument(d)
      BY <1>1, <3>2 DEF SameDocument
    <3>5. Added(o.file, c)
      BY <2>3, <3>1, <3>2, <3>3, <3>4 DEF Added
    <3> QED
      BY <1>1, <2>1, <3>5
  <2> QED
    BY <1>2, <1>4, <2>2, <2>3 DEF Register
<1> QED
  BY <1>2, <1>3, <1>4 DEF OpenStep, PrepareOpen, OpenHandle, ReadHandle, FailIO

(* Saves, reloads, edits and external writes leave the registry alone.     *)
LEMMA ContentSteps ==
    ASSUME TypeOK,
           \/ \E a \in Actors : SaveStep(a) \/ ReloadStep(a)
           \/ \E c \in Connections : ApplyEdit(c) \/ \E d \in 1..Len(docs) : FindDocument(c, d)
           \/ \E f \in Files : ExternalStep(f)
    PROVE  SameRegistry
<1>1. CASE UNCHANGED registry
  BY <1>1 DEF registry, SameRegistry, SameDocument
<1>2. ASSUME NEW a \in Actors, RenameTemp(a) \/ CommitSave(a) \/ ReplaceText(a) \/ ApplyEdit(a)
      PROVE  SameRegistry
  <2> DEFINE o == op[a]
             doc == docs[o.doc]
             renamed == [doc EXCEPT !.seen = TRUE]
             committed == [mark_clean_if_version(doc, o.version)
                             EXCEPT !.known = IF doc.open THEN o.stamp ELSE @]
             replaced == [replace_text_from_storage(doc, o.text)
                            EXCEPT !.known = IF doc.open THEN o.stamp ELSE @]
             edited == [doc EXCEPT !.text = clock + 1, !.version = @ + 1, !.dirty = TRUE]
  <2>1. o.doc \in 1..Len(docs) /\ doc \in Document /\ docs \in Seq(Document)
    BY <1>2, DocumentOf DEF RenameTemp, CommitSave, ReplaceText, ApplyEdit, TypeOK
  <2>2. ASSUME NEW new, docs' = [docs EXCEPT ![o.doc] = new], index' = index,
               new.file = doc.file, new.open <=> doc.open, new.access = doc.access
        PROVE  SameRegistry
    <3>1. Len(docs') = Len(docs)
      BY <2>1, <2>2
    <3>2. ASSUME NEW e \in 1..Len(docs) PROVE SameDocument(e)
      BY <2>1, <2>2 DEF SameDocument
    <3> QED
      BY <2>2, <3>1, <3>2 DEF SameRegistry
  <2>3. CASE RenameTemp(a)
    <3>1. renamed.file = doc.file /\ (renamed.open <=> doc.open) /\ renamed.access = doc.access
      BY <2>1 DEF Document
    <3>2. docs' = [docs EXCEPT ![o.doc] = renamed] /\ index' = index
      BY <2>1, <2>3 DEF RenameTemp
    <3> HIDE DEF renamed
    <3> QED
      BY <2>2, <3>1, <3>2
  <2>4. CASE CommitSave(a)
    <3>1. committed.file = doc.file /\ (committed.open <=> doc.open)
          /\ committed.access = doc.access
      BY <2>1 DEF Document, mark_clean_if_version
    <3>2. docs' = [docs EXCEPT ![o.doc] = committed] /\ index' = index
      BY <2>4 DEF CommitSave
    <3> HIDE DEF committed
    <3> QED
      BY <2>2, <3>1, <3>2
  <2>5. CASE ReplaceText(a)
    <3>1. replaced.file = doc.file /\ (replaced.open <=> doc.open)
          /\ replaced.access = doc.access
      BY <2>1 DEF Document, replace_text_from_storage
    <3>2. docs' = [docs EXCEPT ![o.doc] = replaced] /\ index' = index
      BY <2>5 DEF ReplaceText
    <3> HIDE DEF replaced
    <3> QED
      BY <2>2, <3>1, <3>2
  <2>6. CASE ApplyEdit(a)
    <3>1. edited.file = doc.file /\ (edited.open <=> doc.open) /\ edited.access = doc.access
      BY <2>1 DEF Document
    <3>2. docs' = [docs EXCEPT ![o.doc] = edited] \/ docs' = docs
      BY <2>1, <2>6 DEF ApplyEdit
    <3>3. index' = index
      BY <2>6 DEF ApplyEdit
    <3> HIDE DEF edited
    <3> QED
      BY <2>2, <3>1, <3>2, <3>3 DEF SameRegistry, SameDocument
  <2> QED
    BY <1>2, <2>3, <2>4, <2>5, <2>6
<1>3. ASSUME NEW f \in Files, ExternalStep(f) PROVE SameRegistry
  <2>1. Changed(f) /\ docs \in Seq(Document)
    BY <1>3 DEF ExternalStep, WriteInPlace, ReplaceFile, RemoveFile, TypeOK
  <2>2. Len(docs') = Len(docs) /\ index' = index
    BY <2>1 DEF Changed
  <2>3. ASSUME NEW e \in 1..Len(docs) PROVE SameDocument(e)
    <3>1. docs[e] \in Document
      BY <2>1
    <3>2. docs'[e] = docs[e] \/ docs'[e] = [docs[e] EXCEPT !.seen = FALSE]
      BY <2>1 DEF Changed
    <3> QED
      BY <3>1, <3>2 DEF SameDocument, Document
  <2> QED
    BY <2>2, <2>3 DEF SameRegistry
<1>4. ASSUME NEW a \in Actors, SaveStep(a) PROVE SameRegistry
  BY <1>1, <1>2, <1>4 DEF SaveStep, AuthorizeSave, PrepareSave, CaptureSave, CheckTarget, StatSaved
<1>5. ASSUME NEW a \in Actors, ReloadStep(a) PROVE SameRegistry
  BY <1>1, <1>2, <1>5 DEF ReloadStep, AuthorizeReload, PrepareReload, CheckReload
<1>6. ASSUME NEW c \in Connections,
             ApplyEdit(c) \/ \E d \in 1..Len(docs) : FindDocument(c, d)
      PROVE  SameRegistry
  BY <1>1, <1>2, <1>6 DEF FindDocument, Actors
<1> QED
  BY <1>3, <1>4, <1>5, <1>6

(* Closing a document and leaving only take accesses away, and unregister  *)
(* exactly the documents nobody has access to any more.                    *)
LEMMA ShrinkingSteps ==
    ASSUME TypeOK, RegistryIsConsistent, NEW c \in Connections,
           \/ \E d \in 1..Len(docs), forced \in BOOLEAN : close_document(c, d, forced)
           \/ release_client_access(c)
    PROVE  Shrunk
<1>1. docs \in Seq(Document) /\ c \in Clients
  BY DEF TypeOK, Clients
<1>2. ASSUME NEW doc \in Document
      PROVE  LET left == Released(doc, c)
             IN  /\ left.file = doc.file
                 /\ left.open => doc.open /\ left.access # {}
                 /\ left.access \subseteq doc.access
  BY <1>1 DEF Released, release_access, Document
<1>3. ASSUME NEW d \in 1..Len(docs), NEW forced \in BOOLEAN, close_document(c, d, forced)
      PROVE  Shrunk
  <2> DEFINE left == Released(docs[d], c)
  <2>1. docs[d] \in Document /\ docs[d].open
    BY <1>1, <1>3 DEF close_document
  <2>2. /\ left.file = docs[d].file
        /\ left.open => docs[d].open /\ left.access # {}
        /\ left.access \subseteq docs[d].access
    BY <1>2, <2>1
  <2>3. /\ docs' = [docs EXCEPT ![d] = left]
        /\ index' = IF left.open THEN index ELSE [index EXCEPT ![left.file] = NoDocument]
    BY <1>3 DEF close_document
  <2> HIDE DEF left
  <2>4. Len(docs') = Len(docs) /\ docs'[d] = left
        /\ \A e \in 1..Len(docs) \ {d} : docs'[e] = docs[e]
    BY <1>1, <2>3
  <2>5. \A e \in Registered : docs[e].access # {} /\ index[docs[e].file] = e
    BY DEF RegistryIsConsistent
  <2>6. ASSUME NEW e \in 1..Len(docs)
        PROVE  /\ docs'[e].file = docs[e].file
               /\ docs'[e].open => docs[e].open /\ docs'[e].access # {}
               /\ docs'[e].access \subseteq docs[e].access
    BY <2>2, <2>4, <2>5 DEF Registered
  <2>7. ASSUME NEW f \in Files
        PROVE  index'[f] = IF index[f] # NoDocument /\ docs'[index[f]].open
                             THEN index[f] ELSE NoDocument
    <3>1. index \in [Files -> 0..Len(docs)] /\ Len(docs) \in Nat
      BY DEF TypeOK
    <3>2. index[f] # NoDocument => /\ index[f] \in 1..Len(docs)
                                   /\ docs[index[f]].open /\ docs[index[f]].file = f
      BY <3>1 DEF RegistryIsConsistent, NoDocument
    <3>3. index[docs[d].file] = d
      BY <2>1, <2>5 DEF Registered
    <3>4. CASE left.open
      BY <2>3, <2>4, <3>1, <3>2, <3>4
    <3>5. CASE ~left.open /\ f = docs[d].file
      BY <2>2, <2>3, <2>4, <3>1, <3>2, <3>3, <3>5
    <3>6. CASE ~left.open /\ f # docs[d].file
      BY <2>2, <2>3, <2>4, <3>1, <3>2, <3>3, <3>6
    <3> QED
      BY <3>4, <3>5, <3>6
  <2>8. index' = [f \in Files |-> index'[f]]
    BY <2>3 DEF TypeOK
  <2> QED
    BY <2>4, <2>6, <2>7, <2>8 DEF Shrunk
<1>4. CASE release_client_access(c)
  <2>1. Len(docs') = Len(docs)
    BY <1>1, <1>4 DEF release_client_access
  <2>2. ASSUME NEW e \in 1..Len(docs)
        PROVE  /\ docs'[e].file = docs[e].file
               /\ docs'[e].open => docs[e].open /\ docs'[e].access # {}
               /\ docs'[e].access \subseteq docs[e].access
    <3>1. docs'[e] = IF docs[e].open THEN Released(docs[e], c) ELSE docs[e]
      BY <1>1, <1>4 DEF release_client_access
    <3> QED
      BY <1>1, <1>2, <3>1
  <2> QED
    BY <1>4, <2>1, <2>2 DEF Shrunk, release_client_access
<1> QED
  BY <1>3, <1>4

(* Every step does one of the four things to the registry.                 *)
LEMMA RegistrySteps ==
    ASSUME TypeOK, RegistryIsConsistent, [Next]_vars
    PROVE  \/ SameRegistry
           \/ \E d \in 1..Len(docs), c \in Clients : Leased(d, c)
           \/ \E f \in Files, c \in Clients : Added(f, c)
           \/ Shrunk
<1>1. CASE UNCHANGED vars
  BY <1>1 DEF vars, registry, SameRegistry, SameDocument
<1>2. ASSUME NEW a \in Actors, OpenStep(a) \/ FailIO(a)
      PROVE  \/ SameRegistry
             \/ \E d \in 1..Len(docs), c \in Clients : Leased(d, c)
             \/ \E f \in Files, c \in Clients : Added(f, c)
  BY <1>2, OpenChange
<1>3. ASSUME NEW a \in Actors, SaveStep(a) \/ ReloadStep(a) PROVE SameRegistry
  BY <1>3, ContentSteps
<1>4. ASSUME NEW c \in Connections, ConnectionStep(c) PROVE SameRegistry \/ Shrunk
  BY <1>4, ContentSteps, ShrinkingSteps DEF ConnectionStep
<1>5. ASSUME NEW f \in Files, ExternalStep(f) PROVE SameRegistry
  BY <1>5, ContentSteps
<1> QED
  BY <1>1, <1>2, <1>3, <1>4, <1>5 DEF Next

(* The four things keep the path index and the documents in step.          *)
LEMMA ConsistentStep ==
    ASSUME TypeOK, RegistryIsConsistent, TypeOK', [Next]_vars
    PROVE  RegistryIsConsistent'
<1>1. /\ index \in [Files -> 0..Len(docs)] /\ Len(docs) \in Nat
      /\ index' \in [Files -> 0..Len(docs')] /\ Len(docs') \in Nat
      /\ \A d \in 1..Len(docs) : docs[d].file \in Files
  <2>1. \A d \in 1..Len(docs) : docs[d] \in Document
    BY DEF TypeOK
  <2>2. \A d \in 1..Len(docs) : docs[d].file \in Files
    BY <2>1 DEF Document
  <2> QED
    BY <2>2 DEF TypeOK
<1>2. /\ \A f \in Files : index[f] # NoDocument =>
            /\ index[f] \in 1..Len(docs)
            /\ docs[index[f]].open /\ docs[index[f]].file = f
      /\ \A d \in 1..Len(docs) : docs[d].open =>
            index[docs[d].file] = d /\ docs[d].access # {}
  BY <1>1 DEF RegistryIsConsistent, Registered, NoDocument
<1> SUFFICES /\ \A f \in Files : index'[f] # NoDocument =>
                   docs'[index'[f]].open /\ docs'[index'[f]].file = f
             /\ \A d \in 1..Len(docs') : docs'[d].open =>
                   index'[docs'[d].file] = d /\ docs'[d].access # {}
  BY DEF RegistryIsConsistent, Registered
<1>3. CASE SameRegistry
  BY <1>1, <1>2, <1>3 DEF SameRegistry, SameDocument
<1>4. ASSUME NEW d \in 1..Len(docs), NEW c \in Clients, Leased(d, c)
      PROVE  /\ \A f \in Files : index'[f] # NoDocument =>
                   docs'[index'[f]].open /\ docs'[index'[f]].file = f
             /\ \A e \in 1..Len(docs') : docs'[e].open =>
                   index'[docs'[e].file] = e /\ docs'[e].access # {}
  <2>1. \A e \in 1..Len(docs) :
           /\ docs'[e].file = docs[e].file
           /\ docs'[e].open <=> docs[e].open
           /\ docs[e].access \subseteq docs'[e].access
    BY <1>4 DEF Leased, SameDocument
  <2> QED
    BY <1>1, <1>2, <1>4, <2>1 DEF Leased
<1>5. ASSUME NEW f \in Files, NEW c \in Clients, Added(f, c)
      PROVE  /\ \A g \in Files : index'[g] # NoDocument =>
                   docs'[index'[g]].open /\ docs'[index'[g]].file = g
             /\ \A e \in 1..Len(docs') : docs'[e].open =>
                   index'[docs'[e].file] = e /\ docs'[e].access # {}
  <2> DEFINE n == Len(docs) + 1
  <2>1. /\ \A e \in 1..Len(docs) : SameDocument(e)
        /\ docs'[n].file = f /\ docs'[n].open /\ docs'[n].access = {c}
        /\ Len(docs') = n /\ index' = [index EXCEPT ![f] = n] /\ index[f] = NoDocument
    BY <1>5 DEF Added
  <2>2. ASSUME NEW g \in Files, index'[g] # NoDocument
        PROVE  docs'[index'[g]].open /\ docs'[index'[g]].file = g
    BY <1>1, <1>2, <2>1, <2>2 DEF SameDocument
  <2>3. ASSUME NEW e \in 1..Len(docs'), docs'[e].open
        PROVE  index'[docs'[e].file] = e /\ docs'[e].access # {}
    <3>1. CASE e = n
      BY <1>1, <2>1, <3>1
    <3>2. CASE e # n
      <4>1. e \in 1..Len(docs)
        BY <1>1, <2>1, <3>2
      <4>2. docs[e].open /\ docs'[e].file = docs[e].file /\ docs'[e].access = docs[e].access
        BY <2>1, <2>3, <4>1 DEF SameDocument
      <4>3. docs[e].file # f
        BY <1>2, <2>1, <4>1, <4>2 DEF NoDocument
      <4> QED
        BY <1>1, <1>2, <2>1, <4>1, <4>2, <4>3
    <3> QED
      BY <3>1, <3>2
  <2> QED
    BY <2>2, <2>3
<1>6. CASE Shrunk
  BY <1>1, <1>2, <1>6 DEF Shrunk, NoDocument
<1> QED
  BY <1>3, <1>4, <1>5, <1>6, RegistrySteps

(* The path index and the documents stay in step: the expect on every open *)
(* of a known path never fires, and two opens that read the same file at   *)
(* once share one document.                                                *)
THEOREM RegistryStaysConsistent == Spec => []RegistryIsConsistent
<1>1. Init => RegistryIsConsistent
  BY DEF Init, RegistryIsConsistent, Registered, NoDocument
<1>2. TypeOK /\ TypeOK' /\ RegistryIsConsistent /\ [Next]_vars => RegistryIsConsistent'
  BY ConsistentStep
<1> QED
  BY <1>1, <1>2, WorkspaceTypeCorrect, PTL DEF Spec

--------------------------------------------------------------------------------
(* The ceilings.                                                           *)

(* The registered documents, and those of a client, are finitely many.     *)
LEMMA FinitelyMany ==
    ASSUME TypeOK
    PROVE  /\ IsFiniteSet(Registered) /\ Cardinality(Registered) \in Nat
           /\ \A c \in Clients : IsFiniteSet(HeldBy(c)) /\ Cardinality(HeldBy(c)) \in Nat
<1>1. Len(docs) \in Nat /\ Registered \in SUBSET Nat /\ \A d \in Registered : d <= Len(docs)
  BY DEF TypeOK, Registered
<1>2. IsFiniteSet(Registered)
  BY <1>1, FS_BoundedSetOfNaturals
<1>3. \A c \in Clients : HeldBy(c) \in SUBSET Registered
  BY DEF HeldBy
<1>4. \A c \in Clients : IsFiniteSet(HeldBy(c))
  BY <1>2, <1>3, FS_Subset
<1> QED
  BY <1>2, <1>4, FS_CardinalityType

(* Adding an element makes a finite set larger by one at most.             *)
LEMMA OneMore ==
    ASSUME NEW S, IsFiniteSet(S), NEW x, NEW T \in SUBSET (S \cup {x}), NEW limit \in Nat,
           Cardinality(S) < limit
    PROVE  Cardinality(T) <= limit
<1>1. /\ IsFiniteSet(S \cup {x}) /\ Cardinality(S) \in Nat
      /\ Cardinality(S \cup {x}) <= Cardinality(S) + 1
  BY FS_AddElement, FS_CardinalityType
<1>2. IsFiniteSet(T) /\ Cardinality(T) <= Cardinality(S \cup {x})
  BY <1>1, FS_Subset
<1>3. Cardinality(T) \in Nat /\ Cardinality(S \cup {x}) \in Nat
  BY <1>1, <1>2, FS_CardinalityType
<1> QED
  BY <1>1, <1>2, <1>3

(* What is within the limit stays within it when it shrinks.               *)
LEMMA NoMore ==
    ASSUME NEW S, IsFiniteSet(S), NEW T \in SUBSET S, NEW limit \in Nat, Cardinality(S) <= limit
    PROVE  Cardinality(T) <= limit
<1>1. IsFiniteSet(T) /\ Cardinality(T) <= Cardinality(S)
  BY FS_Subset
<1>2. Cardinality(T) \in Nat /\ Cardinality(S) \in Nat
  BY <1>1, FS_CardinalityType
<1> QED
  BY <1>1, <1>2

(* The four things a step does to the registry keep it within the limits.  *)
LEMMA CeilingsStep ==
    ASSUME TypeOK, RegistryIsConsistent, CeilingsHold, [Next]_vars
    PROVE  CeilingsHold'
<1>1. MaxServerDocuments \in Nat /\ MaxClientDocuments \in Nat /\ Len(docs) \in Nat
  BY LimitsAssumption DEF TypeOK
<1>2. IsFiniteSet(Registered) /\ \A c \in Clients : IsFiniteSet(HeldBy(c))
  BY FinitelyMany
<1>3. /\ Cardinality(Registered) <= MaxServerDocuments
      /\ \A c \in Clients : Cardinality(HeldBy(c)) <= MaxClientDocuments
  BY DEF CeilingsHold
<1>4. ASSUME Registered' \in SUBSET Registered,
             \A k \in Clients : HeldBy(k)' \in SUBSET HeldBy(k)
      PROVE  CeilingsHold'
  BY <1>1, <1>2, <1>3, <1>4, NoMore DEF CeilingsHold
<1>5. CASE SameRegistry
  BY <1>4, <1>5 DEF SameRegistry, SameDocument, Registered, HeldBy
<1>6. CASE Shrunk
  BY <1>4, <1>6 DEF Shrunk, Registered, HeldBy
<1>7. ASSUME NEW d \in 1..Len(docs), NEW c \in Clients, Leased(d, c) PROVE CeilingsHold'
  <2>1. /\ Registered' \in SUBSET Registered
        /\ \A k \in Clients \ {c} : HeldBy(k)' \in SUBSET HeldBy(k)
        /\ HeldBy(c)' \in SUBSET (HeldBy(c) \cup {d})
    BY <1>7 DEF Leased, SameDocument, Registered, HeldBy
  <2>2. CASE c \in docs[d].access
    <3>1. HeldBy(c)' \in SUBSET HeldBy(c)
      BY <1>7, <2>2 DEF Leased, SameDocument, Registered, HeldBy
    <3> QED
      BY <1>4, <2>1, <3>1
  <2>3. CASE enforce_document_ceilings(c)
    <3>1. Cardinality(HeldBy(c)') <= MaxClientDocuments
      BY <1>1, <1>2, <2>1, <2>3, OneMore DEF enforce_document_ceilings
    <3>2. Cardinality(Registered') <= MaxServerDocuments
      BY <1>1, <1>2, <1>3, <2>1, NoMore
    <3>3. \A k \in Clients \ {c} : Cardinality(HeldBy(k)') <= MaxClientDocuments
      BY <1>1, <1>2, <1>3, <2>1, NoMore
    <3> QED
      BY <3>1, <3>2, <3>3 DEF CeilingsHold
  <2> QED
    BY <1>7, <2>2, <2>3 DEF Leased
<1>8. ASSUME NEW f \in Files, NEW c \in Clients, Added(f, c) PROVE CeilingsHold'
  <2> DEFINE n == Len(docs) + 1
  <2>1. /\ \A e \in 1..Len(docs) : SameDocument(e)
        /\ docs'[n].access = {c} /\ Len(docs') = n /\ enforce_document_ceilings(c)
    BY <1>8 DEF Added
  <2>2. \A e \in 1..Len(docs') : e = n \/ e \in 1..Len(docs)
    BY <1>1, <2>1
  <2>3. Registered' \in SUBSET (Registered \cup {n})
    BY <2>1, <2>2 DEF SameDocument, Registered
  <2>4. HeldBy(c)' \in SUBSET (HeldBy(c) \cup {n})
    BY <2>1, <2>2 DEF SameDocument, Registered, HeldBy
  <2>5. \A k \in Clients \ {c} : HeldBy(k)' \in SUBSET HeldBy(k)
    BY <2>1, <2>2 DEF SameDocument, Registered, HeldBy
  <2> HIDE DEF n
  <2>6. Cardinality(Registered') <= MaxServerDocuments
    BY <1>1, <1>2, <2>1, <2>3, OneMore DEF enforce_document_ceilings
  <2>7. Cardinality(HeldBy(c)') <= MaxClientDocuments
    BY <1>1, <1>2, <2>1, <2>4, OneMore DEF enforce_document_ceilings
  <2>8. \A k \in Clients \ {c} : Cardinality(HeldBy(k)') <= MaxClientDocuments
    BY <1>1, <1>2, <1>3, <2>5, NoMore
  <2> QED
    BY <2>6, <2>7, <2>8 DEF CeilingsHold
<1> QED
  BY <1>5, <1>6, <1>7, <1>8, RegistrySteps

(* Neither the server nor a client ever has more documents open than its   *)
(* ceiling, however many opens read their files at once before the first   *)
(* of them is registered.                                                  *)
THEOREM CeilingsAreKept == Spec => []CeilingsHold
<1>1. Init => CeilingsHold
  <2> SUFFICES ASSUME Init PROVE CeilingsHold
    OBVIOUS
  <2>1. Registered = {} /\ \A c \in Clients : HeldBy(c) = {}
    BY DEF Init, Registered, HeldBy
  <2> QED
    BY <2>1, FS_EmptySet, LimitsAssumption DEF CeilingsHold
<1>2. TypeOK /\ RegistryIsConsistent /\ CeilingsHold /\ [Next]_vars => CeilingsHold'
  BY CeilingsStep
<1> QED
  BY <1>1, <1>2, WorkspaceTypeCorrect, RegistryStaysConsistent, PTL DEF Spec

--------------------------------------------------------------------------------
(* Saving.  An operation on a document keeps the document open: the client *)
(* it works for has access, and gives it up only between its operations.   *)
Holds(b) ==
    /\ op[b].step = "idle" => op[b].doc = NoDocument
    /\ op[b].doc # NoDocument =>
          /\ docs[op[b].doc].open /\ ClientOf(b) \in docs[op[b].doc].access
          /\ docs[op[b].doc].file = op[b].file

(* What a step does to one operation: it goes on, ends, or starts, on a    *)
(* file that is not open yet or on an open document.                       *)
GoesOn(b) ==
    /\ op'[b].doc = op[b].doc /\ op'[b].file = op[b].file
    /\ op'[b].step = "idle" => op[b].step = "idle"
StartsOpen(b) == op'[b].step # "idle" /\ op'[b].doc = NoDocument
StartsOn(b, d) ==
    /\ op'[b].step # "idle" /\ op'[b].doc = d /\ op'[b].file = docs[d].file
    /\ docs[d].open /\ ClientOf(b) \in docs[d].access /\ docs' = docs
OperationChange(b) ==
    GoesOn(b) \/ op'[b] = Idle \/ StartsOpen(b) \/ \E d \in 1..Len(docs) : StartsOn(b, d)

(* A step that changes one operation only.                                 *)
LEMMA OneOperation ==
    ASSUME TypeOK, NEW a \in Actors, NEW o, op' = [op EXCEPT ![a] = o], NEW b \in Actors,
           \/ o = Idle
           \/ o.doc = op[a].doc /\ o.file = op[a].file /\ (o.step = "idle" => op[a].step = "idle")
           \/ o.step # "idle" /\ o.doc = NoDocument
    PROVE  OperationChange(b)
<1>1. CASE b = a
  <2>1. op'[b] = o
    BY <1>1 DEF TypeOK
  <2> QED
    BY <1>1, <2>1 DEF OperationChange, GoesOn, StartsOpen
<1>2. CASE b # a
  BY <1>2 DEF TypeOK, OperationChange, GoesOn
<1> QED
  BY <1>1, <1>2

(* The phases of an operation.                                             *)
LEMMA OperationPhases ==
    ASSUME TypeOK, NEW a \in Actors, NEW b \in Actors,
           \/ OpenStep(a) \/ FailIO(a)
           \/ PrepareSave(a) \/ CaptureSave(a) \/ CheckTarget(a) \/ RenameTemp(a) \/ StatSaved(a)
           \/ CommitSave(a) \/ PrepareReload(a) \/ CheckReload(a) \/ ReplaceText(a) \/ ApplyEdit(a)
    PROVE  OperationChange(b)
<1>0. op[a] \in Operation /\ op \in [Actors -> Operation]
  BY DEF TypeOK
<1>1. CASE Finish(a)
  BY <1>1, OneOperation DEF Finish
<1>2. CASE op' = op
  BY <1>2 DEF OperationChange, GoesOn
<1>3. ASSUME NEW o, op' = [op EXCEPT ![a] = o],
             o.doc = op[a].doc, o.file = op[a].file, o.step = "idle" => op[a].step = "idle"
      PROVE  OperationChange(b)
  BY <1>3, OneOperation
<1>4. ASSUME NEW f \in Files, NEW kind \in OpenKinds, PrepareOpen(a, f, kind)
      PROVE  OperationChange(b)
  <2> DEFINE o == [Idle EXCEPT !.step = "open", !.file = f, !.selected = (kind = "selected")]
  <2>1. o.step # "idle" /\ o.doc = NoDocument
    BY DEF Idle
  <2>2. op' = [op EXCEPT ![a] = o]
    BY <1>4 DEF PrepareOpen
  <2> HIDE DEF o
  <2> QED
    BY <2>1, <2>2, OneOperation
<1>9. CASE CommitSave(a) \/ ReplaceText(a) \/ ApplyEdit(a) \/ FailIO(a) \/ Register(a)
  BY <1>1, <1>9 DEF CommitSave, ReplaceText, ApplyEdit, FailIO, Register, Registering
<1>10. ASSUME NEW f \in Files, OpenExisting(a, f) PROVE OperationChange(b)
  BY <1>2, <1>10 DEF OpenExisting
<1>11. CASE OpenHandle(a) /\ ~Finish(a)
  <2> DEFINE o == [op[a] EXCEPT !.step = "read", !.node = disk[op[a].file].node,
                                !.stamp = disk[op[a].file].stamp, !.text = disk[op[a].file].text]
  <2>1. o.doc = op[a].doc /\ o.file = op[a].file /\ o.step # "idle"
    BY <1>0 DEF Operation
  <2>2. op' = [op EXCEPT ![a] = o]
    BY <1>0, <1>11 DEF OpenHandle
  <2> HIDE DEF o
  <2> QED
    BY <1>3, <2>1, <2>2
<1>12. CASE ReadHandle(a) /\ ~Finish(a)
  <2> DEFINE o == [op[a] EXCEPT !.node = 0, !.step = IF op[a].doc = NoDocument THEN "register"
                                                     ELSE "commit reload"]
  <2>1. o.doc = op[a].doc /\ o.file = op[a].file /\ o.step # "idle"
    BY <1>0 DEF Operation
  <2>2. op' = [op EXCEPT ![a] = o]
    BY <1>0, <1>12 DEF ReadHandle
  <2> HIDE DEF o
  <2> QED
    BY <1>3, <2>1, <2>2
<1>13. CASE PrepareReload(a) /\ ~Finish(a)
  <2> DEFINE o == [op[a] EXCEPT !.step = "open"]
  <2>1. o.doc = op[a].doc /\ o.file = op[a].file /\ o.step # "idle"
    BY <1>0 DEF Operation
  <2>2. op' = [op EXCEPT ![a] = o]
    BY <1>0, <1>13 DEF PrepareReload
  <2> HIDE DEF o
  <2> QED
    BY <1>3, <2>1, <2>2
<1>14. CASE CheckReload(a) /\ ~Finish(a)
  <2> DEFINE o == [op[a] EXCEPT !.step = "replace"]
  <2>1. o.doc = op[a].doc /\ o.file = op[a].file /\ o.step # "idle"
    BY <1>0 DEF Operation
  <2>2. op' = [op EXCEPT ![a] = o]
    BY <1>0, <1>14 DEF CheckReload
  <2> HIDE DEF o
  <2> QED
    BY <1>3, <2>1, <2>2
<1>15. CASE PrepareSave(a) /\ ~Finish(a)
  <2> DEFINE o == [op[a] EXCEPT !.step = "capture", !.stamp = disk[op[a].file].stamp]
  <2>1. o.doc = op[a].doc /\ o.file = op[a].file /\ o.step # "idle"
    BY <1>0 DEF Operation
  <2>2. op' = [op EXCEPT ![a] = o]
    BY <1>0, <1>15 DEF PrepareSave
  <2> HIDE DEF o
  <2> QED
    BY <1>3, <2>1, <2>2
<1>16. CASE CaptureSave(a) /\ ~Finish(a)
  <2> DEFINE o == [op[a] EXCEPT !.step = "check", !.text = docs[op[a].doc].text,
                                !.version = docs[op[a].doc].version]
  <2>1. o.doc = op[a].doc /\ o.file = op[a].file /\ o.step # "idle"
    BY <1>0 DEF Operation
  <2>2. op' = [op EXCEPT ![a] = o]
    BY <1>0, <1>16 DEF CaptureSave
  <2> HIDE DEF o
  <2> QED
    BY <1>3, <2>1, <2>2
<1>17. CASE CheckTarget(a) /\ ~Finish(a)
  <2> DEFINE o == [op[a] EXCEPT !.step = "rename"]
  <2>1. o.doc = op[a].doc /\ o.file = op[a].file /\ o.step # "idle"
    BY <1>0 DEF Operation
  <2>2. op' = [op EXCEPT ![a] = o]
    BY <1>0, <1>17 DEF CheckTarget
  <2> HIDE DEF o
  <2> QED
    BY <1>3, <2>1, <2>2
<1>18. CASE RenameTemp(a) /\ ~Finish(a)
  <2> DEFINE o == [op[a] EXCEPT !.step = "stat", !.text = 0, !.stamp = 0]
  <2>1. o.doc = op[a].doc /\ o.file = op[a].file /\ o.step # "idle"
    BY <1>0 DEF Operation
  <2>2. op' = [op EXCEPT ![a] = o]
    BY <1>0, <1>18 DEF RenameTemp
  <2> HIDE DEF o
  <2> QED
    BY <1>3, <2>1, <2>2
<1>19. CASE StatSaved(a) /\ ~Finish(a)
  <2> DEFINE o == [op[a] EXCEPT !.step = "commit save", !.stamp = disk[op[a].file].stamp]
  <2>1. o.doc = op[a].doc /\ o.file = op[a].file /\ o.step # "idle"
    BY <1>0 DEF Operation
  <2>2. op' = [op EXCEPT ![a] = o]
    BY <1>0, <1>19 DEF StatSaved
  <2> HIDE DEF o
  <2> QED
    BY <1>3, <2>1, <2>2
<1> QED
  BY <1>1, <1>4, <1>9, <1>10, <1>11, <1>12, <1>13, <1>14, <1>15,
     <1>16, <1>17, <1>18, <1>19 DEF OpenStep

(* Every step changes an operation in one of these ways.                   *)
LEMMA OperationSteps ==
    ASSUME TypeOK, [Next]_vars, NEW b \in Actors
    PROVE  OperationChange(b)
<1>1. CASE op' = op
  BY <1>1 DEF OperationChange, GoesOn
<1>2. ASSUME NEW a \in Actors, NEW d \in 1..Len(docs), NEW o, op' = [op EXCEPT ![a] = o],
             o.step # "idle", o.doc = d, o.file = docs[d].file,
             docs' = docs, docs[d].open, ClientOf(a) \in docs[d].access
      PROVE  OperationChange(b)
  <2>1. CASE b = a
    <3>1. op'[b] = o
      BY <1>2, <2>1 DEF TypeOK
    <3> QED
      BY <1>2, <2>1, <3>1 DEF OperationChange, StartsOn
  <2>2. CASE b # a
    BY <1>2, <2>2 DEF TypeOK, OperationChange, GoesOn
  <2> QED
    BY <2>1, <2>2
<1>3. ASSUME NEW a \in Actors, NEW d \in 1..Len(docs), AuthorizeSave(a, d)
      PROVE  OperationChange(b)
  <2> DEFINE o == On(d, "authorized save")
  <2>1. /\ op' = [op EXCEPT ![a] = o] /\ docs' = docs
        /\ docs[d].open /\ ClientOf(a) \in docs[d].access
    BY <1>3 DEF AuthorizeSave, registry
  <2>2. o.step # "idle" /\ o.doc = d /\ o.file = docs[d].file
    BY DEF On, Idle
  <2> HIDE DEF o
  <2> QED
    BY <1>2, <2>1, <2>2
<1>4. ASSUME NEW a \in Actors, NEW d \in 1..Len(docs), NEW forced \in BOOLEAN,
             AuthorizeReload(a, d, forced)
      PROVE  OperationChange(b)
  <2> DEFINE o == [On(d, "authorized reload") EXCEPT !.force = forced]
  <2>1. o.step # "idle" /\ o.doc = d /\ o.file = docs[d].file
    BY DEF On, Idle
  <2>2. op' = [op EXCEPT ![a] = o] /\ docs' = docs
    BY <1>4 DEF AuthorizeReload, registry
  <2> HIDE DEF o
  <2> QED
    BY <1>2, <1>4, <2>1, <2>2 DEF AuthorizeReload
<1>5. ASSUME NEW c \in Connections, NEW d \in 1..Len(docs), FindDocument(c, d)
      PROVE  OperationChange(b)
  <2> DEFINE o == On(d, "edit")
  <2>1. op' = [op EXCEPT ![c] = o] /\ docs' = docs /\ docs[d].open /\ c \in docs[d].access
    BY <1>5 DEF FindDocument, registry
  <2>2. o.step # "idle" /\ o.doc = d /\ o.file = docs[d].file
    BY DEF On, Idle
  <2>3. c \in Actors /\ ClientOf(c) = c
    BY DEF Actors, ClientOf
  <2> HIDE DEF o
  <2> QED
    BY <1>2, <2>1, <2>2, <2>3
<1>6. ASSUME NEW f \in Files, WriteInPlace(f)
      PROVE  OperationChange(b)
  <2>1. op[b] \in Operation
    BY DEF TypeOK
  <2>2. op'[b] = op[b] \/ op'[b] = [op[b] EXCEPT !.text = clock + 1]
    BY <1>6 DEF WriteInPlace
  <2>3. op'[b].doc = op[b].doc /\ op'[b].file = op[b].file /\ op'[b].step = op[b].step
    BY <2>1, <2>2 DEF Operation
  <2> QED
    BY <2>3 DEF OperationChange, GoesOn
<1>7. ASSUME NEW a \in Actors, OpenStep(a) \/ SaveStep(a) \/ ReloadStep(a) \/ FailIO(a)
      PROVE  OperationChange(b)
  BY <1>3, <1>4, <1>7, OperationPhases DEF SaveStep, ReloadStep
<1>8. ASSUME NEW c \in Connections, ConnectionStep(c)
      PROVE  OperationChange(b)
  <2>1. c \in Actors
    BY DEF Actors
  <2> QED
    BY <1>1, <1>5, <1>8, <2>1, OperationPhases DEF ConnectionStep, close_document,
       release_client_access
<1>9. ASSUME NEW f \in Files, ExternalStep(f)
       PROVE  OperationChange(b)
  BY <1>1, <1>6, <1>9 DEF ExternalStep, ReplaceFile, RemoveFile
<1> QED
  BY <1>1, <1>7, <1>8, <1>9 DEF Next, vars

(* A client that closes a document, or leaves, is between its operations,  *)
(* and nobody else loses access.                                           *)
LEMMA OthersKeepAccess ==
    ASSUME TypeOK, NEW c \in Connections,
           \/ \E d \in 1..Len(docs), forced \in BOOLEAN : close_document(c, d, forced)
           \/ release_client_access(c),
           NEW e \in 1..Len(docs), docs[e].open, NEW k \in docs[e].access, k # c
    PROVE  docs'[e].open /\ k \in docs'[e].access /\ docs'[e].file = docs[e].file
<1>1. docs \in Seq(Document) /\ docs[e] \in Document
  BY DEF TypeOK
<1>2. LET left == Released(docs[e], c)
      IN  left.open /\ k \in left.access /\ left.file = docs[e].file
  BY <1>1 DEF Released, release_access, Document
<1>3. docs'[e] = Released(docs[e], c) \/ docs'[e] = docs[e]
  BY <1>1 DEF close_document, release_client_access
<1> QED
  BY <1>2, <1>3

(* So a document with an operation on it stays open.                       *)
LEMMA HoldsStep ==
    ASSUME TypeOK, RegistryIsConsistent, [Next]_vars, NEW b \in Actors, Holds(b)
    PROVE  Holds(b)'
<1>0. /\ op[b] \in Operation /\ Grounded(op[b]) /\ Len(docs) \in Nat
      /\ op[b].doc \in Nat /\ op[b].doc <= Len(docs)
  <2>1. op[b] \in Operation /\ Grounded(op[b]) /\ Len(docs) \in Nat
    BY DEF TypeOK
  <2> QED
    BY <2>1 DEF Grounded, Operation
<1>1. CASE op[b].doc # NoDocument /\ GoesOn(b)
  <2> DEFINE e == op[b].doc
  <2>1. /\ e \in 1..Len(docs) /\ docs[e].open /\ ClientOf(b) \in docs[e].access
        /\ docs[e].file = op[b].file /\ op[b].step # "idle"
    BY <1>0, <1>1 DEF Holds, NoDocument
  <2>2. docs'[e].open /\ ClientOf(b) \in docs'[e].access /\ docs'[e].file = docs[e].file
    <3>1. CASE SameRegistry
      BY <2>1, <3>1 DEF SameRegistry, SameDocument
    <3>2. ASSUME NEW d \in 1..Len(docs), NEW k \in Clients, Leased(d, k)
          PROVE  docs'[e].open /\ ClientOf(b) \in docs'[e].access /\ docs'[e].file = docs[e].file
      BY <2>1, <3>2 DEF Leased, SameDocument
    <3>3. ASSUME NEW f \in Files, NEW k \in Clients, Added(f, k)
          PROVE  docs'[e].open /\ ClientOf(b) \in docs'[e].access /\ docs'[e].file = docs[e].file
      BY <2>1, <3>3 DEF Added, SameDocument
    <3>4. ASSUME NEW c \in Connections,
                 \/ \E d \in 1..Len(docs), forced \in BOOLEAN : close_document(c, d, forced)
                 \/ release_client_access(c)
          PROVE  docs'[e].open /\ ClientOf(b) \in docs'[e].access /\ docs'[e].file = docs[e].file
      <4>1. op[c].step = "idle"
        BY <3>4 DEF close_document, release_client_access
      <4>2. ClientOf(b) # c
        BY <2>1, <4>1, ActorsAssumption DEF ClientOf
      <4> QED
        BY <2>1, <3>4, <4>2, OthersKeepAccess
    <3>5. \/ SameRegistry
          \/ \E d \in 1..Len(docs), k \in Clients : Leased(d, k)
          \/ \E f \in Files, k \in Clients : Added(f, k)
          \/ \E c \in Connections :
                \/ \E d \in 1..Len(docs), forced \in BOOLEAN : close_document(c, d, forced)
                \/ release_client_access(c)
      <4>1. CASE UNCHANGED vars
        BY <4>1 DEF vars, registry, SameRegistry, SameDocument
      <4>2. ASSUME NEW a \in Actors, OpenStep(a) \/ FailIO(a)
            PROVE  \/ SameRegistry
                   \/ \E d \in 1..Len(docs), k \in Clients : Leased(d, k)
                   \/ \E f \in Files, k \in Clients : Added(f, k)
        BY <4>2, OpenChange
      <4> QED
        BY <4>1, <4>2, ContentSteps DEF Next, ConnectionStep
    <3> QED
      BY <3>1, <3>2, <3>3, <3>4, <3>5
  <2> QED
    BY <1>1, <2>1, <2>2 DEF GoesOn, Holds
<1>2. CASE op[b].doc = NoDocument /\ GoesOn(b)
  BY <1>2 DEF GoesOn, Holds
<1>3. CASE op'[b] = Idle
  BY <1>3 DEF Holds, Idle
<1>4. CASE StartsOpen(b)
  BY <1>4 DEF StartsOpen, Holds
<1>5. ASSUME NEW d \in 1..Len(docs), StartsOn(b, d) PROVE Holds(b)'
  BY <1>5 DEF StartsOn, Holds
<1> QED
  BY <1>1, <1>2, <1>3, <1>4, <1>5, OperationSteps DEF OperationChange

(* The content of the registry, as the saves see it.  A node is current at *)
(* a stamp when the file exists and has it.                                *)
IsAt(n, s) == n # Missing /\ n.stamp = s

Landed == {"stat", "commit save"}

(* What was edited since an operation took its version is dirty.           *)
EditsAreDirty(o, doc) == doc.version # o.version => doc.dirty

(* The file of a save has the text that the save took.                     *)
IsSaved(o, doc, n) ==
    /\ n # Missing /\ doc.seen /\ EditsAreDirty(o, doc)
    /\ doc.version = o.version => doc.text = n.text

(* What an operation o knows of its document and of the node of its file:  *)
(* what it has read, or captured, and what it may rely on while no         *)
(* overlapping write or reload has spoilt its file.                        *)
Sound(o, doc, n, spoilt) ==
    /\ o.step \in {"read", "register", "commit reload", "replace"} /\ IsAt(n, o.stamp) =>
          o.text = n.text
    /\ o.step \in {"check", "rename", "stat", "commit save"} => o.version <= doc.version
    /\ o.step \in {"check", "rename"} /\ o.version = doc.version => o.text = doc.text
    /\ o.file \notin spoilt =>
          /\ o.step = "capture" /\ IsAt(n, o.stamp) => doc.seen
          /\ o.step = "check" /\ IsAt(n, o.stamp) => doc.seen /\ EditsAreDirty(o, doc)
          /\ o.step = "rename" => IsAt(n, o.stamp) /\ doc.seen /\ EditsAreDirty(o, doc)
          /\ o.step = "stat" => IsSaved(o, doc, n)
          /\ o.step = "commit save" /\ IsAt(n, o.stamp) => IsSaved(o, doc, n)
          /\ o.step \in Landed => ~IsAt(n, doc.known)

(* While the rename of a save o waits for its commit, every other save p   *)
(* of the same file is still before its rename, and will not pass the      *)
(* comparison with the file's metadata.                                    *)
Apart(o, p, n, spoilt) ==
    o.file = p.file /\ o.step \in Landed /\ o.file \notin spoilt =>
        /\ p.step \notin {"rename", "stat", "commit save"}
        /\ p.step \in {"capture", "check"} => ~IsAt(n, p.stamp)

(* A document whose recorded metadata its file has was loaded from, or     *)
(* saved as, that content, and shows it unless it is dirty.                *)
Stored(doc, n, spoilt) ==
    doc.open /\ doc.file \notin spoilt /\ IsAt(n, doc.known) =>
        doc.seen /\ (doc.dirty \/ doc.text = n.text)

DiskInv == \A f \in Files : disk[f].stamp <= clock
DocumentInv(d) ==
    docs[d].known <= clock /\ Stored(docs[d], disk[docs[d].file], raced)
OperationInv(b) ==
    /\ op[b].stamp <= clock
    /\ Sound(op[b], docs[op[b].doc], disk[op[b].file], raced)
PairInv(b, a) == Apart(op[b], op[a], disk[op[b].file], raced)

HoldInv == \A b \in Actors : Holds(b)

SaveInv ==
    /\ DiskInv
    /\ \A d \in 1..Len(docs) : DocumentInv(d)
    /\ \A b \in Actors : OperationInv(b)
    /\ \A a, b \in Actors : a # b => PairInv(b, a)

(* Everything that saves look at in a document stays as it is.             *)
SameContent(d) ==
    /\ docs'[d].file = docs[d].file /\ docs'[d].known = docs[d].known
    /\ docs'[d].text = docs[d].text /\ docs'[d].version = docs[d].version
    /\ docs'[d].dirty <=> docs[d].dirty
    /\ docs'[d].seen <=> docs[d].seen
    /\ docs'[d].open => docs[d].open

(* Two operations on one file are on one document.                         *)
LEMMA OneDocument ==
    ASSUME TypeOK, RegistryIsConsistent, HoldInv, NEW a \in Actors, NEW b \in Actors,
           op[a].doc # NoDocument, op[b].doc # NoDocument, op[a].file = op[b].file
    PROVE  op[a].doc = op[b].doc
<1>1. ASSUME NEW c \in Actors, op[c].doc # NoDocument
      PROVE  index[op[c].file] = op[c].doc
  <2>1. op[c] \in Operation /\ Grounded(op[c]) /\ Len(docs) \in Nat
    BY DEF TypeOK
  <2>2. op[c].doc \in 1..Len(docs)
    BY <1>1, <2>1 DEF Operation, Grounded, NoDocument
  <2>3. docs[op[c].doc].open /\ docs[op[c].doc].file = op[c].file
    BY <1>1 DEF HoldInv, Holds
  <2> QED
    BY <2>2, <2>3 DEF RegistryIsConsistent, Registered
<1> QED
  BY <1>1

(* What an operation knows stays true of an unchanged document and node.   *)
LEMMA SoundKept ==
    ASSUME NEW o, NEW doc, NEW new, NEW n, NEW spoilt, NEW later,
           Sound(o, doc, n, spoilt), spoilt \subseteq later,
           \/ o.step \in {"idle", "edit", "open", "read", "register"}
           \/ /\ new.known = doc.known /\ new.text = doc.text /\ new.version = doc.version
              /\ (new.dirty <=> doc.dirty) /\ (new.seen <=> doc.seen)
    PROVE  Sound(o, new, n, later)
BY DEF Sound, Landed, IsSaved, EditsAreDirty

LEMMA OperationKept ==
    ASSUME TypeOK, NEW b \in Actors, OperationInv(b), op'[b] = op[b],
           disk'[op[b].file] = disk[op[b].file], raced \subseteq raced',
           clock' \in Nat, clock <= clock',
           op[b].doc \in 1..Len(docs) => SameContent(op[b].doc)
    PROVE  OperationInv(b)'
<1>1. op[b] \in Operation /\ op[b].stamp \in Nat /\ Grounded(op[b]) /\ clock \in Nat
  <2>1. op[b] \in Operation /\ Grounded(op[b]) /\ clock \in Nat
    BY DEF TypeOK
  <2> QED
    BY <2>1 DEF Operation
<1>2. op[b].stamp <= clock'
  BY <1>1 DEF OperationInv
<1>3. op[b].step \in {"idle", "open", "read", "register"} \/ op[b].doc \in 1..Len(docs)
  BY DocumentOf
<1> DEFINE o == op[b]
           doc == docs[op[b].doc]
           new == docs'[op[b].doc]
           n == disk[op[b].file]
<1>4. \/ o.step \in {"idle", "edit", "open", "read", "register"}
      \/ /\ new.known = doc.known /\ new.text = doc.text /\ new.version = doc.version
         /\ (new.dirty <=> doc.dirty) /\ (new.seen <=> doc.seen)
  BY <1>3 DEF SameContent
<1>5. Sound(o, doc, n, raced)
  BY DEF OperationInv
<1>6. Sound(o, new, n, raced')
  <2> HIDE DEF o, doc, new, n
  <2> QED
    BY <1>4, <1>5, SoundKept
<1> QED
  BY <1>2, <1>6 DEF OperationInv

(* A document no step has touched.                                         *)
LEMMA DocumentKept ==
    ASSUME TypeOK, NEW d \in 1..Len(docs), DocumentInv(d), SameContent(d),
           disk'[docs[d].file] = disk[docs[d].file], raced \subseteq raced',
           clock' \in Nat, clock <= clock'
    PROVE  DocumentInv(d)'
<1>1. docs[d].known \in Nat /\ clock \in Nat
  <2>1. docs[d] \in Document
    BY DEF TypeOK
  <2> QED
    BY <2>1 DEF Document, TypeOK
<1> QED
  BY <1>1 DEF DocumentInv, Stored, SameContent

(* Two operations no step has touched.                                     *)
LEMMA PairKept ==
    ASSUME NEW a \in Actors, NEW b \in Actors, PairInv(b, a), op'[a] = op[a], op'[b] = op[b],
           disk'[op[b].file] = disk[op[b].file], raced \subseteq raced'
    PROVE  PairInv(b, a)'
BY DEF PairInv, Apart

(* A step that moves one operation on, and leaves the contents alone.      *)
LEMMA MovesSoundly ==
    ASSUME TypeOK, SaveInv, NEW a \in Actors, \A b \in Actors \ {a} : op'[b] = op[b],
           UNCHANGED <<disk, clock, raced>>, Len(docs') \in Nat,
           \A d \in 1..Len(docs) : SameContent(d), OperationInv(a)',
           \A b \in Actors \ {a} : PairInv(a, b)' /\ PairInv(b, a)',
           \A d \in 1..Len(docs') : d \in 1..Len(docs) \/ DocumentInv(d)'
    PROVE  SaveInv'
<1>0. clock \in Nat
  BY DEF TypeOK
<1>1. DiskInv'
  BY DEF SaveInv, DiskInv
<1>2. ASSUME NEW d \in 1..Len(docs') PROVE DocumentInv(d)'
  BY <1>0, DocumentKept DEF SaveInv
<1>3. ASSUME NEW b \in Actors PROVE OperationInv(b)'
  BY <1>0, OperationKept DEF SaveInv
<1>4. ASSUME NEW b \in Actors, NEW c \in Actors, c # b PROVE PairInv(b, c)'
  <2>1. CASE b # a /\ c # a
    <3>1. op'[b] = op[b] /\ op'[c] = op[c] /\ PairInv(b, c)
      BY <1>4, <2>1 DEF SaveInv
    <3> QED
      BY <3>1, PairKept
  <2> QED
    BY <1>4, <2>1
<1> QED
  BY <1>1, <1>2, <1>3, <1>4 DEF SaveInv

(* An operation that is not reading or saving relies on nothing.           *)
Resting == {"idle", "edit", "open", "authorized save", "authorized reload"}

LEMMA RestsSoundly ==
    ASSUME NEW a \in Actors, op'[a].step \in Resting, op'[a].stamp <= clock'
    PROVE  OperationInv(a)' /\ \A b \in Actors : PairInv(a, b)' /\ PairInv(b, a)'
BY DEF Resting, OperationInv, PairInv, Sound, Apart, Landed

(* An operation that ends.                                                 *)
LEMMA EndsSoundly ==
    ASSUME TypeOK, SaveInv, NEW a \in Actors, Finish(a), UNCHANGED <<disk, clock, raced>>,
           Len(docs') = Len(docs), \A d \in 1..Len(docs) : SameContent(d)
    PROVE  SaveInv'
<1>1. op'[a] = Idle /\ clock \in Nat /\ Len(docs) \in Nat
  BY DEF Finish, TypeOK
<1>2. op'[a].step \in Resting /\ op'[a].stamp <= clock'
  BY <1>1 DEF Idle, Resting
<1>3. \A b \in Actors \ {a} : op'[b] = op[b]
  BY DEF Finish, TypeOK
<1>4. OperationInv(a)' /\ \A b \in Actors : PairInv(a, b)' /\ PairInv(b, a)'
  BY <1>2, RestsSoundly
<1> QED
  BY <1>1, <1>3, <1>4, MovesSoundly

(* Granting and releasing access leaves contents alone.                    *)
LEMMA AccessIsNotContent ==
    ASSUME TypeOK,
           \/ docs' = docs
           \/ \E d \in 1..Len(docs), c \in Clients : ExistingLease(d, c)
           \/ \E c \in Connections :
                 \/ \E d \in 1..Len(docs), forced \in BOOLEAN : close_document(c, d, forced)
                 \/ release_client_access(c)
    PROVE  Len(docs') = Len(docs) /\ \A d \in 1..Len(docs) : SameContent(d)
<1>1. docs \in Seq(Document)
  BY DEF TypeOK
<1>2. CASE docs' = docs
  BY <1>2 DEF SameContent
<1>3. ASSUME NEW e \in 1..Len(docs), NEW c \in Clients,
             docs'[e] \in {docs[e], acquire_access(docs[e], c), Released(docs[e], c)}
      PROVE  SameContent(e)
  <2>1. docs[e] \in Document
    BY <1>1
  <2>2. CASE docs'[e] = docs[e]
    BY <2>2 DEF SameContent
  <2>3. CASE docs'[e] = acquire_access(docs[e], c)
    BY <2>1, <2>3 DEF SameContent, acquire_access, Document
  <2>4. CASE docs'[e] = Released(docs[e], c)
    BY <2>1, <2>4 DEF SameContent, Released, release_access, Document
  <2> QED
    BY <1>3, <2>2, <2>3, <2>4
<1>4. ASSUME NEW d \in 1..Len(docs), NEW c \in Clients, ExistingLease(d, c)
      PROVE  Len(docs') = Len(docs) /\ \A e \in 1..Len(docs) : SameContent(e)
  <2>1. Len(docs') = Len(docs)
    BY <1>4, ExistingLeaseType
  <2>2. \A e \in 1..Len(docs) : docs'[e] \in {docs[e], acquire_access(docs[e], c)}
    BY <1>1, <1>4 DEF ExistingLease
  <2> QED
    BY <1>3, <2>1, <2>2
<1>5. ASSUME NEW c \in Connections, NEW d \in 1..Len(docs), NEW forced \in BOOLEAN,
             close_document(c, d, forced)
      PROVE  Len(docs') = Len(docs) /\ \A e \in 1..Len(docs) : SameContent(e)
  <2>1. docs' = [docs EXCEPT ![d] = Released(docs[d], c)] /\ c \in Clients
    BY <1>5 DEF close_document, Clients
  <2>2. Len(docs') = Len(docs) /\ \A e \in 1..Len(docs) : docs'[e] \in {docs[e], Released(docs[e], c)}
    BY <1>1, <2>1
  <2> QED
    BY <1>3, <2>1, <2>2
<1>6. ASSUME NEW c \in Connections, release_client_access(c)
      PROVE  Len(docs') = Len(docs) /\ \A e \in 1..Len(docs) : SameContent(e)
  <2>1. /\ docs' = [d \in 1..Len(docs) |-> IF docs[d].open THEN Released(docs[d], c) ELSE docs[d]]
        /\ c \in Clients
    BY <1>6 DEF release_client_access, Clients
  <2>2. Len(docs') = Len(docs) /\ \A e \in 1..Len(docs) : docs'[e] \in {docs[e], Released(docs[e], c)}
    BY <1>1, <2>1
  <2> QED
    BY <1>3, <2>1, <2>2
<1> QED
  BY <1>2, <1>4, <1>5, <1>6

(* A phase in which an operation only moves on.                            *)
LEMMA PhaseSound ==
    ASSUME TypeOK, SaveInv, NEW a \in Actors, NEW o, op' = [op EXCEPT ![a] = o],
           UNCHANGED <<disk, docs, clock, raced>>, o.stamp <= clock,
           o.step \in Resting
           \/ /\ Sound(o, docs[o.doc], disk[o.file], raced)
              /\ \A b \in Actors \ {a} : /\ Apart(o, op[b], disk[o.file], raced)
                                         /\ Apart(op[b], o, disk[op[b].file], raced)
    PROVE  SaveInv'
<1>1. op'[a] = o /\ \A b \in Actors \ {a} : op'[b] = op[b]
  BY DEF TypeOK
<1>2. \A d \in 1..Len(docs) : SameContent(d)
  BY DEF SameContent
<1>3. OperationInv(a)' /\ \A b \in Actors \ {a} : PairInv(a, b)' /\ PairInv(b, a)'
  <2>1. CASE o.step \in Resting
    BY <1>1, <2>1, RestsSoundly
  <2>2. CASE o.step \notin Resting
    BY <1>1, <2>2 DEF OperationInv, PairInv
  <2> QED
    BY <2>1, <2>2
<1>4. Len(docs') \in Nat
  BY DEF TypeOK
<1> QED
  BY <1>1, <1>2, <1>3, <1>4, MovesSoundly

(* Operations start, and read.                                             *)
LEMMA OpensSoundly ==
    ASSUME TypeOK, SaveInv, NEW a \in Actors,
           \/ \E f \in Files, kind \in OpenKinds : PrepareOpen(a, f, kind)
           \/ \E d \in 1..Len(docs) : AuthorizeSave(a, d) \/ FindDocument(a, d)
           \/ \E d \in 1..Len(docs), forced \in BOOLEAN : AuthorizeReload(a, d, forced)
           \/ OpenHandle(a) \/ ReadHandle(a) \/ PrepareReload(a) \/ CheckReload(a) \/ FailIO(a)
    PROVE  SaveInv'
<1>0. /\ op[a] \in Operation /\ clock \in Nat /\ op[a].stamp <= clock
      /\ Sound(op[a], docs[op[a].doc], disk[op[a].file], raced)
      /\ UNCHANGED <<disk, docs, clock, raced>>
      /\ op \in [Actors -> Operation]
  BY DEF TypeOK, SaveInv, OperationInv, PrepareOpen, AuthorizeSave, FindDocument,
         AuthorizeReload, OpenHandle, ReadHandle, PrepareReload, CheckReload, FailIO, registry
<1>1. CASE Finish(a)
  <2>1. Len(docs') = Len(docs) /\ \A d \in 1..Len(docs) : SameContent(d)
    BY <1>0 DEF SameContent
  <2> QED
    BY <1>0, <1>1, <2>1, EndsSoundly
<1>2. ASSUME NEW o, op' = [op EXCEPT ![a] = o], o.stamp <= clock, o.step \in Resting
      PROVE  SaveInv'
  BY <1>0, <1>2, PhaseSound
<1>3. ASSUME NEW f \in Files, NEW kind \in OpenKinds, PrepareOpen(a, f, kind) PROVE SaveInv'
  <2> DEFINE o == [Idle EXCEPT !.step = "open", !.file = f, !.selected = (kind = "selected")]
  <2>1. op' = [op EXCEPT ![a] = o]
    BY <1>3 DEF PrepareOpen
  <2>2. o.stamp <= clock /\ o.step \in Resting
    BY <1>0 DEF Idle, Resting
  <2> HIDE DEF o
  <2> QED
    BY <1>2, <2>1, <2>2
<1>4. ASSUME NEW d \in 1..Len(docs), AuthorizeSave(a, d) PROVE SaveInv'
  <2> DEFINE o == On(d, "authorized save")
  <2>1. op' = [op EXCEPT ![a] = o]
    BY <1>4 DEF AuthorizeSave
  <2>2. o.stamp <= clock /\ o.step \in Resting
    BY <1>0 DEF On, Idle, Resting
  <2> HIDE DEF o
  <2> QED
    BY <1>2, <2>1, <2>2
<1>5. ASSUME NEW d \in 1..Len(docs), FindDocument(a, d) PROVE SaveInv'
  <2> DEFINE o == On(d, "edit")
  <2>1. op' = [op EXCEPT ![a] = o]
    BY <1>5 DEF FindDocument
  <2>2. o.stamp <= clock /\ o.step \in Resting
    BY <1>0 DEF On, Idle, Resting
  <2> HIDE DEF o
  <2> QED
    BY <1>2, <2>1, <2>2
<1>6. ASSUME NEW d \in 1..Len(docs), NEW forced \in BOOLEAN, AuthorizeReload(a, d, forced)
      PROVE  SaveInv'
  <2> DEFINE o == [On(d, "authorized reload") EXCEPT !.force = forced]
  <2>1. op' = [op EXCEPT ![a] = o]
    BY <1>6 DEF AuthorizeReload
  <2>2. o.stamp <= clock /\ o.step \in Resting
    BY <1>0 DEF On, Idle, Resting
  <2> HIDE DEF o
  <2> QED
    BY <1>2, <2>1, <2>2
<1>7. CASE PrepareReload(a) /\ ~Finish(a)
  <2> DEFINE o == [op[a] EXCEPT !.step = "open"]
  <2>1. op' = [op EXCEPT ![a] = o]
    BY <1>0, <1>7 DEF PrepareReload
  <2>2. o.stamp <= clock /\ o.step \in Resting
    BY <1>0 DEF Operation, Resting
  <2> HIDE DEF o
  <2> QED
    BY <1>2, <2>1, <2>2
<1>8. ASSUME NEW o, op' = [op EXCEPT ![a] = o], o.stamp <= clock,
             o.step \in {"read", "register", "commit reload", "replace"},
             IsAt(disk[o.file], o.stamp) => o.text = disk[o.file].text
      PROVE  SaveInv'
  <2>1. Sound(o, docs[o.doc], disk[o.file], raced)
    BY <1>8 DEF Sound, Landed
  <2>2. \A b \in Actors : /\ Apart(o, op[b], disk[o.file], raced)
                          /\ Apart(op[b], o, disk[op[b].file], raced)
    BY <1>8 DEF Apart, Landed
  <2> QED
    BY <1>0, <1>8, <2>1, <2>2, PhaseSound
<1>9. CASE OpenHandle(a) /\ ~Finish(a)
  <2> DEFINE n == disk[op[a].file]
             o == [op[a] EXCEPT !.step = "read", !.node = n.node, !.stamp = n.stamp,
                                !.text = n.text]
  <2>1. op' = [op EXCEPT ![a] = o]
    BY <1>0, <1>9 DEF OpenHandle
  <2>2. o.file = op[a].file /\ o.step = "read" /\ o.stamp = n.stamp /\ o.text = n.text
    BY <1>0 DEF Operation
  <2>3. o.stamp <= clock
    <3>1. op[a].file \in Files
      BY <1>9, OperationOf DEF OpenHandle, Grounded
    <3> QED
      BY <2>2, <3>1 DEF SaveInv, DiskInv
  <2> HIDE DEF o
  <2> QED
    BY <1>8, <2>1, <2>2, <2>3
<1>10. CASE ReadHandle(a)
  <2> DEFINE o == [op[a] EXCEPT !.node = 0, !.step = IF op[a].doc = NoDocument THEN "register"
                                                     ELSE "commit reload"]
  <2>1. op' = [op EXCEPT ![a] = o] /\ op[a].step = "read"
    BY <1>0, <1>10 DEF ReadHandle
  <2>2. /\ o.file = op[a].file /\ o.step \in {"register", "commit reload"}
        /\ o.stamp = op[a].stamp /\ o.text = op[a].text
    BY <1>0 DEF Operation
  <2> HIDE DEF o
  <2>3. IsAt(disk[o.file], o.stamp) => o.text = disk[o.file].text
    BY <1>0, <2>1, <2>2 DEF Sound
  <2> QED
    BY <1>0, <1>8, <2>1, <2>2, <2>3
<1>11. CASE CheckReload(a) /\ ~Finish(a)
  <2> DEFINE o == [op[a] EXCEPT !.step = "replace"]
  <2>1. op' = [op EXCEPT ![a] = o] /\ op[a].step = "commit reload"
    BY <1>0, <1>11 DEF CheckReload
  <2>2. o.file = op[a].file /\ o.step = "replace" /\ o.stamp = op[a].stamp /\ o.text = op[a].text
    BY <1>0 DEF Operation
  <2> HIDE DEF o
  <2>3. IsAt(disk[o.file], o.stamp) => o.text = disk[o.file].text
    BY <1>0, <2>1, <2>2 DEF Sound
  <2> QED
    BY <1>0, <1>8, <2>1, <2>2, <2>3
<1> QED
  BY <1>1, <1>3, <1>4, <1>5, <1>6, <1>7, <1>9, <1>10, <1>11 DEF FailIO

(* A document is opened: what was read is what it is loaded from.          *)
LEMMA RegistersSoundly ==
    ASSUME TypeOK, SaveInv, NEW a \in Actors,
           Register(a) \/ \E f \in Files : OpenExisting(a, f)
    PROVE  SaveInv'
<1> DEFINE c == ClientOf(a)
           o == op[a]
<1>0. /\ c \in Clients /\ docs \in Seq(Document) /\ o \in Operation
      /\ o.stamp <= clock /\ Sound(o, docs[o.doc], disk[o.file], raced)
      /\ clock \in Nat
  BY ClientOfType DEF TypeOK, SaveInv, OperationInv
<1>1. ASSUME NEW f \in Files, OpenExisting(a, f) PROVE SaveInv'
  <2>1. index[f] \in 1..Len(docs) /\ ExistingLease(index[f], c)
    BY <1>1 DEF OpenExisting, TypeOK, NoDocument
  <2>2. Len(docs') = Len(docs) /\ \A d \in 1..Len(docs) : SameContent(d)
    BY <1>0, <2>1, AccessIsNotContent
  <2>3. UNCHANGED <<disk, op, clock, raced>> /\ Len(docs) \in Nat
    BY <1>0, <1>1 DEF OpenExisting
  <2>4. /\ OperationInv(a)'
        /\ \A b \in Actors \ {a} : PairInv(a, b)' /\ PairInv(b, a)'
    BY <1>0, <2>2, <2>3, OperationKept, PairKept DEF SaveInv
  <2> QED
    BY <2>2, <2>3, <2>4, MovesSoundly
<1>2. CASE Register(a) /\ (docs' = docs \/ \E d \in 1..Len(docs) : ExistingLease(d, c))
  <2>1. Finish(a) /\ UNCHANGED <<disk, clock, raced>>
    BY <1>2 DEF Register, Registering
  <2>2. Len(docs') = Len(docs) /\ \A d \in 1..Len(docs) : SameContent(d)
    BY <1>0, <1>2, AccessIsNotContent
  <2> QED
    BY <2>1, <2>2, EndsSoundly
<1>3. CASE Register(a) /\ AddDocument(o, c)
  <2>1. /\ o.step = "register" /\ op' = [op EXCEPT ![a] = Idle] /\ UNCHANGED <<disk, clock, raced>>
        /\ docs' = Append(docs, NewDocument(o, c))
    BY <1>3 DEF Register, Registering, Finish, AddDocument
  <2> DEFINE doc == NewDocument(o, c)
  <2>2. /\ doc.file = o.file /\ doc.known = o.stamp /\ doc.text = o.text
        /\ doc.seen <=> (o.text = disk[o.file].text)
    BY DEF NewDocument
  <2>3. doc.known <= clock /\ Stored(doc, disk[doc.file], raced)
    BY <1>0, <2>1, <2>2 DEF Stored, Sound
  <2> HIDE DEF doc
  <2>4. /\ Len(docs) \in Nat /\ Len(docs') = Len(docs) + 1 /\ docs'[Len(docs) + 1] = doc
        /\ \A d \in 1..Len(docs) : docs'[d] = docs[d]
    BY <1>0, <2>1 DEF doc
  <2>5. \A d \in 1..Len(docs) : SameContent(d)
    BY <2>4 DEF SameContent
  <2>6. ASSUME NEW d \in 1..Len(docs'), d \notin 1..Len(docs) PROVE DocumentInv(d)'
    <3>1. d = Len(docs) + 1
      BY <2>4, <2>6
    <3>2. docs'[d] = doc /\ UNCHANGED <<disk, clock, raced>>
      BY <2>1, <2>4, <3>1
    <3> QED
      BY <2>3, <3>2 DEF DocumentInv
  <2>7. op'[a] = Idle /\ \A b \in Actors \ {a} : op'[b] = op[b]
    BY <2>1 DEF TypeOK
  <2>8. OperationInv(a)' /\ \A b \in Actors : PairInv(a, b)' /\ PairInv(b, a)'
    <3>1. op'[a] = Idle /\ clock' = clock /\ clock \in Nat
      BY <1>0, <2>1, <2>7
    <3>2. op'[a].step \in Resting /\ op'[a].stamp <= clock'
      BY <3>1 DEF Idle, Resting
    <3> QED
      BY <3>2, RestsSoundly
  <2>9. Len(docs') \in Nat
    BY <2>4
  <2> QED
    BY <2>1, <2>5, <2>6, <2>7, <2>8, <2>9, MovesSoundly
<1>4. CASE Register(a)
  <2>1. o.file \in Files
    BY <1>4, OperationOf DEF Register, Registering, Grounded
  <2>2. index[o.file] # NoDocument => index[o.file] \in 1..Len(docs)
    BY <2>1 DEF TypeOK, NoDocument
  <2> QED
    BY <1>2, <1>3, <1>4, <2>2 DEF Register, registry
<1> QED
  BY <1>1, <1>4

(* The phases of a save before and after its rename.                       *)
LEMMA SavesSoundly ==
    ASSUME TypeOK, RegistryIsConsistent, HoldInv, SaveInv, NEW a \in Actors,
           PrepareSave(a) \/ CaptureSave(a) \/ CheckTarget(a) \/ StatSaved(a)
    PROVE  SaveInv'
<1> DEFINE n == disk[op[a].file]
           doc == docs[op[a].doc]
<1>0. /\ op[a] \in Operation /\ clock \in Nat /\ op[a].stamp <= clock
      /\ Sound(op[a], doc, n, raced)
      /\ UNCHANGED <<disk, docs, clock, raced>>
      /\ op \in [Actors -> Operation]
      /\ op[a].step \in {"authorized save", "capture", "check", "stat"}
  BY DEF TypeOK, SaveInv, OperationInv, PrepareSave, CaptureSave, CheckTarget, StatSaved,
         registry
<1>1. /\ op[a].doc \in 1..Len(docs) /\ doc \in Document
      /\ op[a].file \in Files /\ n \in Node /\ op[a].doc # NoDocument
      /\ doc.open /\ doc.file = op[a].file
  <2>1. op[a].doc \in 1..Len(docs) /\ doc \in Document /\ op[a].file \in Files /\ n \in Node
    BY <1>0, DocumentOf
  <2>2. op[a].doc # NoDocument
    BY <2>1 DEF NoDocument
  <2> QED
    BY <2>1, <2>2 DEF HoldInv, Holds
<1>2. n.stamp <= clock /\ Stored(doc, n, raced) /\ doc.known <= clock
  BY <1>1 DEF SaveInv, DiskInv, DocumentInv
<1>3. CASE Finish(a)
  <2>1. Len(docs') = Len(docs) /\ \A d \in 1..Len(docs) : SameContent(d)
    BY <1>0 DEF SameContent
  <2> QED
    BY <1>0, <1>3, <2>1, EndsSoundly
<1>4. ASSUME NEW b \in Actors \ {a}
      PROVE  /\ Apart(op[a], op[b], n, raced)
             /\ Apart(op[b], op[a], disk[op[b].file], raced)
             /\ op[b].file = op[a].file /\ op[b].step \in Landed /\ op[a].file \notin raced =>
                    ~IsAt(n, doc.known)
  <2>1. PairInv(a, b) /\ PairInv(b, a) /\ OperationInv(b)
    BY <1>4 DEF SaveInv
  <2>2. ASSUME op[b].file = op[a].file, op[b].step \in Landed, op[a].file \notin raced
        PROVE  ~IsAt(n, doc.known)
    <3>1. op[b].doc \in 1..Len(docs)
      BY <2>2, DocumentOf DEF Landed
    <3>2. op[b].doc = op[a].doc
      BY <1>1, <2>2, <3>1, OneDocument DEF NoDocument
    <3> QED
      BY <2>1, <2>2, <3>2 DEF OperationInv, Sound
  <2> QED
    BY <2>1, <2>2 DEF PairInv
<1>5. CASE PrepareSave(a) /\ ~Finish(a)
  <2> DEFINE o == [op[a] EXCEPT !.step = "capture", !.stamp = n.stamp]
  <2>1. op' = [op EXCEPT ![a] = o] /\ IsAt(n, doc.known)
    BY <1>0, <1>5 DEF PrepareSave, IsAt
  <2>2. o.step = "capture" /\ o.stamp = n.stamp /\ o.file = op[a].file /\ o.doc = op[a].doc
    BY <1>0 DEF Operation
  <2> HIDE DEF o
  <2>3. Sound(o, doc, n, raced)
    BY <1>1, <1>2, <2>1, <2>2 DEF Sound, Stored, Landed
  <2>4. \A b \in Actors \ {a} : /\ Apart(o, op[b], n, raced)
                                /\ Apart(op[b], o, disk[op[b].file], raced)
    BY <1>4, <2>1, <2>2 DEF Apart, Landed
  <2> QED
    BY <1>0, <1>2, <2>1, <2>2, <2>3, <2>4, PhaseSound
<1>6. CASE CaptureSave(a)
  <2> DEFINE o == [op[a] EXCEPT !.step = "check", !.text = doc.text, !.version = doc.version]
  <2>1. op' = [op EXCEPT ![a] = o] /\ op[a].step = "capture"
    BY <1>0, <1>6 DEF CaptureSave
  <2>2. /\ o.step = "check" /\ o.stamp = op[a].stamp /\ o.file = op[a].file
        /\ o.doc = op[a].doc /\ o.text = doc.text /\ o.version = doc.version
    BY <1>0 DEF Operation
  <2> HIDE DEF o
  <2>3. Sound(o, doc, n, raced)
    <3>1. doc.version \in Nat
      BY <1>1 DEF Document
    <3> QED
      BY <1>0, <2>1, <2>2, <3>1 DEF Sound, EditsAreDirty, Landed
  <2>4. \A b \in Actors \ {a} : /\ Apart(o, op[b], n, raced)
                                /\ Apart(op[b], o, disk[op[b].file], raced)
    BY <1>4, <2>1, <2>2 DEF Apart, Landed
  <2> QED
    BY <1>0, <2>1, <2>2, <2>3, <2>4, PhaseSound
<1>7. CASE CheckTarget(a) /\ ~Finish(a)
  <2> DEFINE o == [op[a] EXCEPT !.step = "rename"]
  <2>1. op' = [op EXCEPT ![a] = o] /\ op[a].step = "check" /\ IsAt(n, op[a].stamp)
    BY <1>0, <1>7 DEF CheckTarget, IsAt
  <2>2. /\ o.step = "rename" /\ o.stamp = op[a].stamp /\ o.file = op[a].file
        /\ o.doc = op[a].doc /\ o.text = op[a].text /\ o.version = op[a].version
    BY <1>0 DEF Operation
  <2> HIDE DEF o
  <2>3. Sound(o, doc, n, raced)
    BY <1>0, <2>1, <2>2 DEF Sound, EditsAreDirty, Landed
  <2>4. \A b \in Actors \ {a} : /\ Apart(o, op[b], n, raced)
                                /\ Apart(op[b], o, disk[op[b].file], raced)
    BY <1>4, <2>1, <2>2 DEF Apart, Landed
  <2> QED
    BY <1>0, <2>1, <2>2, <2>3, <2>4, PhaseSound
<1>8. CASE StatSaved(a) /\ ~Finish(a)
  <2> DEFINE o == [op[a] EXCEPT !.step = "commit save", !.stamp = n.stamp]
  <2>1. op' = [op EXCEPT ![a] = o] /\ op[a].step = "stat"
    BY <1>0, <1>8 DEF StatSaved
  <2>2. /\ o.step = "commit save" /\ o.stamp = n.stamp /\ o.file = op[a].file
        /\ o.doc = op[a].doc /\ o.text = op[a].text /\ o.version = op[a].version
    BY <1>0 DEF Operation
  <2> HIDE DEF o
  <2>3. Sound(o, doc, n, raced)
    BY <1>0, <2>1, <2>2 DEF Sound, IsSaved, EditsAreDirty, Landed
  <2>4. \A b \in Actors \ {a} : /\ Apart(o, op[b], n, raced)
                                /\ Apart(op[b], o, disk[op[b].file], raced)
    BY <1>4, <2>1, <2>2 DEF Apart, Landed
  <2> QED
    BY <1>0, <1>2, <2>1, <2>2, <2>3, <2>4, PhaseSound
<1> QED
  BY <1>3, <1>5, <1>6, <1>7, <1>8

(* A step on one file leaves the operations on other files alone.          *)
LEMMA OtherFilesKept ==
    ASSUME TypeOK, HoldInv, SaveInv, NEW f \in Files, NEW b \in Actors, op[b].file # f,
           op'[b] = op[b], raced \subseteq raced', clock' \in Nat, clock <= clock',
           \A g \in Files \ {f} : disk'[g] = disk[g],
           \A d \in 1..Len(docs) : docs[d].file = f \/ SameContent(d)
    PROVE  OperationInv(b)'
<1>1. CASE op[b].step = "idle"
  <2>1. op[b].stamp \in Nat /\ clock \in Nat /\ op[b].stamp <= clock
    <3>1. op[b] \in Operation /\ clock \in Nat
      BY DEF TypeOK
    <3> QED
      BY <3>1 DEF SaveInv, OperationInv, Operation
  <2>2. op'[b].stamp <= clock' /\ op'[b].step \in Resting
    BY <1>1, <2>1 DEF Resting
  <2> QED
    BY <2>2, RestsSoundly
<1>2. CASE op[b].step # "idle"
  <2>1. op[b].file \in Files
    BY <1>2 DEF TypeOK, Grounded
  <2>2. op[b].doc \in 1..Len(docs) => SameContent(op[b].doc)
    <3>1. op[b].doc \in 1..Len(docs) => op[b].doc # NoDocument
      BY DEF NoDocument
    <3> QED
      BY <3>1 DEF HoldInv, Holds
  <2> QED
    BY <2>1, <2>2, OperationKept DEF SaveInv
<1> QED
  BY <1>1, <1>2

(* The rename.  Nobody has the new stamp yet; a save that had passed its   *)
(* comparison, or was about to look at its own rename, spoils the file.    *)
LEMMA RenamesSoundly ==
    ASSUME TypeOK, HoldInv, SaveInv, NEW a \in Actors, RenameTemp(a)
    PROVE  SaveInv'
<1> DEFINE f == op[a].file
           d == op[a].doc
           new == [node |-> clock + 1, stamp |-> clock + 1, text |-> op[a].text]
           o == [op[a] EXCEPT !.step = "stat", !.text = 0, !.stamp = 0]
           doc == [docs[d] EXCEPT !.seen = TRUE]
<1>0. op[a].step = "rename"
  BY DEF RenameTemp
<1>1. /\ op[a] \in Operation /\ clock \in Nat /\ docs \in Seq(Document)
      /\ d \in 1..Len(docs) /\ docs[d] \in Document /\ f \in Files
      /\ docs[d].file = f
      /\ op \in [Actors -> Operation] /\ disk \in [Files -> Node]
  <2>1. /\ op[a] \in Operation /\ clock \in Nat /\ docs \in Seq(Document)
        /\ d \in 1..Len(docs) /\ docs[d] \in Document /\ f \in Files
        /\ op \in [Actors -> Operation] /\ disk \in [Files -> Node]
    BY <1>0, DocumentOf DEF TypeOK
  <2>2. d # NoDocument
    BY <2>1 DEF NoDocument
  <2> QED
    BY <2>1, <2>2 DEF HoldInv, Holds
<1>2. /\ op' = [op EXCEPT ![a] = o] /\ disk' = [disk EXCEPT ![f] = new] /\ clock' = clock + 1
      /\ docs' = [docs EXCEPT ![d] = doc]
      /\ raced \subseteq raced'
      /\ f \notin raced' => \A b \in Actors \ {a} : op[b].file = f =>
                                op[b].step \notin {"rename", "stat"}
  BY <1>1 DEF RenameTemp
<1>3. /\ o.step = "stat" /\ o.stamp = 0 /\ o.file = f /\ o.doc = d /\ o.version = op[a].version
      /\ new # Missing /\ new.stamp = clock + 1 /\ new.text = op[a].text
      /\ doc.file = f /\ doc.known = docs[d].known /\ doc.text = docs[d].text
      /\ doc.version = docs[d].version /\ doc.seen
      /\ doc.dirty <=> docs[d].dirty
      /\ doc.open <=> docs[d].open
  BY <1>1 DEF Operation, Document, Missing
<1> HIDE DEF o, new, doc
<1>4. /\ op'[a] = o /\ \A b \in Actors \ {a} : op'[b] = op[b]
      /\ disk'[f] = new /\ \A g \in Files \ {f} : disk'[g] = disk[g]
      /\ Len(docs') = Len(docs) /\ docs'[d] = doc
      /\ \A e \in 1..Len(docs) \ {d} : docs'[e] = docs[e]
      /\ clock' \in Nat /\ clock < clock' /\ clock <= clock' /\ 0 <= clock'
      /\ new.stamp = clock'
  BY <1>1, <1>2, <1>3
<1>5. ASSUME NEW s \in Nat, s <= clock PROVE ~IsAt(disk'[f], s)
  BY <1>1, <1>3, <1>4, <1>5 DEF IsAt
<1>6. \A e \in 1..Len(docs) : docs[e].file = f \/ SameContent(e)
  BY <1>1, <1>4 DEF SameContent
<1>7. /\ \A e \in 1..Len(docs) : docs[e] \in Document /\ docs[e].known \in Nat /\ docs[e].known <= clock
      /\ \A b \in Actors : op[b].stamp \in Nat /\ op[b].stamp <= clock
  <2>1. \A e \in 1..Len(docs) : docs[e] \in Document
    BY <1>1
  <2>2. \A b \in Actors : op[b] \in Operation
    BY <1>1
  <2> QED
    BY <2>1, <2>2 DEF SaveInv, DocumentInv, OperationInv, Document, Operation
<1>8. DiskInv'
  <2>1. \A g \in Files : disk[g].stamp \in Nat /\ disk[g].stamp <= clock
    BY <1>1 DEF SaveInv, DiskInv, Node
  <2> QED
    BY <1>1, <1>4, <2>1 DEF DiskInv
<1>9. ASSUME NEW e \in 1..Len(docs') PROVE DocumentInv(e)'
  <2>1. CASE docs[e].file = f
    <3>1. docs'[e].file = f /\ docs'[e].known = docs[e].known
      BY <1>3, <1>4, <2>1
    <3>2. ~IsAt(disk'[f], docs'[e].known) /\ docs'[e].known <= clock'
      BY <1>1, <1>4, <1>5, <1>7, <3>1
    <3> QED
      BY <3>1, <3>2 DEF DocumentInv, Stored
  <2>2. CASE docs[e].file # f
    <3>1. SameContent(e) /\ docs[e].file \in Files /\ DocumentInv(e)
      BY <1>4, <1>6, <1>7, <2>2 DEF Document, SaveInv
    <3> QED
      BY <1>2, <1>4, <2>2, <3>1, DocumentKept
  <2> QED
    BY <2>1, <2>2
<1>10. Sound(op[a], docs[d], disk[f], raced)
  BY DEF SaveInv, OperationInv
<1>11. OperationInv(a)'
  <2>1. ~IsAt(disk'[f], doc.known)
    BY <1>1, <1>3, <1>5, <1>7
  <2>2. o.version <= doc.version
    BY <1>0, <1>3, <1>10 DEF Sound
  <2>3. f \notin raced' => IsSaved(o, doc, new)
    BY <1>0, <1>2, <1>3, <1>10 DEF Sound, IsSaved, EditsAreDirty
  <2>4. Sound(o, doc, new, raced')
    BY <1>3, <1>4, <2>1, <2>2, <2>3 DEF Sound
  <2> QED
    BY <1>3, <1>4, <2>4 DEF OperationInv
<1>12. ASSUME NEW b \in Actors \ {a}, op[b].file = f, f \notin raced'
       PROVE  op[b].step \notin {"rename", "stat", "commit save"}
  <2>1. PairInv(b, a)
    BY <1>12 DEF SaveInv
  <2> QED
    BY <1>0, <1>2, <1>12, <2>1 DEF PairInv, Apart, Landed
<1>13. ASSUME NEW b \in Actors \ {a} PROVE OperationInv(b)'
  <2>1. CASE op[b].file # f
    BY <1>1, <1>2, <1>4, <1>6, <2>1, OtherFilesKept
  <2>2. CASE op[b].file = f
    <3>1. op[b].step \in {"check", "rename", "stat", "commit save"} =>
             /\ docs'[op[b].doc].version = docs[op[b].doc].version
             /\ docs'[op[b].doc].text = docs[op[b].doc].text
      <4>1. op[b].step \in {"check", "rename", "stat", "commit save"} => op[b].doc \in 1..Len(docs)
        BY DocumentOf
      <4> QED
        BY <1>3, <1>4, <4>1
    <3>2. Sound(op[b], docs[op[b].doc], disk[f], raced)
      BY <2>2 DEF SaveInv, OperationInv
    <3>3. ~IsAt(disk'[f], op[b].stamp) /\ op[b].stamp <= clock'
      BY <1>1, <1>4, <1>5, <1>7
    <3>4. Sound(op[b], docs'[op[b].doc], disk'[f], raced')
      BY <1>12, <2>2, <3>1, <3>2, <3>3 DEF Sound, Landed
    <3> QED
      BY <1>4, <2>2, <3>3, <3>4 DEF OperationInv
  <2> QED
    BY <2>1, <2>2
<1>14. ASSUME NEW b \in Actors, NEW c \in Actors, c # b PROVE PairInv(b, c)'
  <2>1. CASE b = a
    <3>1. op'[c] = op[c] /\ ~IsAt(disk'[f], op[c].stamp)
      BY <1>4, <1>5, <1>7, <1>14, <2>1
    <3>2. Apart(o, op[c], disk'[f], raced')
      BY <1>3, <1>12, <1>14, <2>1, <3>1 DEF Apart
    <3> QED
      BY <1>3, <1>4, <2>1, <3>1, <3>2 DEF PairInv
  <2>2. CASE b # a /\ op[b].file = f
    BY <1>4, <1>12, <2>2 DEF PairInv, Apart, Landed
  <2>3. CASE b # a /\ op[b].file # f /\ c = a
    BY <1>3, <1>4, <2>3 DEF PairInv, Apart
  <2>4. CASE b # a /\ op[b].file # f /\ c # a
    <3>1. PairInv(b, c) /\ op'[b] = op[b] /\ op'[c] = op[c]
      BY <1>4, <1>14, <2>4 DEF SaveInv
    <3>2. CASE op[b].step \in Landed
      <4>1. op[b].file \in Files
        BY <3>2, DocumentOf DEF Landed
      <4>2. disk'[op[b].file] = disk[op[b].file]
        BY <1>4, <2>4, <4>1
      <4> QED
        BY <1>2, <3>1, <4>2, PairKept
    <3>3. CASE op[b].step \notin Landed
      BY <3>1, <3>3 DEF PairInv, Apart
    <3> QED
      BY <3>2, <3>3
  <2> QED
    BY <2>1, <2>2, <2>3, <2>4
<1> QED
  BY <1>8, <1>9, <1>11, <1>13, <1>14 DEF SaveInv

(* What the other operations on document d know is true of doc.            *)
OthersStaySound(a, d, doc) ==
    \A b \in Actors \ {a} : op[b].doc = d => Sound(op[b], doc, disk[op[b].file], raced')

(* A step that ends an operation with a change to its document.            *)
LEMMA ChangesSoundly ==
    ASSUME TypeOK, SaveInv, NEW a \in Actors, Finish(a),
           NEW d \in 1..Len(docs), NEW doc, docs' = [docs EXCEPT ![d] = doc],
           doc.known <= clock', disk' = disk, raced \subseteq raced',
           clock' \in Nat, clock <= clock', Stored(doc, disk[doc.file], raced'),
           OthersStaySound(a, d, doc)
    PROVE  SaveInv'
<1>0. clock \in Nat /\ docs \in Seq(Document)
  BY DEF TypeOK
<1>1. /\ op'[a] = Idle /\ \A b \in Actors \ {a} : op'[b] = op[b]
      /\ Len(docs') = Len(docs) /\ docs'[d] = doc
      /\ \A e \in 1..Len(docs) \ {d} : docs'[e] = docs[e]
  BY <1>0 DEF Finish, TypeOK
<1>2. \A e \in 1..Len(docs) \ {d} : SameContent(e)
  BY <1>1 DEF SameContent
<1>3. DiskInv'
  <2>1. \A g \in Files : disk[g].stamp \in Nat /\ disk[g].stamp <= clock
    BY DEF SaveInv, DiskInv, TypeOK, Node
  <2> QED
    BY <1>0, <2>1 DEF DiskInv
<1>4. ASSUME NEW e \in 1..Len(docs') PROVE DocumentInv(e)'
  <2>1. CASE e = d
    BY <1>1, <2>1 DEF DocumentInv
  <2>2. CASE e # d
    BY <1>1, <1>2, <2>2, DocumentKept DEF SaveInv
  <2> QED
    BY <2>1, <2>2
<1>5. OperationInv(a)' /\ \A b \in Actors : PairInv(a, b)' /\ PairInv(b, a)'
  <2>1. op'[a].step \in Resting /\ op'[a].stamp <= clock'
    BY <1>1 DEF Idle, Resting
  <2> QED
    BY <2>1, RestsSoundly
<1>6. ASSUME NEW b \in Actors \ {a} PROVE OperationInv(b)'
  <2>1. CASE op[b].doc = d
    <3>1. op[b].stamp <= clock'
      <4>1. op[b].stamp \in Nat /\ op[b].stamp <= clock
        <5>1. op[b] \in Operation
          BY DEF TypeOK
        <5> QED
          BY <5>1 DEF SaveInv, OperationInv, Operation
      <4> QED
        BY <1>0, <4>1
    <3>2. Sound(op[b], doc, disk[op[b].file], raced')
      BY <2>1 DEF OthersStaySound
    <3> QED
      BY <1>1, <2>1, <3>1, <3>2 DEF OperationInv
  <2>2. CASE op[b].doc # d
    BY <1>1, <1>2, <2>2, OperationKept DEF SaveInv
  <2> QED
    BY <2>1, <2>2
<1>7. ASSUME NEW b \in Actors, NEW c \in Actors, c # b PROVE PairInv(b, c)'
  <2>1. CASE b # a /\ c # a
    <3>1. PairInv(b, c) /\ op'[b] = op[b] /\ op'[c] = op[c]
      BY <1>1, <1>7, <2>1 DEF SaveInv
    <3> QED
      BY <3>1, PairKept
  <2> QED
    BY <1>5, <2>1
<1> QED
  BY <1>3, <1>4, <1>5, <1>6, <1>7 DEF SaveInv

(* The commit of a save.                                                   *)
LEMMA CommitsSoundly ==
    ASSUME TypeOK, HoldInv, SaveInv, NEW a \in Actors, CommitSave(a)
    PROVE  SaveInv'
<1> DEFINE d == op[a].doc
           f == op[a].file
           doc == [mark_clean_if_version(docs[d], op[a].version)
                     EXCEPT !.known = IF docs[d].open THEN op[a].stamp ELSE @]
<1>1. /\ op[a].step = "commit save" /\ Finish(a) /\ UNCHANGED <<disk, clock, raced>>
      /\ docs' = [docs EXCEPT ![d] = doc]
  BY DEF CommitSave
<1>2. /\ op[a] \in Operation /\ d \in 1..Len(docs) /\ docs[d] \in Document /\ f \in Files
      /\ clock \in Nat /\ docs[d].open /\ docs[d].file = f
      /\ op[a].stamp \in Nat /\ op[a].stamp <= clock
  <2>1. op[a] \in Operation /\ d \in 1..Len(docs) /\ docs[d] \in Document /\ f \in Files
    BY <1>1, DocumentOf
  <2>2. d # NoDocument
    BY <2>1 DEF NoDocument
  <2>3. op[a].stamp \in Nat
    BY <2>1 DEF Operation
  <2> QED
    BY <2>1, <2>2, <2>3 DEF HoldInv, Holds, SaveInv, OperationInv, TypeOK
<1>3. /\ doc \in Document /\ doc.file = f /\ doc.known = op[a].stamp
      /\ doc.text = docs[d].text /\ doc.version = docs[d].version
      /\ doc.seen <=> docs[d].seen
      /\ doc.dirty <=> docs[d].dirty /\ docs[d].version # op[a].version
  BY <1>2 DEF Document, mark_clean_if_version
<1> HIDE DEF doc
<1>4. Sound(op[a], docs[d], disk[f], raced)
  BY DEF SaveInv, OperationInv
<1>5. Stored(doc, disk[doc.file], raced)
  BY <1>1, <1>3, <1>4 DEF Stored, Sound, IsSaved, EditsAreDirty
<1>6. ASSUME NEW b \in Actors \ {a}, op[b].doc = d
      PROVE  Sound(op[b], doc, disk[op[b].file], raced)
  <2>1. op[b].file = f
    <3>1. d # NoDocument
      BY <1>2 DEF NoDocument
    <3> QED
      BY <1>2, <1>6, <3>1 DEF HoldInv, Holds
  <2>2. Sound(op[b], docs[d], disk[f], raced) /\ PairInv(a, b)
    BY <1>6, <2>1 DEF SaveInv, OperationInv
  <2>3. f \notin raced => /\ op[b].step \notin {"rename", "stat", "commit save"}
                          /\ op[b].step \in {"capture", "check"} => ~IsAt(disk[f], op[b].stamp)
    BY <1>1, <2>1, <2>2 DEF PairInv, Apart, Landed
  <2> QED
    BY <1>3, <2>1, <2>2, <2>3 DEF Sound, Landed
<1>7. OthersStaySound(a, d, doc)
  BY <1>1, <1>6 DEF OthersStaySound
<1>8. /\ doc.known <= clock' /\ clock' \in Nat /\ clock <= clock' /\ raced \subseteq raced'
      /\ Stored(doc, disk[doc.file], raced')
  <2>1. clock' = clock /\ raced' = raced
    BY <1>1
  <2>2. Stored(doc, disk[doc.file], raced')
    BY <1>5, <2>1
  <2>3. doc.known <= clock' /\ clock' \in Nat /\ clock <= clock'
    <3>1. doc.known = op[a].stamp
      BY <1>3
    <3> QED
      BY <1>2, <2>1, <3>1
  <2> QED
    BY <2>1, <2>2, <2>3
<1> HIDE DEF d, f
<1> QED
  BY <1>1, <1>2, <1>7, <1>8, ChangesSoundly

(* A reload replaces the text.  A save that has captured the old text      *)
(* spoils the file.                                                        *)
LEMMA ReplacesSoundly ==
    ASSUME TypeOK, HoldInv, SaveInv, NEW a \in Actors, ReplaceText(a)
    PROVE  SaveInv'
<1> DEFINE d == op[a].doc
           f == op[a].file
           doc == [replace_text_from_storage(docs[d], op[a].text)
                     EXCEPT !.known = IF docs[d].open THEN op[a].stamp ELSE @]
<1>1. /\ op[a].step = "replace" /\ Finish(a) /\ UNCHANGED <<disk, clock>>
      /\ docs' = [docs EXCEPT ![d] = doc]
      /\ raced' = IF SavingOld(d) THEN raced \cup {f} ELSE raced
  BY DEF ReplaceText
<1>2. /\ op[a] \in Operation /\ d \in 1..Len(docs) /\ docs[d] \in Document /\ f \in Files
      /\ clock \in Nat /\ docs[d].open /\ docs[d].file = f
      /\ op[a].stamp \in Nat /\ op[a].stamp <= clock /\ op[a].text \in Nat
      /\ docs[d].version \in Nat
  <2>1. op[a] \in Operation /\ d \in 1..Len(docs) /\ docs[d] \in Document /\ f \in Files
    BY <1>1, DocumentOf
  <2>2. d # NoDocument
    BY <2>1 DEF NoDocument
  <2>3. op[a].stamp \in Nat /\ op[a].text \in Nat /\ docs[d].version \in Nat
    BY <2>1 DEF Operation, Document
  <2> QED
    BY <2>1, <2>2, <2>3 DEF HoldInv, Holds, SaveInv, OperationInv, TypeOK
<1>3. /\ doc.file = f /\ doc.known = op[a].stamp
      /\ doc.text = op[a].text /\ ~doc.dirty
      /\ doc.version = IF docs[d].text = op[a].text THEN docs[d].version ELSE docs[d].version + 1
      /\ doc.seen <=> (docs[d].seen \/ op[a].text = disk[f].text)
  <2> DEFINE x == docs[d]
             v == IF x.text = op[a].text THEN x.version ELSE x.version + 1
             replaced == [x EXCEPT !.text = op[a].text, !.dirty = FALSE,
                                   !.seen = x.seen \/ op[a].text = disk[x.file].text,
                                   !.version = v]
  <2>1. replaced = replace_text_from_storage(x, op[a].text)
    BY <1>2 DEF Document, replace_text_from_storage
  <2>2. x \in Document
    BY <1>2
  <2> HIDE DEF x, v
  <2>3. /\ replaced.file = x.file /\ replaced.text = op[a].text /\ ~replaced.dirty
        /\ replaced.version = v
        /\ DOMAIN replaced = DOMAIN x
        /\ replaced.seen <=> (x.seen \/ op[a].text = disk[x.file].text)
    BY <2>2 DEF Document
  <2>4. "known" \in DOMAIN x
    BY <2>2 DEF Document
  <2> HIDE DEF replaced
  <2>5. doc = [replaced EXCEPT !.known = op[a].stamp]
    BY <1>2, <2>1 DEF x
  <2>6. /\ doc.file = replaced.file /\ doc.text = replaced.text /\ doc.version = replaced.version
        /\ doc.dirty <=> replaced.dirty
        /\ doc.seen <=> replaced.seen
        /\ doc.known = op[a].stamp
    <3> HIDE DEF doc
    <3> QED
      BY <2>3, <2>4, <2>5
  <2> QED
    BY <1>2, <2>3, <2>6 DEF x, v
<1> HIDE DEF doc
<1>4. Stored(doc, disk[doc.file], raced')
  <2>1. Sound(op[a], docs[d], disk[f], raced)
    BY DEF SaveInv, OperationInv
  <2> QED
    BY <1>1, <1>3, <2>1 DEF Stored, Sound
<1>5. ASSUME NEW b \in Actors \ {a}, op[b].doc = d
      PROVE  Sound(op[b], doc, disk[op[b].file], raced')
  <2>1. op[b].file = f
    <3>1. d # NoDocument
      BY <1>2 DEF NoDocument
    <3> QED
      BY <1>2, <1>5, <3>1 DEF HoldInv, Holds
  <2>2. Sound(op[b], docs[d], disk[f], raced) /\ op[b].version \in Nat
    <3>1. op[b] \in Operation
      BY DEF TypeOK
    <3> QED
      BY <1>5, <2>1, <3>1 DEF SaveInv, OperationInv, Operation
  <2>3. f \notin raced' => op[b].step \notin {"check", "rename", "stat", "commit save"}
    BY <1>1, <1>5 DEF SavingOld
  <2>4. /\ op[b].step \in {"check", "rename", "stat", "commit save"} =>
              op[b].version <= docs[d].version
        /\ op[b].step \in {"check", "rename"} /\ op[b].version = docs[d].version =>
              op[b].text = docs[d].text
    BY <2>2 DEF Sound
  <2>5. /\ op[b].version <= docs[d].version =>
              /\ op[b].version <= doc.version
              /\ op[b].version = doc.version =>
                    op[b].version = docs[d].version /\ docs[d].text = doc.text
    BY <1>2, <1>3, <2>2
  <2>6. op[b].step \in {"check", "rename", "stat", "commit save"} => op[b].version <= doc.version
    BY <2>4, <2>5
  <2>7. op[b].step \in {"check", "rename"} /\ op[b].version = doc.version => op[b].text = doc.text
    BY <2>4, <2>5
  <2> QED
    BY <1>1, <1>3, <2>1, <2>2, <2>3, <2>6, <2>7 DEF Sound, Landed
<1>6. raced \subseteq raced' /\ doc.known <= clock' /\ clock' \in Nat /\ clock <= clock'
  BY <1>1, <1>2, <1>3
<1>7. OthersStaySound(a, d, doc)
  BY <1>5 DEF OthersStaySound
<1> HIDE DEF d, f
<1> QED
  BY <1>1, <1>2, <1>4, <1>6, <1>7, ChangesSoundly

(* An edit makes its document dirty.                                       *)
LEMMA EditsSoundly ==
    ASSUME TypeOK, HoldInv, SaveInv, NEW c \in Connections, ApplyEdit(c)
    PROVE  SaveInv'
<1> DEFINE d == op[c].doc
           doc == [docs[d] EXCEPT !.text = clock + 1, !.version = docs[d].version + 1,
                                  !.dirty = TRUE]
<1>0. c \in Actors
  BY DEF Actors
<1>1. op[c].step = "edit" /\ Finish(c) /\ UNCHANGED <<disk, raced>>
  BY DEF ApplyEdit
<1>2. /\ d \in 1..Len(docs) /\ docs[d] \in Document /\ docs \in Seq(Document)
      /\ clock \in Nat /\ docs[d].known \in Nat /\ docs[d].known <= clock
      /\ docs[d].version \in Nat /\ Stored(docs[d], disk[docs[d].file], raced)
  <2>1. d \in 1..Len(docs) /\ docs[d] \in Document /\ docs \in Seq(Document) /\ clock \in Nat
    BY <1>0, <1>1, DocumentOf DEF TypeOK
  <2> QED
    BY <2>1 DEF SaveInv, DocumentInv, Document
<1>3. CASE docs' = docs /\ clock' = clock
  <2>1. Len(docs') = Len(docs) /\ \A e \in 1..Len(docs) : SameContent(e)
    BY <1>3 DEF SameContent
  <2> QED
    BY <1>0, <1>1, <1>3, <2>1, EndsSoundly
<1>4. CASE clock' = clock + 1 /\ docs' = [docs EXCEPT ![d] = doc]
  <2>1. /\ doc.file = docs[d].file /\ doc.known = docs[d].known
        /\ doc.version = docs[d].version + 1 /\ doc.dirty
        /\ doc.seen <=> docs[d].seen
        /\ doc.open <=> docs[d].open
    BY <1>2 DEF Document
  <2> HIDE DEF doc
  <2>2. Stored(doc, disk[doc.file], raced)
    BY <1>2, <2>1 DEF Stored
  <2>3. ASSUME NEW b \in Actors \ {c}, op[b].doc = d
        PROVE  Sound(op[b], doc, disk[op[b].file], raced)
    <3>1. Sound(op[b], docs[d], disk[op[b].file], raced) /\ op[b].version \in Nat
      <4>1. op[b] \in Operation
        BY DEF TypeOK
      <4> QED
        BY <2>3, <4>1 DEF SaveInv, OperationInv, Operation
    <3>2. op[b].step \in {"check", "rename", "stat", "commit save"} =>
             op[b].version <= doc.version /\ op[b].version # doc.version
      <4>1. op[b].step \in {"check", "rename", "stat", "commit save"} =>
               op[b].version <= docs[d].version
        BY <3>1 DEF Sound
      <4>2. op[b].version <= docs[d].version =>
               op[b].version <= doc.version /\ op[b].version # doc.version
        BY <1>2, <2>1, <3>1
      <4> QED
        BY <4>1, <4>2
    <3> QED
      BY <2>1, <3>1, <3>2 DEF Sound, IsSaved, EditsAreDirty, Landed
  <2>4. raced \subseteq raced' /\ doc.known <= clock' /\ clock' \in Nat /\ clock <= clock'
    BY <1>1, <1>2, <1>4, <2>1
  <2>5. OthersStaySound(c, d, doc) /\ Stored(doc, disk[doc.file], raced')
    BY <1>1, <2>2, <2>3 DEF OthersStaySound
  <2> HIDE DEF d
  <2> QED
    BY <1>0, <1>1, <1>2, <1>4, <2>4, <2>5, ChangesSoundly
<1>5. \/ docs' = docs /\ clock' = clock
      \/ clock' = clock + 1 /\ docs' = [docs EXCEPT ![d] = doc]
  <2>1. CASE docs[d].holder = c
    <3>1. clock' = clock + 1
      BY <2>1 DEF ApplyEdit
    <3>2. docs' = [docs EXCEPT ![d].text = clock + 1, ![d].version = @ + 1, ![d].dirty = TRUE]
      BY <2>1 DEF ApplyEdit
    <3>3. docs' = [docs EXCEPT ![d] = doc]
      BY <1>2, <3>2
    <3> QED
      BY <3>1, <3>3
  <2>2. CASE docs[d].holder # c
    <3>1. docs' = docs /\ clock' = clock
      BY <2>2 DEF ApplyEdit
    <3> HIDE DEF doc
    <3> QED
      BY <3>1
  <2> QED
    BY <2>1, <2>2
<1> QED
  BY <1>3, <1>4, <1>5

(* Another program changes a file.  Nobody has the new stamp; a save that  *)
(* had passed its comparison, or was about to look at what it renamed,     *)
(* spoils the file.                                                        *)
LEMMA ExternalSoundly ==
    ASSUME TypeOK, HoldInv, SaveInv, NEW f \in Files, ExternalStep(f)
    PROVE  SaveInv'
<1>0. /\ clock \in Nat /\ disk \in [Files -> Node] /\ docs \in Seq(Document)
      /\ op \in [Actors -> Operation]
  BY DEF TypeOK
<1>1. /\ clock' \in Nat /\ clock <= clock'
      /\ \A g \in Files \ {f} : disk'[g] = disk[g]
      /\ disk'[f] = Missing \/ (disk'[f].stamp = clock + 1 /\ clock' = clock + 1)
  <2>1. CASE WriteInPlace(f)
    <3>1. /\ clock' = clock + 1
          /\ disk' = [disk EXCEPT ![f].stamp = clock + 1, ![f].text = clock + 1]
      BY <2>1 DEF WriteInPlace
    <3>2. disk[f] \in Node
      BY <1>0
    <3>3. disk'[f].stamp = clock + 1
      BY <1>0, <3>1, <3>2 DEF Node
    <3> QED
      BY <1>0, <3>1, <3>3
  <2>2. CASE ReplaceFile(f)
    BY <1>0, <2>2 DEF ReplaceFile
  <2>3. CASE RemoveFile(f)
    BY <1>0, <2>3 DEF RemoveFile
  <2> QED
    BY <2>1, <2>2, <2>3 DEF ExternalStep
<1>2. ASSUME NEW s \in Nat, s <= clock PROVE ~IsAt(disk'[f], s)
  BY <1>0, <1>1, <1>2 DEF IsAt
<1>3. Changed(f)
  BY DEF ExternalStep, WriteInPlace, ReplaceFile, RemoveFile
<1>4. /\ raced \subseteq raced'
      /\ f \notin raced' => \A b \in Actors : op[b].file = f => op[b].step \notin {"rename", "stat"}
  BY <1>3 DEF Changed, Replacing
<1>5. ASSUME NEW b \in Actors
      PROVE  /\ op'[b].step = op[b].step /\ op'[b].file = op[b].file /\ op'[b].doc = op[b].doc
             /\ op'[b].stamp = op[b].stamp /\ op'[b].version = op[b].version
             /\ op'[b] = op[b] \/ (op[b].step = "read" /\ op[b].file = f)
  <2>1. CASE UNCHANGED op
    BY <2>1
  <2>2. CASE WriteInPlace(f)
    <3>1. \/ op'[b] = op[b]
          \/ op'[b] = [op[b] EXCEPT !.text = clock + 1] /\ op[b].step = "read" /\ op[b].file = f
      BY <2>2 DEF WriteInPlace
    <3>2. op[b] \in Operation
      BY <1>0
    <3> QED
      BY <3>1, <3>2 DEF Operation
  <2> QED
    BY <2>1, <2>2 DEF ExternalStep, ReplaceFile, RemoveFile
<1>6. Len(docs') = Len(docs)
  BY <1>0, <1>3 DEF Changed
<1>7. ASSUME NEW e \in 1..Len(docs)
      PROVE  /\ docs[e].file # f => SameContent(e)
             /\ docs'[e].file = docs[e].file /\ docs'[e].known = docs[e].known
             /\ docs'[e].text = docs[e].text /\ docs'[e].version = docs[e].version
             /\ docs[e].known \in Nat /\ docs[e].known <= clock /\ docs[e].file \in Files
  <2>1. docs[e] \in Document
    BY <1>0
  <2>2. docs[e].known \in Nat /\ docs[e].file \in Files
    BY <2>1 DEF Document
  <2>3. docs[e].known <= clock
    BY DEF SaveInv, DocumentInv
  <2>4. CASE docs[e].file = f
    <3>1. docs'[e] = [docs[e] EXCEPT !.seen = FALSE]
      BY <1>3, <2>4 DEF Changed
    <3> QED
      BY <2>1, <2>2, <2>3, <2>4, <3>1 DEF Document
  <2>5. CASE docs[e].file # f
    <3>1. docs'[e] = docs[e]
      BY <1>3, <2>5 DEF Changed
    <3> QED
      BY <2>2, <2>3, <3>1 DEF SameContent
  <2> QED
    BY <2>4, <2>5
<1>8. ASSUME NEW b \in Actors
      PROVE  op[b].stamp \in Nat /\ op[b].stamp <= clock /\ op[b].stamp <= clock'
  <2>1. op[b] \in Operation
    BY <1>0
  <2>2. op[b].stamp \in Nat /\ op[b].stamp <= clock
    BY <2>1 DEF Operation, SaveInv, OperationInv
  <2> QED
    BY <1>0, <1>1, <2>2
<1>9. DiskInv'
  <2>1. ASSUME NEW g \in Files \ {f} PROVE disk'[g].stamp <= clock'
    <3>1. disk[g].stamp \in Nat /\ disk[g].stamp <= clock
      BY <1>0 DEF SaveInv, DiskInv, Node
    <3> QED
      BY <1>0, <1>1, <3>1
  <2>2. disk'[f].stamp <= clock'
    BY <1>0, <1>1 DEF Missing
  <2> QED
    BY <2>1, <2>2 DEF DiskInv
<1>10. ASSUME NEW e \in 1..Len(docs') PROVE DocumentInv(e)'
  <2>1. CASE docs[e].file = f
    <3>1. docs'[e].file = f /\ docs'[e].known <= clock'
      BY <1>0, <1>1, <1>6, <1>7, <2>1
    <3>2. ~IsAt(disk'[f], docs'[e].known)
      BY <1>2, <1>6, <1>7
    <3> QED
      BY <3>1, <3>2 DEF DocumentInv, Stored
  <2>2. CASE docs[e].file # f
    <3>1. SameContent(e) /\ docs[e].file \in Files /\ DocumentInv(e)
      BY <1>6, <1>7, <2>2 DEF SaveInv
    <3> QED
      BY <1>1, <1>4, <1>6, <2>2, <3>1, DocumentKept
  <2> QED
    BY <2>1, <2>2
<1>11. ASSUME NEW b \in Actors PROVE OperationInv(b)'
  <2>1. CASE op[b].file # f
    <3>1. op'[b] = op[b] /\ \A e \in 1..Len(docs) : docs[e].file = f \/ SameContent(e)
      BY <1>5, <1>7, <2>1
    <3> QED
      BY <1>1, <1>4, <2>1, <3>1, OtherFilesKept
  <2>2. CASE op[b].file = f
    <3> DEFINE doc == docs[op[b].doc]
               new == docs'[op[b].doc]
    <3>1. op[b].step \in {"check", "rename", "stat", "commit save"} =>
             /\ new.version = doc.version /\ new.text = doc.text
             /\ op'[b] = op[b] /\ ~IsAt(disk'[f], new.known)
      <4>1. op[b].step \in {"check", "rename", "stat", "commit save"} => op[b].doc \in 1..Len(docs)
        BY DocumentOf
      <4> QED
        BY <1>2, <1>5, <1>7, <4>1
    <3>2. Sound(op[b], doc, disk[f], raced)
      BY <2>2 DEF SaveInv, OperationInv
    <3>3. ~IsAt(disk'[f], op'[b].stamp) /\ op'[b].stamp <= clock'
      BY <1>2, <1>5, <1>8
    <3>4. f \notin raced' => op[b].step \notin {"rename", "stat"}
      BY <1>4, <2>2
    <3>5. op'[b].step = op[b].step /\ op'[b].file = f /\ op'[b].doc = op[b].doc
      BY <1>5, <2>2
    <3> HIDE DEF doc, new
    <3>6. Sound(op'[b], new, disk'[f], raced')
      BY <3>1, <3>2, <3>3, <3>4, <3>5 DEF Sound, Landed
    <3> QED
      BY <3>3, <3>5, <3>6 DEF OperationInv, new
  <2> QED
    BY <2>1, <2>2
<1>12. ASSUME NEW b \in Actors, NEW c \in Actors, c # b PROVE PairInv(b, c)'
  <2>1. Apart(op[b], op[c], disk[op[b].file], raced)
    BY <1>12 DEF SaveInv, PairInv
  <2>2. /\ op'[b].step = op[b].step /\ op'[b].file = op[b].file
        /\ op'[c].step = op[c].step /\ op'[c].file = op[c].file /\ op'[c].stamp = op[c].stamp
    BY <1>5
  <2>3. CASE op[b].step \notin Landed
    BY <2>2, <2>3 DEF PairInv, Apart
  <2>4. CASE op[b].step \in Landed /\ op[b].file = f
    <3>1. ~IsAt(disk'[f], op[c].stamp)
      BY <1>2, <1>8
    <3>2. f \notin raced' /\ op[c].file = f =>
             op[c].step \notin {"rename", "stat", "commit save"}
      BY <1>4, <2>1, <2>4 DEF Apart
    <3> QED
      BY <2>2, <2>4, <3>1, <3>2 DEF PairInv, Apart
  <2>5. CASE op[b].step \in Landed /\ op[b].file # f
    <3>1. op[b].file \in Files
      BY <2>5, DocumentOf DEF Landed
    <3>2. disk'[op[b].file] = disk[op[b].file]
      BY <1>1, <2>5, <3>1
    <3> QED
      BY <1>4, <2>1, <2>2, <3>2 DEF PairInv, Apart
  <2> QED
    BY <2>3, <2>4, <2>5
<1> QED
  BY <1>9, <1>10, <1>11, <1>12 DEF SaveInv

(* Closing a document and leaving.                                         *)
LEMMA LeavesSoundly ==
    ASSUME TypeOK, SaveInv, NEW c \in Connections,
           \/ \E d \in 1..Len(docs), forced \in BOOLEAN : close_document(c, d, forced)
           \/ release_client_access(c)
    PROVE  SaveInv'
<1>0. c \in Actors /\ clock \in Nat /\ Len(docs) \in Nat
  BY DEF Actors, TypeOK
<1>1. Len(docs') = Len(docs) /\ \A d \in 1..Len(docs) : SameContent(d)
  BY AccessIsNotContent
<1>2. UNCHANGED <<disk, op, clock, raced>>
  BY DEF close_document, release_client_access
<1>3. OperationInv(c)' /\ \A b \in Actors \ {c} : PairInv(c, b)' /\ PairInv(b, c)'
  BY <1>0, <1>1, <1>2, OperationKept, PairKept DEF SaveInv
<1> QED
  BY <1>0, <1>1, <1>2, <1>3, MovesSoundly

(* Every step keeps the invariant.                                         *)
LEMMA SaveSound ==
    ASSUME TypeOK, RegistryIsConsistent, HoldInv, SaveInv, [Next]_vars
    PROVE  SaveInv'
<1>1. CASE UNCHANGED vars
  <2>1. UNCHANGED <<disk, docs, op, clock, raced>>
    BY <1>1 DEF vars, registry
  <2> QED
    BY <2>1 DEF SaveInv, DiskInv, DocumentInv, OperationInv, PairInv
<1>2. ASSUME NEW a \in Actors, OpenStep(a) \/ FailIO(a) PROVE SaveInv'
  BY <1>2, OpensSoundly, RegistersSoundly DEF OpenStep
<1>3. ASSUME NEW a \in Actors, SaveStep(a) PROVE SaveInv'
  BY <1>3, OpensSoundly, SavesSoundly, RenamesSoundly, CommitsSoundly DEF SaveStep
<1>4. ASSUME NEW a \in Actors, ReloadStep(a) PROVE SaveInv'
  BY <1>4, OpensSoundly, ReplacesSoundly DEF ReloadStep
<1>5. ASSUME NEW c \in Connections, ConnectionStep(c) PROVE SaveInv'
  <2>1. c \in Actors
    BY DEF Actors
  <2> QED
    BY <1>5, <2>1, OpensSoundly, EditsSoundly, LeavesSoundly DEF ConnectionStep
<1>6. ASSUME NEW f \in Files, ExternalStep(f) PROVE SaveInv'
  BY <1>6, ExternalSoundly
<1> QED
  BY <1>1, <1>2, <1>3, <1>4, <1>5, <1>6 DEF Next

LEMMA SaveInit ==
    ASSUME Init
    PROVE  HoldInv /\ SaveInv
<1>1. \A b \in Actors : op[b] = Idle
  BY DEF Init
<1>2. HoldInv
  BY <1>1 DEF HoldInv, Holds, Idle
<1>3. Len(docs) = 0 /\ clock = 1 /\ \A f \in Files : disk[f].stamp = 1
  BY DEF Init
<1>4. DiskInv /\ \A d \in 1..Len(docs) : DocumentInv(d)
  BY <1>3 DEF DiskInv
<1>5. \A b \in Actors : op[b].step = "idle" /\ op[b].stamp = 0
  BY <1>1 DEF Idle
<1>6. ASSUME NEW b \in Actors PROVE OperationInv(b)
  <2>1. op[b].stamp <= clock
    BY <1>3, <1>5
  <2>2. Sound(op[b], docs[op[b].doc], disk[op[b].file], raced)
    BY <1>5 DEF Sound, Landed
  <2> QED
    BY <2>1, <2>2 DEF OperationInv
<1>7. \A a, b \in Actors : PairInv(b, a)
  BY <1>5 DEF PairInv, Apart, Landed
<1> QED
  BY <1>2, <1>4, <1>6, <1>7 DEF SaveInv

LEMMA SavesAreSound == Spec => [](HoldInv /\ SaveInv)
<1>1. Init => HoldInv /\ SaveInv
  BY SaveInit
<1>2. TypeOK /\ RegistryIsConsistent /\ HoldInv /\ SaveInv /\ [Next]_vars =>
        (HoldInv /\ SaveInv)'
  <2>1. TypeOK /\ RegistryIsConsistent /\ HoldInv /\ [Next]_vars => HoldInv'
    BY HoldsStep DEF HoldInv
  <2> QED
    BY <2>1, SaveSound
<1> QED
  BY <1>1, <1>2, WorkspaceTypeCorrect, RegistryStaysConsistent, PTL DEF Spec

(* A clean document whose recorded metadata the file has shows the file's  *)
(* text, for any number of clients, runtime tasks and files: a save or a   *)
(* reload never marks clean what is not on disk.                           *)
THEOREM CleanDocumentsAreStored == Spec => []CleanMeansStored
<1>1. SaveInv => CleanMeansStored
  BY DEF SaveInv, DocumentInv, Stored, IsAt, CleanMeansStored, Registered
<1> QED
  BY <1>1, SavesAreSound, PTL

(* The rename of a save replaces content that its document was loaded from *)
(* or saved as: the metadata comparison after the temporary file is        *)
(* written is enough, unless the file was written right then.              *)
THEOREM SavesReplaceOnlySeenContent == Spec => SavesReplaceSeenContent
<1>1. SaveInv => \A a \in Actors : RenameTemp(a) => op[a].file \in raced \/ docs[op[a].doc].seen
  BY DEF SaveInv, OperationInv, Sound, RenameTemp
<1>2. HoldInv /\ SaveInv /\ [Next]_vars =>
        [\A a \in Actors : RenameTemp(a) => op[a].file \in raced \/ docs[op[a].doc].seen]_vars
  BY <1>1
<1> QED
  BY <1>2, SavesAreSound, PTL DEF Spec, SavesReplaceSeenContent

================================================================================
