----------------------------- MODULE WorkspaceFiles -----------------------------
(***************************************************************************)
(* The file workspace of a tab: the registry of open documents and the     *)
(* open, save, reload and close operations on files.  Every operation      *)
(* prepares and commits under the workspace mutex and does its disk I/O    *)
(* with the mutex released; a document has a mutex of its own.  Meanwhile  *)
(* other operations run, and other programs change the files.              *)
(*                                                                         *)
(* A text is a number: each edit and each external write makes a new one.  *)
(* A stamp stands for the length and modification time of a file, and is   *)
(* new at each write.  A node is an inode: a rename puts a path on another *)
(* node, while an open handle keeps reading the old one.  Stamps are never *)
(* reused, so an equal stamp implies an equal node.                        *)
(***************************************************************************)
EXTENDS Naturals, Sequences, FiniteSets

CONSTANTS Connections,        \* clients; the handler of each serves one message at a time
          RuntimeTasks,       \* document ops of the JS runtime, all of them client 0
          Runtime,            \* client 0
          NoClient,           \* active_lease = None
          Files,              \* canonical paths
          MaxServerDocuments, \* MAX_SERVER_DOCUMENTS
          MaxClientDocuments, \* MAX_DOCUMENTS_PER_CLIENT
          MaxRoots,           \* MAX_WORKSPACE_ROOTS
          OpenKinds,          \* OpenDocument ("workspace"), OpenSelectedFile ("selected")
          MaxChanges,         \* bound: texts, stamps, documents and single-file roots made
          MaxDocuments        \* bound: documents ever registered

Clients == Connections \cup {Runtime}
Actors == Connections \cup RuntimeTasks

ASSUME ActorsAssumption ==
    /\ NoClient \notin Clients
    /\ Runtime \notin Connections
    /\ Connections \cap RuntimeTasks = {}
ASSUME LimitsAssumption ==
    /\ MaxServerDocuments \in Nat /\ MaxClientDocuments \in Nat /\ MaxRoots \in Nat
    /\ MaxChanges \in Nat /\ MaxDocuments \in Nat

VARIABLES
    disk,    \* file -> the node it names, with its stamp and text, or Missing
    docs,    \* sequence of documents, by document id
    index,   \* path_to_document: file -> document id, 0 when not open
    grants,  \* number of single-file roots
    op,      \* actor -> the operation it is in the middle of
    clock,   \* texts and stamps made so far
    raced    \* history: files whose save another write or a reload overlapped

registry == <<docs, index, grants>>
vars == <<disk, registry, op, clock, raced>>

--------------------------------------------------------------------------------
NoDocument == 0
NoFile == 0
Missing == [node |-> 0, stamp |-> 0, text |-> 0]

(* OpenDocument with its DocumentState.  "seen" is a history: the document *)
(* was loaded from, or saved as, the content its file has now.             *)
Document == [file : Files, open : BOOLEAN, known : Nat, text : Nat, version : Nat,
             dirty : BOOLEAN, holder : Clients \cup {NoClient}, access : SUBSET Clients,
             seen : BOOLEAN]

Node == [node : Nat, stamp : Nat, text : Nat]

Step == {"idle", "edit", "open", "read", "register", "authorized save", "capture", "check",
         "rename", "stat", "commit save", "authorized reload", "commit reload", "replace"}

(* What an operation carries from one phase to the next.                   *)
Operation == [step : Step, file : Files \cup {NoFile}, doc : Nat, node : Nat, stamp : Nat,
              text : Nat, version : Nat, force : BOOLEAN, selected : BOOLEAN]

Idle == [step |-> "idle", file |-> NoFile, doc |-> NoDocument, node |-> 0, stamp |-> 0,
         text |-> 0, version |-> 0, force |-> FALSE, selected |-> FALSE]

(* An operation of kind "step" on document d that knows nothing yet.       *)
On(d, step) == [Idle EXCEPT !.step = step, !.doc = d, !.file = docs[d].file]

(* An operation names a file, and a document unless it is an open.         *)
Grounded(o) ==
    /\ o.doc <= Len(docs)
    /\ o.step # "idle" => o.file \in Files
    /\ o.step \notin {"idle", "open", "read", "register"} => o.doc # NoDocument

TypeOK ==
    /\ disk \in [Files -> Node]
    /\ docs \in Seq(Document)
    /\ index \in [Files -> 0..Len(docs)]
    /\ grants \in 0..MaxRoots
    /\ op \in [Actors -> Operation]
    /\ \A a \in Actors : Grounded(op[a])
    /\ clock \in Nat
    /\ raced \in SUBSET Files

Init ==
    /\ disk = [f \in Files |-> [node |-> 1, stamp |-> 1, text |-> 1]]
    /\ docs = <<>>
    /\ index = [f \in Files |-> NoDocument]
    /\ grants = 0
    /\ op = [a \in Actors |-> Idle]
    /\ clock = 1
    /\ raced = {}

--------------------------------------------------------------------------------
(* The registry and its documents.                                         *)

(* What is made is bounded; when the bound is reached no file is removed.   *)
MayChange == clock + Len(docs) + grants < MaxChanges

ClientOf(a) == IF a \in Connections THEN a ELSE Runtime

(* commit_reload holds the workspace mutex while it locks the document     *)
(* twice; every other critical section is a single step.                   *)
WorkspaceFree == \A a \in Actors : op[a].step # "replace"

Finish(a) == op' = [op EXCEPT ![a] = Idle]

Registered == {d \in 1..Len(docs) : docs[d].open}

HeldBy(c) == {d \in Registered : c \in docs[d].access}

enforce_document_ceilings(c) ==
    /\ Cardinality(Registered) < MaxServerDocuments
    /\ Cardinality(HeldBy(c)) < MaxClientDocuments

acquire_access(doc, c) ==
    [doc EXCEPT !.access = @ \cup {c}, !.holder = IF @ = NoClient THEN c ELSE @]

release_access(doc, c) ==
    [doc EXCEPT !.access = @ \ {c}, !.holder = IF @ = c THEN NoClient ELSE @]

(* The registry entry goes with the last access holder.                    *)
Released(doc, c) ==
    LET left == release_access(doc, c)
    IN  [left EXCEPT !.open = @ /\ left.access # {}]

(* existing_document_lease_by_canonical_path, or DocumentLimitExceeded.    *)
ExistingLease(d, c) ==
    docs' = IF c \in docs[d].access \/ enforce_document_ceilings(c)
              THEN [docs EXCEPT ![d] = acquire_access(@, c)]
              ELSE docs

--------------------------------------------------------------------------------
(* Opening a file.                                                         *)

OpenExisting(a, f) ==
    /\ op[a].step = "idle"
    /\ WorkspaceFree
    /\ disk[f] # Missing
    /\ index[f] # NoDocument
    /\ ExistingLease(index[f], ClientOf(a))
    /\ UNCHANGED <<disk, index, grants, op, clock, raced>>

(* The document ops of the JS runtime open no selected files.              *)
PrepareOpen(a, f, kind) ==
    /\ op[a].step = "idle"
    /\ kind = "selected" => a \in Connections
    /\ WorkspaceFree
    /\ disk[f] # Missing
    /\ index[f] = NoDocument
    /\ op' = [op EXCEPT ![a] = [Idle EXCEPT !.step = "open", !.file = f,
                                            !.selected = (kind = "selected")]]
    /\ UNCHANGED <<disk, registry, clock, raced>>

(* read_file_bounded: the metadata and then the text come through one      *)
(* handle.  Until it is read the text is the node's (see WriteInPlace).    *)
OpenHandle(a) ==
    LET o == op[a]
        n == disk[o.file]
    IN  /\ o.step = "open"
        /\ IF n = Missing
             THEN Finish(a)
             ELSE op' = [op EXCEPT ![a].step = "read", ![a].node = n.node,
                                   ![a].stamp = n.stamp, ![a].text = n.text]
        /\ UNCHANGED <<disk, registry, clock, raced>>

ReadHandle(a) ==
    /\ op[a].step = "read"
    /\ op' = [op EXCEPT ![a].node = 0,
                        ![a].step = IF op[a].doc = NoDocument THEN "register"
                                    ELSE "commit reload"]
    /\ UNCHANGED <<disk, registry, clock, raced>>

NewDocument(o, c) ==
    [file |-> o.file, open |-> TRUE, known |-> o.stamp, text |-> o.text, version |-> 1,
     dirty |-> FALSE, holder |-> c, access |-> {c},
     seen |-> o.text = disk[o.file].text]

AddDocument(o, c) ==
    /\ Len(docs) < MaxDocuments /\ MayChange
    /\ docs' = Append(docs, NewDocument(o, c))
    /\ index' = [index EXCEPT ![o.file] = Len(docs) + 1]
    /\ grants' = IF o.selected THEN grants + 1 ELSE grants

Registering(a) ==
    /\ op[a].step = "register"
    /\ WorkspaceFree
    /\ Finish(a)
    /\ UNCHANGED <<disk, clock, raced>>

(* Mutants: after the read the registry is not looked at again, nor the    *)
(* document ceilings, nor the limit of roots.                              *)
RegisterBlindly(a) ==
    /\ Registering(a)
    /\ enforce_document_ceilings(ClientOf(a)) /\ (op[a].selected => grants < MaxRoots)
    /\ AddDocument(op[a], ClientOf(a))
RegisterUnbounded(a) ==
    /\ Registering(a)
    /\ index[op[a].file] = NoDocument /\ (op[a].selected => grants < MaxRoots)
    /\ AddDocument(op[a], ClientOf(a))
RegisterUngranted(a) ==
    /\ Registering(a)
    /\ index[op[a].file] = NoDocument /\ enforce_document_ceilings(ClientOf(a))
    /\ AddDocument(op[a], ClientOf(a))

(* register_selected_file / register_canonical_file: another open of the   *)
(* same path may have finished first, and the ceilings may be reached.     *)
Register(a) ==
    LET o == op[a]
        c == ClientOf(a)
        room == enforce_document_ceilings(c) /\ (o.selected => grants < MaxRoots)
    IN  /\ Registering(a)
        /\ IF index[o.file] # NoDocument
             THEN ExistingLease(index[o.file], c) /\ UNCHANGED <<index, grants>>
             ELSE IF room THEN AddDocument(o, c) ELSE UNCHANGED registry

--------------------------------------------------------------------------------
(* Saving.  A save refused at any phase ends the operation.                *)

(* A write to f now falls between another save's last look at f and the    *)
(* look at what it saved.                                                  *)
Replacing(f) == \E a \in Actors : op[a].step \in {"rename", "stat"} /\ op[a].file = f

AuthorizeSave(a, d) ==
    LET c == ClientOf(a)
    IN  /\ op[a].step = "idle"
        /\ WorkspaceFree
        /\ docs[d].open /\ c \in docs[d].access
        /\ c = Runtime \/ docs[d].holder = c
        /\ op' = [op EXCEPT ![a] = On(d, "authorized save")]
        /\ UNCHANGED <<disk, registry, clock, raced>>

(* Mutant: the file's metadata is not compared with what the document      *)
(* was loaded from.                                                        *)
PrepareSaveAnyway(a) ==
    LET o == op[a]
    IN  /\ o.step = "authorized save"
        /\ WorkspaceFree
        /\ IF docs[o.doc].open /\ disk[o.file] # Missing
             THEN op' = [op EXCEPT ![a].step = "capture", ![a].stamp = disk[o.file].stamp]
             ELSE Finish(a)
        /\ UNCHANGED <<disk, registry, clock, raced>>

PrepareSave(a) ==
    LET o == op[a]
    IN  /\ o.step = "authorized save"
        /\ WorkspaceFree
        /\ IF /\ docs[o.doc].open /\ disk[o.file] # Missing
              /\ disk[o.file].stamp = docs[o.doc].known
             THEN op' = [op EXCEPT ![a].step = "capture", ![a].stamp = disk[o.file].stamp]
             ELSE Finish(a)
        /\ UNCHANGED <<disk, registry, clock, raced>>

(* save_io, under the document's mutex only.                               *)
CaptureSave(a) ==
    LET o == op[a]
    IN  /\ o.step = "capture"
        /\ op' = [op EXCEPT ![a].step = "check", ![a].text = docs[o.doc].text,
                            ![a].version = docs[o.doc].version]
        /\ UNCHANGED <<disk, registry, clock, raced>>

(* matches_current, after the temporary file has been written.             *)
CheckTarget(a) ==
    LET o == op[a]
    IN  /\ o.step = "check"
        /\ IF disk[o.file] # Missing /\ disk[o.file].stamp = o.stamp
             THEN op' = [op EXCEPT ![a].step = "rename"]
             ELSE Finish(a)
        /\ UNCHANGED <<disk, registry, clock, raced>>

RenameTemp(a) ==
    LET o == op[a]
        new == clock + 1
        others == \E b \in Actors \ {a} : op[b].step \in {"rename", "stat"} /\ op[b].file = o.file
    IN  /\ o.step = "rename"
        /\ MayChange
        /\ clock' = new
        /\ disk' = [disk EXCEPT ![o.file] = [node |-> new, stamp |-> new, text |-> o.text]]
        /\ op' = [op EXCEPT ![a].step = "stat", ![a].text = 0, ![a].stamp = 0]
        /\ docs' = [docs EXCEPT ![o.doc].seen = TRUE]
        /\ raced' = IF others THEN raced \cup {o.file} ELSE raced
        /\ UNCHANGED <<index, grants>>

StatSaved(a) ==
    LET o == op[a]
    IN  /\ o.step = "stat"
        /\ IF disk[o.file] = Missing
             THEN Finish(a)
             ELSE op' = [op EXCEPT ![a].step = "commit save", ![a].stamp = disk[o.file].stamp]
        /\ UNCHANGED <<disk, registry, clock, raced>>

(* Mutant: what was edited during the save counts as saved.                *)
mark_clean_anyway(doc, version) == [doc EXCEPT !.dirty = FALSE]

mark_clean_if_version(doc, version) ==
    [doc EXCEPT !.dirty = @ /\ doc.version # version]

CommitSave(a) ==
    LET o == op[a]
        doc == docs[o.doc]
    IN  /\ o.step = "commit save"
        /\ WorkspaceFree
        /\ docs' = [docs EXCEPT ![o.doc] =
                       [mark_clean_if_version(doc, o.version)
                          EXCEPT !.known = IF doc.open THEN o.stamp ELSE @]]
        /\ Finish(a)
        /\ UNCHANGED <<disk, index, grants, clock, raced>>

--------------------------------------------------------------------------------
(* Reloading.                                                              *)

AuthorizeReload(a, d, force) ==
    /\ op[a].step = "idle"
    /\ WorkspaceFree
    /\ docs[d].open /\ ClientOf(a) \in docs[d].access
    /\ op' = [op EXCEPT ![a] = [On(d, "authorized reload") EXCEPT !.force = force]]
    /\ UNCHANGED <<disk, registry, clock, raced>>

PrepareReload(a) ==
    LET o == op[a]
        doc == docs[o.doc]
    IN  /\ o.step = "authorized reload"
        /\ WorkspaceFree
        /\ IF doc.open /\ (doc.dirty => o.force) /\ disk[o.file] # Missing
             THEN op' = [op EXCEPT ![a].step = "open"]
             ELSE Finish(a)
        /\ UNCHANGED <<disk, registry, clock, raced>>

(* commit_reload locks the document to look at dirty, and again to replace *)
(* the text.                                                               *)
CheckReload(a) ==
    LET o == op[a]
    IN  /\ o.step = "commit reload"
        /\ WorkspaceFree
        /\ IF docs[o.doc].dirty /\ ~o.force
             THEN Finish(a)
             ELSE op' = [op EXCEPT ![a].step = "replace"]
        /\ UNCHANGED <<disk, registry, clock, raced>>

replace_text_from_storage(doc, text) ==
    [doc EXCEPT !.text = text, !.dirty = FALSE,
                !.seen = @ \/ text = disk[doc.file].text,
                !.version = IF doc.text = text THEN @ ELSE @ + 1]

(* A save has captured the text that a reload now replaces.                *)
SavingOld(d) ==
    \E a \in Actors : op[a].step \in {"check", "rename", "stat", "commit save"} /\ op[a].doc = d

ReplaceText(a) ==
    LET o == op[a]
        doc == docs[o.doc]
    IN  /\ o.step = "replace"
        /\ docs' = [docs EXCEPT ![o.doc] =
                       [replace_text_from_storage(doc, o.text)
                          EXCEPT !.known = IF doc.open THEN o.stamp ELSE @]]
        /\ raced' = IF SavingOld(o.doc) THEN raced \cup {o.file} ELSE raced
        /\ Finish(a)
        /\ UNCHANGED <<disk, index, grants, clock>>

(* A disk operation fails: too large, not UTF-8, permission, no space.     *)
FailIO(a) ==
    /\ op[a].step \in {"open", "read", "check", "rename", "stat"}
    /\ Finish(a)
    /\ UNCHANGED <<disk, registry, clock, raced>>

--------------------------------------------------------------------------------
(* Editing, closing and leaving.                                           *)

(* document_for_message finds the document under the workspace mutex; the  *)
(* edit is applied under the document's.                                   *)
FindDocument(c, d) ==
    /\ op[c].step = "idle"
    /\ WorkspaceFree
    /\ docs[d].open /\ c \in docs[d].access
    /\ op' = [op EXCEPT ![c] = On(d, "edit")]
    /\ UNCHANGED <<disk, registry, clock, raced>>

ApplyEdit(c) ==
    LET d == op[c].doc
    IN  /\ op[c].step = "edit"
        /\ IF docs[d].holder = c
             THEN /\ MayChange
                  /\ clock' = clock + 1
                  /\ docs' = [docs EXCEPT ![d].text = clock + 1, ![d].version = @ + 1,
                                          ![d].dirty = TRUE]
             ELSE UNCHANGED <<docs, clock>>
        /\ Finish(c)
        /\ UNCHANGED <<disk, index, grants, raced>>

close_document(c, d, force) ==
    LET left == Released(docs[d], c)
    IN  /\ op[c].step = "idle"
        /\ WorkspaceFree
        /\ docs[d].open /\ c \in docs[d].access
        /\ docs[d].dirty => force
        /\ docs' = [docs EXCEPT ![d] = left]
        /\ index' = IF left.open THEN index ELSE [index EXCEPT ![left.file] = NoDocument]
        /\ UNCHANGED <<disk, grants, op, clock, raced>>

(* The connection ends; dirty documents nobody else has open go with it.   *)
release_client_access(c) ==
    /\ op[c].step = "idle"
    /\ WorkspaceFree
    /\ docs' = [d \in 1..Len(docs) |-> IF docs[d].open THEN Released(docs[d], c) ELSE docs[d]]
    /\ index' = [f \in Files |-> IF index[f] # NoDocument /\ docs'[index[f]].open
                                   THEN index[f] ELSE NoDocument]
    /\ UNCHANGED <<disk, grants, op, clock, raced>>

--------------------------------------------------------------------------------
(* Other programs.                                                         *)

Changed(f) ==
    /\ docs' = [d \in 1..Len(docs) |-> IF docs[d].file = f THEN [docs[d] EXCEPT !.seen = FALSE]
                                       ELSE docs[d]]
    /\ raced' = IF Replacing(f) THEN raced \cup {f} ELSE raced
    /\ UNCHANGED <<index, grants>>

WriteInPlace(f) ==
    LET new == clock + 1
        reads(a) == op[a].step = "read" /\ op[a].file = f /\ op[a].node = disk[f].node
    IN  /\ disk[f] # Missing
        /\ MayChange
        /\ clock' = new
        /\ disk' = [disk EXCEPT ![f].stamp = new, ![f].text = new]
        /\ op' = [a \in Actors |-> IF reads(a) THEN [op[a] EXCEPT !.text = new] ELSE op[a]]
        /\ Changed(f)

ReplaceFile(f) ==
    LET new == clock + 1
    IN  /\ MayChange
        /\ clock' = new
        /\ disk' = [disk EXCEPT ![f] = [node |-> new, stamp |-> new, text |-> new]]
        /\ UNCHANGED op
        /\ Changed(f)

RemoveFile(f) ==
    /\ disk[f] # Missing
    /\ MayChange
    /\ disk' = [disk EXCEPT ![f] = Missing]
    /\ UNCHANGED <<op, clock>>
    /\ Changed(f)

--------------------------------------------------------------------------------
OpenStep(a) ==
    \/ \E f \in Files : OpenExisting(a, f)
    \/ \E f \in Files, kind \in OpenKinds : PrepareOpen(a, f, kind)
    \/ OpenHandle(a)
    \/ ReadHandle(a)
    \/ Register(a)

SaveStep(a) ==
    \/ \E d \in 1..Len(docs) : AuthorizeSave(a, d)
    \/ PrepareSave(a)
    \/ CaptureSave(a)
    \/ CheckTarget(a)
    \/ RenameTemp(a)
    \/ StatSaved(a)
    \/ CommitSave(a)

ReloadStep(a) ==
    \/ \E d \in 1..Len(docs), force \in BOOLEAN : AuthorizeReload(a, d, force)
    \/ PrepareReload(a)
    \/ CheckReload(a)
    \/ ReplaceText(a)

ConnectionStep(c) ==
    \/ \E d \in 1..Len(docs) : FindDocument(c, d)
    \/ ApplyEdit(c)
    \/ \E d \in 1..Len(docs), force \in BOOLEAN : close_document(c, d, force)
    \/ release_client_access(c)

ExternalStep(f) == WriteInPlace(f) \/ ReplaceFile(f) \/ RemoveFile(f)

Next ==
    \/ \E a \in Actors : OpenStep(a) \/ SaveStep(a) \/ ReloadStep(a) \/ FailIO(a)
    \/ \E c \in Connections : ConnectionStep(c)
    \/ \E f \in Files : ExternalStep(f)

Spec == Init /\ [][Next]_vars

--------------------------------------------------------------------------------
(* Properties.                                                             *)

(* The path index and the registry name the same documents ("path index    *)
(* and document registry must stay in sync", an expect on every open): one *)
(* document for each open path, however many opens of it were reading the  *)
(* file at once, and somebody has access to each.                          *)
RegistryIsConsistent ==
    /\ \A f \in Files : index[f] # NoDocument =>
          docs[index[f]].open /\ docs[index[f]].file = f
    /\ \A d \in Registered : index[docs[d].file] = d /\ docs[d].access # {}

(* The server and every client stay within their document ceilings, also   *)
(* when several opens passed the first check before any of them committed. *)
CeilingsHold ==
    /\ Cardinality(Registered) <= MaxServerDocuments
    /\ \A c \in Clients : Cardinality(HeldBy(c)) <= MaxClientDocuments

(* A document that counts as clean, and whose recorded metadata the file   *)
(* still has, has exactly the file's text: no accepted edit is marked      *)
(* saved without being on disk, and the staleness check of a save compares *)
(* against the right thing.  Where the code breaks this the file is in     *)
(* "raced": it was written between a save's last look at it and the look   *)
(* at what it saved, or a reload replaced the document while its old text  *)
(* was being saved.                                                        *)
CleanMeansStored ==
    \A d \in Registered :
        LET f == docs[d].file
        IN  /\ ~docs[d].dirty /\ f \notin raced
            /\ disk[f] # Missing /\ disk[f].stamp = docs[d].known
            => docs[d].text = disk[f].text

(* A save replaces only content its document was once loaded from or saved *)
(* as, through any sequence of opens, reloads, saves and external writes   *)
(* up to its last look at the file (matches_current).  What is written     *)
(* after that look is replaced: SavesOverwriteNothingUnseen.               *)
SavesReplaceSeenContent ==
    [][\A a \in Actors : RenameTemp(a) => op[a].file \in raced \/ docs[op[a].doc].seen]_vars

(* The same without the exception, as the comment on TargetIdentity has it *)
(* (the check before the rename closes the window in which another program *)
(* could replace the target).  It does not hold.                           *)
SavesOverwriteNothingUnseen ==
    [][\A a \in Actors :
           RenameTemp(a) /\ disk[op[a].file] # Missing => docs[op[a].doc].seen]_vars

(* A reload that is not forced discards no unsaved edit, as the comment in *)
(* commit_reload has it.  It does not hold: the edit can come between the  *)
(* look at the dirty flag and the replacement of the text.                 *)
ReloadsKeepUnsavedEdits ==
    [][\A a \in Actors : ReplaceText(a) /\ ~op[a].force => ~docs[op[a].doc].dirty]_vars
================================================================================
