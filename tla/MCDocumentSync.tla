----------------------------- MODULE MCDocumentSync -----------------------------
(* DocumentSync on small instances.                                        *)
EXTENDS DocumentSync

(* The welcome document is editable for the client that connects, or read-only. *)
WelcomeDocuments == {[version |-> 1, lease |-> 2], [version |-> 1, lease |-> 0]}
================================================================================
