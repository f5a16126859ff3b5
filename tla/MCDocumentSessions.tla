------------------------ MODULE MCDocumentSessions ------------------------
(* Instances of DocumentSessions for TLC.                                  *)
EXTENDS DocumentSessions

\* Files are interchangeable, as far as they are shared alike.
Symmetry == Permutations(Files \ SharedFiles) \cup Permutations(SharedFiles)
=============================================================================
