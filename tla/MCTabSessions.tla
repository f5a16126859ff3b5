--------------------------- MODULE MCTabSessions ---------------------------
(* Small instances of TabSessions for TLC. *)
EXTENDS TabSessions
=============================================================================
