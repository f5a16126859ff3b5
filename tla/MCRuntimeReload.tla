--------------------------- MODULE MCRuntimeReload ---------------------------
(* Small instances of RuntimeReload for TLC. *)
EXTENDS RuntimeReload
=============================================================================
