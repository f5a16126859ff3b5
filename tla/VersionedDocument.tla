--------------------------- MODULE VersionedDocument ---------------------------
(***************************************************************************)
(* What the server promises about one document, without connections,      *)
(* queues or messages: a text whose every change carries a new version,    *)
(* changed by the holder of the one editable lease or by a load from       *)
(* storage, under leases whose ids are never issued twice.                 *)
(***************************************************************************)
EXTENDS Naturals, Sequences

CONSTANTS Connections,  \* the client connections (ClientId)
          NoConnection  \* "nobody holds the lease" (active_lease = None)

VARIABLES version, text, holder, nextLease

vars == <<version, text, holder, nextLease>>

Init ==
    /\ version = 1
    /\ text = <<>>
    /\ holder = NoConnection
    /\ nextLease = 1

(* An edit of the lease holder extends the text and advances the version.  *)
Apply(c) ==
    /\ holder = c
    /\ Len(text') = Len(text) + 1
    /\ SubSeq(text', 1, Len(text)) = text
    /\ text'[Len(text')].by = c
    /\ version' = version + 1
    /\ UNCHANGED <<holder, nextLease>>

(* A load from storage replaces the text, whoever holds the lease.         *)
Load ==
    /\ text' # text
    /\ version' = version + 1
    /\ UNCHANGED <<holder, nextLease>>

(* A free lease is granted under an id that was never used before.         *)
Grant(c) ==
    /\ holder = NoConnection
    /\ holder' = c
    /\ nextLease' = nextLease + 1
    /\ UNCHANGED <<version, text>>

Release(c) ==
    /\ holder = c
    /\ holder' = NoConnection
    /\ UNCHANGED <<version, text, nextLease>>

Next ==
    \/ \E c \in Connections : Apply(c) \/ Grant(c) \/ Release(c)
    \/ Load

Spec == Init /\ [][Next]_vars
================================================================================
