--------------------------- MODULE ManagedClient ---------------------------
(***************************************************************************)
(* What digdirator promises about the client of one resource in Digdir,    *)
(* with no queue, transaction, retry or crash in sight: the client is      *)
(* registered once, under the protection of the finalizer, and goes before *)
(* the resource goes, unless it is to be preserved.  A resource that is    *)
(* created anew takes over the client that an earlier one has preserved.   *)
(* Reconciler.tla implements this specification.                           *)
(***************************************************************************)
CONSTANT ClientIDs

VARIABLES
    resource,   \* "absent", "unguarded" (no finalizer yet), "guarded", "deleting"
    preserve,   \* the user wants to keep the client
    clients     \* the clients registered in Digdir

vars == <<resource, preserve, clients>>

Init ==
    /\ resource = "unguarded"
    /\ preserve = FALSE
    /\ clients = {}

Create ==
    /\ resource = "absent"
    /\ resource' = "unguarded"
    /\ UNCHANGED <<preserve, clients>>

Guard ==
    /\ resource = "unguarded"
    /\ resource' = "guarded"
    /\ UNCHANGED <<preserve, clients>>

\* A run that started before the resource was deleted may still register.
Register ==
    /\ resource \in {"guarded", "deleting"}
    /\ clients = {}
    /\ \E c \in ClientIDs : clients' = {c}
    /\ UNCHANGED <<resource, preserve>>

Preserve ==
    /\ resource # "absent"
    /\ preserve' = TRUE
    /\ UNCHANGED <<resource, clients>>

\* Without a finalizer nothing holds the resource back, and nothing has been
\* registered for it.
Delete ==
    /\ \/ resource = "guarded" /\ resource' = "deleting" /\ UNCHANGED preserve
       \/ resource = "unguarded" /\ resource' = "absent" /\ preserve' = FALSE
    /\ UNCHANGED clients

Deregister ==
    /\ resource = "deleting"
    /\ clients' = {}
    /\ UNCHANGED <<resource, preserve>>

Release ==
    /\ resource = "deleting"
    /\ preserve \/ clients = {}
    /\ resource' = "absent"
    /\ preserve' = FALSE
    /\ UNCHANGED clients

Next == Create \/ Guard \/ Register \/ Preserve \/ Delete \/ Deregister \/ Release

Spec == Init /\ [][Next]_vars
=============================================================================
