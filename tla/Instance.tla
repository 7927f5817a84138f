------------------------------ MODULE Instance ------------------------------
(***************************************************************************)
(* The custom resource digdirator reconciles (an IDPortenClient or a       *)
(* MaskinportenClient) and what the code decides from it alone:            *)
(* pkg/clients/instance.go, controllers/common/conditions.go, the          *)
(* predicates of controllers/common/finalizer.go and clientMatches of      *)
(* pkg/digdir/client.go.                                                   *)
(*                                                                         *)
(* The resource is split the way the API server stores it: an "object"     *)
(* (metadata and spec, written by Update) and a "status" (the status       *)
(* subresource, written by Status().Update).                               *)
(***************************************************************************)
EXTENDS Naturals

CONSTANTS
    ClientIDs,         \* client IDs the Digdir API can hand out
    SecretNames,       \* values of spec.secretName
    IntegrationTypes,  \* integration types a client can be registered with
    None               \* "" and nil

ASSUME NoneAssumption ==
    /\ None \notin ClientIDs
    /\ None \notin SecretNames
    /\ None \notin IntegrationTypes

(***************************************************************************)
(* metadata and spec.  "exists" says whether the API server stores the     *)
(* object at all.  The spec is abstracted to the two fields that steer     *)
(* control flow, secretName and integrationType; every other change of it  *)
(* is a change of "generation".  Generations are only ever compared for    *)
(* equality within one incarnation of the object, so the model lets a      *)
(* re-created object go on counting: a generation then names one version   *)
(* of the spec.                                                            *)
(***************************************************************************)
Object ==
    [exists     : BOOLEAN,
     generation : Nat,
     deleting   : BOOLEAN,            \* metadata.deletionTimestamp is set
     finalizer  : BOOLEAN,            \* metadata.finalizers holds ours
     resync     : BOOLEAN,            \* digdir.nais.io/resync is "true"
     rotate     : BOOLEAN,            \* digdir.nais.io/rotate is "true"
     preserve   : BOOLEAN,            \* digdir.nais.io/preserve is "true"
     secretName : SecretNames,
     type       : IntegrationTypes]

\* DigdiratorStatus, with the conditions as booleans (TRUE is ConditionTrue).
Status ==
    [clientID           : ClientIDs \cup {None},
     observedGeneration : Nat,                       \* 0 is nil
     secretName         : SecretNames \cup {None},   \* SynchronizationSecretName
     stale              : BOOLEAN,   \* SynchronizationTime is over 7 days old
     ready              : BOOLEAN,
     error              : BOOLEAN,
     invalidConsumed    : BOOLEAN,   \* InvalidConsumedScopes
     invalidExposed     : BOOLEAN]   \* InvalidExposedScopesConsumers

\* The status of a resource nobody has reconciled yet.
EmptyStatus ==
    [clientID |-> None, observedGeneration |-> 0, secretName |-> None,
     stale |-> FALSE, ready |-> FALSE, error |-> FALSE,
     invalidConsumed |-> FALSE, invalidExposed |-> FALSE]

\* Wrong isStale: a synchronization never gets old.
isStaleNever(status) == FALSE

\* isStale: a status without a SynchronizationTime is never stale.
isStale(status) == status.stale

\* Wrong IsUpToDate: any observed generation will do.
IsUpToDateOnceObserved(object, status) ==
    /\ status.observedGeneration # 0
    /\ ~object.resync
    /\ ~object.rotate
    /\ ~isStale(status)

IsUpToDate(object, status) ==
    /\ status.observedGeneration # 0
    /\ object.generation = status.observedGeneration
    /\ ~object.resync
    /\ ~object.rotate
    /\ ~isStale(status)

NeedsSecretRotation(object, status) ==
    \/ status.secretName # object.secretName
    \/ object.rotate

HasRetryableStatusCondition(status) == status.error \/ status.invalidConsumed

\* A resource that Reconcile leaves alone.
Skipped(object, status) ==
    IsUpToDate(object, status) /\ ~HasRetryableStatusCondition(status)

markedForDeletion(object) == object.deleting

shouldPreserve(object) == object.preserve

\* What the Digdir API is told about a client: its integration type and the
\* version of the spec that every other field was computed from.
ClientRegistration == [type : IntegrationTypes, generation : Nat]

\* The payload for Register and Update.  Missing fields of the spec get
\* defaults that depend on nothing but the configuration of the operator.
ToClientRegistration(object) == [type |-> object.type, generation |-> object.generation]

\* Wrong clientMatches: no best-effort matching without a client ID.
clientMatchesByID(clientID, type, object, status) == clientID = status.clientID

(***************************************************************************)
(* clientMatches for a client registered under this resource's             *)
(* description, the only clients the model keeps: by client ID when the    *)
(* status has one, else by description and integration type.               *)
(***************************************************************************)
clientMatches(clientID, type, object, status) ==
    IF status.clientID # None
    THEN clientID = status.clientID
    ELSE type = object.type
=============================================================================
