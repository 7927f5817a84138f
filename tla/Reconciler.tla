----------------------------- MODULE Reconciler -----------------------------
(***************************************************************************)
(* The reconcile loop of digdirator for one resource:                      *)
(* controllers/common/reconciler.go, finalizer.go and secrets.go, with the *)
(* calls they make to the Kubernetes API server (api, secrets and pods)    *)
(* and to the Digdir self-service API (pkg/digdir/client.go).              *)
(*                                                                         *)
(* controller-runtime runs at most one Reconcile per resource at a time,   *)
(* so the operator is one process.  Its program counter "pc" names the     *)
(* remote call it makes next; a step is that call and the local code up to *)
(* the next one, so that users, pods, other clients of the two APIs,       *)
(* crashes and lost replies interleave wherever the code can be waiting.   *)
(***************************************************************************)
EXTENDS Instance, FiniteSets

CONSTANTS
    Keys,          \* JSON web keys; a key stands for its key ID as well
    Pods,          \* pods of the application (label app=<name>)
    Maskinporten,  \* TRUE for a MaskinportenClient
    UserOps,       \* what the users of the resource do
    Faults,        \* what goes wrong
    MaxEdits,      \* bound on the number of user operations
    MaxFaults      \* bound on the number of faults

ASSUME ConstantsAssumption ==
    /\ None \notin Keys \cup [key : Keys, client : ClientIDs, owned : BOOLEAN]
    /\ Maskinporten \in BOOLEAN
    /\ UserOps \subseteq {"create", "edit", "rename", "retype", "resync", "rotate",
                          "preserve", "unannotate", "delete"}
    /\ Faults \subseteq {"fail", "lostReply", "crash", "repeat", "repeatRegister", "late",
                         "clientDrift", "keyDrift", "secretDrift"}
    /\ MaxEdits \in Nat
    /\ MaxFaults \in Nat

VARIABLES
    \* the Kubernetes API server
    object,        \* the resource: metadata and spec
    status,        \* the resource: status subresource
    secrets,       \* the managed secret of each name, None if there is none
    older,         \* <<s, t>>: secret s was created before secret t
    doomed,        \* the secrets that the garbage collector has decided to delete
    pods,          \* what each running pod was started with, None if not running
    \* Digdir
    registry,      \* integration type of each registered client, or None
    config,        \* generation of the spec each client was last written from
    jwks,          \* keys registered for each client
    wire,          \* a request that its sender gave up waiting for, or None
    \* the operator
    queue,         \* this resource in the work queue: "empty", "delayed", "ready"
    pc,            \* the remote call Reconcile makes next
    txObject,      \* tx.Instance: metadata and spec
    txStatus,      \* tx.Instance: status
    current,       \* tx.Instance carries the server's resourceVersion
    registration,  \* the client registration found or created
    managed,       \* what GetManaged returned
    jwk,           \* the key to be written to the secret
    \* bounds
    edits, faults

apiVars    == <<object, status>>
secretVars == <<secrets, older, doomed>>
digdirVars == <<registry, config, jwks, wire>>
txVars     == <<txObject, txStatus, current, registration, managed, jwk>>
bounds     == <<edits, faults>>
vars       == <<apiVars, secretVars, pods, digdirVars, queue, pc, txVars, bounds>>

-----------------------------------------------------------------------------
(* Types and derived state. *)

\* A managed secret: the private key, the client ID, and whether its
\* controller reference names the current incarnation of the resource.
Secret == [key : Keys, client : ClientIDs, owned : BOOLEAN]

\* A pod: the secret it refers to, and the key it read when it started.
Pod == [secret : SecretNames, key : Keys]

\* SecretLists, reduced to what the callers read: the keys of the used
\* secrets and the names of the unused ones.
SecretLists == [used : SUBSET Keys, unused : SUBSET SecretNames]

NothingManaged == [used |-> {}, unused |-> {}]

\* A request to change a client: register or update it with a payload,
\* replace its keys, or delete it.  Register is an upsert without a client.
Request ==
    [call    : {"upsert", "registerKeys", "deleteClient"},
     client  : ClientIDs \cup {None},
     payload : ClientRegistration,
     keys    : SUBSET Keys]

\* The calls made from process(): an error in one of them goes to observeError.
Processing ==
    {"process", "getRegistration", "scopes", "consumedScopes", "upsert", "getManaged",
     "getKeys", "registerKeys", "writeSecret", "deleteUnused", "clearAnnotations",
     "synchronize"}

\* The calls whose error Reconcile returns to controller-runtime.
Returning ==
    {"addFinalizer", "observeError", "finalize", "deleteClient", "finalizeScopes",
     "removeFinalizer"}

\* The calls that write the resource, subject to its resourceVersion.
Writing ==
    {"addFinalizer", "process", "clearAnnotations", "synchronize", "observeError",
     "removeFinalizer"}

Registered == {c \in ClientIDs : registry[c] # None}
Existing   == {s \in SecretNames : secrets[s] # None}
Running    == {p \in Pods : pods[p] # None}
Referenced == {pods[p].secret : p \in Running}

ClusterTypeOK ==
    /\ object \in Object
    /\ status \in Status
    /\ secrets \in [SecretNames -> Secret \cup {None}]
    /\ older \subseteq SecretNames \X SecretNames
    /\ doomed \subseteq SecretNames
    /\ pods \in [Pods -> Pod \cup {None}]

DigdirTypeOK ==
    /\ registry \in [ClientIDs -> IntegrationTypes \cup {None}]
    /\ config \in [ClientIDs -> Nat]
    /\ jwks \in [ClientIDs -> SUBSET Keys]
    /\ wire \in Request \cup {None}

\* Between the upsert and the write of the secret, the client is known and is
\* the one in the status; once chosen, so is the key.
OperatorTypeOK ==
    /\ queue \in {"empty", "delayed", "ready"}
    /\ pc \in {"idle"} \cup Processing \cup Returning
    /\ current \in BOOLEAN
    /\ IF pc = "idle"
       THEN txObject = None /\ txStatus = None
       ELSE txObject \in Object /\ txStatus \in Status
    /\ registration \in ClientIDs \cup {None}
    /\ registration # None => pc \in Processing /\ registration = txStatus.clientID
    /\ pc \in {"getManaged", "getKeys", "registerKeys", "writeSecret"}
           => registration \in ClientIDs
    /\ managed \in SecretLists
    /\ jwk \in Keys \cup {None}
    /\ pc \in {"getKeys", "registerKeys", "writeSecret"} => jwk \in Keys

BoundsTypeOK == edits \in 0..MaxEdits /\ faults \in 0..MaxFaults

\* The type invariant: every variable holds what the code can put there.
TypeOK == ClusterTypeOK /\ DigdirTypeOK /\ OperatorTypeOK /\ BoundsTypeOK

\* uuid.New() and the Digdir API never return an identifier seen before: a
\* fresh one is one that no part of the state still mentions.
FreshKeys ==
    {k \in Keys : /\ \A c \in ClientIDs : k \notin jwks[c]
                  /\ \A s \in Existing : k # secrets[s].key
                  /\ \A p \in Running : k # pods[p].key
                  /\ wire # None => k \notin wire.keys}

FreshClients ==
    {c \in ClientIDs : /\ registry[c] = None
                       /\ c # status.clientID
                       /\ pc # "idle" => c # txStatus.clientID
                       /\ \A s \in Existing : c # secrets[s].client
                       /\ wire # None => c # wire.client}

-----------------------------------------------------------------------------
(* How a Reconcile ends and how one of its calls fails. *)

\* Reconcile returns; the transaction is gone.
Return(q) ==
    /\ pc' = "idle"
    /\ queue' = q
    /\ txObject' = None
    /\ txStatus' = None
    /\ current' = FALSE
    /\ registration' = None
    /\ managed' = NothingManaged
    /\ jwk' = None

\* Result{RequeueAfter: ...}: an entry that is already due stays due.
RequeueLater == IF queue = "ready" THEN "ready" ELSE "delayed"

\* Wrong Abort: an error outside process() is swallowed.
AbortSilently(stillCurrent) ==
    IF pc \in Processing
    THEN /\ pc' = "observeError"
         /\ queue' = queue
         /\ txObject' = txObject
         /\ txStatus' = [txStatus EXCEPT !.error = TRUE]
         /\ current' = stillCurrent
         /\ registration' = None
         /\ managed' = NothingManaged
         /\ jwk' = None
    ELSE Return(queue)

\* The call failed.  An error of process() is recorded by observeError; any
\* other error is returned, and controller-runtime requeues the resource.
Abort(stillCurrent) ==
    IF pc \in Processing
    THEN /\ pc' = "observeError"
         /\ queue' = queue
         /\ txObject' = txObject
         /\ txStatus' = [txStatus EXCEPT !.error = TRUE]
         /\ current' = stillCurrent
         /\ registration' = None
         /\ managed' = NothingManaged
         /\ jwk' = None
    ELSE Return("ready")

-----------------------------------------------------------------------------
(* What the calls do to the API server and to Digdir. *)

PutObject(o) == object' = o /\ UNCHANGED <<status, secretVars, digdirVars>>

PutStatus == status' = txStatus /\ UNCHANGED <<object, secretVars, digdirVars>>

Register(c, payload) ==
    /\ registry' = [registry EXCEPT ![c] = payload.type]
    /\ config' = [config EXCEPT ![c] = payload.generation]
    /\ UNCHANGED <<apiVars, secretVars, jwks>>

Update(c, payload) ==
    /\ config' = [config EXCEPT ![c] = payload.generation]
    /\ UNCHANGED <<apiVars, secretVars, registry, jwks>>

\* Wrong MergeJwks: the new key is left out.
MergeJwksUsedOnly(key, usedKeys) == usedKeys

\* Wrong MergeJwks: the keys in use are left out.
MergeJwksNewOnly(key, usedKeys) == {key}

MergeJwks(key, usedKeys) == {key} \cup usedKeys

RegisterKeys(c, keys) ==
    /\ jwks' = [jwks EXCEPT ![c] = keys]
    /\ UNCHANGED <<apiVars, secretVars, registry, config>>

Unregister(c) ==
    /\ registry' = [registry EXCEPT ![c] = None]
    /\ config' = [config EXCEPT ![c] = 0]
    /\ jwks' = [jwks EXCEPT ![c] = {}]
    /\ UNCHANGED <<apiVars, secretVars>>

\* Wrong CreateOrUpdate: only a new secret gets a controller reference.
CreateOrUpdateUnadopted(name) ==
    /\ secrets' = [secrets EXCEPT ![name] =
                     [key |-> jwk, client |-> txStatus.clientID,
                      owned |-> secrets[name] = None \/ secrets[name].owned]]
    /\ older' = IF secrets[name] # None THEN older
                ELSE older \cup {<<s, name>> : s \in Existing}
    /\ doomed' = IF secrets[name] # None THEN doomed ELSE doomed \ {name}
    /\ UNCHANGED <<apiVars, digdirVars>>

\* SetControllerReference compares group, kind and name of the owners, but not
\* their UID: a secret that a former incarnation of the resource has left is
\* adopted.  A new secret is not the one the collector was after.
CreateOrUpdate(name) ==
    /\ secrets' = [secrets EXCEPT ![name] =
                     [key |-> jwk, client |-> txStatus.clientID, owned |-> TRUE]]
    /\ older' = IF secrets[name] # None THEN older
                ELSE older \cup {<<s, name>> : s \in Existing}
    /\ doomed' = IF secrets[name] # None THEN doomed ELSE doomed \ {name}
    /\ UNCHANGED <<apiVars, digdirVars>>

RemoveSecret(s) ==
    /\ secrets' = [secrets EXCEPT ![s] = None]
    /\ older' = {p \in older : s \notin {p[1], p[2]}}
    /\ UNCHANGED doomed

\* The API server drops an object without finalizers; its secrets are left
\* to the garbage collector.
Vanish ==
    /\ object' = [object EXCEPT !.exists = FALSE, !.deleting = FALSE, !.finalizer = FALSE,
                                !.resync = FALSE, !.rotate = FALSE, !.preserve = FALSE]
    /\ status' = EmptyStatus
    /\ secrets' = [s \in SecretNames |->
                     IF secrets[s] = None THEN None ELSE [secrets[s] EXCEPT !.owned = FALSE]]
    /\ UNCHANGED <<older, doomed>>

-----------------------------------------------------------------------------
(* Reconcile: from the work queue to the first write. *)

\* The resource as read.  process() starts by setting Ready to false in memory,
\* and nothing reads Ready before that.
Load ==
    /\ txObject' = object
    /\ txStatus' = [status EXCEPT !.ready = FALSE]
    /\ current' = TRUE
    /\ UNCHANGED <<registration, managed, jwk>>

\* The object is gone, or it is being deleted and is not ours to finalize.
ReconcileNothing ==
    /\ pc = "idle"
    /\ queue = "ready"
    /\ ~object.exists \/ (markedForDeletion(object) /\ ~object.finalizer)
    /\ Return("empty")
    /\ UNCHANGED <<apiVars, secretVars, pods, digdirVars, bounds>>

ReconcileDeleted ==
    /\ pc = "idle"
    /\ queue = "ready"
    /\ object.exists
    /\ markedForDeletion(object)
    /\ object.finalizer
    /\ Load
    /\ pc' = "finalize"
    /\ queue' = "empty"
    /\ UNCHANGED <<apiVars, secretVars, pods, digdirVars, bounds>>

ReconcileUnfinalized ==
    /\ pc = "idle"
    /\ queue = "ready"
    /\ object.exists
    /\ ~markedForDeletion(object)
    /\ ~object.finalizer
    /\ Load
    /\ pc' = "addFinalizer"
    /\ queue' = "empty"
    /\ UNCHANGED <<apiVars, secretVars, pods, digdirVars, bounds>>

ReconcileUpToDate ==
    /\ pc = "idle"
    /\ queue = "ready"
    /\ object.exists
    /\ ~markedForDeletion(object)
    /\ object.finalizer
    /\ Skipped(object, status)
    /\ Return("delayed")
    /\ UNCHANGED <<apiVars, secretVars, pods, digdirVars, bounds>>

ReconcileOutdated ==
    /\ pc = "idle"
    /\ queue = "ready"
    /\ object.exists
    /\ ~markedForDeletion(object)
    /\ object.finalizer
    /\ ~Skipped(object, status)
    /\ Load
    /\ pc' = "process"
    /\ queue' = "empty"
    /\ UNCHANGED <<apiVars, secretVars, pods, digdirVars, bounds>>

\* Wrong AddFinalizer: the finalizer is added in memory but not saved.
AddFinalizerUnsaved ==
    /\ pc = "addFinalizer"
    /\ current
    /\ PutObject(object)
    /\ IF Skipped(txObject, txStatus)
       THEN Return(RequeueLater)
       ELSE /\ pc' = "process"
            /\ UNCHANGED <<queue, txObject, txStatus, current, registration, managed, jwk>>
    /\ UNCHANGED <<pods, bounds>>

AddFinalizer ==
    /\ pc = "addFinalizer"
    /\ current
    /\ PutObject([object EXCEPT !.finalizer = TRUE])
    /\ IF Skipped(txObject, txStatus)
       THEN Return(RequeueLater)
       ELSE /\ pc' = "process"
            /\ txObject' = object'
            /\ UNCHANGED <<queue, txStatus, current, registration, managed, jwk>>
    /\ UNCHANGED <<pods, bounds>>

-----------------------------------------------------------------------------
(* process. *)

\* Ready becomes false before any external change is made.
MarkProcessing ==
    /\ pc = "process"
    /\ current
    /\ PutStatus
    /\ pc' = "getRegistration"
    /\ UNCHANGED <<pods, queue, txVars, bounds>>

\* The registered clients that GetRegistration can return for tx.Instance.
Matching == {c \in Registered : clientMatches(c, registry[c], txObject, txStatus)}

\* Wrong GetRegistration: the client ID found is not put into the status.
GetRegistrationUnnoted ==
    /\ pc = "getRegistration"
    /\ \/ \E c \in Matching : registration' = c
       \/ Matching = {} /\ registration' = None
    /\ pc' = IF Maskinporten THEN "scopes" ELSE "upsert"
    /\ UNCHANGED <<apiVars, secretVars, pods, digdirVars, queue, txObject, txStatus, current,
                   managed, jwk, bounds>>

GetRegistration ==
    /\ pc = "getRegistration"
    /\ \/ \E c \in Matching :
            /\ registration' = c
            /\ txStatus' = [txStatus EXCEPT !.clientID = c]
       \/ /\ Matching = {}
          /\ registration' = None
          /\ UNCHANGED txStatus
    /\ pc' = IF Maskinporten THEN "scopes" ELSE "upsert"
    /\ UNCHANGED <<apiVars, secretVars, pods, digdirVars, queue, txObject, current,
                   managed, jwk, bounds>>

\* scopes.Process, seen from the resource: it fails or leaves its condition
\* behind (Scopes.tla).
ProcessScopes ==
    /\ pc = "scopes"
    /\ \E invalid \in BOOLEAN : txStatus' = [txStatus EXCEPT !.invalidExposed = invalid]
    /\ pc' = "consumedScopes"
    /\ UNCHANGED <<apiVars, secretVars, pods, digdirVars, queue, txObject, current,
                   registration, managed, jwk, bounds>>

\* CanAccessScope for each consumed scope; the client is registered with the
\* accessible ones, and the condition tells whether there are others.
filterConsumedScopes ==
    /\ pc = "consumedScopes"
    /\ \E invalid \in BOOLEAN : txStatus' = [txStatus EXCEPT !.invalidConsumed = invalid]
    /\ pc' = "upsert"
    /\ UNCHANGED <<apiVars, secretVars, pods, digdirVars, queue, txObject, current,
                   registration, managed, jwk, bounds>>

UpdateClient ==
    /\ pc = "upsert"
    /\ registration # None
    /\ registry[registration] = txObject.type
    /\ Update(registration, ToClientRegistration(txObject))
    /\ pc' = "getManaged"
    /\ UNCHANGED <<wire, pods, queue, txVars, bounds>>

CreateClient ==
    /\ pc = "upsert"
    /\ registration = None
    /\ \E c \in FreshClients :
         /\ Register(c, ToClientRegistration(txObject))
         /\ registration' = c
         /\ txStatus' = [txStatus EXCEPT !.clientID = c]
    /\ pc' = "getManaged"
    /\ UNCHANGED <<wire, pods, queue, txObject, current, managed, jwk, bounds>>

\* Wrong ManagedSecrets: only a secret that the resource no longer names is used.
ManagedSecretsOther ==
    [used   |-> {secrets[s].key : s \in (Existing \cap Referenced) \ {txObject.secretName}},
     unused |-> Existing \ Referenced]

ManagedSecrets ==
    [used   |-> {secrets[s].key : s \in Existing \cap Referenced},
     unused |-> Existing \ Referenced]

\* The key of the newest managed secret; empty for ErrNoPreviousJwkFound.
GetPreviousJwkFromSecret ==
    {secrets[s].key : s \in {n \in Existing : \A t \in Existing \ {n} : <<t, n>> \in older}}

\* Wrong GetManaged: a rotated key is written before it is registered.
GetManagedUnregistered ==
    /\ pc = "getManaged"
    /\ managed' = ManagedSecrets
    /\ IF NeedsSecretRotation(txObject, txStatus)
       THEN jwk' \in FreshKeys /\ pc' = "writeSecret"
       ELSE /\ jwk' \in IF GetPreviousJwkFromSecret # {}
                        THEN GetPreviousJwkFromSecret ELSE FreshKeys
            /\ pc' = "getKeys"
    /\ UNCHANGED <<apiVars, secretVars, pods, digdirVars, queue, txObject, txStatus, current,
                   registration, bounds>>

\* GetManaged, then the choice of the key: a new one if it must be rotated,
\* else the newest secret's, else a new one.
GetManaged ==
    /\ pc = "getManaged"
    /\ managed' = ManagedSecrets
    /\ IF NeedsSecretRotation(txObject, txStatus)
       THEN jwk' \in FreshKeys /\ pc' = "registerKeys"
       ELSE /\ jwk' \in IF GetPreviousJwkFromSecret # {}
                        THEN GetPreviousJwkFromSecret ELSE FreshKeys
            /\ pc' = "getKeys"
    /\ UNCHANGED <<apiVars, secretVars, pods, digdirVars, queue, txObject, txStatus, current,
                   registration, bounds>>

\* A key that is registered is registered anew only if it expires within 30
\* days; how old it is, the model leaves open.
ensureJwkValidExternalState ==
    /\ pc = "getKeys"
    /\ registry[registration] # None
    /\ pc' \in IF jwk \in jwks[registration]
               THEN {"writeSecret", "registerKeys"}
               ELSE {"registerKeys"}
    /\ UNCHANGED <<apiVars, secretVars, pods, digdirVars, queue, txVars, bounds>>

registerJwk ==
    /\ pc = "registerKeys"
    /\ registry[registration] # None
    /\ RegisterKeys(registration, MergeJwks(jwk, managed.used))
    /\ pc' = "writeSecret"
    /\ UNCHANGED <<wire, pods, queue, txVars, bounds>>

WriteSecret ==
    /\ pc = "writeSecret"
    /\ CreateOrUpdate(txObject.secretName)
    /\ pc' = "deleteUnused"
    /\ UNCHANGED <<pods, queue, txVars, bounds>>

\* Wrong ToDelete: the secret just written is not left out.
ToDeleteAll == managed.unused

\* The secrets DeleteUnused still has to delete.
ToDelete == managed.unused \ {txObject.secretName}

DeleteUnused ==
    /\ pc = "deleteUnused"
    /\ \E s \in ToDelete :
         /\ secrets[s] # None
         /\ RemoveSecret(s)
         /\ managed' = [managed EXCEPT !.unused = @ \ {s}]
    /\ UNCHANGED <<apiVars, pods, digdirVars, queue, pc, txObject, txStatus, current,
                   registration, jwk, bounds>>

\* The status that a completed run leaves.
Synchronized(s, o) ==
    [s EXCEPT !.observedGeneration = o.generation, !.secretName = o.secretName,
              !.stale = FALSE, !.ready = TRUE, !.error = FALSE]

\* All unused secrets are gone and there is no annotation to remove.
FinishCleanup ==
    /\ pc = "deleteUnused"
    /\ ToDelete = {}
    /\ IF txObject.resync \/ txObject.rotate
       THEN pc' = "clearAnnotations" /\ UNCHANGED txStatus
       ELSE pc' = "synchronize" /\ txStatus' = Synchronized(txStatus, txObject)
    /\ UNCHANGED <<apiVars, secretVars, pods, digdirVars, queue, txObject, current,
                   registration, managed, jwk, bounds>>

WithoutAnnotations(o) == [o EXCEPT !.resync = FALSE, !.rotate = FALSE]

\* The operator's own update is an annotation change: it requeues the resource.
ClearAnnotations ==
    /\ pc = "clearAnnotations"
    /\ current
    /\ PutObject(WithoutAnnotations(object))
    /\ txObject' = object'
    /\ txStatus' = Synchronized(txStatus, object')
    /\ pc' = "synchronize"
    /\ queue' = "ready"
    /\ UNCHANGED <<pods, current, registration, managed, jwk, bounds>>

\* The last write of process, and the result Reconcile returns after it.
Synchronize ==
    /\ pc = "synchronize"
    /\ current
    /\ PutStatus
    /\ Return(IF txStatus.invalidConsumed THEN RequeueLater
              ELSE IF txStatus.invalidExposed THEN queue
              ELSE "ready")
    /\ UNCHANGED <<pods, bounds>>

\* Wrong observeError: the run is not repeated.
observeErrorOnly ==
    /\ pc = "observeError"
    /\ current
    /\ PutStatus
    /\ Return(queue)
    /\ UNCHANGED <<pods, bounds>>

observeError ==
    /\ pc = "observeError"
    /\ current
    /\ PutStatus
    /\ Return("ready")
    /\ UNCHANGED <<pods, bounds>>

-----------------------------------------------------------------------------
(* finalize. *)

AfterExternalDeletion == IF Maskinporten THEN "finalizeScopes" ELSE "removeFinalizer"

\* Wrong Exists: a client ID in the status is taken for a registered client.
ExistsIfNamed ==
    /\ pc = "finalize"
    /\ pc' = IF txStatus.clientID = None \/ shouldPreserve(txObject)
             THEN AfterExternalDeletion ELSE "deleteClient"
    /\ UNCHANGED <<apiVars, secretVars, pods, digdirVars, queue, txVars, bounds>>

Exists ==
    /\ pc = "finalize"
    /\ \/ \E c \in Matching :
            /\ txStatus' = [txStatus EXCEPT !.clientID = c]
            /\ pc' = IF shouldPreserve(txObject) THEN AfterExternalDeletion ELSE "deleteClient"
       \/ /\ Matching = {}
          /\ UNCHANGED txStatus
          /\ pc' = AfterExternalDeletion
    /\ UNCHANGED <<apiVars, secretVars, pods, digdirVars, queue, txObject, current,
                   registration, managed, jwk, bounds>>

\* Wrong DeleteClient: it goes on without having deleted the client.
DeleteClientSkipped ==
    /\ pc = "deleteClient"
    /\ pc' = AfterExternalDeletion
    /\ UNCHANGED <<apiVars, secretVars, pods, digdirVars, queue, txVars, bounds>>

DeleteClient ==
    /\ pc = "deleteClient"
    /\ registry[txStatus.clientID] # None
    /\ Unregister(txStatus.clientID)
    /\ pc' = AfterExternalDeletion
    /\ UNCHANGED <<wire, pods, queue, txVars, bounds>>

\* scopes.Finalize, seen from the resource: it fails or it does not.
FinalizeScopes ==
    /\ pc = "finalizeScopes"
    /\ pc' = "removeFinalizer"
    /\ UNCHANGED <<apiVars, secretVars, pods, digdirVars, queue, txVars, bounds>>

RemoveFinalizer ==
    /\ pc = "removeFinalizer"
    /\ current
    /\ Vanish
    /\ Return("ready")
    /\ UNCHANGED <<pods, digdirVars, bounds>>

-----------------------------------------------------------------------------
(* Calls that fail. *)

\* The callee rejects the call: the resource was written by somebody else,
\* the client is gone or has another integration type, or the secret was
\* already deleted.
Refused ==
    /\ \/ pc \in Writing /\ ~current
       \/ pc = "upsert" /\ registration # None /\ registry[registration] # txObject.type
       \/ pc \in {"getKeys", "registerKeys"} /\ registry[registration] = None
       \/ pc = "deleteUnused" /\ \E s \in ToDelete : secrets[s] = None
       \/ pc = "deleteClient" /\ registry[txStatus.clientID] = None
    /\ Abort(current)
    /\ UNCHANGED <<apiVars, secretVars, pods, digdirVars, bounds>>

Fault(kind) ==
    /\ kind \in Faults
    /\ faults < MaxFaults
    /\ faults' = faults + 1
    /\ UNCHANGED edits

\* The call fails without effect, after the retries of digdir.Client.request.
Fail ==
    /\ Fault("fail")
    /\ pc # "idle"
    /\ Abort(current)
    /\ UNCHANGED <<apiVars, secretVars, pods, digdirVars>>

\* What the call to Digdir does there if it gets through and is accepted.
DigdirEffect ==
    \/ /\ pc = "upsert" /\ registration = None
       /\ \E c \in FreshClients : Register(c, ToClientRegistration(txObject))
    \/ /\ pc = "upsert" /\ registration # None
       /\ registry[registration] = txObject.type
       /\ Update(registration, ToClientRegistration(txObject))
    \/ /\ pc = "registerKeys" /\ registry[registration] # None
       /\ RegisterKeys(registration, MergeJwks(jwk, managed.used))
    \/ /\ pc = "deleteClient" /\ registry[txStatus.clientID] # None
       /\ Unregister(txStatus.clientID)

\* What the call to the API server does there.
ApiEffect ==
    \/ pc = "addFinalizer" /\ current /\ PutObject([object EXCEPT !.finalizer = TRUE])
    \/ pc \in {"process", "synchronize", "observeError"} /\ current /\ PutStatus
    \/ pc = "writeSecret" /\ CreateOrUpdate(txObject.secretName)
    \/ /\ pc = "deleteUnused"
       /\ \E s \in ToDelete : secrets[s] # None /\ RemoveSecret(s)
       /\ UNCHANGED <<apiVars, digdirVars>>
    \/ pc = "clearAnnotations" /\ current /\ PutObject(WithoutAnnotations(object))
    \/ pc = "removeFinalizer" /\ current /\ Vanish /\ UNCHANGED digdirVars

\* The call takes effect, but its caller sees an error: a timeout or a broken
\* connection, which digdir.Client.request does not retry.
LostReply ==
    /\ Fault("lostReply")
    /\ ApiEffect \/ DigdirEffect
    /\ Abort(current /\ pc \notin Writing)
    /\ UNCHANGED <<wire, pods>>

\* The call to Digdir takes effect, but is answered with a 4xx or 5xx status:
\* request sends it again, whatever its method.
Repeat ==
    /\ Fault(IF pc = "upsert" /\ registration = None THEN "repeatRegister" ELSE "repeat")
    /\ DigdirEffect
    /\ UNCHANGED <<wire, pods, queue, pc, txVars>>

\* The request that the call to Digdir sends.
Outgoing ==
    [call    |-> pc,
     client  |-> IF pc = "deleteClient" THEN txStatus.clientID ELSE registration,
     payload |-> ToClientRegistration(txObject),
     keys    |-> IF pc = "registerKeys" THEN MergeJwks(jwk, managed.used) ELSE {}]

\* request gives up after 30 seconds, with the request still on its way.
Late ==
    /\ Fault("late")
    /\ wire = None
    /\ \/ pc = "upsert" /\ registration = None
       \/ pc = "upsert" /\ registration # None /\ registry[registration] = txObject.type
       \/ pc \in {"registerKeys", "deleteClient"}
    /\ wire' = Outgoing
    /\ Abort(current)
    /\ UNCHANGED <<apiVars, secretVars, pods, registry, config, jwks>>

\* The operator stops, and starts again with every resource in its queue.
Crash ==
    /\ Fault("crash")
    /\ Return("ready")
    /\ UNCHANGED <<apiVars, secretVars, pods, digdirVars>>

-----------------------------------------------------------------------------
(* Everybody else. *)

\* A change of the resource by somebody else: the operator's copy is outdated,
\* and the watch puts the resource in the queue.
Edit(op) ==
    /\ op \in UserOps
    /\ edits < MaxEdits
    /\ edits' = edits + 1
    /\ current' = FALSE
    /\ queue' = "ready"
    /\ UNCHANGED <<pods, digdirVars, pc, txObject, txStatus, registration, managed, jwk, faults>>

\* A change of the spec.
Apply(op, name, type) ==
    /\ Edit(op)
    /\ object.exists
    /\ object' = [object EXCEPT !.generation = @ + 1, !.secretName = name, !.type = type]
    /\ UNCHANGED <<status, secretVars>>

Annotate(op, o) ==
    /\ Edit(op)
    /\ object.exists
    /\ object # o
    /\ object' = o
    /\ UNCHANGED <<status, secretVars>>

Delete ==
    /\ Edit("delete")
    /\ object.exists
    /\ ~object.deleting
    /\ IF object.finalizer
       THEN /\ object' = [object EXCEPT !.deleting = TRUE, !.generation = @ + 1]
            /\ UNCHANGED <<status, secretVars>>
       ELSE Vanish

Create ==
    /\ Edit("create")
    /\ ~object.exists
    /\ \E name \in SecretNames :
         object' = [object EXCEPT !.exists = TRUE, !.generation = @ + 1, !.secretName = name]
    /\ UNCHANGED <<status, secretVars>>

User ==
    \/ Create
    \/ Apply("edit", object.secretName, object.type)
    \/ \E name \in SecretNames \ {object.secretName} : Apply("rename", name, object.type)
    \/ \E type \in IntegrationTypes \ {object.type} : Apply("retype", object.secretName, type)
    \/ Annotate("resync", [object EXCEPT !.resync = TRUE])
    \/ Annotate("rotate", [object EXCEPT !.rotate = TRUE])
    \/ Annotate("preserve", [object EXCEPT !.preserve = TRUE])
    \/ Annotate("unannotate", WithoutAnnotations(object))
    \/ Delete

PodStart(p) ==
    /\ pods[p] = None
    /\ \E s \in Existing : pods' = [pods EXCEPT ![p] = [secret |-> s, key |-> secrets[s].key]]
    /\ UNCHANGED <<apiVars, secretVars, digdirVars, queue, pc, txVars, bounds>>

PodStop(p) ==
    /\ pods[p] # None
    /\ pods' = [pods EXCEPT ![p] = None]
    /\ UNCHANGED <<apiVars, secretVars, digdirVars, queue, pc, txVars, bounds>>

\* The garbage collector of Kubernetes reads a secret and finds that its owner
\* is gone.
Condemn ==
    /\ \E s \in Existing \ doomed : ~secrets[s].owned /\ doomed' = doomed \cup {s}
    /\ UNCHANGED <<apiVars, secrets, older, pods, digdirVars, queue, pc, txVars, bounds>>

\* Then it deletes the secret, which may have been adopted in between.
CollectGarbage ==
    /\ \E s \in Existing \cap doomed : RemoveSecret(s)
    /\ UNCHANGED <<apiVars, pods, digdirVars, queue, pc, txVars, bounds>>

\* A late request reaches Digdir, or comes too late for its client.
Arrive ==
    /\ wire # None
    /\ wire' = None
    /\ \/ /\ wire.client = None
          /\ \E c \in FreshClients : Register(c, wire.payload)
       \/ /\ wire.client # None /\ registry[wire.client] # None
          /\ \/ wire.call = "upsert" /\ Update(wire.client, wire.payload)
             \/ wire.call = "registerKeys" /\ RegisterKeys(wire.client, wire.keys)
             \/ wire.call = "deleteClient" /\ Unregister(wire.client)
       \/ /\ wire.client # None /\ registry[wire.client] = None
          /\ UNCHANGED <<apiVars, secretVars, registry, config, jwks>>
    /\ UNCHANGED <<pods, queue, pc, txVars, bounds>>

\* A client, a key or a secret is deleted behind the operator's back.
ClientDrift ==
    /\ Fault("clientDrift")
    /\ \E c \in Registered : Unregister(c)
    /\ UNCHANGED <<wire, pods, queue, pc, txVars>>

KeyDrift ==
    /\ Fault("keyDrift")
    /\ \E c \in ClientIDs : \E k \in jwks[c] : jwks' = [jwks EXCEPT ![c] = @ \ {k}]
    /\ UNCHANGED <<apiVars, secretVars, pods, registry, config, wire, queue, pc, txVars>>

SecretDrift ==
    /\ Fault("secretDrift")
    /\ \E s \in Existing : RemoveSecret(s)
    /\ UNCHANGED <<apiVars, pods, digdirVars, queue, pc, txVars>>

\* The delay of the entry in the work queue is over.
TimerFires ==
    /\ queue = "delayed"
    /\ queue' = "ready"
    /\ UNCHANGED <<apiVars, secretVars, pods, digdirVars, pc, txVars, bounds>>

\* Seven days pass after a synchronization.  The age is only looked at when a
\* Reconcile starts, so time need not pass within one.
Age ==
    /\ pc = "idle"
    /\ object.exists
    /\ status.observedGeneration # 0
    /\ ~status.stale
    /\ status' = [status EXCEPT !.stale = TRUE]
    /\ UNCHANGED <<object, secretVars, pods, digdirVars, queue, pc, txVars, bounds>>

-----------------------------------------------------------------------------
Init ==
    /\ \E name \in SecretNames, type \in IntegrationTypes :
         object = [exists |-> TRUE, generation |-> 1, deleting |-> FALSE, finalizer |-> FALSE,
                   resync |-> FALSE, rotate |-> FALSE, preserve |-> FALSE,
                   secretName |-> name, type |-> type]
    /\ status = EmptyStatus
    /\ secrets = [s \in SecretNames |-> None]
    /\ older = {}
    /\ doomed = {}
    /\ pods = [p \in Pods |-> None]
    /\ registry = [c \in ClientIDs |-> None]
    /\ config = [c \in ClientIDs |-> 0]
    /\ jwks = [c \in ClientIDs |-> {}]
    /\ wire = None
    /\ queue = "ready"
    /\ pc = "idle"
    /\ txObject = None
    /\ txStatus = None
    /\ current = FALSE
    /\ registration = None
    /\ managed = NothingManaged
    /\ jwk = None
    /\ edits = 0
    /\ faults = 0

\* What the operator does by itself.
Operator ==
    \/ ReconcileNothing \/ ReconcileDeleted \/ ReconcileUnfinalized
    \/ ReconcileUpToDate \/ ReconcileOutdated
    \/ AddFinalizer
    \/ MarkProcessing \/ GetRegistration \/ ProcessScopes
    \/ filterConsumedScopes \/ UpdateClient \/ CreateClient
    \/ GetManaged \/ ensureJwkValidExternalState \/ registerJwk
    \/ WriteSecret \/ DeleteUnused \/ FinishCleanup \/ ClearAnnotations \/ Synchronize
    \/ observeError
    \/ Exists \/ DeleteClient \/ FinalizeScopes \/ RemoveFinalizer
    \/ Refused

Environment ==
    \/ Fail \/ LostReply \/ Repeat \/ Late \/ Crash
    \/ User
    \/ \E p \in Pods : PodStart(p) \/ PodStop(p)
    \/ Condemn \/ CollectGarbage
    \/ Arrive
    \/ ClientDrift \/ KeyDrift \/ SecretDrift
    \/ TimerFires \/ Age

Next == Operator \/ Environment

Spec == Init /\ [][Next]_vars

\* controller-runtime keeps the worker going and its timers firing, and time
\* passes.  Users, pods, faults and the garbage collector owe nothing.
FairSpec ==
    /\ Spec
    /\ WF_vars(Operator)
    /\ WF_vars(TimerFires)
    /\ WF_vars(Age)

-----------------------------------------------------------------------------
(* Correctness. *)

\* The resource has at most one registered client in Digdir, whatever calls
\* fail, lose their reply, are repeated or cut off by a crash: a retry finds the
\* client that an earlier attempt registered.  (Not so if the POST that
\* registers the client is the call that is repeated or late.)
AtMostOneRegistration == \A c, d \in Registered : c = d

\* A client is only registered for a resource that carries the finalizer, so
\* that the API server cannot drop the resource without the operator.
RegisteredUnderFinalizer ==
    [][\A c \in ClientIDs :
         registry[c] = None /\ registry'[c] # None => object.exists /\ object.finalizer]_vars

\* When a finalized resource goes away, no client registered for it is left,
\* unless the user asked to preserve it.
NothingLeftBehind ==
    [][object.finalizer /\ ~object'.exists
         => object.preserve \/ \A c \in ClientIDs : registry'[c] = None]_vars

\* What makes the last three hold when nobody else deletes clients, no POST is
\* repeated, no request is late and the integration type of the spec is left
\* alone: the registered client, the one the status names and the one the
\* transaction names never diverge.
Finalizing == {"finalize", "deleteClient", "finalizeScopes", "removeFinalizer"}

ObjectInv ==
    /\ object.finalizer => object.exists
    /\ object.deleting => object.finalizer
    /\ status.clientID # None => object.finalizer
    /\ \A c \in Registered : registry[c] = object.type

StatusInv ==
    status.clientID # None =>
        /\ \A c \in Registered : c = status.clientID
        /\ object.deleting \/ status.clientID \in Registered

TransactionInv ==
    /\ pc # "idle" => txObject.exists /\ txObject.type = object.type
    /\ current /\ pc # "idle" => txObject = object
    /\ pc = "addFinalizer" => txStatus.clientID = None /\ ~object.finalizer

ProcessInv ==
    pc \in Processing \cup {"observeError"} =>
        /\ object.finalizer
        /\ txStatus.clientID # None => txStatus.clientID \in Registered
        /\ status.clientID \in {None, txStatus.clientID}
        /\ pc \in {"scopes", "consumedScopes", "upsert"} /\ registration = None => Registered = {}

FinalizeInv ==
    pc \in Finalizing =>
        /\ object.finalizer
        /\ object.deleting
        /\ txStatus.clientID # None => \A c \in Registered : c = txStatus.clientID
        /\ pc = "deleteClient" => txStatus.clientID # None
        /\ pc \in {"finalizeScopes", "removeFinalizer"} => txObject.preserve \/ Registered = {}

RegistrationInv ==
    /\ wire = None
    /\ AtMostOneRegistration
    /\ ObjectInv /\ StatusInv /\ TransactionInv /\ ProcessInv /\ FinalizeInv

\* The life of a resource and its client, without the operator at work.
Managed == INSTANCE ManagedClient WITH
    resource <- IF ~object.exists THEN "absent"
                ELSE IF object.deleting THEN "deleting"
                ELSE IF object.finalizer THEN "guarded" ELSE "unguarded",
    preserve <- object.preserve,
    clients  <- Registered

\* Whatever fails, is repeated or cut off, every step of the reconcile loop is a
\* step of that life or leaves it as it is: one client, registered under the
\* finalizer, deleted before the resource goes.
ImplementsManagedClient == Managed!Spec

\* A secret is only ever given a key that is registered for its client.
PublishedKeysRegistered ==
    [][\A s \in SecretNames :
         secrets'[s] \notin {None, secrets[s]} /\ secrets'[s].owned
            => secrets'[s].key \in jwks[secrets'[s].client]]_vars

\* What makes it hold when nobody else deletes clients or keys.
KeyInv == pc = "writeSecret" => jwk \in jwks[registration]

\* The client of the resource is registered from the current spec.
ClientUpToDate ==
    /\ status.clientID # None
    /\ registry[status.clientID] = object.type
    /\ config[status.clientID] = object.generation

\* A secret holds the ID of a client and a key registered for it, and names the
\* resource as its owner.  If there is none, the garbage collector took one
\* that it had condemned before the resource adopted it.
Delivered(name, client) ==
    IF secrets[name] = None
    THEN name \in doomed
    ELSE /\ secrets[name].owned
         /\ secrets[name].client = client
         /\ secrets[name].key \in jwks[client]

\* The credentials the resource asks for work.
Usable ==
    /\ ClientUpToDate
    /\ secrets[object.secretName] # None
    /\ Delivered(object.secretName, status.clientID)

\* A resource that Reconcile would skip as up to date is usable, and the garbage
\* collector has no reason to take its secret.  Only if the resource was created
\* again and adopted a condemned secret may the secret be missing.
SkippedIsUsable ==
    object.exists /\ ~object.deleting /\ Skipped(object, status) =>
        ClientUpToDate /\ Delivered(object.secretName, status.clientID)

\* What makes it hold when nobody else deletes clients, keys or secrets, removes
\* annotations, or has a request executed late.  In the API server: an observed
\* generation is that of a registered client, and not of the future.
SavedInv ==
    /\ object.deleting => object.finalizer
    /\ object.finalizer => object.exists
    /\ status.clientID # None =>
         object.finalizer /\ (object.deleting \/ status.clientID \in Registered)
    /\ status.observedGeneration <= object.generation
    /\ status.observedGeneration # 0 => status.clientID # None

\* In memory: the transaction names the client of the status, if there is one,
\* and a failed run says so.
ReadInv ==
    pc # "idle" =>
        /\ txObject.exists
        /\ current => txObject = object
        /\ txObject.generation <= object.generation
        /\ txStatus.observedGeneration <= object.generation
        /\ txStatus.observedGeneration # 0 => txStatus.clientID # None
        /\ current /\ pc \in {"addFinalizer", "process"}
             => txStatus = [status EXCEPT !.ready = FALSE]
        /\ pc = "addFinalizer" => ~object.finalizer
        /\ pc \in Finalizing => object.deleting
        /\ pc = "observeError" => txStatus.error

KnownInv ==
    pc \in Processing \cup {"observeError"} =>
        /\ object.finalizer
        /\ status.clientID \in {None, txStatus.clientID}
        /\ txStatus.clientID \in Registered \cup {None}
        /\ pc \in {"scopes", "consumedScopes", "upsert"} /\ registration = None
             => txStatus.clientID = None

\* What a run has achieved by each of its calls.
Upserted ==
    {"getManaged", "getKeys", "registerKeys", "writeSecret", "deleteUnused",
     "clearAnnotations", "synchronize"}

Written == {"deleteUnused", "clearAnnotations", "synchronize"}

AchievedInv ==
    /\ pc \in Upserted =>
         /\ registration # None
         /\ registry[registration] = txObject.type
         /\ config[registration] = txObject.generation
    /\ pc \in Written => Delivered(txObject.secretName, registration)
    /\ pc = "synchronize" => txStatus.observedGeneration = txObject.generation

\* A run only works on a resource that Reconcile would not skip: it becomes one
\* that it would skip by the last writes of a run, when all is done.
UsableInv ==
    /\ SavedInv /\ ReadInv /\ KnownInv /\ AchievedInv
    /\ object.exists /\ ~object.deleting /\ Skipped(object, status) =>
         /\ ClientUpToDate
         /\ Delivered(object.secretName, status.clientID)
         /\ pc \in {"idle", "synchronize", "observeError"}

\* A MaskinportenClient with invalid consumers in an exposed scope is not
\* requeued: until it is edited or the operator restarts, nobody looks at it.
Unattended ==
    /\ status.invalidExposed
    /\ queue = "empty"
    /\ object.generation = status.observedGeneration

\* Whatever happened, a resource that stays ends up usable and Ready, and does
\* so again after every later disturbance, unless it is left unattended.
Converges ==
    []<>(\/ ~object.exists
         \/ Usable /\ status.ready /\ IsUpToDate(object, status)
         \/ Unattended)

\* A deleted resource goes away.
DeletionCompletes == object.deleting ~> ~object.exists

\* The key of a secret that was in use when the secrets were listed stays
\* registered when the keys of the client are replaced.
UsedKeysKept ==
    [][\A s \in (Existing \cap Referenced) \ managed.unused :
         pc = "registerKeys" /\ secrets[s].key \in jwks[registration]
            => secrets[s].key \in jwks'[registration]]_vars

\* What makes it hold when nobody else deletes clients or keys and no request is
\* late: of a secret that is still there, the name was listed as unused or the
\* key as used.
ListedInv ==
    pc \in {"getKeys", "registerKeys"} =>
        \A s \in Existing \ managed.unused : secrets[s].key \in managed.used

\* So does the key that a running pod was started with from such a secret.
PodKeysKept ==
    [][\A p \in Running :
         /\ pc = "registerKeys"
         /\ pods[p].secret \in Existing \ managed.unused
         /\ pods[p].key \in jwks[registration]
         => pods[p].key \in jwks'[registration]]_vars

\* The operator never deletes a secret that a pod refers to.
ReferencedSecretsKept ==
    [][\A s \in Existing : pc = "deleteUnused" /\ secrets'[s] = None => s \notin Referenced]_vars

\* A resource that was skipped as up to date is Ready.
SkippedIsReady ==
    pc = "idle" /\ queue = "delayed" /\ object.exists /\ Skipped(object, status)
        => status.ready

\* A client is only registered when none is.
RegistersOnlyIfNone ==
    [][(\E c \in ClientIDs : registry[c] = None /\ registry'[c] # None) => Registered = {}]_vars
=============================================================================
