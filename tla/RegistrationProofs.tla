------------------------- MODULE RegistrationProofs -------------------------
(***************************************************************************)
(* The resource and its registration in Digdir, for every number of        *)
(* clients, keys, secrets, pods, user operations and faults: at most one   *)
(* client, only under the finalizer, and none left behind.                 *)
(*                                                                         *)
(* Assumed: nobody else deletes clients in Digdir, the POST that registers *)
(* a client is not sent twice, no request is executed after its sender has *)
(* given up, and the integration type of the spec stays what it was.       *)
(* Without any of these the model checker finds a client lost (see the     *)
(* README).                                                                *)
(***************************************************************************)
EXTENDS ReconcilerProofs

Undisturbed ==
    /\ Faults \cap {"clientDrift", "repeatRegister", "late"} = {}
    /\ "retype" \notin UserOps

\* The invariant holds before anything is reconciled.
LEMMA RegistrationInit == Init => RegistrationInv
  BY NoneAssumption
  DEF Init, EmptyStatus, RegistrationInv, AtMostOneRegistration, ObjectInv, StatusInv,
      TransactionInv, ProcessInv, FinalizeInv, Registered, Processing, Finalizing

\* The status that a completed run leaves names the same client.
LEMMA SynchronizedClient ==
    ASSUME NEW s \in Status, NEW o
    PROVE  Synchronized(s, o).clientID = s.clientID
  BY DEF Synchronized, Status

\* Each step of the operator preserves the invariant, whatever the faults.
LEMMA RegistrationOperator ==
    ASSUME TypeOK, RegistrationInv, Operator
    PROVE  RegistrationInv'
<1> USE NoneAssumption
    DEF TypeOK, ClusterTypeOK, DigdirTypeOK, OperatorTypeOK, Object, Status,
        RegistrationInv, AtMostOneRegistration, ObjectInv, StatusInv, TransactionInv,
        ProcessInv, FinalizeInv, Registered, Processing, Finalizing,
        apiVars, secretVars, digdirVars, txVars
<1>1. CASE ReconcileNothing
  BY <1>1 DEF ReconcileNothing, Return
<1>2. CASE ReconcileDeleted
  BY <1>2 DEF ReconcileDeleted, Load, markedForDeletion
<1>3. CASE ReconcileUnfinalized
  BY <1>3 DEF ReconcileUnfinalized, Load, markedForDeletion
<1>4. CASE ReconcileUpToDate
  BY <1>4 DEF ReconcileUpToDate, Return
<1>5. CASE ReconcileOutdated
  BY <1>5 DEF ReconcileOutdated, Load, markedForDeletion
<1>6. CASE AddFinalizer
  <2>1. /\ object' \in Object /\ object'.finalizer
        /\ object'.exists /\ object'.deleting = object.deleting /\ object'.type = object.type
    BY <1>6 DEF AddFinalizer, PutObject
  <2>2. UNCHANGED <<status, registry, wire>> /\ status.clientID = None /\ txStatus.clientID = None
    BY <1>6 DEF AddFinalizer, PutObject
  <2>3. CASE Skipped(txObject, txStatus)
    <3>1. pc' = "idle"
      BY <1>6, <2>3 DEF AddFinalizer, Return
    <3> QED BY <2>1, <2>2, <3>1
  <2>4. CASE ~Skipped(txObject, txStatus)
    <3>1. pc' = "process" /\ txObject' = object' /\ UNCHANGED <<txStatus, registration>>
      BY <1>6, <2>4 DEF AddFinalizer
    <3> QED BY <2>1, <2>2, <3>1
  <2> QED BY <2>3, <2>4
<1>7. CASE MarkProcessing
  BY <1>7 DEF MarkProcessing, PutStatus
<1>8. CASE GetRegistration
  BY <1>8 DEF GetRegistration, Matching, clientMatches
<1>9. CASE ProcessScopes \/ filterConsumedScopes
  BY <1>9 DEF ProcessScopes, filterConsumedScopes
<1>10. CASE UpdateClient
  BY <1>10 DEF UpdateClient, Update
<1>11. CASE CreateClient
  BY <1>11 DEF CreateClient, Register, FreshClients, ToClientRegistration
<1>12. CASE GetManaged
  BY <1>12 DEF GetManaged
<1>13. CASE ensureJwkValidExternalState
  BY <1>13 DEF ensureJwkValidExternalState
<1>14. CASE registerJwk
  BY <1>14 DEF registerJwk, RegisterKeys
<1>15. CASE WriteSecret
  BY <1>15 DEF WriteSecret, CreateOrUpdate
<1>16. CASE DeleteUnused
  BY <1>16 DEF DeleteUnused, RemoveSecret
<1>17. CASE FinishCleanup
  <2>1. txStatus'.clientID = txStatus.clientID
    <3>1. txStatus' \in {txStatus, Synchronized(txStatus, txObject)} /\ txStatus \in Status
      BY <1>17 DEF FinishCleanup
    <3>2. Synchronized(txStatus, txObject).clientID = txStatus.clientID
      BY <3>1, SynchronizedClient
    <3> QED BY <3>1, <3>2
  <2> QED BY <1>17, <2>1 DEF FinishCleanup
<1>18. CASE ClearAnnotations
  BY <1>18 DEF ClearAnnotations, PutObject, WithoutAnnotations, Synchronized
<1>19. CASE Synchronize
  BY <1>19 DEF Synchronize, PutStatus, Return
<1>20. CASE observeError
  BY <1>20 DEF observeError, PutStatus, Return
<1>21. CASE Exists
  BY <1>21 DEF Exists, Matching, clientMatches, AfterExternalDeletion, shouldPreserve
<1>22. CASE DeleteClient
  BY <1>22 DEF DeleteClient, Unregister, AfterExternalDeletion
<1>23. CASE FinalizeScopes
  BY <1>23 DEF FinalizeScopes
<1>24. CASE RemoveFinalizer
  BY <1>24 DEF RemoveFinalizer, Vanish, Return, EmptyStatus
<1>25. CASE Refused
  BY <1>25 DEF Refused, Abort, Return, Writing
<1> QED
  BY <1>1, <1>2, <1>3, <1>4, <1>5, <1>6, <1>7, <1>8, <1>9, <1>10, <1>11, <1>12, <1>13, <1>14,
     <1>15, <1>16, <1>17, <1>18, <1>19, <1>20, <1>21, <1>22, <1>23, <1>24, <1>25 DEF Operator

\* So does each step of the environment, under the assumptions.
LEMMA RegistrationEnvironment ==
    ASSUME TypeOK, RegistrationInv, Environment,
           Undisturbed
    PROVE  RegistrationInv'
<1> USE NoneAssumption
    DEF TypeOK, ClusterTypeOK, DigdirTypeOK, OperatorTypeOK, Object, Status,
        RegistrationInv, AtMostOneRegistration, ObjectInv, StatusInv, TransactionInv,
        ProcessInv, FinalizeInv, Registered, Processing, Finalizing,
        apiVars, secretVars, digdirVars, txVars
<1>1. CASE Fail
  BY <1>1 DEF Fail, Abort, Return
<1>2. CASE LostReply
  <2>1. Abort(current /\ pc \notin Writing) /\ wire' = None
    BY <1>2 DEF LostReply
  <2>2. CASE pc = "addFinalizer" /\ current /\ PutObject([object EXCEPT !.finalizer = TRUE])
    <3>1. /\ object' \in Object /\ object'.finalizer
          /\ object'.exists /\ object'.deleting = object.deleting /\ object'.type = object.type
      BY <2>2 DEF PutObject
    <3>2. pc' = "idle" /\ UNCHANGED <<status, registry>>
      BY <2>1, <2>2 DEF Abort, Return, PutObject
    <3> QED BY <2>1, <2>2, <3>1, <3>2
  <2>3. CASE pc \in {"process", "synchronize", "observeError"} /\ PutStatus
    BY <2>1, <2>3 DEF Abort, Return, PutStatus, Writing
  <2>4. CASE pc = "upsert" /\ registration = None
             /\ \E c \in FreshClients : Register(c, ToClientRegistration(txObject))
    BY <2>1, <2>4 DEF Abort, FreshClients, Register, ToClientRegistration
  <2>5. CASE pc = "upsert" /\ Update(registration, ToClientRegistration(txObject))
    BY <2>1, <2>5 DEF Abort, Update
  <2>6. CASE pc = "registerKeys" /\ RegisterKeys(registration, MergeJwks(jwk, managed.used))
    BY <2>1, <2>6 DEF Abort, RegisterKeys
  <2>7. CASE pc = "writeSecret" /\ CreateOrUpdate(txObject.secretName)
    BY <2>1, <2>7 DEF Abort, CreateOrUpdate
  <2>8. CASE pc = "deleteUnused" /\ UNCHANGED <<apiVars, digdirVars>>
    BY <2>1, <2>8 DEF Abort
  <2>9. CASE pc = "clearAnnotations" /\ PutObject(WithoutAnnotations(object))
    <3>1. /\ object' \in Object /\ object'.finalizer = object.finalizer
          /\ object'.exists = object.exists /\ object'.deleting = object.deleting
          /\ object'.type = object.type
      BY <2>9 DEF PutObject, WithoutAnnotations
    <3>2. /\ pc' = "observeError" /\ ~current' /\ UNCHANGED <<status, registry, txObject>>
          /\ txStatus'.clientID = txStatus.clientID
      BY <2>1, <2>9 DEF Abort, PutObject, Writing
    <3> QED BY <2>1, <2>9, <3>1, <3>2
  <2>10. CASE pc = "deleteClient" /\ Unregister(txStatus.clientID)
    BY <2>1, <2>10 DEF Abort, Return, Unregister
  <2>11. CASE pc = "removeFinalizer" /\ Vanish /\ UNCHANGED digdirVars
    BY <2>1, <2>11 DEF Abort, Return, Vanish, EmptyStatus
  <2> QED
    BY <1>2, <2>2, <2>3, <2>4, <2>5, <2>6, <2>7, <2>8, <2>9, <2>10, <2>11
    DEF LostReply, ApiEffect, DigdirEffect
<1>3. CASE Crash
  BY <1>3 DEF Crash, Return
<1>4. CASE User
  <2>1. ASSUME NEW op, NEW name, Apply(op, name, object.type) PROVE RegistrationInv'
    BY <2>1 DEF Apply, Edit
  <2>2. \A type : ~Apply("retype", object.secretName, type)
    BY DEF Apply, Edit, Undisturbed
  <2>3. ASSUME NEW op, NEW o \in Object, Annotate(op, o),
               \A f \in {"exists", "deleting", "finalizer", "type"} : o[f] = object[f]
        PROVE  RegistrationInv'
    BY <2>3 DEF Annotate, Edit
  <2>4. CASE Delete
    <3>1. CASE object.finalizer
      <4>1. /\ object'.finalizer /\ object'.exists /\ object'.deleting
            /\ object'.type = object.type
        <5>1. object' = [object EXCEPT !.deleting = TRUE, !.generation = @ + 1]
          BY <2>4, <3>1 DEF Delete
        <5> QED BY <3>1, <5>1
      <4> QED BY <2>4, <3>1, <4>1 DEF Delete, Edit
    <3>2. CASE ~object.finalizer
      <4>1. /\ ~object'.finalizer /\ ~object'.exists /\ ~object'.deleting
            /\ object'.type = object.type /\ status'.clientID = None
        <5>1. Vanish
          BY <2>4, <3>2 DEF Delete
        <5> QED BY <5>1 DEF Vanish, EmptyStatus
      <4> QED BY <2>4, <3>2, <4>1 DEF Delete, Edit
    <3> QED BY <3>1, <3>2
  <2>5. CASE Create
    BY <2>5 DEF Create, Edit
  <2>6. CASE \/ Apply("edit", object.secretName, object.type)
             \/ \E name \in SecretNames \ {object.secretName} : Apply("rename", name, object.type)
    BY <2>1, <2>6
  <2>7. CASE \/ Annotate("resync", [object EXCEPT !.resync = TRUE])
             \/ Annotate("rotate", [object EXCEPT !.rotate = TRUE])
             \/ Annotate("preserve", [object EXCEPT !.preserve = TRUE])
             \/ Annotate("unannotate", WithoutAnnotations(object))
    BY <2>3, <2>7 DEF WithoutAnnotations
  <2> QED BY <1>4, <2>2, <2>4, <2>5, <2>6, <2>7 DEF User
<1>5. ASSUME NEW p \in Pods, PodStart(p) \/ PodStop(p) PROVE RegistrationInv'
  BY <1>5 DEF PodStart, PodStop
<1>6. CASE Condemn \/ CollectGarbage
  BY <1>6 DEF Condemn, CollectGarbage
<1>7. ~ClientDrift /\ ~Late /\ ~Arrive
  BY DEF ClientDrift, Late, Arrive, Fault, Undisturbed
<1>8. CASE KeyDrift
  BY <1>8 DEF KeyDrift
<1>9. CASE SecretDrift
  BY <1>9 DEF SecretDrift
<1>10. CASE TimerFires
  BY <1>10 DEF TimerFires
<1>11. CASE Age
  BY <1>11 DEF Age
<1>12. CASE Repeat
  <2>1. UNCHANGED <<wire, pc, txVars>> /\ ~(pc = "upsert" /\ registration = None)
    BY <1>12 DEF Repeat, Fault, Undisturbed
  <2>2. CASE pc = "upsert" /\ Update(registration, ToClientRegistration(txObject))
    BY <2>1, <2>2 DEF Update
  <2>3. CASE pc = "registerKeys" /\ RegisterKeys(registration, MergeJwks(jwk, managed.used))
    BY <2>1, <2>3 DEF RegisterKeys
  <2>4. CASE pc = "deleteClient" /\ Unregister(txStatus.clientID)
    BY <2>1, <2>4 DEF Unregister
  <2> QED BY <1>12, <2>1, <2>2, <2>3, <2>4 DEF Repeat, DigdirEffect
<1> QED
  BY <1>1, <1>2, <1>3, <1>4, <1>5, <1>6, <1>7, <1>8, <1>9, <1>10, <1>11, <1>12 DEF Environment

\* The registered client, the one the status names and the one the running
\* transaction names never diverge.
THEOREM RegistrationInvariant ==
    ASSUME Undisturbed
    PROVE  Spec => []RegistrationInv
<1>1. Init => RegistrationInv
  BY RegistrationInit
<1>2. TypeOK /\ RegistrationInv /\ [Next]_vars => RegistrationInv'
  <2>1. RegistrationInv /\ UNCHANGED vars => RegistrationInv'
    BY DEF vars, apiVars, digdirVars, txVars, RegistrationInv, AtMostOneRegistration, ObjectInv,
           StatusInv, TransactionInv, ProcessInv, FinalizeInv, Registered
  <2> QED BY <2>1, RegistrationOperator, RegistrationEnvironment DEF Next
<1> QED BY <1>1, <1>2, TypeCorrect, PTL DEF Spec

\* However often createOrUpdateClient fails, loses a reply or is cut off by a
\* crash, the resource has at most one client in Digdir.
THEOREM OneRegistration ==
    ASSUME Undisturbed
    PROVE  Spec => []AtMostOneRegistration
<1>1. RegistrationInv => AtMostOneRegistration
  BY DEF RegistrationInv
<1> QED BY <1>1, RegistrationInvariant, PTL

\* createClient registers clients only for a resource that has the finalizer.
THEOREM FinalizerFirst ==
    ASSUME Undisturbed
    PROVE  Spec => RegisteredUnderFinalizer
<1> DEFINE Guarded ==
      \A c \in ClientIDs :
        registry[c] = None /\ registry'[c] # None => object.exists /\ object.finalizer
<1>1. TypeOK /\ RegistrationInv /\ [Next]_vars => [Guarded]_vars
  <2> SUFFICES ASSUME TypeOK, RegistrationInv, Next, NEW c \in ClientIDs,
                      registry[c] = None, registry'[c] # None
               PROVE  object.exists /\ object.finalizer
    OBVIOUS
  <2>1. pc = "upsert" => object.exists /\ object.finalizer
    BY DEF RegistrationInv, ProcessInv, ObjectInv, Processing
  <2>2. \A d : Unregister(d) => registry'[c] = None
    BY DEF TypeOK, DigdirTypeOK, Unregister
  <2>3. CASE Operator
    <3>1. pc = "upsert" \/ DeleteClient \/ UNCHANGED registry
      BY <2>3
      DEF Operator, ReconcileNothing, ReconcileDeleted, ReconcileUnfinalized, ReconcileUpToDate,
          ReconcileOutdated, AddFinalizer, MarkProcessing, GetRegistration, ProcessScopes,
          filterConsumedScopes, UpdateClient, CreateClient, GetManaged, ensureJwkValidExternalState, registerJwk,
          WriteSecret, DeleteUnused, FinishCleanup, ClearAnnotations, Synchronize, observeError,
          Exists, FinalizeScopes, RemoveFinalizer, Refused, PutObject, PutStatus, RegisterKeys,
          CreateOrUpdate, digdirVars
    <3> QED BY <2>1, <2>2, <3>1 DEF DeleteClient
  <2>4. CASE Environment
    <3>1. CASE LostReply \/ Repeat
      BY <2>1, <2>2, <3>1
      DEF LostReply, Repeat, ApiEffect, DigdirEffect, PutObject, PutStatus, RegisterKeys,
          CreateOrUpdate, digdirVars
    <3>2. CASE ClientDrift
      BY <2>2, <3>2 DEF ClientDrift
    <3>3. LostReply \/ Repeat \/ ClientDrift \/ UNCHANGED registry
      BY <2>4
      DEF RegistrationInv, Environment, Late, Arrive, Fail, Crash, User, Create, Apply, Annotate, Delete, Edit, PodStart,
          PodStop, Condemn, CollectGarbage, KeyDrift, SecretDrift, TimerFires, Age, digdirVars
    <3> QED BY <3>1, <3>2, <3>3
  <2> QED BY <2>3, <2>4 DEF Next
<1> QED BY <1>1, TypeCorrect, RegistrationInvariant, PTL DEF Spec, RegisteredUnderFinalizer

\* finalize lets go of a resource only when no client of it is left in Digdir,
\* unless the user asked to preserve it.
THEOREM NoOrphan ==
    ASSUME Undisturbed
    PROVE  Spec => NothingLeftBehind
<1> DEFINE Clean ==
      object.finalizer /\ ~object'.exists
        => object.preserve \/ \A c \in ClientIDs : registry'[c] = None
<1>1. TypeOK /\ RegistrationInv /\ [Next]_vars => [Clean]_vars
  <2> SUFFICES ASSUME TypeOK, RegistrationInv, Next, object.finalizer, ~object'.exists
               PROVE  object.preserve \/ \A c \in ClientIDs : registry'[c] = None
    OBVIOUS
  <2>1. object \in Object /\ object.exists
    BY DEF TypeOK, ClusterTypeOK, RegistrationInv, ObjectInv
  <2>2. CASE pc = "removeFinalizer" /\ current /\ UNCHANGED digdirVars
    <3>1. txObject = object /\ (txObject.preserve \/ Registered = {})
      BY <2>2 DEF RegistrationInv, TransactionInv, FinalizeInv, Finalizing
    <3> QED BY <2>2, <3>1 DEF Registered, digdirVars
  <2>3. CASE Operator
    <3>1. RemoveFinalizer \/ UNCHANGED object
            \/ object' = [object EXCEPT !.finalizer = TRUE]
            \/ object' = WithoutAnnotations(object)
      BY <2>3
      DEF Operator, ReconcileNothing, ReconcileDeleted, ReconcileUnfinalized, ReconcileUpToDate,
          ReconcileOutdated, AddFinalizer, MarkProcessing, GetRegistration, ProcessScopes,
          filterConsumedScopes, UpdateClient, CreateClient, GetManaged, ensureJwkValidExternalState, registerJwk,
          WriteSecret, DeleteUnused, FinishCleanup, ClearAnnotations, Synchronize, observeError,
          Exists, DeleteClient, FinalizeScopes, Refused, PutObject, PutStatus, Register, Update,
          RegisterKeys, Unregister, CreateOrUpdate, apiVars
    <3>2. RemoveFinalizer
      BY <2>1, <3>1 DEF WithoutAnnotations, Object
    <3> QED BY <2>2, <3>2 DEF RemoveFinalizer
  <2>4. CASE Environment
    <3>1. CASE LostReply \/ Repeat
      <4>1. (pc = "removeFinalizer" /\ current /\ UNCHANGED digdirVars) \/ UNCHANGED object
              \/ object' = [object EXCEPT !.finalizer = TRUE]
              \/ object' = WithoutAnnotations(object)
        BY <3>1
        DEF LostReply, Repeat, ApiEffect, DigdirEffect, PutObject, PutStatus, Register, Update,
            RegisterKeys, Unregister, CreateOrUpdate, apiVars
      <4> QED BY <2>1, <2>2, <4>1 DEF WithoutAnnotations, Object
    <3>2. CASE User
      <4>1. ASSUME NEW op, NEW name, NEW type, Apply(op, name, type) PROVE object'.exists
        BY <2>1, <4>1 DEF Apply, Object
      <4>2. ASSUME NEW op, NEW o, Annotate(op, o), o.exists PROVE object'.exists
        BY <4>2 DEF Annotate
      <4>3. Delete => object'.exists
        BY <2>1 DEF Delete, Object
      <4>4. ~Create
        BY <2>1 DEF Create
      <4>5. /\ [object EXCEPT !.resync = TRUE].exists
            /\ [object EXCEPT !.rotate = TRUE].exists
            /\ [object EXCEPT !.preserve = TRUE].exists
            /\ WithoutAnnotations(object).exists
        BY <2>1 DEF WithoutAnnotations, Object
      <4> QED BY <3>2, <4>1, <4>2, <4>3, <4>4, <4>5 DEF User
    <3>3. LostReply \/ Repeat \/ User \/ UNCHANGED object
      BY <2>4
      DEF RegistrationInv, Environment, Late, Arrive, Unregister, Fail, Crash, PodStart,
          PodStop, Condemn, CollectGarbage, ClientDrift, KeyDrift,
          SecretDrift, TimerFires, Age, apiVars
    <3> QED BY <2>1, <3>1, <3>2, <3>3
  <2> QED BY <2>3, <2>4 DEF Next
<1> QED BY <1>1, TypeCorrect, RegistrationInvariant, PTL DEF Spec, NothingLeftBehind
=============================================================================
