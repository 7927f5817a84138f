-------------------------- MODULE ReconcilerProofs --------------------------
(***************************************************************************)
(* Type correctness of the reconcile loop, for every value of the          *)
(* constants.  The type invariant has four parts (cluster, Digdir,         *)
(* operator, bounds), and most actions disturb only some of them: the      *)
(* lemmas below say what each write and each way to end a call does to one *)
(* part, and the frame lemmas cover the parts left alone.                  *)
(***************************************************************************)
EXTENDS Reconciler, TLAPS

USE NoneAssumption, ConstantsAssumption

\* The initial state has the right type.
LEMMA TypeInit == Init => TypeOK
<1> SUFFICES ASSUME Init PROVE TypeOK
  OBVIOUS
<1>1. ClusterTypeOK
  <2>1. object \in Object
    BY DEF Init, Object
  <2>2. status \in Status
    BY DEF Init, Status, EmptyStatus
  <2> QED BY <2>1, <2>2 DEF Init, ClusterTypeOK
<1>2. DigdirTypeOK
  BY DEF Init, DigdirTypeOK
<1>3. OperatorTypeOK
  BY DEF Init, OperatorTypeOK, NothingManaged, SecretLists
<1>4. BoundsTypeOK
  BY DEF Init, BoundsTypeOK
<1> QED BY <1>1, <1>2, <1>3, <1>4 DEF TypeOK

\* So has the operator after a Reconcile has returned,
LEMMA TypeReturn ==
    ASSUME NEW q \in {"empty", "delayed", "ready"}, Return(q)
    PROVE  OperatorTypeOK'
  BY DEF Return, NothingManaged, SecretLists, OperatorTypeOK

\* and after one of its calls has failed.
LEMMA TypeAbort ==
    ASSUME OperatorTypeOK, NEW b \in BOOLEAN, Abort(b), pc # "idle"
    PROVE  OperatorTypeOK'
<1>1. CASE pc \in Processing
  <2>1. txObject' \in Object /\ txStatus' \in Status
    BY <1>1 DEF Abort, OperatorTypeOK, Status
  <2> QED BY <2>1, <1>1 DEF Abort, NothingManaged, SecretLists, OperatorTypeOK, Returning
<1>2. CASE pc \notin Processing
  BY <1>2, TypeReturn DEF Abort
<1> QED BY <1>1, <1>2

\* The cluster after the API server has dropped the resource,
LEMMA TypeVanish ==
    ASSUME ClusterTypeOK, Vanish, UNCHANGED pods
    PROVE  ClusterTypeOK'
<1>1. object' \in Object
  BY DEF ClusterTypeOK, Vanish, Object
<1>2. status' \in Status
  BY DEF Vanish, Status, EmptyStatus
<1>3. secrets' \in [SecretNames -> Secret \cup {None}]
  BY DEF ClusterTypeOK, Vanish, Secret
<1> QED BY <1>1, <1>2, <1>3 DEF ClusterTypeOK, Vanish

\* after a secret was deleted,
LEMMA TypeRemoveSecret ==
    ASSUME ClusterTypeOK, NEW s \in SecretNames, RemoveSecret(s), UNCHANGED <<object, status, pods>>
    PROVE  ClusterTypeOK'
  BY DEF ClusterTypeOK, RemoveSecret

\* Digdir after a client was deleted,
LEMMA TypeUnregister ==
    ASSUME DigdirTypeOK, NEW c, Unregister(c), wire' \in Request \cup {None}
    PROVE  DigdirTypeOK'
  BY DEF DigdirTypeOK, Unregister

\* the cluster after the write of the secret,
LEMMA TypeCreateOrUpdate ==
    ASSUME ClusterTypeOK, OperatorTypeOK, pc = "writeSecret",
           CreateOrUpdate(txObject.secretName), UNCHANGED pods
    PROVE  ClusterTypeOK'
<1>1. txObject.secretName \in SecretNames /\ jwk \in Keys /\ txStatus.clientID \in ClientIDs
  BY DEF OperatorTypeOK, Object
<1>2. secrets' \in [SecretNames -> Secret \cup {None}]
  BY <1>1 DEF ClusterTypeOK, CreateOrUpdate, Secret
<1>3. older' \subseteq SecretNames \X SecretNames
  BY <1>1 DEF ClusterTypeOK, CreateOrUpdate, Existing
<1> QED BY <1>2, <1>3 DEF ClusterTypeOK, CreateOrUpdate, apiVars

\* and what GetManaged and GetPreviousJwkFromSecret return.
LEMMA TypeManaged ==
    ASSUME ClusterTypeOK
    PROVE  ManagedSecrets \in SecretLists
<1>1. {secrets[s].key : s \in Existing \cap Referenced} \in SUBSET Keys
  BY DEF ClusterTypeOK, Existing, Secret
<1>2. Existing \ Referenced \in SUBSET SecretNames
  BY DEF Existing
<1> QED BY <1>1, <1>2 DEF ManagedSecrets, SecretLists

\* What a step leaves alone keeps its type: the cluster,
LEMMA ClusterFrame ==
    ASSUME ClusterTypeOK, UNCHANGED <<apiVars, secretVars, pods>>
    PROVE  ClusterTypeOK'
  BY DEF ClusterTypeOK, apiVars, secretVars

\* Digdir,
LEMMA DigdirFrame ==
    ASSUME DigdirTypeOK, UNCHANGED digdirVars
    PROVE  DigdirTypeOK'
  BY DEF DigdirTypeOK, digdirVars

\* the operator
LEMMA OperatorFrame ==
    ASSUME OperatorTypeOK, UNCHANGED <<pc, txVars>>, queue' \in {"empty", "delayed", "ready"}
    PROVE  OperatorTypeOK'
  BY DEF OperatorTypeOK, txVars

\* and the bounds.
LEMMA BoundsFrame ==
    ASSUME BoundsTypeOK, UNCHANGED bounds
    PROVE  BoundsTypeOK'
  BY DEF BoundsTypeOK, bounds

\* Cluster and Digdir after Update of the resource,
LEMMA TypePutObject ==
    ASSUME ClusterTypeOK, DigdirTypeOK, NEW o \in Object, PutObject(o), UNCHANGED pods
    PROVE  ClusterTypeOK' /\ DigdirTypeOK'
  BY DEF ClusterTypeOK, DigdirTypeOK, PutObject, secretVars, digdirVars

\* after Status().Update
LEMMA TypePutStatus ==
    ASSUME ClusterTypeOK, DigdirTypeOK, OperatorTypeOK, pc # "idle", PutStatus, UNCHANGED pods
    PROVE  ClusterTypeOK' /\ DigdirTypeOK'
  BY DEF ClusterTypeOK, DigdirTypeOK, OperatorTypeOK, PutStatus, secretVars, digdirVars

\* and after Register, Update and RegisterKeys.
LEMMA TypeDigdirWrites ==
    ASSUME DigdirTypeOK, wire' \in Request \cup {None}, NEW c,
           NEW payload \in ClientRegistration, NEW keys \in SUBSET Keys
    PROVE  /\ Register(c, payload) => DigdirTypeOK'
           /\ Update(c, payload) => DigdirTypeOK'
           /\ RegisterKeys(c, keys) => DigdirTypeOK'
<1>1. payload.type \in IntegrationTypes /\ payload.generation \in Nat
  BY DEF ClientRegistration
<1> QED BY <1>1 DEF Register, Update, RegisterKeys, DigdirTypeOK

\* What the operator sends to Digdir.
LEMMA TypePayload ==
    ASSUME OperatorTypeOK, pc # "idle"
    PROVE  /\ ToClientRegistration(txObject) \in ClientRegistration
           /\ pc = "registerKeys" => MergeJwks(jwk, managed.used) \in SUBSET Keys
<1>1. txObject \in Object /\ managed.used \in SUBSET Keys
  BY DEF OperatorTypeOK, SecretLists
<1>2. ToClientRegistration(txObject) \in ClientRegistration
  BY <1>1 DEF ToClientRegistration, ClientRegistration, Object
<1>3. pc = "registerKeys" => jwk \in Keys
  BY DEF OperatorTypeOK
<1> QED BY <1>1, <1>2, <1>3 DEF MergeJwks

\* What a call leaves in Digdir or at the API server, even if it seems to fail.
LEMMA TypeDigdirEffect ==
    ASSUME ClusterTypeOK, DigdirTypeOK, OperatorTypeOK, DigdirEffect, UNCHANGED <<wire, pods>>
    PROVE  ClusterTypeOK' /\ DigdirTypeOK'
<1>1. pc # "idle" /\ wire' \in Request \cup {None}
  BY DEF DigdirEffect, DigdirTypeOK
<1>2. ClusterTypeOK'
  BY ClusterFrame DEF DigdirEffect, Register, Update, RegisterKeys, Unregister
<1>3. CASE pc = "upsert"
  BY <1>1, <1>2, <1>3, TypePayload, TypeDigdirWrites DEF DigdirEffect
<1>4. CASE pc = "registerKeys"
  BY <1>1, <1>2, <1>4, TypePayload, TypeDigdirWrites DEF DigdirEffect
<1>5. CASE pc = "deleteClient"
  BY <1>1, <1>2, <1>5, TypeUnregister DEF DigdirEffect
<1> QED BY <1>3, <1>4, <1>5 DEF DigdirEffect

LEMMA TypeApiEffect ==
    ASSUME ClusterTypeOK, DigdirTypeOK, OperatorTypeOK, ApiEffect, UNCHANGED pods
    PROVE  ClusterTypeOK' /\ DigdirTypeOK'
<1>1. CASE PutObject([object EXCEPT !.finalizer = TRUE])
  <2>1. [object EXCEPT !.finalizer = TRUE] \in Object
    BY DEF ClusterTypeOK, Object
  <2> QED BY <1>1, <2>1, TypePutObject
<1>2. CASE pc # "idle" /\ PutStatus
  BY <1>2, TypePutStatus
<1>3. CASE pc = "writeSecret" /\ CreateOrUpdate(txObject.secretName)
  BY <1>3, TypeCreateOrUpdate, DigdirFrame DEF CreateOrUpdate
<1>4. CASE (\E s \in ToDelete : RemoveSecret(s)) /\ UNCHANGED <<apiVars, digdirVars>>
  <2>1. ToDelete \subseteq SecretNames
    BY DEF ToDelete, OperatorTypeOK, SecretLists
  <2> QED BY <1>4, <2>1, TypeRemoveSecret, DigdirFrame DEF apiVars
<1>5. CASE PutObject(WithoutAnnotations(object))
  <2>1. WithoutAnnotations(object) \in Object
    BY DEF WithoutAnnotations, ClusterTypeOK, Object
  <2> QED BY <1>5, <2>1, TypePutObject
<1>6. CASE Vanish /\ UNCHANGED digdirVars
  BY <1>6, TypeVanish, DigdirFrame
<1> QED BY <1>1, <1>2, <1>3, <1>4, <1>5, <1>6 DEF ApiEffect

\* The transaction that a Reconcile starts with.
LEMMA TypeLoad ==
    ASSUME ClusterTypeOK, OperatorTypeOK, Load, pc = "idle",
           pc' \in {"finalize", "addFinalizer", "process"}, queue' = "empty"
    PROVE  OperatorTypeOK'
<1>1. registration = None
  BY DEF OperatorTypeOK, Processing
<1>2. txObject' \in Object /\ txStatus' \in Status
  BY DEF Load, ClusterTypeOK, Status
<1> QED BY <1>1, <1>2 DEF Load, OperatorTypeOK, Processing, Returning


\* Each step of the operator preserves the type invariant.
LEMMA TypeOperator == TypeOK /\ Operator => TypeOK'
<1> SUFFICES ASSUME TypeOK, Operator PROVE TypeOK'
  OBVIOUS
<1> USE DEF TypeOK
<1>1. CASE ReconcileNothing
  BY <1>1, TypeReturn, ClusterFrame, DigdirFrame, BoundsFrame DEF ReconcileNothing
<1>2. CASE ReconcileDeleted
  BY <1>2, TypeLoad, ClusterFrame, DigdirFrame, BoundsFrame DEF ReconcileDeleted
<1>3. CASE ReconcileUnfinalized
  BY <1>3, TypeLoad, ClusterFrame, DigdirFrame, BoundsFrame DEF ReconcileUnfinalized
<1>4. CASE ReconcileUpToDate
  BY <1>4, TypeReturn, ClusterFrame, DigdirFrame, BoundsFrame DEF ReconcileUpToDate
<1>5. CASE ReconcileOutdated
  BY <1>5, TypeLoad, ClusterFrame, DigdirFrame, BoundsFrame DEF ReconcileOutdated
<1>6. CASE AddFinalizer
  <2>1. [object EXCEPT !.finalizer = TRUE] \in Object
    BY DEF ClusterTypeOK, Object
  <2>2. ClusterTypeOK' /\ DigdirTypeOK' /\ BoundsTypeOK'
    BY <1>6, <2>1, TypePutObject, BoundsFrame DEF AddFinalizer
  <2>3. CASE Skipped(txObject, txStatus)
    <3>1. RequeueLater \in {"empty", "delayed", "ready"}
      BY DEF RequeueLater
    <3>2. Return(RequeueLater)
      BY <1>6, <2>3 DEF AddFinalizer
    <3> QED BY <2>2, <3>1, <3>2, TypeReturn
  <2>4. CASE ~Skipped(txObject, txStatus)
    BY <1>6, <2>2, <2>4 DEF AddFinalizer, ClusterTypeOK, OperatorTypeOK, Processing
  <2> QED BY <2>3, <2>4
<1>7. CASE MarkProcessing
  <2>1. ClusterTypeOK' /\ DigdirTypeOK' /\ BoundsTypeOK'
    BY <1>7, TypePutStatus, BoundsFrame DEF MarkProcessing
  <2>2. OperatorTypeOK'
    BY <1>7 DEF MarkProcessing, OperatorTypeOK, Processing, txVars
  <2> QED BY <2>1, <2>2
<1>8. CASE GetRegistration
  <2>1. txStatus' \in Status
    BY <1>8 DEF GetRegistration, Matching, Registered, OperatorTypeOK, Status
  <2>2. registration' \in ClientIDs \cup {None}
    BY <1>8 DEF GetRegistration, Matching, Registered
  <2>3. registration' # None => registration' = txStatus'.clientID
    BY <1>8 DEF GetRegistration, Matching, Registered, OperatorTypeOK, Status
  <2>4. OperatorTypeOK'
    BY <1>8, <2>1, <2>2, <2>3 DEF GetRegistration, OperatorTypeOK, Processing
  <2> QED BY <1>8, <2>4, ClusterFrame, DigdirFrame, BoundsFrame DEF GetRegistration
<1>9. CASE ProcessScopes \/ filterConsumedScopes
  <2>1. txStatus' \in Status /\ txStatus'.clientID = txStatus.clientID
    BY <1>9 DEF ProcessScopes, filterConsumedScopes, OperatorTypeOK, Status
  <2>2. OperatorTypeOK'
    BY <1>9, <2>1 DEF ProcessScopes, filterConsumedScopes, OperatorTypeOK, Processing
  <2> QED BY <1>9, <2>2, ClusterFrame, DigdirFrame, BoundsFrame
      DEF ProcessScopes, filterConsumedScopes
<1>10. CASE UpdateClient
  <2>1. OperatorTypeOK'
    BY <1>10 DEF UpdateClient, OperatorTypeOK, Processing, txVars
  <2>2. ClusterTypeOK'
    BY <1>10, ClusterFrame DEF UpdateClient, Update
  <2>3. DigdirTypeOK'
    BY <1>10, TypePayload, TypeDigdirWrites DEF UpdateClient, DigdirTypeOK
  <2> QED BY <1>10, <2>1, <2>2, <2>3, BoundsFrame DEF UpdateClient
<1>11. CASE CreateClient
  <2>1. PICK c \in FreshClients : /\ Register(c, ToClientRegistration(txObject))
                                  /\ registration' = c
                                  /\ txStatus' = [txStatus EXCEPT !.clientID = c]
    BY <1>11 DEF CreateClient
  <2>2. c \in ClientIDs
    BY DEF FreshClients
  <2>3. txStatus' \in Status /\ txStatus'.clientID = c
    BY <1>11, <2>1, <2>2 DEF CreateClient, OperatorTypeOK, Status
  <2>4. OperatorTypeOK'
    BY <1>11, <2>1, <2>2, <2>3 DEF CreateClient, OperatorTypeOK, Processing
  <2>5. ClusterTypeOK'
    BY <1>11, <2>1, ClusterFrame DEF CreateClient, Register
  <2>6. DigdirTypeOK'
    BY <1>11, <2>1, TypePayload, TypeDigdirWrites DEF CreateClient, DigdirTypeOK
  <2> QED BY <1>11, <2>4, <2>5, <2>6, BoundsFrame DEF CreateClient
<1>12. CASE GetManaged
  <2>1. FreshKeys \subseteq Keys
    BY DEF FreshKeys
  <2>2. GetPreviousJwkFromSecret \subseteq Keys
    BY DEF GetPreviousJwkFromSecret, ClusterTypeOK, Existing, Secret
  <2>3. jwk' \in Keys
    BY <1>12, <2>1, <2>2 DEF GetManaged
  <2>4. managed' \in SecretLists
    BY <1>12, TypeManaged DEF GetManaged
  <2>5. OperatorTypeOK'
    BY <1>12, <2>3, <2>4 DEF GetManaged, OperatorTypeOK, Processing
  <2> QED BY <1>12, <2>5, ClusterFrame, DigdirFrame, BoundsFrame DEF GetManaged
<1>13. CASE ensureJwkValidExternalState
  <2>1. OperatorTypeOK'
    BY <1>13 DEF ensureJwkValidExternalState, OperatorTypeOK, Processing, txVars
  <2> QED BY <1>13, <2>1, ClusterFrame, DigdirFrame, BoundsFrame DEF ensureJwkValidExternalState
<1>14. CASE registerJwk
  <2>1. OperatorTypeOK'
    BY <1>14 DEF registerJwk, OperatorTypeOK, Processing, txVars
  <2>2. ClusterTypeOK'
    BY <1>14, ClusterFrame DEF registerJwk, RegisterKeys
  <2>3. DigdirTypeOK'
    BY <1>14, TypePayload, TypeDigdirWrites DEF registerJwk, DigdirTypeOK
  <2> QED BY <1>14, <2>1, <2>2, <2>3, BoundsFrame DEF registerJwk
<1>15. CASE WriteSecret
  <2>1. OperatorTypeOK'
    BY <1>15 DEF WriteSecret, OperatorTypeOK, Processing, txVars
  <2>2. ClusterTypeOK'
    BY <1>15, TypeCreateOrUpdate DEF WriteSecret
  <2>3. DigdirTypeOK'
    BY <1>15, DigdirFrame DEF WriteSecret, CreateOrUpdate
  <2> QED BY <1>15, <2>1, <2>2, <2>3, BoundsFrame DEF WriteSecret
<1>16. CASE DeleteUnused
  <2>1. PICK s \in ToDelete : /\ RemoveSecret(s)
                              /\ managed' = [managed EXCEPT !.unused = @ \ {s}]
    BY <1>16 DEF DeleteUnused
  <2>2. s \in SecretNames
    BY <1>16 DEF DeleteUnused, ToDelete, OperatorTypeOK, SecretLists
  <2>3. managed' \in SecretLists
    BY <2>1 DEF OperatorTypeOK, SecretLists
  <2>4. OperatorTypeOK'
    BY <1>16, <2>3 DEF DeleteUnused, OperatorTypeOK
  <2>5. ClusterTypeOK'
    BY <1>16, <2>1, <2>2, TypeRemoveSecret DEF DeleteUnused, apiVars
  <2> QED BY <1>16, <2>4, <2>5, DigdirFrame, BoundsFrame DEF DeleteUnused
<1>17. CASE FinishCleanup
  <2>1. txStatus' \in Status /\ txStatus'.clientID = txStatus.clientID
    <3>1. txObject \in Object /\ txStatus \in Status
      BY <1>17 DEF FinishCleanup, OperatorTypeOK
    <3>2. txStatus' \in {txStatus, Synchronized(txStatus, txObject)}
      BY <1>17 DEF FinishCleanup
    <3> QED BY <3>1, <3>2 DEF Synchronized, Status, Object
  <2>2. OperatorTypeOK'
    BY <1>17, <2>1 DEF FinishCleanup, OperatorTypeOK, Processing
  <2> QED BY <1>17, <2>2, ClusterFrame, DigdirFrame, BoundsFrame DEF FinishCleanup
<1>18. CASE ClearAnnotations
  <2>1. WithoutAnnotations(object) \in Object
    BY DEF WithoutAnnotations, ClusterTypeOK, Object
  <2>2. ClusterTypeOK' /\ DigdirTypeOK' /\ BoundsTypeOK'
    BY <1>18, <2>1, TypePutObject, BoundsFrame DEF ClearAnnotations
  <2>3. txObject' \in Object
    BY <1>18, <2>2 DEF ClearAnnotations, ClusterTypeOK
  <2>4. txStatus' \in Status /\ txStatus'.clientID = txStatus.clientID
    BY <1>18, <2>3 DEF ClearAnnotations, Synchronized, OperatorTypeOK, Status, Object
  <2>5. OperatorTypeOK'
    BY <1>18, <2>3, <2>4 DEF ClearAnnotations, OperatorTypeOK, Processing
  <2> QED BY <2>2, <2>5
<1>19. CASE Synchronize
  <2>1. ClusterTypeOK' /\ DigdirTypeOK' /\ BoundsTypeOK'
    BY <1>19, TypePutStatus, BoundsFrame DEF Synchronize
  <2>2. PICK q \in {"empty", "delayed", "ready"} : Return(q)
    BY <1>19 DEF Synchronize, RequeueLater, OperatorTypeOK
  <2> QED BY <2>1, <2>2, TypeReturn
<1>20. CASE observeError
  BY <1>20, TypePutStatus, TypeReturn, BoundsFrame DEF observeError
<1>21. CASE Exists
  <2>1. txStatus' \in Status
    BY <1>21 DEF Exists, Matching, Registered, OperatorTypeOK, Status
  <2>2. registration = None
    BY <1>21 DEF Exists, OperatorTypeOK, Processing
  <2>3. OperatorTypeOK'
    BY <1>21, <2>1, <2>2 DEF Exists, AfterExternalDeletion, OperatorTypeOK, Returning
  <2> QED BY <1>21, <2>3, ClusterFrame, DigdirFrame, BoundsFrame DEF Exists
<1>22. CASE DeleteClient
  <2>1. OperatorTypeOK'
    BY <1>22 DEF DeleteClient, AfterExternalDeletion, OperatorTypeOK, Processing, Returning, txVars
  <2>2. ClusterTypeOK' /\ DigdirTypeOK'
    BY <1>22, TypeUnregister, ClusterFrame DEF DeleteClient, Unregister, DigdirTypeOK
  <2> QED BY <1>22, <2>1, <2>2, BoundsFrame DEF DeleteClient
<1>23. CASE FinalizeScopes
  <2>1. OperatorTypeOK'
    BY <1>23 DEF FinalizeScopes, OperatorTypeOK, Processing, Returning, txVars
  <2> QED BY <1>23, <2>1, ClusterFrame, DigdirFrame, BoundsFrame DEF FinalizeScopes
<1>24. CASE RemoveFinalizer
  BY <1>24, TypeVanish, TypeReturn, DigdirFrame, BoundsFrame DEF RemoveFinalizer
<1>25. CASE Refused
  <2>1. pc # "idle" /\ current \in BOOLEAN
    BY <1>25 DEF Refused, Writing, OperatorTypeOK
  <2> QED BY <1>25, <2>1, TypeAbort, ClusterFrame, DigdirFrame, BoundsFrame DEF Refused
<1> QED
  BY <1>1, <1>2, <1>3, <1>4, <1>5, <1>6, <1>7, <1>8, <1>9, <1>10, <1>11, <1>12, <1>13, <1>14,
     <1>15, <1>16, <1>17, <1>18, <1>19, <1>20, <1>21, <1>22, <1>23, <1>24, <1>25 DEF Operator

\* Each step of the environment preserves the type invariant.
LEMMA TypeEnvironment == TypeOK /\ Environment => TypeOK'
<1> SUFFICES ASSUME TypeOK, Environment PROVE TypeOK'
  OBVIOUS
<1> USE DEF TypeOK
<1>1. ASSUME NEW kind, Fault(kind) PROVE BoundsTypeOK'
  BY <1>1 DEF Fault, BoundsTypeOK
<1>2. ASSUME NEW op, Edit(op) PROVE BoundsTypeOK' /\ OperatorTypeOK' /\ DigdirTypeOK'
  <2>1. BoundsTypeOK'
    BY <1>2 DEF Edit, BoundsTypeOK
  <2>2. OperatorTypeOK'
    BY <1>2 DEF Edit, OperatorTypeOK
  <2> QED BY <1>2, <2>1, <2>2, DigdirFrame DEF Edit
<1> DEFINE next == object.generation + 1
<1>0. next \in Nat
  BY DEF ClusterTypeOK, Object
<1>3. CASE Fail
  BY <1>1, <1>3, TypeAbort, ClusterFrame, DigdirFrame DEF Fail, OperatorTypeOK
<1>4. CASE LostReply
  <2>1. pc # "idle" /\ (current /\ pc \notin Writing) \in BOOLEAN
    BY <1>4 DEF LostReply, ApiEffect, DigdirEffect
  <2>2. BoundsTypeOK' /\ OperatorTypeOK'
    BY <1>1, <1>4, <2>1, TypeAbort DEF LostReply
  <2> QED BY <1>4, <2>2, TypeApiEffect, TypeDigdirEffect DEF LostReply
<1>5. CASE Crash
  BY <1>1, <1>5, TypeReturn, ClusterFrame, DigdirFrame DEF Crash
<1>6. CASE User
  <2>1. ASSUME NEW op, NEW name \in SecretNames, NEW type \in IntegrationTypes,
               Apply(op, name, type)
        PROVE  TypeOK'
    <3>1. object' \in Object
      <4>1. object' = [object EXCEPT !.generation = next, !.secretName = name, !.type = type]
        BY <2>1 DEF Apply
      <4> HIDE DEF next
      <4> QED BY <1>0, <4>1 DEF ClusterTypeOK, Object
    <3>2. ClusterTypeOK'
      BY <2>1, <3>1 DEF Apply, Edit, ClusterTypeOK, secretVars
    <3> QED BY <1>2, <2>1, <3>2 DEF Apply
  <2>2. ASSUME NEW op, NEW o \in Object, Annotate(op, o)
        PROVE  TypeOK'
    <3>1. ClusterTypeOK'
      BY <2>2 DEF Annotate, Edit, ClusterTypeOK, secretVars
    <3> QED BY <1>2, <2>2, <3>1 DEF Annotate
  <2>3. object.secretName \in SecretNames /\ object.type \in IntegrationTypes
    BY DEF ClusterTypeOK, Object
  <2>4. /\ [object EXCEPT !.resync = TRUE] \in Object
        /\ [object EXCEPT !.rotate = TRUE] \in Object
        /\ [object EXCEPT !.preserve = TRUE] \in Object
        /\ WithoutAnnotations(object) \in Object
    BY DEF WithoutAnnotations, ClusterTypeOK, Object
  <2>5. CASE Delete
    <3>1. CASE object.finalizer
      <4>1. object' \in Object
        <5>1. object' = [object EXCEPT !.deleting = TRUE, !.generation = next]
          BY <2>5, <3>1 DEF Delete
        <5> HIDE DEF next
        <5> QED BY <1>0, <5>1 DEF ClusterTypeOK, Object
      <4>2. ClusterTypeOK'
        BY <2>5, <3>1, <4>1 DEF Delete, Edit, ClusterTypeOK, secretVars
      <4> QED BY <1>2, <2>5, <4>2 DEF Delete
    <3>2. CASE ~object.finalizer
      BY <1>2, <2>5, <3>2, TypeVanish DEF Delete, Edit
    <3> QED BY <3>1, <3>2
  <2>6. CASE Create
    <3>1. object' \in Object
      <4>1. PICK name \in SecretNames :
              object' = [object EXCEPT !.exists = TRUE, !.generation = next, !.secretName = name]
        BY <2>6 DEF Create
      <4> HIDE DEF next
      <4> QED BY <1>0, <4>1 DEF ClusterTypeOK, Object
    <3>2. ClusterTypeOK'
      BY <2>6, <3>1 DEF Create, Edit, ClusterTypeOK, secretVars
    <3> QED BY <1>2, <2>6, <3>2 DEF Create
  <2> QED BY <1>6, <2>1, <2>2, <2>3, <2>4, <2>5, <2>6 DEF User
<1>7. ASSUME NEW p \in Pods, PodStart(p) \/ PodStop(p) PROVE TypeOK'
  <2>1. pods' \in [Pods -> Pod \cup {None}]
    BY <1>7 DEF PodStart, PodStop, ClusterTypeOK, Existing, Pod, Secret
  <2>2. ClusterTypeOK'
    BY <1>7, <2>1 DEF PodStart, PodStop, ClusterTypeOK, apiVars, secretVars
  <2> QED BY <1>7, <2>2, DigdirFrame, OperatorFrame, BoundsFrame
      DEF PodStart, PodStop, OperatorTypeOK
<1>8. CASE CollectGarbage
  BY <1>8, TypeRemoveSecret, DigdirFrame, OperatorFrame, BoundsFrame
  DEF CollectGarbage, Existing, apiVars, OperatorTypeOK
<1>9. CASE ClientDrift
  BY <1>1, <1>9, TypeUnregister, ClusterFrame, OperatorFrame
  DEF ClientDrift, Unregister, DigdirTypeOK, OperatorTypeOK
<1>10. CASE KeyDrift
  <2>1. DigdirTypeOK'
    BY <1>10 DEF KeyDrift, DigdirTypeOK
  <2> QED BY <1>1, <1>10, <2>1, ClusterFrame, OperatorFrame DEF KeyDrift, OperatorTypeOK
<1>11. CASE SecretDrift
  BY <1>1, <1>11, TypeRemoveSecret, DigdirFrame, OperatorFrame
  DEF SecretDrift, Existing, apiVars, OperatorTypeOK
<1>12. CASE TimerFires
  BY <1>12, ClusterFrame, DigdirFrame, OperatorFrame, BoundsFrame DEF TimerFires
<1>13. CASE Age
  <2>1. status' \in Status
    BY <1>13 DEF Age, ClusterTypeOK, Status
  <2>2. ClusterTypeOK'
    BY <1>13, <2>1 DEF Age, ClusterTypeOK, secretVars
  <2> QED BY <1>13, <2>2, DigdirFrame, OperatorFrame, BoundsFrame DEF Age, OperatorTypeOK
<1>14. CASE Repeat
  <2>1. OperatorTypeOK'
    BY <1>14, OperatorFrame DEF Repeat, OperatorTypeOK
  <2> QED BY <1>1, <1>14, <2>1, TypeDigdirEffect DEF Repeat
<1>15. CASE Late
  <2>1. pc # "idle" /\ current \in BOOLEAN
    BY <1>15 DEF Late, OperatorTypeOK
  <2>2. Outgoing \in Request
    <3>1. pc \in {"upsert", "registerKeys", "deleteClient"}
      BY <1>15 DEF Late
    <3>2. registration \in ClientIDs \cup {None} /\ txStatus.clientID \in ClientIDs \cup {None}
      BY <2>1 DEF OperatorTypeOK, Status
    <3> QED BY <2>1, <3>1, <3>2, TypePayload DEF Outgoing, Request
  <2>3. DigdirTypeOK'
    BY <1>15, <2>2 DEF Late, DigdirTypeOK
  <2> QED BY <1>1, <1>15, <2>1, <2>3, TypeAbort, ClusterFrame DEF Late
<1>16. CASE Arrive
  <2>1. wire \in Request /\ wire' \in Request \cup {None}
    BY <1>16 DEF Arrive, DigdirTypeOK
  <2>2. wire.payload \in ClientRegistration /\ wire.keys \in SUBSET Keys
    BY <2>1 DEF Request
  <2>3. ClusterTypeOK'
    BY <1>16, ClusterFrame DEF Arrive, Register, Update, RegisterKeys, Unregister
  <2>4. DigdirTypeOK'
    <3>1. CASE UNCHANGED <<registry, config, jwks>>
      BY <2>1, <3>1 DEF DigdirTypeOK
    <3> QED BY <1>16, <2>1, <2>2, <3>1, TypeDigdirWrites, TypeUnregister DEF Arrive
  <2> QED BY <1>16, <2>3, <2>4, OperatorFrame, BoundsFrame DEF Arrive, OperatorTypeOK
<1>17. CASE Condemn
  <2>1. ClusterTypeOK'
    BY <1>17 DEF Condemn, ClusterTypeOK, Existing, apiVars
  <2> QED BY <1>17, <2>1, DigdirFrame, OperatorFrame, BoundsFrame DEF Condemn, OperatorTypeOK
<1> QED
  BY <1>3, <1>4, <1>5, <1>6, <1>7, <1>8, <1>9, <1>10, <1>11, <1>12, <1>13, <1>14, <1>15, <1>16,
     <1>17 DEF Environment

\* Nothing the operator, its users or its failures do puts a value into the
\* resource, the secrets, Digdir or the transaction that the code does not
\* expect there.
THEOREM TypeCorrect == Spec => []TypeOK
<1>1. Init => TypeOK
  BY TypeInit
<1>2. TypeOK /\ [Next]_vars => TypeOK'
  <2>1. TypeOK /\ UNCHANGED vars => TypeOK'
    BY ClusterFrame, DigdirFrame, OperatorFrame, BoundsFrame DEF TypeOK, vars, OperatorTypeOK
  <2> QED BY <2>1, TypeOperator, TypeEnvironment DEF Next
<1> QED BY <1>1, <1>2, PTL DEF Spec
=============================================================================
