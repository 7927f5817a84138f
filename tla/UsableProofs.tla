---------------------------- MODULE UsableProofs ----------------------------
(***************************************************************************)
(* The resources that Reconcile skips, for every value of the constants:   *)
(* their credentials work, wherever an earlier run was cut off.  Assumed:  *)
(* nobody else deletes clients, keys or secrets, users do not take back    *)
(* the annotations they have set, and no request is executed after its     *)
(* sender has given up.                                                    *)
(***************************************************************************)
EXTENDS KeyProofs

LeftAlone ==
    /\ Faults \cap {"clientDrift", "keyDrift", "secretDrift", "late"} = {}
    /\ "unannotate" \notin UserOps

\* What the API server stores and what the operator has read of it agree.
NamesInv == SavedInv /\ ReadInv /\ KnownInv

-----------------------------------------------------------------------------
(* The resource, its status and the copy in memory. *)

\* The status that a completed run leaves.
LEMMA SynchronizedFields ==
    ASSUME NEW s \in Status, NEW o \in Object
    PROVE  /\ Synchronized(s, o).clientID = s.clientID
           /\ Synchronized(s, o).observedGeneration = o.generation
  BY DEF Synchronized, Status

\* Removing the annotations changes nothing else.
LEMMA WithoutAnnotationsFields ==
    ASSUME NEW o \in Object
    PROVE  /\ WithoutAnnotations(o) \in Object
           /\ \A f \in {"exists", "generation", "deleting", "finalizer", "secretName", "type"} :
                WithoutAnnotations(o)[f] = o[f]
  BY DEF WithoutAnnotations, Object

\* Each step of the operator keeps them in agreement,
LEMMA NamesOperator ==
    ASSUME TypeOK, NamesInv, AchievedInv, Operator
    PROVE  NamesInv'
<1> USE NoneAssumption
    DEF TypeOK, ClusterTypeOK, DigdirTypeOK, OperatorTypeOK, Object, Status,
        NamesInv, SavedInv, ReadInv, KnownInv, Registered, Processing, Finalizing,
        apiVars, secretVars, digdirVars, txVars
<1>1. CASE ReconcileNothing
  BY <1>1 DEF ReconcileNothing, Return
<1>2. CASE ReconcileDeleted
  BY <1>2 DEF ReconcileDeleted, Load, markedForDeletion
<1>3. CASE ReconcileUnfinalized
  BY <1>3 DEF ReconcileUnfinalized, Load, markedForDeletion
<1>4. CASE ReconcileUpToDate
  BY <1>4 DEF ReconcileUpToDate, Return
<1>5. CASE ReconcileOutdated
  BY <1>5 DEF ReconcileOutdated, Load, markedForDeletion
<1>6. CASE AddFinalizer
  <2>1. /\ object' \in Object /\ object'.finalizer
        /\ object'.exists /\ object'.deleting = object.deleting
        /\ object'.generation = object.generation
    BY <1>6 DEF AddFinalizer, PutObject
  <2>2. UNCHANGED <<status, registry>> /\ status.clientID = None /\ txStatus.clientID = None
    BY <1>6 DEF AddFinalizer, PutObject
  <2>3. CASE Skipped(txObject, txStatus)
    <3>1. pc' = "idle"
      BY <1>6, <2>3 DEF AddFinalizer, Return
    <3> QED BY <2>1, <2>2, <3>1
  <2>4. CASE ~Skipped(txObject, txStatus)
    <3>1. pc' = "process" /\ txObject' = object' /\ UNCHANGED <<txStatus, registration>>
      BY <1>6, <2>4 DEF AddFinalizer
    <3> QED BY <1>6, <2>1, <2>2, <3>1 DEF AddFinalizer
  <2> QED BY <2>3, <2>4
<1>7. CASE MarkProcessing
  BY <1>7 DEF MarkProcessing, PutStatus
<1>8. CASE GetRegistration
  BY <1>8 DEF GetRegistration, Matching, clientMatches
<1>9. CASE ProcessScopes \/ filterConsumedScopes
  BY <1>9 DEF ProcessScopes, filterConsumedScopes
<1>10. CASE UpdateClient
  BY <1>10 DEF UpdateClient, Update
<1>11. CASE CreateClient
  <2>1. PICK c \in ClientIDs :
          /\ registry' = [registry EXCEPT ![c] = txObject.type]
          /\ registration' = c
          /\ txStatus' = [txStatus EXCEPT !.clientID = c]
    BY <1>11 DEF CreateClient, Register, FreshClients, ToClientRegistration
  <2>2. pc = "upsert" /\ registration = None /\ pc' = "getManaged"
        /\ UNCHANGED <<object, status, txObject, current>>
    BY <1>11 DEF CreateClient, Register
  <2>3. /\ txStatus.clientID = None /\ status.clientID = None
        /\ txStatus'.clientID = c /\ txStatus'.observedGeneration = txStatus.observedGeneration
    BY <2>1, <2>2
  <2>4. c \in Registered'
    BY <2>1, <2>2
  <2> QED BY <2>2, <2>3, <2>4
<1>12. CASE GetManaged
  BY <1>12 DEF GetManaged
<1>13. CASE ensureJwkValidExternalState
  BY <1>13 DEF ensureJwkValidExternalState
<1>14. CASE registerJwk
  BY <1>14 DEF registerJwk, RegisterKeys
<1>15. CASE WriteSecret
  BY <1>15 DEF WriteSecret, CreateOrUpdate
<1>16. CASE DeleteUnused
  BY <1>16 DEF DeleteUnused, RemoveSecret
<1>17. CASE FinishCleanup
  <2>1. /\ txStatus'.clientID = txStatus.clientID
        /\ txStatus'.observedGeneration \in {txStatus.observedGeneration, txObject.generation}
    <3>1. /\ txStatus' \in {txStatus, Synchronized(txStatus, txObject)}
          /\ txStatus \in Status /\ txObject \in Object
      BY <1>17 DEF FinishCleanup
    <3>2. /\ Synchronized(txStatus, txObject).clientID = txStatus.clientID
          /\ Synchronized(txStatus, txObject).observedGeneration = txObject.generation
      BY <3>1, SynchronizedFields
    <3> QED BY <3>1, <3>2
  <2>2. txStatus.clientID # None
    BY <1>17 DEF FinishCleanup, AchievedInv, Upserted
  <2> QED BY <1>17, <2>1, <2>2 DEF FinishCleanup
<1>18. CASE ClearAnnotations
  <2>1. object' = WithoutAnnotations(object) /\ txObject' = object'
        /\ txStatus' = Synchronized(txStatus, object')
    BY <1>18 DEF ClearAnnotations, PutObject
  <2>2. \A f \in {"exists", "generation", "deleting", "finalizer"} : object'[f] = object[f]
    BY <2>1, WithoutAnnotationsFields
  <2>3. /\ txStatus'.clientID = txStatus.clientID
        /\ txStatus'.observedGeneration = object.generation
    <3>1. object' \in Object /\ txStatus \in Status
      BY <1>18, <2>1, WithoutAnnotationsFields DEF ClearAnnotations
    <3> QED BY <2>1, <2>2, <3>1, SynchronizedFields
  <2>4. pc = "clearAnnotations" /\ pc' = "synchronize"
        /\ UNCHANGED <<registry, status, registration, current>>
    BY <1>18 DEF ClearAnnotations, PutObject
  <2>5. txStatus.clientID # None
    BY <2>4 DEF AchievedInv, Upserted
  <2> QED BY <2>1, <2>2, <2>3, <2>4, <2>5
<1>19. CASE Synchronize
  BY <1>19 DEF Synchronize, PutStatus, Return
<1>20. CASE observeError
  BY <1>20 DEF observeError, PutStatus, Return
<1>21. CASE Exists
  BY <1>21 DEF Exists, Matching, clientMatches, AfterExternalDeletion
<1>22. CASE DeleteClient
  BY <1>22 DEF DeleteClient, Unregister, AfterExternalDeletion
<1>23. CASE FinalizeScopes
  BY <1>23 DEF FinalizeScopes
<1>24. CASE RemoveFinalizer
  BY <1>24 DEF RemoveFinalizer, Vanish, Return, EmptyStatus
<1>25. CASE Refused
  BY <1>25 DEF Refused, Abort, Return, Writing
<1> QED
  BY <1>1, <1>2, <1>3, <1>4, <1>5, <1>6, <1>7, <1>8, <1>9, <1>10, <1>11, <1>12, <1>13, <1>14,
     <1>15, <1>16, <1>17, <1>18, <1>19, <1>20, <1>21, <1>22, <1>23, <1>24, <1>25 DEF Operator

\* A call of the operator whose reply is lost does what the call does.
LEMMA NamesLostReply ==
    ASSUME TypeOK, NamesInv, AchievedInv, LostReply
    PROVE  NamesInv'
<1> USE NoneAssumption
    DEF TypeOK, ClusterTypeOK, DigdirTypeOK, OperatorTypeOK, Object, Status,
        NamesInv, SavedInv, ReadInv, KnownInv, Registered, Processing, Finalizing,
        apiVars, secretVars, digdirVars, txVars
<1>1. Abort(current /\ pc \notin Writing)
  BY DEF LostReply
<1>2. CASE pc = "addFinalizer" /\ current /\ PutObject([object EXCEPT !.finalizer = TRUE])
  <2>1. /\ object' \in Object /\ object'.finalizer
        /\ object'.exists /\ object'.deleting = object.deleting
        /\ object'.generation = object.generation
    BY <1>2 DEF PutObject
  <2>2. pc' = "idle" /\ UNCHANGED <<status, registry>>
    BY <1>1, <1>2 DEF Abort, Return, PutObject
  <2> QED BY <1>2, <2>1, <2>2
<1>3. CASE pc \in {"process", "synchronize", "observeError"} /\ current /\ PutStatus
  BY <1>1, <1>3 DEF Abort, Return, PutStatus, Writing
<1>4. CASE pc = "upsert" /\ registration = None
           /\ \E c \in FreshClients : Register(c, ToClientRegistration(txObject))
  BY <1>1, <1>4 DEF Abort, FreshClients, Register, ToClientRegistration
<1>5. CASE pc = "upsert" /\ Update(registration, ToClientRegistration(txObject))
  BY <1>1, <1>5 DEF Abort, Update
<1>6. CASE pc = "registerKeys" /\ RegisterKeys(registration, MergeJwks(jwk, managed.used))
  BY <1>1, <1>6 DEF Abort, RegisterKeys
<1>7. CASE pc = "writeSecret" /\ CreateOrUpdate(txObject.secretName)
  BY <1>1, <1>7 DEF Abort, CreateOrUpdate
<1>8. CASE pc = "deleteUnused" /\ UNCHANGED <<apiVars, digdirVars>>
  BY <1>1, <1>8 DEF Abort
<1>9. CASE pc = "clearAnnotations" /\ PutObject(WithoutAnnotations(object))
  <2>1. \A f \in {"exists", "generation", "deleting", "finalizer"} : object'[f] = object[f]
    BY <1>9, WithoutAnnotationsFields DEF PutObject
  <2>2. /\ pc' = "observeError" /\ ~current' /\ UNCHANGED <<status, registry, txObject>>
        /\ txStatus' = [txStatus EXCEPT !.error = TRUE]
    BY <1>1, <1>9 DEF Abort, PutObject, Writing
  <2> QED BY <1>9, <2>1, <2>2
<1>10. CASE pc = "deleteClient" /\ Unregister(txStatus.clientID)
  BY <1>1, <1>10 DEF Abort, Return, Unregister
<1>11. CASE pc = "removeFinalizer" /\ Vanish /\ UNCHANGED digdirVars
  BY <1>1, <1>11 DEF Abort, Return, Vanish, EmptyStatus
<1> QED
  BY <1>2, <1>3, <1>4, <1>5, <1>6, <1>7, <1>8, <1>9, <1>10, <1>11
  DEF LostReply, ApiEffect, DigdirEffect

\* and so does everybody else.
LEMMA NamesEnvironment ==
    ASSUME TypeOK, NamesInv, AchievedInv, OnTime, LeftAlone, Environment
    PROVE  NamesInv'
<1> USE NoneAssumption
    DEF TypeOK, ClusterTypeOK, DigdirTypeOK, OperatorTypeOK, Object, Status,
        NamesInv, SavedInv, ReadInv, KnownInv, Registered, Processing, Finalizing,
        apiVars, secretVars, digdirVars, txVars
<1>1. CASE Fail
  BY <1>1 DEF Fail, Abort, Return
<1>2. CASE LostReply
  BY <1>2, NamesLostReply
<1>3. CASE Crash
  BY <1>3 DEF Crash, Return
<1>4. CASE User
  <2>1. ASSUME NEW op, NEW name, NEW type, Apply(op, name, type) PROVE NamesInv'
    <3>1. /\ object'.generation = object.generation + 1
          /\ \A f \in {"exists", "deleting", "finalizer"} : object'[f] = object[f]
      BY <2>1 DEF Apply
    <3>2. UNCHANGED <<status, registry, pc, txObject, txStatus, registration>> /\ ~current'
      BY <2>1 DEF Apply, Edit
    <3> QED BY <3>1, <3>2
  <2>2. ASSUME NEW op, NEW o \in Object, Annotate(op, o),
               \A f \in {"exists", "generation", "deleting", "finalizer"} : o[f] = object[f]
        PROVE  NamesInv'
    BY <2>2 DEF Annotate, Edit
  <2>3. CASE Delete
    <3>1. UNCHANGED <<registry, pc, txObject, txStatus, registration>> /\ ~current'
      BY <2>3 DEF Delete, Edit
    <3>2. CASE object.finalizer
      <4>1. object' = [object EXCEPT !.deleting = TRUE, !.generation = @ + 1] /\ UNCHANGED status
        BY <2>3, <3>2 DEF Delete
      <4>2. /\ object'.finalizer /\ object'.exists /\ object'.deleting
            /\ object'.generation = object.generation + 1
        BY <3>2, <4>1
      <4> QED BY <3>1, <3>2, <4>1, <4>2
    <3>3. CASE ~object.finalizer
      <4>1. /\ ~object'.finalizer /\ ~object'.exists /\ ~object'.deleting
            /\ object'.generation = object.generation /\ status' = EmptyStatus
        <5>1. Vanish
          BY <2>3, <3>3 DEF Delete
        <5> QED BY <5>1 DEF Vanish
      <4> QED BY <3>1, <3>3, <4>1 DEF EmptyStatus
    <3> QED BY <3>2, <3>3
  <2>4. CASE Create
    <3>1. PICK name \in SecretNames :
            object' = [object EXCEPT !.exists = TRUE, !.generation = @ + 1, !.secretName = name]
      BY <2>4 DEF Create
    <3>2. /\ object'.exists /\ object'.generation = object.generation + 1
          /\ object'.finalizer = object.finalizer /\ object'.deleting = object.deleting
      BY <3>1
    <3>3. UNCHANGED <<status, registry, pc, txObject, txStatus, registration>> /\ ~current'
      BY <2>4 DEF Create, Edit
    <3> QED BY <3>2, <3>3
  <2> QED BY <1>4, <2>1, <2>2, <2>3, <2>4 DEF User, WithoutAnnotations
<1>5. ASSUME NEW p \in Pods, PodStart(p) \/ PodStop(p) PROVE NamesInv'
  BY <1>5 DEF PodStart, PodStop
<1>6. CASE Condemn \/ CollectGarbage
  BY <1>6 DEF Condemn, CollectGarbage
<1>7. ~ClientDrift /\ ~KeyDrift /\ ~SecretDrift /\ ~Late /\ ~Arrive
  BY DEF ClientDrift, KeyDrift, SecretDrift, Late, Arrive, Fault, LeftAlone, OnTime
<1>8. CASE TimerFires
  BY <1>8 DEF TimerFires
<1>9. CASE Age
  BY <1>9 DEF Age
<1>10. CASE Repeat
  <2>1. UNCHANGED <<pc, txVars>>
    BY <1>10 DEF Repeat
  <2>2. CASE pc = "upsert" /\ registration = None
             /\ \E c \in FreshClients : Register(c, ToClientRegistration(txObject))
    BY <2>1, <2>2 DEF FreshClients, Register, ToClientRegistration
  <2>3. CASE pc = "upsert" /\ Update(registration, ToClientRegistration(txObject))
    BY <2>1, <2>3 DEF Update
  <2>4. CASE pc = "registerKeys" /\ RegisterKeys(registration, MergeJwks(jwk, managed.used))
    BY <2>1, <2>4 DEF RegisterKeys
  <2>5. CASE pc = "deleteClient" /\ Unregister(txStatus.clientID)
    BY <2>1, <2>5 DEF Unregister
  <2> QED BY <1>10, <2>2, <2>3, <2>4, <2>5 DEF Repeat, DigdirEffect
<1> QED
  BY <1>1, <1>2, <1>3, <1>4, <1>5, <1>6, <1>7, <1>8, <1>9, <1>10 DEF Environment

-----------------------------------------------------------------------------
(* What a run has achieved. *)

\* A secret is not the absence of one.
LEMMA SecretNotNone == None \notin Secret
  BY ConstantsAssumption DEF Secret

\* A step to somewhere else has nothing to keep.
LEMMA AchievedElsewhere == ASSUME pc' \notin Upserted PROVE AchievedInv'
  BY DEF AchievedInv, Upserted, Written

\* Each step of the operator keeps what the run has achieved, or adds to it.
LEMMA AchievedOperator ==
    ASSUME TypeOK, NamesInv, AchievedInv, KeyInv, Operator
    PROVE  AchievedInv'
<1> USE NoneAssumption
    DEF TypeOK, ClusterTypeOK, DigdirTypeOK, OperatorTypeOK, Object, Status, AchievedInv,
        Upserted, Written, Delivered, apiVars, secretVars, digdirVars, txVars
<1>1. CASE UpdateClient
  BY <1>1 DEF UpdateClient, Update, ToClientRegistration
<1>2. CASE CreateClient
  BY <1>2 DEF CreateClient, Register, FreshClients, ToClientRegistration
<1>3. CASE GetManaged \/ ensureJwkValidExternalState
  BY <1>3 DEF GetManaged, ensureJwkValidExternalState
<1>4. CASE registerJwk
  BY <1>4 DEF registerJwk, RegisterKeys
<1>5. CASE WriteSecret
  <2>1. pc = "writeSecret" /\ pc' = "deleteUnused" /\ UNCHANGED <<txVars, registry, config, jwks>>
    BY <1>5 DEF WriteSecret, CreateOrUpdate
  <2>2. /\ txObject.secretName \in SecretNames
        /\ registration \in ClientIDs /\ registration = txStatus.clientID
    BY <2>1
  <2>3. secrets'[txObject.secretName] = [key |-> jwk, client |-> txStatus.clientID, owned |-> TRUE]
    BY <1>5, <2>2 DEF WriteSecret, CreateOrUpdate
  <2>4. secrets'[txObject.secretName] # None
    <3>1. jwk \in Keys
      BY <2>1
    <3>2. secrets'[txObject.secretName] \in Secret
      BY <2>2, <2>3, <3>1 DEF Secret
    <3> QED BY <3>2, SecretNotNone
  <2>5. jwk \in jwks[registration]
    BY <2>1 DEF KeyInv
  <2>6. Delivered(txObject.secretName, registration)'
    BY <2>1, <2>2, <2>3, <2>4, <2>5 DEF Delivered
  <2> QED BY <2>1, <2>6
<1>6. CASE DeleteUnused
  BY <1>6 DEF DeleteUnused, RemoveSecret, ToDelete
<1>7. CASE FinishCleanup
  <2>1. pc' = "synchronize" => txStatus'.observedGeneration = txObject.generation
    BY <1>7, SynchronizedFields DEF FinishCleanup
  <2> QED BY <1>7, <2>1 DEF FinishCleanup
<1>8. CASE ClearAnnotations
  <2>1. txObject' = WithoutAnnotations(object) /\ txStatus' = Synchronized(txStatus, txObject')
        /\ UNCHANGED <<registry, config, jwks, secrets, doomed, registration>>
        /\ pc = "clearAnnotations" /\ pc' = "synchronize"
    BY <1>8 DEF ClearAnnotations, PutObject
  <2>2. txObject = object
    BY <1>8 DEF ClearAnnotations, NamesInv, ReadInv
  <2>3. \A f \in {"generation", "secretName", "type"} : txObject'[f] = txObject[f]
    BY <2>1, <2>2, WithoutAnnotationsFields
  <2>4. txStatus'.observedGeneration = txObject'.generation
    <3>1. txObject' \in Object /\ txStatus \in Status
      BY <2>1, WithoutAnnotationsFields
    <3> QED BY <2>1, <3>1, SynchronizedFields
  <2> QED BY <2>1, <2>3, <2>4
<1>9. CASE Refused
  BY <1>9 DEF Refused, Abort, Return
<1>10. CASE AddFinalizer
  BY <1>10 DEF AddFinalizer, Return
<1> QED
  BY <1>1, <1>2, <1>3, <1>4, <1>5, <1>6, <1>7, <1>8, <1>9, <1>10, AchievedElsewhere
  DEF Operator, ReconcileNothing, ReconcileDeleted, ReconcileUnfinalized, ReconcileUpToDate,
      ReconcileOutdated, MarkProcessing, GetRegistration, ProcessScopes, filterConsumedScopes,
      Synchronize, observeError, Exists, DeleteClient, FinalizeScopes, RemoveFinalizer,
      AfterExternalDeletion, Return

\* Nobody else undoes it.
LEMMA AchievedEnvironment ==
    ASSUME TypeOK, NamesInv, AchievedInv, OnTime, LeftAlone, Environment
    PROVE  AchievedInv'
<1> USE NoneAssumption
    DEF TypeOK, ClusterTypeOK, DigdirTypeOK, OperatorTypeOK, Object, Status, AchievedInv,
        Upserted, Written, Delivered, apiVars, secretVars, digdirVars, txVars
<1>1. CASE Fail \/ LostReply \/ Crash
  BY <1>1, AchievedElsewhere DEF Fail, LostReply, Crash, Abort, Return
<1>2. CASE User
  <2>1. UNCHANGED <<registry, config, jwks, pc, txObject, txStatus, registration>>
    BY <1>2 DEF User, Create, Apply, Annotate, Delete, Edit
  <2>2. pc \in Upserted => UNCHANGED <<secrets, doomed>>
    <3>1. pc \in Upserted => object.finalizer
      BY DEF NamesInv, KnownInv, Processing
    <3> QED BY <1>2, <3>1 DEF User, Create, Apply, Annotate, Delete
  <2> QED BY <2>1, <2>2
<1>3. ASSUME NEW p \in Pods, PodStart(p) \/ PodStop(p) PROVE AchievedInv'
  BY <1>3 DEF PodStart, PodStop
<1>4. CASE Condemn \/ CollectGarbage
  BY <1>4 DEF Condemn, CollectGarbage, RemoveSecret, Existing
<1>5. ~ClientDrift /\ ~KeyDrift /\ ~SecretDrift /\ ~Late /\ ~Arrive
  BY DEF ClientDrift, KeyDrift, SecretDrift, Late, Arrive, Fault, LeftAlone, OnTime
<1>6. CASE TimerFires \/ Age
  BY <1>6 DEF TimerFires, Age
<1>7. CASE Repeat
  <2>1. UNCHANGED <<pc, txVars>>
    BY <1>7 DEF Repeat
  <2>2. CASE pc = "registerKeys" /\ RegisterKeys(registration, MergeJwks(jwk, managed.used))
    BY <2>1, <2>2 DEF RegisterKeys
  <2>3. CASE pc \in {"upsert", "deleteClient"}
    BY <2>1, <2>3, AchievedElsewhere
  <2> QED BY <1>7, <2>2, <2>3 DEF Repeat, DigdirEffect
<1> QED BY <1>1, <1>2, <1>3, <1>4, <1>5, <1>6, <1>7 DEF Environment

-----------------------------------------------------------------------------
(* The resource that Reconcile skips. *)

UpToDate == object.exists /\ ~object.deleting /\ Skipped(object, status)

UpToDateInv ==
    UpToDate =>
        /\ ClientUpToDate
        /\ Delivered(object.secretName, status.clientID)
        /\ pc \in {"idle", "synchronize", "observeError"}

\* The resource stays what it was, skipped or not, if a step changes neither it
\* nor its status; a step in the middle of a run does not find it skipped,
LEMMA StillWorking ==
    ASSUME UpToDateInv, pc \notin {"idle", "synchronize", "observeError"}, UNCHANGED apiVars
    PROVE  UpToDateInv'
  BY DEF UpToDateInv, UpToDate, apiVars

\* and any other step may read what it likes.
LEMMA StillUpToDate ==
    ASSUME UpToDateInv, UNCHANGED <<apiVars, secretVars, registry, config, jwks>>,
           UpToDate => pc' \in {"idle", "synchronize", "observeError"}
    PROVE  UpToDateInv'
  BY DEF UpToDateInv, UpToDate, ClientUpToDate, Delivered, apiVars, secretVars

\* Skipping does not depend on Ready or on the finalizer.
LEMMA SkippedFrame ==
    ASSUME NEW o \in Object, NEW s \in Status, ~Skipped(o, s)
    PROVE  /\ ~Skipped(o, [s EXCEPT !.ready = FALSE])
           /\ ~Skipped([o EXCEPT !.finalizer = TRUE], s)
  BY DEF Skipped, IsUpToDate, isStale, HasRetryableStatusCondition, Object, Status

\* The write of the finalizer, of Ready = False and of an error do not make it
\* one to be skipped.
LEMMA EarlyWrites ==
    ASSUME TypeOK, NamesInv, UpToDateInv, current,
           \/ pc = "addFinalizer" /\ PutObject([object EXCEPT !.finalizer = TRUE])
           \/ pc \in {"process", "observeError"} /\ PutStatus
    PROVE  UpToDateInv'
<1> USE DEF TypeOK, ClusterTypeOK, OperatorTypeOK
<1>1. CASE pc = "addFinalizer" /\ PutObject([object EXCEPT !.finalizer = TRUE])
  <2>1. object' = [object EXCEPT !.finalizer = TRUE] /\ UNCHANGED status
    BY <1>1 DEF PutObject
  <2>2. object'.exists = object.exists /\ object'.deleting = object.deleting
    BY <2>1 DEF Object
  <2>3. ~UpToDate
    BY <1>1 DEF UpToDateInv
  <2>4. Skipped(object, status) \/ ~Skipped(object', status)
    BY <2>1, SkippedFrame
  <2> QED BY <2>1, <2>2, <2>3, <2>4 DEF UpToDateInv, UpToDate
<1>2. CASE pc = "process" /\ PutStatus
  <2>1. status' = [status EXCEPT !.ready = FALSE] /\ UNCHANGED object
    BY <1>2 DEF PutStatus, NamesInv, ReadInv
  <2>2. ~UpToDate
    BY <1>2 DEF UpToDateInv
  <2>3. Skipped(object, status) \/ ~Skipped(object, status')
    BY <2>1, SkippedFrame
  <2> QED BY <2>1, <2>2, <2>3 DEF UpToDateInv, UpToDate
<1>3. CASE pc = "observeError" /\ PutStatus
  BY <1>3 DEF PutStatus, NamesInv, ReadInv, UpToDateInv, UpToDate, Skipped,
              HasRetryableStatusCondition
<1> QED BY <1>1, <1>2, <1>3

\* When the last writes of a run make it one, all is done.
LEMMA LastWrites ==
    ASSUME TypeOK, NamesInv, AchievedInv, current,
           \/ pc = "clearAnnotations" /\ PutObject(WithoutAnnotations(object))
           \/ pc = "synchronize" /\ PutStatus,
           pc' \in {"idle", "synchronize", "observeError"}
    PROVE  UpToDateInv'
<1> USE DEF TypeOK, ClusterTypeOK, OperatorTypeOK
<1>1. /\ txObject = object
      /\ registration # None /\ registration = txStatus.clientID
  BY DEF NamesInv, ReadInv, AchievedInv, Upserted
<1>2. /\ registry[registration] = object.type
      /\ config[registration] = object.generation
      /\ Delivered(object.secretName, registration)
  BY <1>1 DEF AchievedInv, Upserted, Written
<1>3. CASE pc = "clearAnnotations" /\ PutObject(WithoutAnnotations(object))
  <2>1. \A f \in {"generation", "secretName", "type"} : object'[f] = object[f]
    BY <1>3, WithoutAnnotationsFields DEF PutObject
  <2>2. UNCHANGED <<status, secrets, doomed, registry, config, jwks>>
    BY <1>3 DEF PutObject, secretVars, digdirVars
  <2>3. UpToDate' => status.clientID = registration
    BY <1>1, <1>3, <2>2
    DEF UpToDate, Skipped, IsUpToDate, NamesInv, SavedInv, KnownInv, Processing
  <2> QED BY <1>1, <1>2, <2>1, <2>2, <2>3 DEF UpToDateInv, ClientUpToDate, Delivered
<1>4. CASE pc = "synchronize" /\ PutStatus
  BY <1>1, <1>2, <1>4
  DEF PutStatus, secretVars, digdirVars, UpToDateInv, ClientUpToDate, Delivered
<1> QED BY <1>3, <1>4

\* Each step of the operator leaves a skipped resource usable,
LEMMA UpToDateOperator ==
    ASSUME TypeOK, NamesInv, AchievedInv, UpToDateInv, Operator
    PROVE  UpToDateInv'
<1> USE DEF apiVars, secretVars, digdirVars, txVars
<1>1. CASE ReconcileNothing \/ ReconcileUpToDate
  BY <1>1, StillUpToDate DEF ReconcileNothing, ReconcileUpToDate, Return
<1>2. CASE ReconcileDeleted \/ ReconcileUnfinalized \/ ReconcileOutdated
  <2>1. ~UpToDate
    <3>1. CASE ReconcileUnfinalized
      BY <3>1 DEF ReconcileUnfinalized, UpToDate, Skipped, IsUpToDate, NamesInv, SavedInv
    <3> QED BY <1>2, <3>1 DEF ReconcileDeleted, ReconcileOutdated, UpToDate, markedForDeletion
  <2> QED
    BY <1>2, <2>1, StillUpToDate DEF ReconcileDeleted, ReconcileUnfinalized, ReconcileOutdated
<1>3. CASE AddFinalizer \/ MarkProcessing \/ observeError
  BY <1>3, EarlyWrites DEF AddFinalizer, MarkProcessing, observeError
<1>4. CASE ClearAnnotations \/ Synchronize
  BY <1>4, LastWrites DEF ClearAnnotations, Synchronize, Return
<1>5. CASE GetRegistration \/ ProcessScopes \/ filterConsumedScopes
           \/ UpdateClient \/ CreateClient
  BY <1>5, StillWorking
  DEF GetRegistration, ProcessScopes, filterConsumedScopes, UpdateClient, Update,
      CreateClient, Register
<1>6. CASE GetManaged \/ ensureJwkValidExternalState \/ registerJwk
           \/ WriteSecret \/ DeleteUnused \/ FinishCleanup
  BY <1>6, StillWorking
  DEF GetManaged, ensureJwkValidExternalState, registerJwk, RegisterKeys, WriteSecret,
      CreateOrUpdate, DeleteUnused, FinishCleanup
<1>7. CASE Exists \/ DeleteClient \/ FinalizeScopes
  BY <1>7, StillWorking DEF Exists, DeleteClient, Unregister, FinalizeScopes
<1>8. CASE RemoveFinalizer
  BY <1>8 DEF RemoveFinalizer, Vanish, UpToDateInv, UpToDate, TypeOK, ClusterTypeOK, Object
<1>9. CASE Refused
  BY <1>9, StillUpToDate DEF Refused, Abort, Return, UpToDateInv
<1> QED
  BY <1>1, <1>2, <1>3, <1>4, <1>5, <1>6, <1>7, <1>8, <1>9 DEF Operator

\* a call whose reply is lost does what the call does,
LEMMA UpToDateLostReply ==
    ASSUME TypeOK, NamesInv, AchievedInv, UpToDateInv, LostReply
    PROVE  UpToDateInv'
<1> USE DEF apiVars, secretVars, digdirVars, txVars
<1>1. pc' \in {"idle", "observeError"}
  BY DEF LostReply, Abort, Return
<1>2. CASE DigdirEffect
  BY <1>2, StillWorking DEF DigdirEffect, Register, Update, RegisterKeys, Unregister
<1>3. CASE /\ current
           /\ \/ pc = "addFinalizer" /\ PutObject([object EXCEPT !.finalizer = TRUE])
              \/ pc \in {"process", "observeError"} /\ PutStatus
  BY <1>3, EarlyWrites
<1>4. CASE /\ current
           /\ \/ pc = "clearAnnotations" /\ PutObject(WithoutAnnotations(object))
              \/ pc = "synchronize" /\ PutStatus
  BY <1>1, <1>4, LastWrites
<1>5. CASE pc \in {"writeSecret", "deleteUnused"} /\ UNCHANGED apiVars
  BY <1>5, StillWorking
<1>6. CASE Vanish
  BY <1>6 DEF Vanish, UpToDateInv, UpToDate, TypeOK, ClusterTypeOK, Object
<1> QED
  BY <1>2, <1>3, <1>4, <1>5, <1>6 DEF LostReply, ApiEffect, CreateOrUpdate

\* and so does everybody else.
LEMMA UpToDateEnvironment ==
    ASSUME TypeOK, NamesInv, AchievedInv, UpToDateInv, OnTime, LeftAlone, Environment
    PROVE  UpToDateInv'
<1> USE DEF apiVars, secretVars, digdirVars, txVars
<1>1. CASE Fail \/ Crash
  BY <1>1, StillUpToDate DEF Fail, Crash, Abort, Return, UpToDateInv
<1>2. CASE LostReply
  BY <1>2, UpToDateLostReply
<1>3. CASE User
  <2> USE DEF TypeOK, ClusterTypeOK, Object, Status, NamesInv, SavedInv, UpToDateInv, UpToDate,
              Skipped, IsUpToDate
  <2>1. CASE \/ Apply("edit", object.secretName, object.type)
             \/ \E name \in SecretNames \ {object.secretName} : Apply("rename", name, object.type)
             \/ \E type \in IntegrationTypes \ {object.type} :
                  Apply("retype", object.secretName, type)
    <3>1. object'.generation = object.generation + 1 /\ UNCHANGED status
      BY <2>1 DEF Apply
    <3> QED BY <3>1
  <2>2. CASE \/ Annotate("resync", [object EXCEPT !.resync = TRUE])
             \/ Annotate("rotate", [object EXCEPT !.rotate = TRUE])
    BY <2>2 DEF Annotate
  <2>3. CASE Annotate("preserve", [object EXCEPT !.preserve = TRUE])
    BY <2>3 DEF Annotate, Edit, ClientUpToDate, Delivered, HasRetryableStatusCondition, isStale
  <2>4. ~Annotate("unannotate", WithoutAnnotations(object))
    BY DEF Annotate, Edit, LeftAlone
  <2>5. CASE Delete
    BY <2>5 DEF Delete, Vanish
  <2>6. CASE Create
    <3>1. UNCHANGED status /\ status.observedGeneration = 0
      BY <2>6 DEF Create
    <3> QED BY <3>1
  <2> QED BY <1>3, <2>1, <2>2, <2>3, <2>4, <2>5, <2>6 DEF User
<1>4. ASSUME NEW p \in Pods, PodStart(p) \/ PodStop(p) PROVE UpToDateInv'
  BY <1>4, StillUpToDate DEF PodStart, PodStop, UpToDateInv
<1>5. CASE Condemn \/ CollectGarbage
  <2>1. UNCHANGED <<object, status, registry, config, jwks, pc>>
    BY <1>5 DEF Condemn, CollectGarbage
  <2>2. \A s \in SecretNames, c \in ClientIDs : Delivered(s, c) => Delivered(s, c)'
    BY <1>5, <2>1 DEF Condemn, CollectGarbage, RemoveSecret, Existing, Delivered, TypeOK,
                      ClusterTypeOK
  <2> QED BY <2>1, <2>2 DEF UpToDateInv, UpToDate, ClientUpToDate, TypeOK, ClusterTypeOK,
                            Object, Status
<1>6. ~ClientDrift /\ ~KeyDrift /\ ~SecretDrift /\ ~Late /\ ~Arrive
  BY DEF ClientDrift, KeyDrift, SecretDrift, Late, Arrive, Fault, LeftAlone, OnTime
<1>7. CASE TimerFires
  BY <1>7, StillUpToDate DEF TimerFires, UpToDateInv
<1>8. CASE Age
  BY <1>8 DEF Age, UpToDateInv, UpToDate, Skipped, IsUpToDate, isStale, TypeOK, ClusterTypeOK,
              Status
<1>9. CASE Repeat
  BY <1>9, StillWorking DEF Repeat, DigdirEffect, Register, Update, RegisterKeys, Unregister
<1> QED
  BY <1>1, <1>2, <1>3, <1>4, <1>5, <1>6, <1>7, <1>8, <1>9 DEF Environment

-----------------------------------------------------------------------------
\* Wherever a run of Reconcile fails, crashes or loses a reply, and whatever
\* users edit meanwhile: a resource becomes one to be skipped only by the last
\* writes of a run that has registered the client, its key and the secret for
\* the spec as it now is, and nothing but a new reason to reconcile undoes that.
\* A resource that was deleted and created again is included, and so is the old
\* secret that it adopts; only the garbage collector can still take that one,
\* if it had condemned it before.
THEOREM UsableInvariant ==
    ASSUME LeftAlone
    PROVE  Spec => []UsableInv
<1>1. UsableInv <=> NamesInv /\ AchievedInv /\ UpToDateInv
  BY DEF UsableInv, NamesInv, UpToDateInv, UpToDate
<1>2. Init => NamesInv /\ AchievedInv /\ UpToDateInv
  <2> SUFFICES ASSUME Init PROVE NamesInv /\ AchievedInv /\ UpToDateInv
    OBVIOUS
  <2>1. /\ object.exists /\ ~object.deleting /\ ~object.finalizer /\ object.generation = 1
        /\ status.clientID = None /\ status.observedGeneration = 0 /\ pc = "idle"
    BY DEF Init, EmptyStatus
  <2> QED
    BY <2>1 DEF NamesInv, SavedInv, ReadInv, KnownInv, Processing, AchievedInv, Upserted,
                Written, UpToDateInv, UpToDate, Skipped, IsUpToDate
<1>3. ASSUME TypeOK, NamesInv, AchievedInv, UpToDateInv, KeyInv, OnTime, [Next]_vars
      PROVE  NamesInv' /\ AchievedInv' /\ UpToDateInv'
  <2>1. CASE Operator
    BY <1>3, <2>1, NamesOperator, AchievedOperator, UpToDateOperator
  <2>2. CASE Environment
    BY <1>3, <2>2, NamesEnvironment, AchievedEnvironment, UpToDateEnvironment
  <2>3. CASE UNCHANGED vars
    BY <1>3, <2>3
    DEF vars, apiVars, secretVars, digdirVars, txVars, NamesInv, SavedInv, ReadInv, KnownInv,
        Registered, AchievedInv, UpToDateInv, UpToDate, ClientUpToDate, Delivered
  <2> QED BY <1>3, <2>1, <2>2, <2>3 DEF Next
<1>4. KeysUndisturbed
  BY DEF LeftAlone, KeysUndisturbed
<1>5. Spec => [](NamesInv /\ AchievedInv /\ UpToDateInv)
  BY <1>2, <1>3, <1>4, TypeCorrect, KeyInvariant, NothingLate, PTL DEF Spec
<1> QED BY <1>1, <1>5, PTL

\* A resource that Reconcile would skip as up to date has a client registered
\* from its current spec, and a secret of its own with a key registered for that
\* client, unless it adopted one that the garbage collector had condemned.
THEOREM SkippedUsable ==
    ASSUME LeftAlone
    PROVE  Spec => []SkippedIsUsable
<1>1. UsableInv => SkippedIsUsable
  BY DEF UsableInv, SkippedIsUsable
<1> QED BY <1>1, UsableInvariant, PTL
=============================================================================
