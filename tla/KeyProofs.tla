----------------------------- MODULE KeyProofs -----------------------------
(***************************************************************************)
(* The keys of the managed secrets, for every value of the constants: a    *)
(* secret is only ever given a key that Digdir knows.  Assumed: nobody     *)
(* else deletes clients or keys in Digdir, and no request is executed      *)
(* after its sender has given up.                                          *)
(***************************************************************************)
EXTENDS ReconcilerProofs

\* Nothing is on its way that its sender has given up.
OnTime == wire = None

KeysUndisturbed == Faults \cap {"clientDrift", "keyDrift", "late"} = {}

\* No request is late.
LEMMA NothingLate == ASSUME KeysUndisturbed PROVE Spec => []OnTime
<1>1. Init => OnTime
  BY DEF Init, OnTime
<1>2. OnTime /\ [Next]_vars => OnTime'
  <2> SUFFICES ASSUME OnTime, [Next]_vars PROVE OnTime'
    OBVIOUS
  <2> USE DEF OnTime
  <2>1. CASE Operator
    BY <2>1
    DEF Operator, ReconcileNothing, ReconcileDeleted, ReconcileUnfinalized, ReconcileUpToDate,
        ReconcileOutdated, AddFinalizer, MarkProcessing, GetRegistration, ProcessScopes,
        filterConsumedScopes, UpdateClient, CreateClient, GetManaged, ensureJwkValidExternalState,
        registerJwk, WriteSecret, DeleteUnused, FinishCleanup, ClearAnnotations, Synchronize,
        observeError, Exists, DeleteClient, FinalizeScopes, RemoveFinalizer, Refused, PutObject,
        PutStatus, CreateOrUpdate, digdirVars
  <2>2. CASE Environment
    BY <2>2
    DEF Environment, Fail, LostReply, Repeat, Late, Fault, KeysUndisturbed, Crash, User, Create,
        Apply, Annotate, Delete, Edit, PodStart, PodStop, Condemn, CollectGarbage, Arrive, ClientDrift,
        KeyDrift, SecretDrift, TimerFires, Age, digdirVars
  <2> QED BY <2>1, <2>2 DEF Next, vars, digdirVars
<1> QED BY <1>1, <1>2, PTL DEF Spec

\* A step that does not lead to the write of the secret preserves KeyInv.
LEMMA KeyElsewhere == ASSUME pc' # "writeSecret" PROVE KeyInv'
  BY DEF KeyInv

\* Each step of the operator preserves KeyInv,
LEMMA KeyOperator == ASSUME TypeOK, KeyInv, Operator PROVE KeyInv'
<1>1. CASE ensureJwkValidExternalState
  BY <1>1 DEF ensureJwkValidExternalState, KeyInv, digdirVars, txVars
<1>2. CASE registerJwk
  <2>1. registration \in ClientIDs
    BY <1>2 DEF registerJwk, TypeOK, OperatorTypeOK
  <2> QED
    BY <1>2, <2>1 DEF registerJwk, RegisterKeys, MergeJwks, KeyInv, TypeOK, DigdirTypeOK, txVars
<1>3. CASE ReconcileNothing \/ ReconcileUpToDate \/ Synchronize \/ observeError \/ RemoveFinalizer
  BY <1>3, KeyElsewhere
  DEF ReconcileNothing, ReconcileUpToDate, Synchronize, observeError, RemoveFinalizer, Return
<1>4. CASE Refused
  BY <1>4, KeyElsewhere DEF Refused, Abort, Return
<1>5. CASE Exists \/ DeleteClient \/ FinalizeScopes
  BY <1>5, KeyElsewhere DEF Exists, DeleteClient, FinalizeScopes, AfterExternalDeletion
<1>6. CASE AddFinalizer
  BY <1>6, KeyElsewhere DEF AddFinalizer, Return
<1> QED
  BY <1>1, <1>2, <1>3, <1>4, <1>5, <1>6, KeyElsewhere
  DEF Operator, ReconcileDeleted, ReconcileUnfinalized, ReconcileOutdated, MarkProcessing,
      GetRegistration, ProcessScopes, filterConsumedScopes, UpdateClient, CreateClient, GetManaged,
      WriteSecret, DeleteUnused, FinishCleanup, ClearAnnotations

\* and so does everybody else, if nobody deletes clients or keys.
LEMMA KeyEnvironment ==
    ASSUME TypeOK, KeyInv, OnTime, Environment, KeysUndisturbed
    PROVE  KeyInv'
<1>1. CASE Fail \/ LostReply
  BY <1>1, KeyElsewhere DEF Fail, LostReply, Abort, Return
<1>2. CASE Crash
  BY <1>2, KeyElsewhere DEF Crash, Return
<1>3. ~ClientDrift /\ ~KeyDrift /\ ~Late /\ ~Arrive
  BY DEF ClientDrift, KeyDrift, Late, Arrive, Fault, KeysUndisturbed, OnTime
<1>4. CASE User
  BY <1>4 DEF User, Create, Apply, Annotate, Delete, Edit, KeyInv, digdirVars
<1>5. CASE Repeat
  <2>1. pc' # "writeSecret"
    BY <1>5 DEF Repeat, DigdirEffect
  <2> QED BY <2>1, KeyElsewhere
<1> QED
  BY <1>1, <1>2, <1>3, <1>4, <1>5
  DEF Environment, PodStart, PodStop, Condemn, CollectGarbage, SecretDrift, TimerFires, Age, KeyInv,
      digdirVars, txVars

\* Between GetKeys or RegisterKeys and the write of the secret, the key to be
\* written is registered for the client.
THEOREM KeyInvariant ==
    ASSUME KeysUndisturbed
    PROVE  Spec => []KeyInv
<1>1. Init => KeyInv
  BY DEF Init, KeyInv
<1>2. TypeOK /\ KeyInv /\ OnTime /\ [Next]_vars => KeyInv'
  <2>1. KeyInv /\ UNCHANGED vars => KeyInv'
    BY DEF KeyInv, vars, digdirVars, txVars
  <2> QED BY <2>1, KeyOperator, KeyEnvironment DEF Next
<1> QED BY <1>1, <1>2, TypeCorrect, NothingLate, PTL DEF Spec

\* CreateOrUpdate never hands an application a key that Digdir does not know.
THEOREM KeysPublishedRegistered ==
    ASSUME KeysUndisturbed
    PROVE  Spec => PublishedKeysRegistered
<1> DEFINE Published ==
      \A s \in SecretNames :
        secrets'[s] \notin {None, secrets[s]} /\ secrets'[s].owned
          => secrets'[s].key \in jwks[secrets'[s].client]
<1>1. TypeOK /\ KeyInv /\ [Next]_vars => [Published]_vars
  <2> SUFFICES ASSUME TypeOK, KeyInv, Next, NEW s \in SecretNames,
                      secrets'[s] \notin {None, secrets[s]}, secrets'[s].owned
               PROVE  secrets'[s].key \in jwks[secrets'[s].client]
    OBVIOUS
  <2>1. secrets \in [SecretNames -> Secret \cup {None}]
    BY DEF TypeOK, ClusterTypeOK
  <2>2. CASE pc = "writeSecret" /\ CreateOrUpdate(txObject.secretName)
    <3>1. registration \in ClientIDs /\ registration = txStatus.clientID
      BY <2>2, NoneAssumption DEF TypeOK, OperatorTypeOK
    <3>2. secrets'[s] = [key |-> jwk, client |-> txStatus.clientID, owned |-> TRUE]
      BY <2>1, <2>2 DEF CreateOrUpdate
    <3>3. jwk \in jwks[registration]
      BY <2>2 DEF KeyInv
    <3> QED BY <3>1, <3>2, <3>3
  <2>3. \A t : ~RemoveSecret(t)
    BY <2>1 DEF RemoveSecret
  <2>4. ~Vanish
    <3> SUFFICES ASSUME Vanish PROVE FALSE
      OBVIOUS
    <3>1. secrets'[s] = IF secrets[s] = None THEN None ELSE [secrets[s] EXCEPT !.owned = FALSE]
      BY DEF Vanish
    <3>2. secrets[s] # None /\ secrets[s] \in Secret
      BY <2>1, <3>1
    <3> QED BY <3>1, <3>2 DEF Secret
  <2>5. ~UNCHANGED secrets
    OBVIOUS
  <2>6. CASE Operator
    BY <2>2, <2>3, <2>4, <2>5, <2>6
    DEF Operator, ReconcileNothing, ReconcileDeleted, ReconcileUnfinalized, ReconcileUpToDate,
        ReconcileOutdated, AddFinalizer, MarkProcessing, GetRegistration, ProcessScopes,
        filterConsumedScopes, UpdateClient, CreateClient, GetManaged, ensureJwkValidExternalState, registerJwk,
        WriteSecret, DeleteUnused, FinishCleanup, ClearAnnotations, Synchronize, observeError,
        Exists, DeleteClient, FinalizeScopes, RemoveFinalizer, Refused, PutObject, PutStatus,
        Register, Update, RegisterKeys, Unregister, secretVars
  <2>7. CASE LostReply
    BY <2>2, <2>3, <2>4, <2>5, <2>7
    DEF LostReply, ApiEffect, DigdirEffect, PutObject, PutStatus, Register, Update, RegisterKeys,
        Unregister, secretVars
  <2>8. CASE Environment
    BY <2>3, <2>4, <2>5, <2>7, <2>8
    DEF Environment, Fail, Repeat, DigdirEffect, Late, Arrive, Crash, User, Create, Apply,
        Annotate, Delete, PodStart, PodStop, Condemn, CollectGarbage, ClientDrift, KeyDrift, SecretDrift,
        TimerFires, Age, Register, Update, RegisterKeys, Unregister, secretVars
  <2> QED BY <2>6, <2>8 DEF Next
<1> QED BY <1>1, TypeCorrect, KeyInvariant, PTL DEF Spec, PublishedKeysRegistered

-----------------------------------------------------------------------------
(* The keys in use. *)

\* Secrets may disappear or change owner, but get no other key.
SecretsShrink == \A s \in Existing' : s \in Existing /\ secrets'[s].key = secrets[s].key

\* Nobody but WriteSecret puts a key into a secret.
LEMMA ShrinkingSecrets ==
    ASSUME TypeOK, Vanish \/ UNCHANGED secrets \/ \E t \in SecretNames : RemoveSecret(t)
    PROVE  SecretsShrink
<1>1. secrets \in [SecretNames -> Secret \cup {None}]
  BY DEF TypeOK, ClusterTypeOK
<1>2. CASE Vanish
  <2>1. ASSUME NEW s \in Existing' PROVE s \in Existing /\ secrets'[s].key = secrets[s].key
    <3>1. secrets'[s] = IF secrets[s] = None THEN None ELSE [secrets[s] EXCEPT !.owned = FALSE]
      BY <1>2 DEF Vanish, Existing
    <3>2. secrets[s] # None /\ secrets[s] \in Secret
      BY <1>1, <3>1 DEF Existing
    <3> QED BY <3>1, <3>2 DEF Secret, Existing
  <2> QED BY <2>1 DEF SecretsShrink
<1>3. CASE UNCHANGED secrets
  BY <1>3 DEF SecretsShrink, Existing
<1>4. ASSUME NEW t \in SecretNames, RemoveSecret(t) PROVE SecretsShrink
  BY <1>1, <1>4 DEF RemoveSecret, SecretsShrink, Existing
<1> QED BY <1>2, <1>3, <1>4

\* Every step preserves ListedInv: between the list and the replacement of the
\* keys secrets disappear, but get no other keys.
LEMMA ListedStep == ASSUME TypeOK, ListedInv, [Next]_vars PROVE ListedInv'
<1>1. SUFFICES ASSUME pc' \in {"getKeys", "registerKeys"}
               PROVE  \A s \in Existing' \ managed'.unused : secrets'[s].key \in managed'.used
  BY DEF ListedInv
<1>2. CASE GetManaged
  BY <1>2 DEF GetManaged, ManagedSecrets, Existing, secretVars
<1>3. CASE pc \in {"getKeys", "registerKeys"} /\ SecretsShrink /\ UNCHANGED managed
  BY <1>3 DEF ListedInv, SecretsShrink
<1>4. CASE Operator
  <2>1. GetManaged \/ ensureJwkValidExternalState
    BY <1>1, <1>4
    DEF Operator, ReconcileNothing, ReconcileDeleted, ReconcileUnfinalized, ReconcileUpToDate,
        ReconcileOutdated, AddFinalizer, MarkProcessing, GetRegistration, ProcessScopes,
        filterConsumedScopes, UpdateClient, CreateClient, registerJwk, WriteSecret, DeleteUnused,
        FinishCleanup, ClearAnnotations, Synchronize, observeError, Exists, DeleteClient,
        FinalizeScopes, RemoveFinalizer, Refused, Abort, Return, AfterExternalDeletion
  <2> QED
    BY <1>2, <1>3, <2>1, ShrinkingSecrets DEF ensureJwkValidExternalState, secretVars, txVars
<1>5. CASE Environment
  <2>1. ~Fail /\ ~LostReply /\ ~Late /\ ~Crash
    BY <1>1 DEF Fail, LostReply, Late, Crash, Abort, Return
  <2>2. UNCHANGED <<pc, managed>>
    BY <1>5, <2>1
    DEF Environment, Repeat, User, Create, Apply, Annotate, Delete, Edit, PodStart, PodStop,
        Condemn, CollectGarbage, Arrive, ClientDrift, KeyDrift, SecretDrift, TimerFires, Age, txVars
  <2>3. Vanish \/ UNCHANGED secrets \/ \E t \in SecretNames : RemoveSecret(t)
    BY <1>5, <2>1
    DEF Environment, Repeat, DigdirEffect, User, Create, Apply, Annotate, Delete, PodStart,
        PodStop, Condemn, CollectGarbage, Arrive, ClientDrift, KeyDrift, SecretDrift, TimerFires, Age,
        Register, Update, RegisterKeys, Unregister, secretVars, Existing
  <2> QED BY <1>1, <1>3, <2>2, <2>3, ShrinkingSecrets
<1>6. CASE UNCHANGED vars
  BY <1>1, <1>3, <1>6, ShrinkingSecrets DEF vars, secretVars, txVars
<1> QED BY <1>4, <1>5, <1>6 DEF Next

\* From the list of the secrets to the replacement of the keys, each secret that
\* is left was listed as unused or its key as used.
THEOREM ListedInvariant == Spec => []ListedInv
<1>1. Init => ListedInv
  BY DEF Init, ListedInv
<1>2. TypeOK /\ ListedInv /\ [Next]_vars => ListedInv'
  BY ListedStep
<1> QED BY <1>1, <1>2, TypeCorrect, PTL DEF Spec

\* RegisterKeys never drops the key of a secret that was in use when the secrets
\* were listed, whatever pods start and stop and whichever secrets go meanwhile.
THEOREM KeysInUseKept ==
    ASSUME KeysUndisturbed
    PROVE  Spec => UsedKeysKept
<1> DEFINE Kept ==
      \A s \in (Existing \cap Referenced) \ managed.unused :
        pc = "registerKeys" /\ secrets[s].key \in jwks[registration]
          => secrets[s].key \in jwks'[registration]
<1>1. TypeOK /\ ListedInv /\ OnTime /\ [Next]_vars => [Kept]_vars
  <2> SUFFICES ASSUME TypeOK, ListedInv, OnTime, Next,
                      NEW s \in (Existing \cap Referenced) \ managed.unused,
                      pc = "registerKeys", secrets[s].key \in jwks[registration]
               PROVE  secrets[s].key \in jwks'[registration]
    OBVIOUS
  <2>1. secrets[s].key \in managed.used
    BY DEF ListedInv
  <2>2. CASE RegisterKeys(registration, MergeJwks(jwk, managed.used))
    <3>1. registration \in ClientIDs /\ jwks \in [ClientIDs -> SUBSET Keys]
      BY DEF TypeOK, OperatorTypeOK, DigdirTypeOK
    <3> QED BY <2>1, <2>2, <3>1 DEF RegisterKeys, MergeJwks
  <2>3. CASE UNCHANGED jwks
    BY <2>3
  <2>4. CASE Operator
    BY <2>2, <2>3, <2>4
    DEF Operator, ReconcileNothing, ReconcileDeleted, ReconcileUnfinalized, ReconcileUpToDate,
        ReconcileOutdated, AddFinalizer, MarkProcessing, GetRegistration, ProcessScopes,
        filterConsumedScopes, UpdateClient, CreateClient, GetManaged, ensureJwkValidExternalState,
        registerJwk, WriteSecret, DeleteUnused, FinishCleanup, ClearAnnotations, Synchronize,
        observeError, Exists, DeleteClient, FinalizeScopes, RemoveFinalizer, Refused, digdirVars
  <2>5. CASE Environment
    <3>1. ~ClientDrift /\ ~KeyDrift /\ ~Late /\ ~Arrive
      BY DEF ClientDrift, KeyDrift, Late, Arrive, Fault, KeysUndisturbed, OnTime
    <3>2. CASE LostReply \/ Repeat
      BY <2>2, <2>3, <3>2
      DEF LostReply, Repeat, ApiEffect, DigdirEffect, PutObject, PutStatus, CreateOrUpdate,
          digdirVars
    <3> QED
      BY <2>3, <2>5, <3>1, <3>2
      DEF Environment, Fail, Crash, User, Create, Apply, Annotate, Delete, Edit, PodStart,
          PodStop, Condemn, CollectGarbage, SecretDrift, TimerFires, Age, digdirVars
  <2> QED BY <2>4, <2>5 DEF Next
<1> QED BY <1>1, TypeCorrect, ListedInvariant, NothingLate, PTL DEF Spec, UsedKeysKept
=============================================================================
