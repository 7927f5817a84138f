------------------------ MODULE ManagedClientProofs ------------------------
(***************************************************************************)
(* The reconcile loop implements ManagedClient.tla, for every value of the *)
(* constants, under the assumptions of RegistrationProofs.  The argument:  *)
(* RegistrationInv tells what a call finds when it takes effect, six       *)
(* effects change what ManagedClient speaks of, and every other step is a  *)
(* stuttering step of it.                                                  *)
(***************************************************************************)
EXTENDS RegistrationProofs

\* A step that leaves the registered clients and the protection of the resource
\* as they are is a stuttering step.
LEMMA ManagedFrame ==
    ASSUME UNCHANGED registry,
           object'.exists = object.exists, object'.deleting = object.deleting,
           object'.finalizer = object.finalizer, object'.preserve = object.preserve
    PROVE  UNCHANGED Managed!vars
  BY DEF Managed!vars, Registered

\* The finalizer, once saved, guards the resource.
LEMMA ManagedGuard ==
    ASSUME TypeOK, RegistrationInv, pc = "addFinalizer", current,
           PutObject([object EXCEPT !.finalizer = TRUE])
    PROVE  Managed!Guard
<1>1. object \in Object /\ object.exists /\ ~object.finalizer /\ ~object.deleting
  BY DEF TypeOK, ClusterTypeOK, RegistrationInv, TransactionInv, ObjectInv
<1>2. /\ object'.exists /\ ~object'.deleting /\ object'.finalizer
      /\ object'.preserve = object.preserve
  BY <1>1 DEF PutObject, Object
<1>3. UNCHANGED Registered
  BY DEF PutObject, digdirVars, Registered
<1> QED BY <1>1, <1>2, <1>3 DEF Managed!Guard

\* A client is registered under the finalizer when there is none.
LEMMA ManagedRegister ==
    ASSUME TypeOK, RegistrationInv, pc = "upsert", registration = None,
           NEW c \in FreshClients, Register(c, ToClientRegistration(txObject))
    PROVE  Managed!Register
<1>1. object.exists /\ object.finalizer
  BY DEF RegistrationInv, ObjectInv, ProcessInv, Processing
<1>2. Registered = {}
  BY DEF RegistrationInv, ProcessInv, Processing
<1>3. c \in ClientIDs /\ txObject.type \in IntegrationTypes
  BY DEF FreshClients, TypeOK, OperatorTypeOK, Object
<1>4. Registered' = {c}
  BY <1>2, <1>3, NoneAssumption
  DEF Registered, Register, ToClientRegistration, TypeOK, DigdirTypeOK
<1>5. UNCHANGED object
  BY DEF Register, apiVars
<1> QED BY <1>1, <1>2, <1>3, <1>4, <1>5 DEF Managed!Register

\* finalize deletes the one client of a resource that is being deleted.
LEMMA ManagedDeregister ==
    ASSUME TypeOK, RegistrationInv, pc = "deleteClient", Unregister(txStatus.clientID)
    PROVE  Managed!Deregister
<1>1. object.exists /\ object.deleting
  BY DEF RegistrationInv, ObjectInv, FinalizeInv, Finalizing
<1>2. \A c \in Registered : c = txStatus.clientID
  BY DEF RegistrationInv, FinalizeInv, Finalizing
<1>3. Registered' = {}
  BY <1>2 DEF Registered, Unregister, TypeOK, DigdirTypeOK
<1>4. UNCHANGED object
  BY DEF Unregister, apiVars
<1> QED BY <1>1, <1>3, <1>4 DEF Managed!Deregister

\* The finalizer is removed when the client is gone or to be preserved.
LEMMA ManagedRelease ==
    ASSUME TypeOK, RegistrationInv, pc = "removeFinalizer", current, Vanish, UNCHANGED digdirVars
    PROVE  Managed!Release
<1>1. object.exists /\ object.deleting /\ (object.preserve \/ Registered = {})
  BY DEF RegistrationInv, ObjectInv, TransactionInv, FinalizeInv, Finalizing
<1>2. object \in Object
  BY DEF TypeOK, ClusterTypeOK
<1>3. ~object'.exists /\ object'.preserve = FALSE
  BY <1>2 DEF Vanish, Object
<1>4. UNCHANGED Registered
  BY DEF digdirVars, Registered
<1> QED BY <1>1, <1>3, <1>4 DEF Managed!Release

\* What users do to the resource is what they do in ManagedClient.
LEMMA ManagedUser ==
    ASSUME TypeOK, RegistrationInv, User
    PROVE  Managed!Next \/ UNCHANGED Managed!vars
<1>1. object \in Object
  BY DEF TypeOK, ClusterTypeOK
<1>2. UNCHANGED registry
  BY DEF User, Create, Apply, Annotate, Delete, Edit, digdirVars
<1>3. UNCHANGED Registered
  BY <1>2 DEF Registered
<1>4. ASSUME NEW op, NEW name, NEW type, Apply(op, name, type) PROVE UNCHANGED Managed!vars
  BY <1>1, <1>2, <1>4, ManagedFrame DEF Apply, Object
<1>5. CASE \/ Annotate("resync", [object EXCEPT !.resync = TRUE])
           \/ Annotate("rotate", [object EXCEPT !.rotate = TRUE])
           \/ Annotate("unannotate", WithoutAnnotations(object))
  BY <1>1, <1>2, <1>5, ManagedFrame DEF Annotate, WithoutAnnotations, Object
<1>6. CASE Annotate("preserve", [object EXCEPT !.preserve = TRUE])
  <2>1. /\ object.exists /\ object'.exists /\ object'.deleting = object.deleting
        /\ object'.finalizer = object.finalizer /\ object'.preserve = TRUE
    BY <1>1, <1>6 DEF Annotate, Object
  <2> QED BY <1>3, <2>1 DEF Managed!Next, Managed!Preserve
<1>7. CASE Delete
  <2>1. CASE object.finalizer
    <3>1. /\ object.exists /\ ~object.deleting /\ object'.exists /\ object'.deleting
          /\ object'.preserve = object.preserve
      <4>1. object' = [object EXCEPT !.deleting = TRUE, !.generation = @ + 1]
        BY <1>7, <2>1 DEF Delete
      <4> QED BY <1>1, <1>7, <4>1 DEF Delete, Object
    <3> QED BY <1>3, <2>1, <3>1 DEF Managed!Next, Managed!Delete
  <2>2. CASE ~object.finalizer
    <3>1. object.exists /\ ~object.deleting /\ ~object'.exists /\ object'.preserve = FALSE
      BY <1>1, <1>7, <2>2 DEF Delete, Vanish, Object
    <3> QED BY <1>3, <2>2, <3>1 DEF Managed!Next, Managed!Delete
  <2> QED BY <2>1, <2>2
<1>8. CASE Create
  <2>1. ~object.exists /\ ~object.deleting /\ ~object.finalizer
    BY <1>8 DEF Create, RegistrationInv, ObjectInv
  <2>2. /\ object'.exists /\ object'.deleting = object.deleting
        /\ object'.finalizer = object.finalizer /\ object'.preserve = object.preserve
    BY <1>1, <1>8 DEF Create, Object
  <2> QED BY <1>3, <2>1, <2>2 DEF Managed!Next, Managed!Create
<1> QED BY <1>4, <1>5, <1>6, <1>7, <1>8 DEF User

\* A call that takes effect, whether or not its caller gets to know.
LEMMA ManagedEffect ==
    ASSUME TypeOK, RegistrationInv, ApiEffect \/ DigdirEffect
    PROVE  Managed!Next \/ UNCHANGED Managed!vars
<1>1. CASE UNCHANGED <<object, registry>>
  BY <1>1, ManagedFrame
<1>2. CASE object' = WithoutAnnotations(object) /\ UNCHANGED registry
  <2>1. object \in Object
    BY DEF TypeOK, ClusterTypeOK
  <2> QED BY <1>2, <2>1, ManagedFrame DEF WithoutAnnotations, Object
<1>3. Managed!Guard \/ Managed!Register \/ Managed!Deregister \/ Managed!Release
        => Managed!Next
  BY DEF Managed!Next
<1>4. CASE ApiEffect
  BY <1>1, <1>2, <1>3, <1>4, ManagedGuard, ManagedRelease
  DEF ApiEffect, PutObject, PutStatus, CreateOrUpdate, apiVars, digdirVars
<1>5. CASE DigdirEffect
  BY <1>1, <1>3, <1>5, ManagedRegister, ManagedDeregister
  DEF DigdirEffect, Update, RegisterKeys, apiVars
<1> QED BY <1>4, <1>5

\* Every step of the reconcile loop and its environment.
LEMMA ManagedStep ==
    ASSUME TypeOK, RegistrationInv, Next, Undisturbed
    PROVE  Managed!Next \/ UNCHANGED Managed!vars
<1>1. CASE UNCHANGED <<object, registry>>
  BY <1>1, ManagedFrame
<1>2. CASE Operator
  <2>1. ApiEffect \/ DigdirEffect \/ UNCHANGED <<object, registry>>
    BY <1>2
    DEF Operator, ReconcileNothing, ReconcileDeleted, ReconcileUnfinalized, ReconcileUpToDate,
        ReconcileOutdated, AddFinalizer, MarkProcessing, GetRegistration, ProcessScopes,
        filterConsumedScopes, UpdateClient, CreateClient, GetManaged, ensureJwkValidExternalState,
        registerJwk, WriteSecret, DeleteUnused, FinishCleanup, ClearAnnotations, Synchronize,
        observeError, Exists, DeleteClient, FinalizeScopes, RemoveFinalizer, Refused, PutStatus,
        CreateOrUpdate, ApiEffect, DigdirEffect, apiVars, digdirVars
  <2> QED BY <1>1, <2>1, ManagedEffect
<1>3. CASE Environment
  <2>1. LostReply \/ Repeat \/ User \/ UNCHANGED <<object, registry>>
    BY <1>3
    DEF Environment, Undisturbed, RegistrationInv, Fail, Late, Arrive, Crash, PodStart, PodStop,
        Condemn, CollectGarbage, ClientDrift, Fault, KeyDrift, SecretDrift, TimerFires, Age, apiVars,
        digdirVars
  <2> QED BY <1>1, <2>1, ManagedEffect, ManagedUser DEF LostReply, Repeat
<1> QED BY <1>2, <1>3 DEF Next

\* Whatever fails, loses its reply, is repeated or cut off by a crash: seen from
\* outside, one client is registered under the finalizer and deleted before the
\* resource goes.
THEOREM RefinesManagedClient ==
    ASSUME Undisturbed
    PROVE  Spec => ImplementsManagedClient
<1>1. Init => Managed!Init
  BY DEF Init, Managed!Init, Registered
<1>2. TypeOK /\ RegistrationInv /\ [Next]_vars => [Managed!Next]_(Managed!vars)
  <2>1. ASSUME UNCHANGED vars PROVE UNCHANGED Managed!vars
    BY <2>1, ManagedFrame DEF vars, apiVars, digdirVars
  <2> QED BY <2>1, ManagedStep
<1> QED
  BY <1>1, <1>2, TypeCorrect, RegistrationInvariant, PTL
  DEF Spec, ImplementsManagedClient, Managed!Spec
=============================================================================
