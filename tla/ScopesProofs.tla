---------------------------- MODULE ScopesProofs ----------------------------
(***************************************************************************)
(* The exposed scopes and their consumers, for every value of the          *)
(* constants: what Process and Finalize leave in Digdir is what the spec   *)
(* says, although calls fail, replies get lost and the operator crashes    *)
(* between any two of them.                                                *)
(***************************************************************************)
EXTENDS Scopes, TLAPS

USE ScopesAssumption

\* What FilterConsumers finds for an organization: it is added if it is in the
\* spec and has no access or has lost it, and removed if it is not in the spec
\* but has access or asks for it.
LEMMA FilterSpec ==
    ASSUME NEW consumers \in SUBSET Orgs, NEW states \in [Orgs -> States], NEW c
    PROVE  c \in FilterConsumers(consumers, states) <=>
             /\ c \in Consumer
             /\ \/ ~c.swapped /\ c.add /\ c.org \in consumers /\ states[c.org] = "absent"
                \/ c.swapped /\ c.add /\ c.org \in consumers /\ states[c.org] = "DENIED"
                \/ /\ c.swapped /\ ~c.add /\ c.org \notin consumers
                   /\ states[c.org] \in {"REQUESTED", "APPROVED"}
<1> DEFINE actual == {o \in Orgs : states[o] # "absent"}
           Missing(o) == addOrUpdate(o, o \in actual, FALSE, "DENIED")
           Found(o) == addOrUpdate(o, o \in consumers, TRUE, states[o])
<1>1. FilterConsumers(consumers, states) =
        (UNION {Missing(o) : o \in consumers}) \cup (UNION {Found(o) : o \in actual})
  BY DEF FilterConsumers
<1>2. ASSUME NEW o \in consumers
      PROVE  c \in Missing(o) <=>
               c \in Consumer /\ c.org = o /\ ~c.swapped /\ c.add /\ states[o] = "absent"
  BY DEF addOrUpdate, Consumer
<1>3. ASSUME NEW o \in actual
      PROVE  c \in Found(o) <=>
               /\ c \in Consumer /\ c.org = o /\ c.swapped
               /\ \/ c.add /\ o \in consumers /\ states[o] = "DENIED"
                  \/ ~c.add /\ o \notin consumers /\ states[o] \in {"REQUESTED", "APPROVED"}
  BY DEF addOrUpdate, Consumer, States
<1>4. c \in Consumer => c.org \in Orgs
  BY DEF Consumer
<1> HIDE DEF Missing, Found, actual
<1> DEFINE first == UNION {Missing(o) : o \in consumers}
           second == UNION {Found(o) : o \in actual}
<1>5. c \in first <=> \E o \in consumers : c \in Missing(o)
  OBVIOUS
<1>6. c \in second <=> \E o \in actual : c \in Found(o)
  OBVIOUS
<1>7. c \in first <=>
        /\ c \in Consumer
        /\ ~c.swapped /\ c.add /\ c.org \in consumers /\ states[c.org] = "absent"
  BY <1>2, <1>5
<1>8. c \in second <=>
        /\ c \in Consumer
        /\ \/ c.swapped /\ c.add /\ c.org \in consumers /\ states[c.org] = "DENIED"
           \/ /\ c.swapped /\ ~c.add /\ c.org \notin consumers
              /\ states[c.org] \in {"REQUESTED", "APPROVED"}
  BY <1>3, <1>4, <1>6 DEF actual
<1>9. FilterConsumers(consumers, states) = first \cup second
  BY <1>1
<1> HIDE DEF first, second
<1> QED BY <1>7, <1>8, <1>9

-----------------------------------------------------------------------------
(* Types, and how a run keeps its books. *)

\* What holds at every point of a run, whatever it has done to Digdir.
Books == TypeOK /\ LoopInv /\ CurrentInv

\* The end of a run leaves types and books in order, if the step does not
\* disturb Digdir and the resource.
LEMMA TypeEnd ==
    ASSUME TypeOK, End,
           phase' \in {"present", "deleting", "gone"}, UNCHANGED exposes,
           synced' \in BOOLEAN, invalid' \in BOOLEAN, phase' = "deleting" => ~synced',
           scopes' \in [Subscopes -> {"active", "inactive", "unregistered"}],
           acl' \in [Subscopes -> [Orgs -> States]],
           quiet' \in BOOLEAN, edits' \in 0..MaxEdits, faults' \in 0..MaxFaults
    PROVE  Books'
  BY DEF Books, TypeOK, LoopInv, CurrentInv, End, EmptyLoop

\* An aborted run writes at most the conditions.
LEMMA TypeAbort ==
    ASSUME TypeOK, LoopInv, Abort
    PROVE  /\ phase' \in {"present", "deleting", "gone"} /\ UNCHANGED exposes
           /\ synced' \in BOOLEAN /\ invalid' \in BOOLEAN
           /\ phase' = "deleting" => ~synced'
           /\ End
  BY DEF TypeOK, LoopInv, Abort

\* What a call does to a scope or to its consumers.
LEMMA TypeDigdir ==
    ASSUME TypeOK
    PROVE  /\ \A s \in Subscopes :
                RegisterScope(s) \/ UpdateScope(s) \/ DeleteScope(s) =>
                  /\ scopes' \in [Subscopes -> {"active", "inactive", "unregistered"}]
                  /\ UNCHANGED acl
           /\ \A o \in Orgs :
                AddToScopeACL(o) \/ DeactivateConsumer(o) =>
                  /\ acl' \in [Subscopes -> [Orgs -> States]]
                  /\ UNCHANGED scopes
  BY DEF TypeOK, RegisterScope, UpdateScope, DeleteScope, ToScopeRegistration, AddToScopeACL,
         DeactivateConsumer, States

\* Each step of the operator preserves types and books,
LEMMA TypeOperator == ASSUME Books, Operator PROVE Books'
<1> USE DEF Books, resourceVars, digdirVars, loopVars, txVars, bounds
<1>1. CASE StartProcess \/ StartFinalize
  <2>1. PICK call \in {"next", "getScopes", "getFinalized"} :
          /\ Begin(call)
          /\ ~synced
          /\ phase = (IF call = "getFinalized" THEN "deleting" ELSE "present")
    BY <1>1 DEF StartProcess, StartFinalize, LoopInv
  <2>2. toCreate = {} /\ toUpdate = {} /\ scope = None /\ changes = {}
    BY <2>1 DEF Begin, LoopInv
  <2>3. TypeOK'
    BY <2>1, <2>2 DEF Begin, TypeOK
  <2> QED BY <2>1, <2>2, <2>3 DEF Begin, LoopInv, CurrentInv
<1>2. CASE Generate
  BY <1>2 DEF Generate, ToCreate, ToUpdate, Exposed, TypeOK, LoopInv, CurrentInv
<1>3. CASE createScopes
  BY <1>3, TypeDigdir DEF createScopes, TypeOK, LoopInv, CurrentInv
<1>4. CASE updateScopes
  BY <1>4, TypeDigdir DEF updateScopes, TypeOK, LoopInv, CurrentInv
<1>5. CASE deactivate
  BY <1>5, TypeDigdir DEF deactivate, TypeOK, LoopInv, CurrentInv
<1>6. CASE GetScopeACL
  <2>1. FilterConsumers(tx[scope].consumers, acl[scope]) \subseteq Consumer
    BY <1>6, FilterSpec DEF GetScopeACL, TypeOK, ExposedScope
  <2> QED BY <1>6, <2>1 DEF GetScopeACL, TypeOK, LoopInv, CurrentInv
<1>7. CASE addConsumer \/ removeConsumer
  <2>1. \A c \in Pending : c \in changes /\ c.org \in Orgs
    BY DEF Pending, TypeOK, Consumer
  <2> QED BY <1>7, <2>1, TypeDigdir DEF addConsumer, removeConsumer, TypeOK, LoopInv, CurrentInv
<1>8. CASE skipConsumer
  BY <1>8 DEF skipConsumer, Pending, TypeOK, LoopInv, CurrentInv
<1>9. CASE setCondition
  BY <1>9 DEF setCondition, TypeOK, LoopInv, CurrentInv
<1>10. CASE Synchronize \/ RemoveFinalizer
  BY <1>10, TypeEnd DEF Synchronize, RemoveFinalizer, TypeOK, LoopInv, CurrentInv
<1>11. CASE GenerateFinalize
  BY <1>11 DEF GenerateFinalize, ToUpdate, Exposed, TypeOK, LoopInv, CurrentInv
<1>12. CASE Finalize
  BY <1>12, TypeDigdir DEF Finalize, TypeOK, LoopInv, CurrentInv
<1>13. CASE Conflict
  BY <1>13, TypeAbort, TypeEnd DEF Conflict, TypeOK
<1> QED
  BY <1>1, <1>2, <1>3, <1>4, <1>5, <1>6, <1>7, <1>8, <1>9, <1>10, <1>11, <1>12, <1>13
  DEF Operator

\* and so does everybody else.
LEMMA TypeEnvironment == ASSUME Books, Environment PROVE Books'
<1> USE DEF Books, resourceVars, digdirVars, loopVars, txVars, bounds
<1>1. \A kind : Fault(kind) => quiet' \in BOOLEAN /\ edits' \in 0..MaxEdits /\ faults' \in 0..MaxFaults
  BY DEF Fault, TypeOK
<1>2. CASE Fail
  BY <1>1, <1>2, TypeAbort, TypeEnd DEF Fail, TypeOK
<1>3. CASE LostReply
  <2>1. /\ scopes' \in [Subscopes -> {"active", "inactive", "unregistered"}]
        /\ acl' \in [Subscopes -> [Orgs -> States]]
    <3>1. \A c \in Pending : c.org \in Orgs
      BY DEF Pending, TypeOK, Consumer
    <3> QED BY <1>3, <3>1, TypeDigdir DEF LostReply, TypeOK
  <2> QED BY <1>1, <1>3, <2>1, TypeAbort, TypeEnd DEF LostReply
<1>4. CASE Crash
  BY <1>1, <1>4, TypeEnd DEF Crash, TypeOK, LoopInv
<1>5. CASE Expose \/ Delete
  <2>1. exposes' \in [Subscopes -> ExposedScope \cup {None}]
    BY <1>5 DEF Expose, Delete, TypeOK
  <2>2. phase' \in {"present", "deleting"} /\ edits' \in 0..MaxEdits
    BY <1>5 DEF Expose, Delete, Edit, TypeOK
  <2>3. Edit("expose") \/ Edit("delete")
    BY <1>5 DEF Expose, Delete
  <2>4. TypeOK'
    BY <2>1, <2>2, <2>3 DEF Edit, TypeOK
  <2> QED BY <1>5, <2>4 DEF Expose, Delete, Edit, LoopInv, CurrentInv
<1>6. CASE Request
  BY <1>1, <1>6 DEF Request, TypeOK, LoopInv, CurrentInv, States
<1>7. CASE Other
  <2>1. scopes' \in [Subscopes -> {"active", "inactive", "unregistered"}]
    BY <1>7 DEF Other, TypeOK
  <2>2. acl' \in [Subscopes -> [Orgs -> States]]
    BY <1>7 DEF Other, TypeOK, States
  <2>3. TypeOK'
    BY <1>1, <1>7, <2>1, <2>2 DEF Other, TypeOK
  <2> QED BY <1>7, <2>3 DEF Other, LoopInv, CurrentInv
<1>8. CASE Outdate
  BY <1>8 DEF Outdate, TypeOK, LoopInv, CurrentInv
<1> QED BY <1>2, <1>3, <1>4, <1>5, <1>6, <1>7, <1>8 DEF Environment

\* Types and books are always in order.
LEMMA BooksKept == Spec => []Books
<1>1. Init => Books
  <2> SUFFICES ASSUME Init PROVE Books
    OBVIOUS
  <2>1. scopes \in [Subscopes -> {"active", "inactive", "unregistered"}]
    BY DEF Init
  <2>2. acl \in [Subscopes -> [Orgs -> States]]
    BY DEF Init, States
  <2>3. tx \in [Subscopes -> ExposedScope \cup {None}] /\ edits \in 0..MaxEdits /\ faults \in 0..MaxFaults
    BY DEF Init
  <2>4. TypeOK
    BY <2>1, <2>2, <2>3 DEF Init, TypeOK
  <2> QED BY <2>4 DEF Init, Books, LoopInv, CurrentInv
<1>2. Books /\ [Next]_vars => Books'
  <2>1. CASE UNCHANGED vars
    BY <2>1
    DEF vars, resourceVars, digdirVars, loopVars, txVars, bounds, Books, TypeOK, LoopInv, CurrentInv
  <2> QED BY <2>1, TypeOperator, TypeEnvironment DEF Next
<1> QED BY <1>1, <1>2, PTL DEF Spec

\* The variables of the exposed scopes, and of a run over them, always have
\* their types: what a run has still to do is about scopes that it exposes.
THEOREM ScopesTypes == Spec => []TypeOK
<1>1. Books => TypeOK
  BY DEF Books
<1> QED BY <1>1, BooksKept, PTL

-----------------------------------------------------------------------------
(* What a step does to Digdir. *)

\* A change of one entry of one ACL.
LEMMA AclExcept ==
    ASSUME TypeOK, NEW x \in Subscopes, NEW p \in Orgs, NEW v,
           acl' = [acl EXCEPT ![x][p] = v],
           NEW s \in Subscopes, NEW o \in Orgs
    PROVE  acl'[s][o] = IF s = x /\ o = p THEN v ELSE acl[s][o]
  BY DEF TypeOK

\* Of the consumers, the operator approves only those of the spec that it read
\* and denies only others; somebody who asks for access had none before.
LEMMA AclStep ==
    ASSUME Books, ChangesInv, [Next]_vars, quiet',
           NEW s \in Subscopes, NEW o \in Orgs, acl'[s][o] # acl[s][o]
    PROVE  \/ acl'[s][o] = "APPROVED" /\ s = scope /\ o \in tx[s].consumers
           \/ acl'[s][o] = "DENIED" /\ s = scope /\ o \notin tx[s].consumers
           \/ acl'[s][o] = "REQUESTED" /\ acl[s][o] = "absent"
<1>1. ASSUME NEW c \in Pending, pc = "changeACL"
      PROVE  c \in changes /\ c.org \in Orgs /\ scope \in Subscopes
  BY <1>1 DEF Pending, Books, TypeOK, Consumer
<1>2. ASSUME NEW c \in Pending, pc = "changeACL", c.add, AddToScopeACL(c.org)
      PROVE  acl'[s][o] = "APPROVED" /\ s = scope /\ o \in tx[s].consumers
  BY <1>1, <1>2, AclExcept DEF AddToScopeACL, ChangesInv, Books
<1>3. ASSUME NEW c \in Pending, pc = "changeACL", ~c.add, DeactivateConsumer(c.org)
      PROVE  acl'[s][o] = "DENIED" /\ s = scope /\ o \notin tx[s].consumers
  BY <1>1, <1>3, AclExcept DEF DeactivateConsumer, ChangesInv, Books
<1>4. CASE addConsumer
  BY <1>2, <1>4 DEF addConsumer
<1>5. CASE removeConsumer
  BY <1>3, <1>5 DEF removeConsumer
<1>6. CASE LostReply
  BY <1>2, <1>3, <1>6 DEF LostReply, RegisterScope, UpdateScope, DeleteScope
<1>7. CASE Request
  <2>1. PICK x \in Subscopes, p \in Orgs \ Unknown :
          acl[x][p] = "absent" /\ acl' = [acl EXCEPT ![x][p] = "REQUESTED"]
    BY <1>7 DEF Request
  <2> QED BY <2>1, AclExcept DEF Books
<1>8. CASE Other
  BY <1>8 DEF Other, Fault
<1> QED
  BY <1>4, <1>5, <1>6, <1>7, <1>8
  DEF Next, Operator, Environment, StartProcess, StartFinalize, Begin, Generate, createScopes,
      updateScopes, deactivate, GetScopeACL, skipConsumer, setCondition, Synchronize,
      GenerateFinalize, Finalize, RemoveFinalizer, Conflict, RegisterScope, UpdateScope,
      DeleteScope, Fail, Crash, Expose, Delete, Edit, Outdate, digdirVars, vars

\* Of the scopes, the operator changes only those that it exposes and has not
\* dealt with yet, to what the spec says.
LEMMA ScopeStep ==
    ASSUME Books, FinalizeInv, [Next]_vars, quiet', NEW s \in Subscopes, scopes'[s] # scopes[s]
    PROVE  /\ pc \in {"next", "finalize"}
           /\ s \in Exposed /\ s \in toCreate \cup toUpdate
           /\ scopes'[s] = ToScopeRegistration(tx[s])
           /\ UNCHANGED acl
<1>1. ASSUME NEW x \in toCreate \cup toUpdate,
             \/ RegisterScope(x)
             \/ UpdateScope(x)
             \/ ~tx[x].enabled /\ DeleteScope(x)
      PROVE  /\ s \in Exposed /\ s \in toCreate \cup toUpdate
             /\ scopes'[s] = ToScopeRegistration(tx[s])
             /\ UNCHANGED acl
  <2>1. s = x
    BY <1>1 DEF RegisterScope, UpdateScope, DeleteScope, Books, TypeOK
  <2> QED
    BY <1>1, <2>1
    DEF RegisterScope, UpdateScope, DeleteScope, ToScopeRegistration, Books, TypeOK, Exposed
<1>2. CASE createScopes
  BY <1>1, <1>2 DEF createScopes
<1>3. CASE updateScopes
  BY <1>1, <1>3 DEF updateScopes
<1>4. CASE deactivate
  BY <1>1, <1>4 DEF deactivate
<1>5. CASE Finalize
  BY <1>1, <1>5 DEF Finalize, FinalizeInv
<1>6. CASE LostReply
  BY <1>1, <1>6 DEF LostReply, AddToScopeACL, DeactivateConsumer, FinalizeInv
<1>7. CASE Other
  BY <1>7 DEF Other, Fault
<1> QED
  BY <1>2, <1>3, <1>4, <1>5, <1>6, <1>7
  DEF Next, Operator, Environment, StartProcess, StartFinalize, Begin, Generate, GetScopeACL,
      addConsumer, skipConsumer, removeConsumer, AddToScopeACL, DeactivateConsumer, setCondition,
      Synchronize, GenerateFinalize, RemoveFinalizer, Conflict, Fail, Crash, Request, Expose,
      Delete, Edit, Outdate, digdirVars, vars

-----------------------------------------------------------------------------
(* What a run has done and has still to do. *)

\* Digdir learns nothing of the consumers it refuses.
LEMMA RefusedStep ==
    ASSUME Books, ChangesInv, [Next]_vars, NEW s \in Subscopes, NEW o \in Unknown
    PROVE  acl'[s][o] = "absent"
<1>1. acl[s][o] = "absent" /\ o \in Orgs
  BY DEF ChangesInv
<1>2. ASSUME NEW c \in Pending, pc = "changeACL"
      PROVE  c \in changes /\ c.org \in Orgs /\ scope \in Subscopes
  BY <1>2 DEF Pending, Books, TypeOK, Consumer
<1>3. ASSUME NEW c \in Pending, pc = "changeACL",
             \/ c.org \notin Unknown /\ AddToScopeACL(c.org)
             \/ ~c.add /\ DeactivateConsumer(c.org)
      PROVE  acl'[s][o] = "absent"
  BY <1>1, <1>2, <1>3, AclExcept DEF AddToScopeACL, DeactivateConsumer, ChangesInv, Books
<1>4. CASE addConsumer \/ removeConsumer
  BY <1>3, <1>4 DEF addConsumer, removeConsumer
<1>5. CASE LostReply
  BY <1>1, <1>3, <1>5 DEF LostReply, RegisterScope, UpdateScope, DeleteScope
<1>6. CASE Request
  <2>1. PICK x \in Subscopes, p \in Orgs \ Unknown : acl' = [acl EXCEPT ![x][p] = "REQUESTED"]
    BY <1>6 DEF Request
  <2> QED BY <1>1, <2>1, AclExcept DEF Books
<1>7. CASE Other
  <2>1. ASSUME NEW x \in Subscopes, NEW p \in Orgs \ Unknown, NEW v,
               acl' = [acl EXCEPT ![x][p] = v]
        PROVE  acl'[s][o] = "absent"
    BY <1>1, <2>1, AclExcept DEF Books
  <2> QED BY <1>1, <1>7, <2>1 DEF Other
<1> QED
  BY <1>1, <1>4, <1>5, <1>6, <1>7
  DEF Next, Operator, Environment, StartProcess, StartFinalize, Begin, Generate, createScopes,
      updateScopes, deactivate, GetScopeACL, skipConsumer, setCondition, Synchronize,
      GenerateFinalize, Finalize, RemoveFinalizer, Conflict, RegisterScope, UpdateScope,
      DeleteScope, Fail, Crash, Expose, Delete, Edit, Outdate, digdirVars, vars

\* Every step preserves ChangesInv: what FilterConsumers finds is right, and the
\* spec that was read does not change while it is worked off.
LEMMA ChangesStep ==
    ASSUME Books, Books', ChangesInv, [Next]_vars
    PROVE  ChangesInv'
<1>1. SUFFICES ASSUME NEW c \in changes'
               PROVE  /\ c.add <=> c.org \in tx'[scope'].consumers
                      /\ ~c.add => c.org \notin Unknown
  BY RefusedStep DEF ChangesInv
<1>2. pc' = "changeACL"
  BY DEF Books, LoopInv
<1>3. CASE GetScopeACL
  <2>1. tx[scope].consumers \in SUBSET Orgs /\ acl[scope] \in [Orgs -> States] /\ scope \in Subscopes
    BY <1>3 DEF GetScopeACL, Books, TypeOK, ExposedScope
  <2>2. c \in FilterConsumers(tx[scope].consumers, acl[scope]) /\ UNCHANGED <<tx, scope>>
    BY <1>3 DEF GetScopeACL
  <2> QED BY <2>1, <2>2, FilterSpec DEF ChangesInv
<1>4. CASE pc = "changeACL" /\ changes' \subseteq changes /\ UNCHANGED <<tx, scope>>
  BY <1>4 DEF ChangesInv
<1> QED
  BY <1>2, <1>3, <1>4
  DEF Next, Operator, Environment, StartProcess, StartFinalize, Begin, Generate, createScopes,
      updateScopes, deactivate, addConsumer, skipConsumer, removeConsumer, setCondition,
      Synchronize, GenerateFinalize, Finalize, RemoveFinalizer, Conflict, Fail, LostReply, Crash,
      Abort, End, Expose, Delete, Edit, Request, Other, Outdate, txVars, loopVars, vars

\* Every step preserves FinalizeInv.
LEMMA FinalizeStep ==
    ASSUME Books, FinalizeInv, [Next]_vars
    PROVE  FinalizeInv'
<1>1. SUFFICES ASSUME pc' = "finalize"
               PROVE  /\ \A s \in toUpdate' : ~tx'[s].enabled
                      /\ quiet' => \A s \in Exposed' \ toUpdate' :
                                     tx'[s].enabled \/ scopes'[s] # "active"
  BY DEF FinalizeInv
<1>2. CASE GenerateFinalize
  BY <1>2 DEF GenerateFinalize, ToUpdate, ToCreate, Exposed, digdirVars, Books, TypeOK
<1>3. CASE Finalize
  BY <1>1, <1>3 DEF Finalize, DeleteScope, FinalizeInv, Exposed, Books, TypeOK
<1>4. CASE Other \/ Request \/ Expose \/ Delete \/ Outdate \/ UNCHANGED vars
  <2>1. UNCHANGED <<pc, tx, toUpdate>>
    BY <1>4 DEF Other, Request, Expose, Delete, Edit, Outdate, txVars, loopVars, vars
  <2>2. CASE Other
    BY <1>1, <2>1, <2>2 DEF Other, Fault, FinalizeInv
  <2>3. CASE Request
    BY <1>1, <2>1, <2>3 DEF Request, Fault, FinalizeInv, Exposed
  <2>4. CASE Expose \/ Delete \/ Outdate \/ UNCHANGED vars
    BY <1>1, <2>1, <2>4
    DEF Expose, Delete, Edit, Outdate, FinalizeInv, Exposed, digdirVars, vars
  <2> QED BY <1>4, <2>2, <2>3, <2>4
<1> QED
  BY <1>1, <1>2, <1>3, <1>4
  DEF Next, Operator, Environment, StartProcess, StartFinalize, Begin, Generate, createScopes,
      updateScopes, deactivate, GetScopeACL, addConsumer, skipConsumer, removeConsumer,
      setCondition, Synchronize, RemoveFinalizer, Conflict, Fail, LostReply, Crash, Abort, End

\* A scope that was dealt with stays so if nobody touches it, apart from
\* consumers that ask for access, and it is not in hand, or done, or left alone.
LEMMA DealtKept ==
    ASSUME NEW s \in Subscopes, Dealt(s), UNCHANGED tx, scopes'[s] = scopes[s],
           \A o \in Orgs : acl'[s][o] = acl[s][o] \/ acl'[s][o] = "REQUESTED",
           \/ s = scope => changes = {} /\ pc # "getACL"
           \/ UNCHANGED <<pc, scope, changes>>
    PROVE  Dealt(s)'
  BY DEF Dealt, Settled

\* GetScopeACL leaves nothing out.
LEMMA FilterComplete ==
    ASSUME Books, ChangesInv, GetScopeACL, NEW o \in Orgs
    PROVE  Settled(scope, o) \/ \E c \in changes' : c.org = o
<1>1. tx[scope].consumers \in SUBSET Orgs /\ acl[scope] \in [Orgs -> States] /\ scope \in Subscopes
  BY DEF GetScopeACL, Books, TypeOK, ExposedScope
<1> DEFINE entry(add, swapped) == [org |-> o, add |-> add, swapped |-> swapped]
<1>2. \A add, swapped \in BOOLEAN : entry(add, swapped) \in Consumer
  BY DEF Consumer
<1>3. SUFFICES ASSUME ~Settled(scope, o)
               PROVE  \E add, swapped \in BOOLEAN : entry(add, swapped) \in changes'
  BY Zenon
<1>4. changes' = FilterConsumers(tx[scope].consumers, acl[scope])
  BY DEF GetScopeACL
<1>5. \A c \in Consumer :
        /\ c.org = o
        /\ \/ ~c.swapped /\ c.add /\ o \in tx[scope].consumers /\ acl[scope][o] = "absent"
           \/ c.swapped /\ c.add /\ o \in tx[scope].consumers /\ acl[scope][o] = "DENIED"
           \/ c.swapped /\ ~c.add /\ o \notin tx[scope].consumers /\ acl[scope][o] = "APPROVED"
        => c \in changes'
  BY <1>1, <1>4, FilterSpec
<1>6. \A add, swapped \in BOOLEAN :
        /\ entry(add, swapped).org = o
        /\ entry(add, swapped).add = add
        /\ entry(add, swapped).swapped = swapped
  OBVIOUS
<1> HIDE DEF entry
<1>7. /\ o \in tx[scope].consumers /\ acl[scope][o] = "absent" => entry(TRUE, FALSE) \in changes'
      /\ o \in tx[scope].consumers /\ acl[scope][o] = "DENIED" => entry(TRUE, TRUE) \in changes'
      /\ o \notin tx[scope].consumers /\ acl[scope][o] = "APPROVED" => entry(FALSE, TRUE) \in changes'
  BY <1>2, <1>5, <1>6
<1>8. o \in Unknown => acl[scope][o] = "absent"
  BY <1>1 DEF ChangesInv
<1> QED BY <1>1, <1>3, <1>7, <1>8 DEF Settled, States

\* One change of the ACL in hand settles one consumer and leaves the others.
LEMMA DealtChange ==
    ASSUME Books, ChangesInv, pc = "changeACL", UNCHANGED <<pc, tx, scope, scopes>>,
           Dealt(scope), NEW c \in changes, changes' = changes \ {c},
           Settled(scope, c.org)',
           \A o \in Orgs : o # c.org => acl'[scope][o] = acl[scope][o]
    PROVE  Dealt(scope)'
<1>1. SUFFICES ASSUME tx[scope].enabled, NEW o \in Orgs
               PROVE  Settled(scope, o)' \/ \E d \in changes' : d.org = o
  BY DEF Dealt
<1>2. CASE o = c.org
  BY <1>2
<1>3. CASE o # c.org /\ Settled(scope, o)
  BY <1>3 DEF Settled
<1>4. CASE o # c.org /\ \E d \in changes : d.org = o
  BY <1>4
<1> QED BY <1>1, <1>2, <1>3, <1>4 DEF Dealt

\* Every step preserves ProcessInv.
LEMMA ProcessStep ==
    ASSUME Books, Books', ChangesInv, FinalizeInv, ProcessInv, [Next]_vars
    PROVE  ProcessInv'
<1>1. SUFFICES ASSUME pc' \in {"next", "getACL", "changeACL"}, quiet',
                      NEW s \in Exposed' \ (toCreate' \cup toUpdate')
               PROVE  Dealt(s)'
  BY DEF ProcessInv
<1>2. s \in Subscopes
  BY DEF Exposed
<1>3. CASE StartProcess \/ StartFinalize
  BY <1>1, <1>3 DEF StartProcess, StartFinalize, Begin, Exposed
<1>4. CASE Generate
  BY <1>1, <1>4 DEF Generate, ToUpdate, Exposed
<1>5. CASE createScopes \/ updateScopes
  <2>1. PICK x \in toCreate \cup toUpdate :
          /\ scopes' = [scopes EXCEPT ![x] = ToScopeRegistration(tx[x])]
          /\ UNCHANGED <<tx, acl, quiet>>
          /\ toCreate' \cup toUpdate' = (toCreate \cup toUpdate) \ {x}
          /\ scope' = x /\ pc = "next" /\ pc' = "getACL"
    BY <1>5 DEF createScopes, updateScopes, RegisterScope, UpdateScope, Books, LoopInv
  <2>2. CASE s = x
    BY <1>2, <2>1, <2>2 DEF Dealt, Books, TypeOK
  <2>3. CASE s # x
    <3>1. Dealt(s) /\ changes = {}
      BY <1>1, <2>1, <2>3 DEF ProcessInv, Exposed, Books, LoopInv
    <3>2. scopes'[s] = scopes[s]
      BY <1>2, <2>1, <2>3 DEF Books, TypeOK
    <3> QED BY <1>2, <2>1, <3>1, <3>2, DealtKept
  <2> QED BY <2>2, <2>3
<1>6. CASE deactivate
  <2>1. PICK x \in toUpdate :
          /\ ~tx[x].enabled
          /\ scopes' = [scopes EXCEPT ![x] = "inactive"]
          /\ UNCHANGED <<tx, acl, quiet, pc, toCreate, scope, changes>>
          /\ toUpdate' = toUpdate \ {x}
          /\ pc = "next"
    BY <1>6 DEF deactivate, DeleteScope
  <2>2. CASE s = x
    BY <1>2, <2>1, <2>2 DEF Dealt, ToScopeRegistration, Books, TypeOK
  <2>3. CASE s # x
    <3>1. Dealt(s)
      BY <1>1, <2>1, <2>3 DEF ProcessInv, Exposed
    <3>2. scopes'[s] = scopes[s]
      BY <1>2, <2>1, <2>3 DEF Books, TypeOK
    <3> QED BY <1>2, <2>1, <3>1, <3>2, DealtKept
  <2> QED BY <2>2, <2>3
<1>7. CASE GetScopeACL
  <2>1. Dealt(s) /\ changes = {} /\ UNCHANGED <<tx, scopes, acl, scope>> /\ pc' = "changeACL"
    BY <1>1, <1>7 DEF GetScopeACL, ProcessInv, Exposed, Books, LoopInv, digdirVars
  <2>2. CASE s = scope
    <3>1. \A o \in Orgs : Settled(s, o)' \/ \E c \in changes' : c.org = o
      BY <1>7, <2>1, <2>2, FilterComplete DEF Settled
    <3> QED BY <2>1, <2>2, <3>1 DEF Dealt
  <2>3. CASE s # scope
    BY <1>2, <2>1, <2>3, DealtKept
  <2> QED BY <2>2, <2>3
<1>8. CASE addConsumer \/ skipConsumer \/ removeConsumer
  <2>1. PICK c \in Pending :
          /\ \/ c.add /\ c.org \notin Unknown /\ AddToScopeACL(c.org)
             \/ c.add /\ c.org \in Unknown /\ UNCHANGED <<acl, scopes>>
             \/ ~c.add /\ DeactivateConsumer(c.org)
          /\ changes' = changes \ {c}
    BY <1>8 DEF addConsumer, skipConsumer, removeConsumer, digdirVars
  <2>2. /\ c \in changes /\ c.org \in Orgs /\ scope \in Subscopes /\ pc = "changeACL"
        /\ UNCHANGED <<pc, tx, scope, scopes, toCreate, toUpdate, quiet>>
    BY <1>8, <2>1
    DEF addConsumer, skipConsumer, removeConsumer, AddToScopeACL, DeactivateConsumer, digdirVars,
        Pending, Books, TypeOK, Consumer
  <2>3. Dealt(s)
    BY <1>1, <2>2 DEF ProcessInv, Exposed
  <2>4. \A x \in Subscopes, o \in Orgs : x # scope \/ o # c.org => acl'[x][o] = acl[x][o]
    BY <2>1, <2>2, AclExcept DEF AddToScopeACL, DeactivateConsumer, Books
  <2>5. CASE s # scope
    BY <1>2, <2>2, <2>3, <2>4, <2>5, DealtKept
  <2>6. CASE s = scope
    <3>1. Settled(scope, c.org)'
      <4>1. CASE c.add /\ c.org \notin Unknown /\ AddToScopeACL(c.org)
        <5>1. acl'[scope][c.org] = "APPROVED"
          BY <2>2, <4>1 DEF AddToScopeACL, Books, TypeOK
        <5> QED BY <2>2, <4>1, <5>1 DEF ChangesInv, Settled
      <4>2. CASE c.add /\ c.org \in Unknown /\ UNCHANGED <<acl, scopes>>
        BY <2>2, <4>2 DEF ChangesInv, Settled
      <4>3. CASE ~c.add /\ DeactivateConsumer(c.org)
        <5>1. acl'[scope][c.org] = "DENIED"
          BY <2>2, <4>3 DEF DeactivateConsumer, Books, TypeOK
        <5> QED BY <2>2, <4>3, <5>1 DEF ChangesInv, Settled
      <4> QED BY <2>1, <4>1, <4>2, <4>3
    <3> QED BY <2>1, <2>2, <2>3, <2>4, <2>6, <3>1, DealtChange
  <2> QED BY <2>5, <2>6
<1>9. CASE setCondition
  <2>1. Dealt(s) /\ changes = {} /\ pc = "changeACL" /\ UNCHANGED <<tx, scopes, acl, scope>>
    BY <1>1, <1>9 DEF setCondition, ProcessInv, Exposed, digdirVars, loopVars
  <2> QED BY <1>2, <2>1, DealtKept
<1>10. CASE Request \/ Expose \/ Delete \/ Outdate \/ UNCHANGED vars
  <2>1. UNCHANGED <<pc, tx, toCreate, toUpdate, scope, changes, scopes>>
    BY <1>10
    DEF Request, Expose, Delete, Edit, Outdate, txVars, loopVars, digdirVars, vars
  <2>2. quiet
    BY <1>1, <1>10 DEF Request, Fault, Expose, Delete, Edit, Outdate, vars
  <2>3. Dealt(s)
    BY <1>1, <2>1, <2>2 DEF ProcessInv, Exposed
  <2>4. \A o \in Orgs : acl'[s][o] = acl[s][o] \/ acl'[s][o] = "REQUESTED"
    <3>1. CASE Request
      <4>1. PICK x \in Subscopes, p \in Orgs : acl' = [acl EXCEPT ![x][p] = "REQUESTED"]
        BY <3>1 DEF Request
      <4> QED BY <1>2, <4>1, AclExcept DEF Books
    <3> QED BY <1>10, <3>1 DEF Expose, Delete, Edit, Outdate, digdirVars, vars
  <2> QED BY <1>2, <2>1, <2>3, <2>4, DealtKept
<1>11. CASE Other
  BY <1>1, <1>11 DEF Other, Fault
<1> QED
  BY <1>1, <1>3, <1>4, <1>5, <1>6, <1>7, <1>8, <1>9, <1>10, <1>11
  DEF Next, Operator, Environment, Synchronize, GenerateFinalize, Finalize, RemoveFinalizer,
      Conflict, Fail, LostReply, Crash, Abort, End

-----------------------------------------------------------------------------
(* What a run promises. *)

\* What a run has done and what it has still to do add up to the spec it read,
\* at every point: for any scopes and consumers, and wherever calls fail,
\* replies are lost or the operator crashes.
THEOREM RunInvariant == Spec => []RunInv
<1>1. Init => RunInv
  <2>1. Init => ChangesInv /\ ProcessInv /\ FinalizeInv
    BY DEF Init, ChangesInv, ProcessInv, FinalizeInv
  <2>2. Init => LoopInv /\ CurrentInv
    BY DEF Init, LoopInv, CurrentInv
  <2> QED BY <2>1, <2>2 DEF RunInv
<1>2. Books /\ Books' /\ RunInv /\ [Next]_vars => RunInv'
  BY ChangesStep, ProcessStep, FinalizeStep DEF RunInv, Books
<1> QED BY <1>1, <1>2, BooksKept, PTL DEF Spec

\* Once a spec has been processed, exposed scopes are active exactly if they are
\* enabled, and exactly their consumers have access, until somebody else
\* changes them.
THEOREM AccessIsAsSpecified == Spec => []AccessAsSpecified
<1>1. Init => AccessAsSpecified
  BY DEF Init, AccessAsSpecified
<1>2. Books /\ Books' /\ RunInv /\ AccessAsSpecified /\ [Next]_vars => AccessAsSpecified'
  <2> SUFFICES ASSUME Books, Books', RunInv, AccessAsSpecified, [Next]_vars,
                      phase' = "present", synced', quiet'
               PROVE  AsSpecified'
    BY DEF AccessAsSpecified
  <2>1. CASE Synchronize
    <3>1. tx = exposes /\ quiet /\ UNCHANGED <<exposes, scopes, acl>>
      BY <2>1 DEF Synchronize, Books, CurrentInv, digdirVars
    <3>2. \A s \in Exposed : Dealt(s) /\ changes = {} /\ pc = "next"
      BY <2>1, <3>1 DEF Synchronize, RunInv, ProcessInv, Books, LoopInv
    <3>3. \A s \in Exposed : /\ scopes[s] = ToScopeRegistration(tx[s])
                             /\ tx[s].enabled => \A o \in Orgs : Settled(s, o)
      BY <3>2 DEF Dealt
    <3> QED BY <3>1, <3>3 DEF AsSpecified, Exposed, Settled, ToScopeRegistration
  <2>2. CASE ~Synchronize
    <3>1. synced /\ phase = "present" /\ UNCHANGED exposes
      BY <2>2
      DEF Next, Operator, Environment, StartProcess, StartFinalize, Begin, Generate, createScopes,
          updateScopes, deactivate, GetScopeACL, addConsumer, skipConsumer, removeConsumer,
          setCondition, GenerateFinalize, Finalize, RemoveFinalizer, Conflict, Abort, Fail,
          LostReply, Crash, Expose, Delete, Edit, Request, Other, Outdate, resourceVars, vars
    <3>2. pc = "idle"
      BY <3>1 DEF Books, LoopInv
    <3>3. quiet
      BY <3>1, <3>2
      DEF Next, Operator, Environment, StartProcess, StartFinalize, Begin, Generate, createScopes,
          updateScopes, deactivate, GetScopeACL, addConsumer, skipConsumer, removeConsumer,
          setCondition, Synchronize, GenerateFinalize, Finalize, RemoveFinalizer, Conflict, Fail,
          LostReply, Crash, Fault, Expose, Delete, Edit, Request, Other, Outdate, vars
    <3>4. AsSpecified
      BY <3>1, <3>3 DEF AccessAsSpecified
    <3>5. \A s \in Subscopes : scopes'[s] = scopes[s]
      BY <3>2, ScopeStep DEF RunInv
    <3>6. \A s \in Subscopes, o \in Orgs :
            acl'[s][o] = acl[s][o] \/ acl'[s][o] = "REQUESTED"
      <4>1. scope = None /\ None \notin Subscopes
        BY <3>2 DEF Books, LoopInv
      <4> QED BY <4>1, AclStep DEF RunInv
    <3> QED BY <3>1, <3>4, <3>5, <3>6 DEF AsSpecified
  <2> QED BY <2>1, <2>2
<1> QED BY <1>1, <1>2, BooksKept, RunInvariant, PTL DEF Spec

\* As long as the resource and the scopes are not changed by others during a
\* run, no step of it deactivates an enabled scope or revokes a listed
\* consumer.
THEOREM NoGrantedAccessLost == Spec => GrantedAccessKept
<1>1. ASSUME Books, RunInv, [Next]_vars, current, quiet',
             NEW s \in Subscopes, exposes[s] # None
      PROVE  /\ exposes[s].enabled /\ scopes[s] = "active" => scopes'[s] = "active"
             /\ \A o \in exposes[s].consumers :
                  acl[s][o] = "APPROVED" => acl'[s][o] = "APPROVED"
  <2>1. tx = exposes
    BY <1>1 DEF Books, CurrentInv
  <2>2. exposes[s].consumers \subseteq Orgs
    BY <1>1 DEF Books, TypeOK, ExposedScope
  <2>3. exposes[s].enabled /\ scopes[s] = "active" => scopes'[s] = "active"
    BY <1>1, <2>1, ScopeStep DEF RunInv, ToScopeRegistration
  <2> QED BY <1>1, <2>1, <2>2, <2>3, AclStep DEF RunInv
<1>2. Books /\ RunInv /\ [Next]_vars =>
        [current /\ quiet' => \A s \in {x \in Subscopes : exposes[x] # None} :
           /\ exposes[s].enabled /\ scopes[s] = "active" => scopes'[s] = "active"
           /\ \A o \in exposes[s].consumers :
                acl[s][o] = "APPROVED" => acl'[s][o] = "APPROVED"]_vars
  BY <1>1
<1> QED BY <1>2, BooksKept, RunInvariant, PTL DEF Spec, GrantedAccessKept

\* The finalizer is only removed when none of the scopes that the resource has
\* disabled is active, unless somebody else activates one during the run.
THEOREM NoneActiveWhenGone == Spec => DisabledWhenGone
<1>1. ASSUME Books, RunInv, Next, phase # "gone", phase' = "gone", quiet,
             NEW s \in Subscopes, exposes[s] # None, ~exposes[s].enabled
      PROVE  scopes[s] # "active"
  <2>1. RemoveFinalizer
    BY <1>1
    DEF Next, Operator, Environment, StartProcess, StartFinalize, Begin, Generate, createScopes,
        updateScopes, deactivate, GetScopeACL, addConsumer, skipConsumer, removeConsumer,
        setCondition, Synchronize, GenerateFinalize, Finalize, Conflict, Abort, Fail,
        LostReply, Crash, Expose, Delete, Edit, Request, Other, Outdate, resourceVars
  <2> QED BY <1>1, <2>1 DEF RemoveFinalizer, RunInv, CurrentInv, FinalizeInv, Exposed
<1>2. Books /\ RunInv /\ [Next]_vars =>
        [phase # "gone" /\ phase' = "gone" /\ quiet
           => \A s \in Subscopes :
                exposes[s] # None /\ ~exposes[s].enabled => scopes[s] # "active"]_vars
  BY <1>1
<1> QED BY <1>2, BooksKept, RunInvariant, PTL DEF Spec, DisabledWhenGone
=============================================================================
