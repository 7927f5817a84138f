------------------------------- MODULE Scopes -------------------------------
(***************************************************************************)
(* The scopes a MaskinportenClient exposes: controllers/common/scopes.go,  *)
(* pkg/digdir/scopes and the scope calls of pkg/digdir/client.go.          *)
(*                                                                         *)
(* Reconciler.tla takes scopes.Process and scopes.Finalize as one step     *)
(* each.  This module is what happens inside them, one step per call to    *)
(* the Digdir API, and keeps of the rest of Reconcile only how a run       *)
(* starts, ends and is repeated.                                           *)
(***************************************************************************)
EXTENDS Naturals

CONSTANTS
    Subscopes,  \* the names Subscope() gives to the exposed scopes
    Orgs,       \* organization numbers of consumers
    Unknown,    \* those that Digdir refuses with 400 Bad Request
    None,       \* nothing here
    Events,     \* what users, consumers and the network do
    MaxEdits,   \* bound on the number of changes of the spec
    MaxFaults   \* bound on the number of faults

ASSUME ScopesAssumption ==
    /\ Unknown \subseteq Orgs
    /\ None \notin [enabled : BOOLEAN, consumers : SUBSET Orgs]
    /\ None \notin Subscopes
    /\ Events \subseteq {"expose", "delete", "request", "other", "fail", "lostReply",
                  "crash"}
    /\ MaxEdits \in Nat
    /\ MaxFaults \in Nat

VARIABLES
    \* the resource in the API server
    phase,      \* "present", "deleting" or "gone"
    exposes,    \* spec.scopes.exposes: the exposed scope of each name, or None
    synced,     \* the status says that the current spec was processed
    invalid,    \* the InvalidExposedScopesConsumers condition
    \* Digdir
    scopes,     \* each scope is "active", "inactive" or "unregistered"
    acl,        \* state of each consumer in the ACL of each scope
    \* the operator
    pc,         \* the call made next
    tx,         \* exposes, as read at the start
    current,    \* the resource has not been written since it was read
    txInvalid,  \* the condition, in memory
    toCreate,   \* Operations.ToCreate, as far as not done yet
    toUpdate,   \* Operations.ToUpdate, as far as not done yet
    scope,      \* the scope whose ACL is being updated
    changes,    \* what updateACL still has to change
    refused,    \* invalidConsumers
    \* history
    quiet,      \* nobody else has changed scopes since the last run began
    \* bounds
    edits, faults

resourceVars == <<phase, exposes, synced, invalid>>
digdirVars   == <<scopes, acl>>
loopVars     == <<toCreate, toUpdate, scope, changes, refused>>
txVars       == <<tx, current, txInvalid, loopVars>>
bounds       == <<edits, faults>>
vars         == <<resourceVars, digdirVars, pc, txVars, quiet, bounds>>

ExposedScope == [enabled : BOOLEAN, consumers : SUBSET Orgs]

States == {"absent", "REQUESTED", "APPROVED", "DENIED"}

\* Consumer: what to do for an organization, and in which pass of
\* FilterConsumers it was found.
Consumer == [org : Orgs, add : BOOLEAN, swapped : BOOLEAN]

\* The type invariant.
TypeOK ==
    /\ phase \in {"present", "deleting", "gone"}
    /\ exposes \in [Subscopes -> ExposedScope \cup {None}]
    /\ synced \in BOOLEAN
    /\ invalid \in BOOLEAN
    /\ scopes \in [Subscopes -> {"active", "inactive", "unregistered"}]
    /\ acl \in [Subscopes -> [Orgs -> States]]
    /\ pc \in {"idle", "getScopes", "next", "getACL", "changeACL", "getFinalized", "finalize"}
    /\ tx \in [Subscopes -> ExposedScope \cup {None}]
    /\ current \in BOOLEAN
    /\ txInvalid \in BOOLEAN
    /\ toCreate \subseteq {s \in Subscopes : tx[s] # None}
    /\ toUpdate \subseteq {s \in Subscopes : tx[s] # None}
    /\ scope \in Subscopes \cup {None}
    /\ pc \in {"getACL", "changeACL"} => scope \in Subscopes /\ tx[scope] # None
    /\ changes \subseteq Consumer
    /\ refused \subseteq Unknown
    /\ quiet \in BOOLEAN
    /\ edits \in 0..MaxEdits
    /\ faults \in 0..MaxFaults

Exposed == {s \in Subscopes : tx[s] # None}

-----------------------------------------------------------------------------
(* A run of Reconcile, as far as scopes matter. *)

EmptyLoop ==
    /\ toCreate' = {}
    /\ toUpdate' = {}
    /\ scope' = None
    /\ changes' = {}
    /\ refused' = {}

Begin(call) ==
    /\ pc = "idle"
    /\ pc' = call
    /\ tx' = exposes
    /\ current' = TRUE
    /\ txInvalid' = invalid
    /\ quiet' = TRUE
    /\ UNCHANGED <<resourceVars, digdirVars, loopVars, bounds>>

End ==
    /\ pc' = "idle"
    /\ tx' = [s \in Subscopes |-> None]
    /\ current' = FALSE
    /\ txInvalid' = FALSE
    /\ EmptyLoop

\* An error ends the run.  observeError saves the conditions, if the resource
\* was not written by somebody else; finalize saves nothing.
Abort ==
    /\ invalid' = IF current /\ phase = "present" THEN txInvalid ELSE invalid
    /\ End
    /\ UNCHANGED <<phase, exposes, synced>>

\* Process returns at once if nothing is exposed.
StartProcess ==
    /\ phase = "present"
    /\ ~synced
    /\ Begin(IF \A s \in Subscopes : exposes[s] = None THEN "next" ELSE "getScopes")

StartFinalize == phase = "deleting" /\ Begin("getFinalized")

-----------------------------------------------------------------------------
(* What the calls do to Digdir. *)

\* The payload for a scope, reduced to Active: whether it is enabled in the spec.
ToScopeRegistration(e) == IF e.enabled THEN "active" ELSE "inactive"

RegisterScope(s) ==
    /\ scopes' = [scopes EXCEPT ![s] = ToScopeRegistration(tx[s])]
    /\ UNCHANGED acl

\* UpdateScope, called by activate and by update.
UpdateScope(s) ==
    /\ scopes' = [scopes EXCEPT ![s] = ToScopeRegistration(tx[s])]
    /\ UNCHANGED acl

DeleteScope(s) == scopes' = [scopes EXCEPT ![s] = "inactive"] /\ UNCHANGED acl

AddToScopeACL(org) == acl' = [acl EXCEPT ![scope][org] = "APPROVED"] /\ UNCHANGED scopes

DeactivateConsumer(org) == acl' = [acl EXCEPT ![scope][org] = "DENIED"] /\ UNCHANGED scopes

-----------------------------------------------------------------------------
(* Process. *)

\* Wrong ToCreate: scopes nobody exposes are created too.
ToCreateUnexposed == {s \in Subscopes : scopes[s] = "unregistered"}

ToCreate == {s \in Exposed : scopes[s] = "unregistered"}
ToUpdate == Exposed \ ToCreate

Generate ==
    /\ pc = "getScopes"
    /\ toCreate' = ToCreate
    /\ toUpdate' = ToUpdate
    /\ pc' = "next"
    /\ UNCHANGED <<resourceVars, digdirVars, tx, current, txInvalid, scope, changes, refused,
                   bounds, quiet>>

createScopes ==
    /\ pc = "next"
    /\ \E s \in toCreate :
         /\ scopes[s] = "unregistered"
         /\ RegisterScope(s)
         /\ toCreate' = toCreate \ {s}
         /\ scope' = s
    /\ pc' = "getACL"
    /\ UNCHANGED <<resourceVars, tx, current, txInvalid, toUpdate, changes, refused, bounds, quiet>>

\* An enabled scope is activated or updated, and then its ACL.
updateScopes ==
    /\ pc = "next"
    /\ toCreate = {}
    /\ \E s \in toUpdate :
         /\ tx[s].enabled
         /\ UpdateScope(s)
         /\ toUpdate' = toUpdate \ {s}
         /\ scope' = s
    /\ pc' = "getACL"
    /\ UNCHANGED <<resourceVars, tx, current, txInvalid, toCreate, changes, refused, bounds, quiet>>

deactivate ==
    /\ pc = "next"
    /\ toCreate = {}
    /\ \E s \in toUpdate :
         /\ ~tx[s].enabled
         /\ DeleteScope(s)
         /\ toUpdate' = toUpdate \ {s}
    /\ UNCHANGED <<resourceVars, pc, tx, current, txInvalid, toCreate, scope, changes, refused,
                   bounds, quiet>>

\* Wrong addOrUpdate: a denied consumer of the spec is not added again.
addOrUpdateOnce(org, found, swapped, state) ==
    {c \in [org : {org}, add : BOOLEAN, swapped : {swapped}] :
        /\ ~found
        /\ IF swapped THEN ~c.add /\ state # "DENIED" ELSE c.add}

\* Wrong addOrUpdate: what the second pass finds in the spec is removed.
addOrUpdateInverted(org, found, swapped, state) ==
    {c \in [org : {org}, add : BOOLEAN, swapped : {swapped}] :
        IF swapped THEN found /\ ~c.add /\ state # "DENIED" ELSE ~found /\ c.add}

(***************************************************************************)
(* What is to be done for a consumer, if anything.  In the first pass it   *)
(* is one of the spec, added if it is not found in the ACL.  In the second *)
(* pass, "swapped", it is one of the ACL, added again if it is denied and  *)
(* found in the spec, and removed if it is neither.                        *)
(***************************************************************************)
addOrUpdate(org, found, swapped, state) ==
    {c \in [org : {org}, add : BOOLEAN, swapped : {swapped}] :
        \/ ~found /\ ~swapped /\ c.add
        \/ ~found /\ swapped /\ state # "DENIED" /\ ~c.add
        \/ found /\ swapped /\ state = "DENIED" /\ c.add}

FilterConsumers(consumers, states) ==
    LET actual == {o \in Orgs : states[o] # "absent"}
    IN  (UNION {addOrUpdate(o, o \in actual, FALSE, "DENIED") : o \in consumers})
        \cup (UNION {addOrUpdate(o, o \in consumers, TRUE, states[o]) : o \in actual})

GetScopeACL ==
    /\ pc = "getACL"
    /\ changes' = FilterConsumers(tx[scope].consumers, acl[scope])
    /\ refused' = {}
    /\ pc' = "changeACL"
    /\ UNCHANGED <<resourceVars, digdirVars, tx, current, txInvalid, toCreate, toUpdate, scope,
                   bounds, quiet>>

\* The consumers of the first pass come first; within a pass, a Go map has no
\* order.
Pending == {c \in changes : c.swapped => \A d \in changes : d.swapped}

addConsumer ==
    /\ pc = "changeACL"
    /\ \E c \in Pending :
         /\ c.add
         /\ c.org \notin Unknown
         /\ AddToScopeACL(c.org)
         /\ changes' = changes \ {c}
    /\ UNCHANGED <<resourceVars, pc, tx, current, txInvalid, toCreate, toUpdate, scope, refused,
                   bounds, quiet>>

\* Wrong skipConsumer: an invalid consumer is an error of the run.
failConsumer ==
    /\ pc = "changeACL"
    /\ \E c \in Pending : c.add /\ c.org \in Unknown
    /\ Abort
    /\ UNCHANGED <<digdirVars, bounds, quiet>>

\* 400 Bad Request: the consumer is skipped.
skipConsumer ==
    /\ pc = "changeACL"
    /\ \E c \in Pending :
         /\ c.add
         /\ c.org \in Unknown
         /\ refused' = refused \cup {c.org}
         /\ changes' = changes \ {c}
    /\ UNCHANGED <<resourceVars, digdirVars, pc, tx, current, txInvalid, toCreate, toUpdate, scope,
                   bounds, quiet>>

removeConsumer ==
    /\ pc = "changeACL"
    /\ \E c \in Pending :
         /\ ~c.add
         /\ DeactivateConsumer(c.org)
         /\ changes' = changes \ {c}
    /\ UNCHANGED <<resourceVars, pc, tx, current, txInvalid, toCreate, toUpdate, scope, refused,
                   bounds, quiet>>

\* updateACL ends by setting the one condition all the scopes share.
setCondition ==
    /\ pc = "changeACL"
    /\ changes = {}
    /\ txInvalid' = (refused # {})
    /\ pc' = "next"
    /\ UNCHANGED <<resourceVars, digdirVars, tx, current, loopVars, bounds, quiet>>

\* Process is done and the rest of process() succeeds: the status is saved.
Synchronize ==
    /\ pc = "next"
    /\ toCreate = {}
    /\ toUpdate = {}
    /\ current
    /\ synced' = TRUE
    /\ invalid' = txInvalid
    /\ End
    /\ UNCHANGED <<phase, exposes, digdirVars, bounds, quiet>>

-----------------------------------------------------------------------------
(* Finalize. *)

\* Wrong GenerateFinalize: the test of Enabled is the wrong way round.
GenerateFinalizeEnabled ==
    /\ pc = "getFinalized"
    /\ toUpdate' = {s \in ToUpdate : tx[s].enabled}
    /\ pc' = "finalize"
    /\ UNCHANGED <<resourceVars, digdirVars, tx, current, txInvalid, toCreate, scope, changes,
                   refused, bounds, quiet>>

GenerateFinalize ==
    /\ pc = "getFinalized"
    /\ toUpdate' = {s \in ToUpdate : ~tx[s].enabled}
    /\ pc' = "finalize"
    /\ UNCHANGED <<resourceVars, digdirVars, tx, current, txInvalid, toCreate, scope, changes,
                   refused, bounds, quiet>>

Finalize ==
    /\ pc = "finalize"
    /\ \E s \in toUpdate :
         /\ DeleteScope(s)
         /\ toUpdate' = toUpdate \ {s}
    /\ UNCHANGED <<resourceVars, pc, tx, current, txInvalid, toCreate, scope, changes, refused,
                   bounds, quiet>>

RemoveFinalizer ==
    /\ pc = "finalize"
    /\ toUpdate = {}
    /\ current
    /\ phase' = "gone"
    /\ End
    /\ UNCHANGED <<exposes, synced, invalid, digdirVars, bounds, quiet>>

-----------------------------------------------------------------------------
(* Everybody else. *)

\* The last write of a run finds that the resource was written since, or a
\* scope to be created was registered by somebody else.
Conflict ==
    /\ \/ pc = "next" /\ toCreate = {} /\ toUpdate = {} /\ ~current
       \/ pc = "finalize" /\ toUpdate = {} /\ ~current
       \/ pc = "next" /\ \E s \in toCreate : scopes[s] # "unregistered"
    /\ Abort
    /\ UNCHANGED <<digdirVars, bounds, quiet>>

Fault(kind) ==
    /\ kind \in Events
    /\ faults < MaxFaults
    /\ faults' = faults + 1
    /\ quiet' = (quiet /\ kind # "other")
    /\ UNCHANGED edits

Fail ==
    /\ Fault("fail")
    /\ pc # "idle"
    /\ Abort
    /\ UNCHANGED digdirVars

\* The call takes effect, but its caller sees an error.
LostReply ==
    /\ Fault("lostReply")
    /\ \/ pc = "next" /\ \E s \in toCreate : scopes[s] = "unregistered" /\ RegisterScope(s)
       \/ /\ pc = "next" /\ toCreate = {}
          /\ \E s \in toUpdate : IF tx[s].enabled THEN UpdateScope(s) ELSE DeleteScope(s)
       \/ /\ pc = "changeACL"
          /\ \E c \in Pending :
               IF c.add THEN c.org \notin Unknown /\ AddToScopeACL(c.org)
                        ELSE DeactivateConsumer(c.org)
       \/ pc = "finalize" /\ \E s \in toUpdate : DeleteScope(s)
    /\ Abort

Crash ==
    /\ Fault("crash")
    /\ pc # "idle"
    /\ End
    /\ UNCHANGED <<resourceVars, digdirVars>>

\* The resource is changed; the copy that a run holds is outdated.
Edit(op) ==
    /\ op \in Events
    /\ phase # "gone"
    /\ current' = FALSE
    /\ synced' = FALSE
    /\ UNCHANGED <<invalid, digdirVars, pc, tx, txInvalid, loopVars, quiet, faults>>

Expose ==
    /\ Edit("expose")
    /\ edits < MaxEdits
    /\ edits' = edits + 1
    /\ \E s \in Subscopes, e \in ExposedScope \cup {None} :
         /\ exposes[s] # e
         /\ exposes' = [exposes EXCEPT ![s] = e]
    /\ UNCHANGED phase

Delete ==
    /\ Edit("delete")
    /\ phase = "present"
    /\ phase' = "deleting"
    /\ UNCHANGED <<exposes, edits>>

\* An organization asks for access to a registered scope.
Request ==
    /\ Fault("request")
    /\ \E s \in Subscopes, o \in Orgs \ Unknown :
         /\ scopes[s] # "unregistered"
         /\ acl[s][o] = "absent"
         /\ acl' = [acl EXCEPT ![s][o] = "REQUESTED"]
    /\ UNCHANGED <<resourceVars, scopes, pc, txVars>>

\* Another resource, or digdirator in another cluster, exposes the same scope
\* and processes it as it is told there.
Other ==
    /\ Fault("other")
    /\ \E s \in Subscopes :
         \/ /\ scopes' \in {[scopes EXCEPT ![s] = "active"], [scopes EXCEPT ![s] = "inactive"]}
            /\ scopes' # scopes
            /\ UNCHANGED acl
         \/ /\ scopes[s] = "active"
            /\ \E o \in Orgs \ Unknown, state \in {"APPROVED", "DENIED"} :
                 acl' = [acl EXCEPT ![s][o] = state]
            /\ acl' # acl
            /\ UNCHANGED scopes
    /\ UNCHANGED <<resourceVars, pc, txVars>>

\* A resync is asked for, or Reconcile finds the synchronization seven days old.
Outdate ==
    /\ pc = "idle"
    /\ phase = "present"
    /\ synced
    /\ synced' = FALSE
    /\ UNCHANGED <<phase, exposes, invalid, digdirVars, pc, txVars, bounds, quiet>>

-----------------------------------------------------------------------------
Init ==
    /\ phase = "present"
    /\ exposes \in [Subscopes -> ExposedScope \cup {None}]
    /\ synced = FALSE
    /\ invalid = FALSE
    /\ scopes = [s \in Subscopes |-> "unregistered"]
    /\ acl = [s \in Subscopes |-> [o \in Orgs |-> "absent"]]
    /\ pc = "idle"
    /\ tx = [s \in Subscopes |-> None]
    /\ current = FALSE
    /\ txInvalid = FALSE
    /\ toCreate = {}
    /\ toUpdate = {}
    /\ scope = None
    /\ changes = {}
    /\ refused = {}
    /\ quiet = TRUE
    /\ edits = 0
    /\ faults = 0

Operator ==
    \/ StartProcess \/ StartFinalize
    \/ Generate \/ createScopes \/ updateScopes \/ deactivate
    \/ GetScopeACL \/ addConsumer \/ skipConsumer \/ removeConsumer \/ setCondition
    \/ Synchronize
    \/ GenerateFinalize \/ Finalize \/ RemoveFinalizer
    \/ Conflict

Environment == Fail \/ LostReply \/ Crash \/ Expose \/ Delete \/ Request \/ Other \/ Outdate

Next == Operator \/ Environment

Spec == Init /\ [][Next]_vars

\* controller-runtime keeps the worker going.  A synchronization gets old, and
\* then the resource is processed again, unless it is not requeued because of
\* invalid consumers.
FairSpec == Spec /\ WF_vars(Operator) /\ WF_vars(Outdate /\ ~invalid)

-----------------------------------------------------------------------------
(* What a run knows half way through: the inductive invariant. *)

\* A run leaves nothing behind; the scopes it has still to deal with are not
\* those it has dealt with, and nothing is synchronized while it goes on.
LoopInv ==
    /\ pc = "idle" => tx = [s \in Subscopes |-> None] /\ ~current
    /\ pc \in {"idle", "getScopes", "getFinalized"}
         => toCreate = {} /\ toUpdate = {} /\ scope = None
    /\ pc # "idle" \/ phase = "deleting" => ~synced
    /\ pc # "changeACL" => changes = {}
    /\ toCreate \cap toUpdate = {}
    /\ scope \notin toCreate \cup toUpdate

\* A resource not written since it was read is as it was read.
CurrentInv ==
    /\ current => tx = exposes
    /\ pc \in {"getFinalized", "finalize"} => phase = "deleting"
    /\ current /\ pc \notin {"getFinalized", "finalize"} => phase = "present"

\* updateACL adds only consumers of the spec and removes only others.  Digdir
\* knows nothing of those it refuses.
ChangesInv ==
    /\ \A s \in Subscopes, o \in Unknown : acl[s][o] = "absent"
    /\ \A c \in changes :
         /\ c.add <=> c.org \in tx[scope].consumers
         /\ ~c.add => c.org \notin Unknown

\* The consumers of a scope have access, and nobody else.
Settled(s, o) ==
    acl[s][o] = "REQUESTED" \/ (acl[s][o] = "APPROVED" <=> o \in tx[s].consumers \ Unknown)

\* A scope is as the spec says.  If it is the one in hand, that is so of the
\* consumers not in changes.
Dealt(s) ==
    /\ scopes[s] = ToScopeRegistration(tx[s])
    /\ tx[s].enabled /\ ~(pc = "getACL" /\ s = scope) =>
         \A o \in Orgs : Settled(s, o) \/ (s = scope /\ \E c \in changes : c.org = o)

\* Process has dealt with all scopes that are not left.
ProcessInv ==
    pc \in {"next", "getACL", "changeACL"} /\ quiet =>
        \A s \in Exposed \ (toCreate \cup toUpdate) : Dealt(s)

\* Finalize deactivates disabled scopes only, and all of those.
FinalizeInv ==
    pc = "finalize" =>
        /\ \A s \in toUpdate : ~tx[s].enabled
        /\ quiet => \A s \in Exposed \ toUpdate : tx[s].enabled \/ scopes[s] # "active"

-----------------------------------------------------------------------------
(* Correctness. *)

\* An exposed scope is active exactly if it is enabled, and then exactly its
\* consumers have access, except those Digdir refuses and those whose own
\* request for access is pending: updateACL leaves a REQUESTED consumer of the
\* spec as it is.
AsSpecified ==
    \A s \in {x \in Subscopes : exposes[x] # None} :
        /\ scopes[s] = (IF exposes[s].enabled THEN "active" ELSE "inactive")
        /\ exposes[s].enabled =>
             \A o \in Orgs \ {x \in Orgs : acl[s][x] = "REQUESTED"} :
                 acl[s][o] = "APPROVED" <=> o \in exposes[s].consumers \ Unknown

\* Once a spec has been processed, scopes and access are as it says, if nobody
\* else has changed them since the run began.
AccessAsSpecified == phase = "present" /\ synced /\ quiet => AsSpecified

\* At every point of a run, and whatever has failed or been changed since it
\* began, what it has done and what it has still to do add up to the spec it
\* read.
RunInv == LoopInv /\ CurrentInv /\ ChangesInv /\ ProcessInv /\ FinalizeInv

\* Whatever others who expose the same scopes do to them, they are again and
\* again as the spec says, as long as the resource is requeued.
Restored == []<>(phase = "gone" \/ invalid \/ (phase = "present" /\ AsSpecified))

\* Unless the resource or the scopes were changed during the run, the operator
\* takes away no access that the spec grants: it deactivates no enabled scope
\* and revokes no listed consumer.
GrantedAccessKept ==
    [][current /\ quiet' => \A s \in {x \in Subscopes : exposes[x] # None} :
         /\ exposes[s].enabled /\ scopes[s] = "active" => scopes'[s] = "active"
         /\ \A o \in exposes[s].consumers :
              acl[s][o] = "APPROVED" => acl'[s][o] = "APPROVED"]_vars

\* When the resource goes away, none of the scopes that it disabled is active,
\* if nobody else has changed them since the run began.
DisabledWhenGone ==
    [][phase # "gone" /\ phase' = "gone" /\ quiet
         => \A s \in Subscopes :
              exposes[s] # None /\ ~exposes[s].enabled => scopes[s] # "active"]_vars

\* Every change of the resource is eventually processed, however often calls
\* failed half way through the scopes, and a deletion completes.
Settles == []<>(phase = "gone" \/ (phase = "present" /\ synced))

\* A resource with an invalid consumer in an enabled scope says so.
InvalidReported ==
    phase = "present" /\ synced /\ ~invalid =>
        \A s \in Subscopes :
            exposes[s] # None /\ exposes[s].enabled => exposes[s].consumers \cap Unknown = {}
=============================================================================
