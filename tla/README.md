# digdirator in TLA+

digdirator is a Kubernetes operator. It turns `IDPortenClient` and
`MaskinportenClient` resources into clients registered with Digdir's
self-service API, keeps the keys of those clients, hands them to applications
in Kubernetes secrets, and registers the Maskinporten scopes an application
exposes. This directory holds TLA+ specifications of that operator, model
checked with TLC, and proofs about them checked with TLAPS.

```
tlc -config lifecycle.cfg MCReconciler     # and likewise for the other runs
tlc -config scopes.cfg Scopes
tlc -config consumed_scopes.cfg ConsumedScopes
tlc -config key_expiry.cfg KeyExpiry
tlapm RegistrationProofs.tla                # and the other *Proofs modules
```

## The system

| Part | Source | State | Operations |
| --- | --- | --- | --- |
| Reconcile loop | `controllers/common/reconciler.go` | the resource as read (`tx.Instance`), the work queue entry | Reconcile, process, observeError, createOrUpdateClient, registerJwk, ensureJwkValidExternalState, filterConsumedScopes |
| Resource predicates | `pkg/clients/instance.go`, `controllers/common/conditions.go` | metadata, annotations, spec, status | IsUpToDate, NeedsSecretRotation, HasRetryableStatusCondition, ... |
| Finalizer | `controllers/common/finalizer.go` | the finalizer of the resource | finalize |
| Managed secrets | `controllers/common/secrets.go` | one secret per name, with its owner; pods that refer to them | GetManaged, CreateOrUpdate, DeleteUnused |
| Keys | `pkg/crypto/jwk.go`, `jwks.go` | private key in each secret, JWKS of each client | GenerateJwk, GetPreviousJwkFromSecret, MergeJwks |
| Digdir client registrations | `pkg/digdir/client.go` | clients: ID, integration type, configuration, JWKS | Register, GetRegistration, Update, Delete, GetKeys, RegisterKeys |
| Exposed scopes | `controllers/common/scopes.go`, `pkg/digdir/scopes` | scopes (active or not) and their ACLs | Process, Finalize, createScopes, updateScopes, updateACL, Generate, FilterConsumers |
| Consumed scopes | `reconciler.go`, `pkg/digdir/client.go` | a process-wide cache of scope access | CanAccessScope, GetAccessibleScopes, GetOpenScopes |
| HTTP, retries, authentication | `client.go`, `auth.go`, `pkg/retry`, `internal/crypto` | none | request, getAuthToken |
| Configuration, metrics, events, secret contents, fixtures | `cmd`, `pkg/config`, `pkg/metrics`, `pkg/secrets`, `pkg/fixtures` | none that is read back | |

The parts interact through two stores neither of which has transactions: the
Kubernetes API server (optimistic concurrency on the resource, none across
objects) and Digdir (none at all). A run of Reconcile makes some ten calls to
them. Users edit and delete the resource, pods start and stop, clients and keys
disappear in Digdir, calls fail, take effect without an answer, twice or too
late, and the operator is restarted, between any two of those calls. A run that ends badly is
repeated, so the hard questions are about repetition: what does the next run
find, and does it finish the work without doing it twice? `PROJECT.json` lists
the hazards one by one, each with the properties that cover it.

What makes the parts correct:

* registrations: at most one client per resource, none without the finalizer
  to clean it up, none left when the resource is gone;
* keys: what is in a secret is registered, what is in use stays registered and
  does not expire;
* status: a resource that Reconcile skips as up to date really is;
* progress: every resource ends up usable, every deletion completes;
* exposed scopes: scopes and ACLs end up as the spec says, and no run takes away
  access that the spec grants;
* consumed scopes: no answer about access is older than the cache may make it,
  and clients end up with the scopes they can access.

## The modules

**`Instance.tla`**: the resource, split the way the API server stores it into an
object (metadata, spec) and a status, and the predicates the code evaluates on
it. The spec is reduced to `secretName`, `integrationType` and a `generation`.

**`Reconciler.tla`**: the state machine of the reconcile loop for one resource.
controller-runtime runs one Reconcile per resource at a time, so the operator is
one process; `pc` names the remote call it makes next, and an action is that
call with the local code up to the next one.

| Code | Actions |
| --- | --- |
| `Reconcile`, `prepare` | `ReconcileNothing`, `ReconcileDeleted`, `ReconcileUnfinalized`, `ReconcileUpToDate`, `ReconcileOutdated`, `AddFinalizer` |
| `process` | `MarkProcessing`, `GetManaged`, `WriteSecret`, `DeleteUnused` (one secret a step), `FinishCleanup`, `ClearAnnotations`, `Synchronize` |
| `createOrUpdateClient` | `GetRegistration`, `ProcessScopes`, `filterConsumedScopes`, `UpdateClient`, `CreateClient` |
| `registerJwk`, `ensureJwkValidExternalState` | `registerJwk`, `ensureJwkValidExternalState` |
| `observeError` | `observeError` |
| `finalize` | `Exists`, `DeleteClient`, `FinalizeScopes`, `RemoveFinalizer` |
| errors | `Refused` (conflict, immutable integration type, client or secret gone), `Fail`, `LostReply`, `Late`, `Crash`, all but the last through `Abort` |
| `Client.request`, `pkg/retry` | `Fail` (no effect), `LostReply` (effect, then an error that is not retried), `Repeat` (effect, then a 4xx or 5xx answer, and the call is made again), `Late` and `Arrive` (given up after 30 seconds, carried out later) |
| watch, queue, time | `User`, `TimerFires`, `Age` |
| everything else | `PodStart`, `PodStop`, `Condemn` and `CollectGarbage`, `ClientDrift`, `KeyDrift`, `SecretDrift` |

`txObject` and `txStatus` are `tx.Instance`; `current` says whether its
`resourceVersion` is still the server's, which is all that a write of it depends
on. `queue` is the entry of the resource in the work queue: "ready" also stands
for a requeue after a second and for rate limited retries, "delayed" for the
requeues after one and eight hours. An old delayed entry that outlives an
earlier event is left out; it could only bring the resource back more often.
Keys and client IDs that nothing mentions any more may be used again as fresh
ones, which keeps the state finite without a bound on their number over time.

A secret is `owned` if its controller reference names the resource that exists
now. When the resource goes, its secrets lose their owner, and the garbage
collector removes them in two steps: `Condemn`, when it finds the owner gone,
and `CollectGarbage`, the deletion; `doomed` holds the secrets between the two.
A resource that is created again under the same name adopts the secret it finds:
`SetControllerReference` refuses a secret only if the group, kind or name of its
controller differs, not if the UID does. (controller-runtime is a dependency
outside the repository; the repository uses version 0.24.1.) The collector may
delete a secret that was adopted after it was condemned. A collector that
insists on the version of the secret it has judged would not do so, and the
model allows that too, since nothing obliges `CollectGarbage` to happen.

**`ManagedClient.tla`**: the abstract specification of the client of one resource,
without queue, transaction, retries or crashes. A resource is absent, unguarded
(no finalizer yet), guarded or deleting; a client is registered when there is
none and the resource is guarded, deleted when the resource is deleting, and the
resource is released when no client is left or the client is to be preserved.
`Reconciler.tla` maps its state to it (`Managed`): the phase of the resource comes
from existence, deletion timestamp and finalizer of the stored object, the
clients are those registered in Digdir; everything the operator holds in memory
is hidden.

**`Scopes.tla`**: what `scopes.Process` and `scopes.Finalize` do inside the one
step that `Reconciler.tla` gives each of them, with one step per call to
Digdir, for one resource that exposes several scopes. `exposes` is a function
of the scope name, so a resource does not expose the same name twice; the order
of its entries is any order. A consumer is `absent` from an ACL, or `REQUESTED`,
`APPROVED` or `DENIED` in it; `Unknown` organizations are refused with 400. A
second resource with the same scopes is present as what it does to them in
Digdir (`Other`); the history variable `quiet` says that it did nothing since the
current or last run began.

**`ConsumedScopes.tla`**: `filterConsumedScopes` with `CanAccessScope` and its cache,
which outlives the runs. A step is one remote call or one answer from the cache.
Time passes in ticks: an entry that `GetAccessibleScopes` puts into the cache
lives for `TTL` of them, one that `GetOpenScopes` puts there forever. `lost`,
`unapproved` and `seenOpen` are history: when a scope was last accessible, when
access to it was last not approved, and whether it was open while this process
ran.

**`KeyExpiry.tla`**: how long the registered keys have left, in days. A run is one
step here; what matters is that it looks at the expiry of the newest secret's
key only (`ensureJwkValidExternalState`), which after renaming to and fro is any of
the keys in use, registers the keys of all secrets in use together, and comes at least once in `StaleAfter + MaxDelay` days as long as the
resource is requeued.

**`MCReconciler.tla`**: `Reconciler.tla` with the symmetry set for TLC.

**`ReconcilerProofs.tla`, `RegistrationProofs.tla`, `ManagedClientProofs.tla`,
`KeyProofs.tla`, `UsableProofs.tla`** (about `Reconciler`), **`ScopesProofs.tla`,
`ConsumedScopesProofs.tla`, `KeyExpiryProofs.tla`** (about the module of that name):
the proofs.

A definition that begins with the comment "Wrong ..." is a defective variant of
the definition after it. No specification uses it: substituted for the right
one, it must make a property fail, which shows that the property can tell them
apart.

## The runs

Runs that pass:

| Run | Checks | Bounds |
| --- | --- | --- |
| `lifecycle` | `TypeOK`, `AtMostOneRegistration`, `RegistrationInv`, `SkippedIsUsable`, `RegisteredUnderFinalizer`, `NothingLeftBehind`, `PublishedKeysRegistered`, `ImplementsManagedClient` | 4 user operations (create, edit, rotate, preserve, delete), 2 faults (failed call, lost reply, repeated request, crash), 3 client IDs, 4 keys, 1 secret |
| `rotation` | `SkippedIsUsable`, `UsableInv`, `ListedInv`, `PublishedKeysRegistered`, `UsedKeysKept` | 2 operations (rename, retype, rotate, resync), 1 fault, 2 secret names, 2 integration types, 1 pod, 5 keys |
| `convergence` | `Converges`, `DeletionCompletes` | IDPortenClient; 2 operations (create, edit, resync, rotate, withdraw annotations, delete), 1 fault (failed call, lost reply, crash, lost client, key or secret), 4 client IDs, 4 keys |
| `maskinporten` | `Converges`, `DeletionCompletes` | MaskinportenClient; 1 operation (edit, rotate, delete), 1 fault of any kind, also a repeated registration and a late request; 3 client IDs, 3 keys |
| `scopes` | `TypeOK`, `AccessAsSpecified`, `RunInv`, `GrantedAccessKept`, `DisabledWhenGone`, `Settles`, `Restored` | every initial spec of 2 scopes with 2 organizations, one of them unknown; 1 edit, also while the resource is being deleted, and a deletion; 1 fault, request for access or change by another resource |
| `consumed_scopes` | `TypeOK`, `CacheInv`, `GrantsFresh`, `DenialsFresh`, `ScopesFollowAccess` | 1 client, 2 scopes, entries that live for 2 ticks, 3 changes by owners or users, 1 fault |
| `key_expiry` | `CredentialsValid`, `TermInv` | 3 keys; the real values: 365 days of validity, 30 of threshold, a look every 7, and at most 22 days of failing runs |

`RegistrationInv`, `UsableInv`, `ListedInv`, `RunInv`, `CacheInv` and `TermInv` are the
inductive invariants of the proofs below.

Two faults let a retry fail as well; four operations let a resource be deleted
and created again with an edit on either side. In `scopes` one fault is enough to
cut off a run anywhere, and no later run depends on how often that happened; two
make the state space too large. In `consumed_scopes` one client is
enough, because runs are serial and share only the cache, and an edit makes the
one client ask for other scopes, as another client would; three changes allow a
scope to be granted, revoked and granted again, or opened and closed while
access to it changes. Client IDs and keys are as many
as the longest behaviours need at once, which was checked: no run comes to a
state where the code would create a client or a key and none is left. In
`lifecycle`, `convergence`, `maskinporten` and `scopes` deadlock is not checked,
because a deleted resource is the end of it; nor is it in `consumed_scopes`, where
time always passes. In `rotation` and `key_expiry` it is.

Runs that violate what the repository says, as recorded under "findings" in
`PROJECT.json`:

* `stale_ready`: `process` removes the resync annotation and sets Ready=True
  with two writes. After a crash between them the resource is up to date by
  every test of the code and is skipped, with Ready=False, until the
  synchronization is seven days old.
* `retried_rotation`: a rotation that fails after the secret was written is
  retried with another key. The JWKS is built from what the secrets hold now, so
  the key of a pod that started before the rotation is dropped.
* `late_pod`: the list of unused secrets is several calls old when it is acted
  on; a pod that started meanwhile loses its secret.
* `repeated_post`: `Client.request` sends every call again after a 4xx or 5xx
  answer. A registration that took effect before a 5xx answer is sent again and
  registers a second client with the same description, which nothing deletes.
* `last_scope`: all exposed scopes share one condition, and the last one wins.

`SkippedIsUsable` does not hold if a user withdraws the rotate annotation
between two attempts of a rotation, so `lifecycle` and `rotation` leave that
operation out; `convergence` has it and shows that the resource recovers.
It also allows for one race: after a resource was deleted and created again, the
secret it adopted may be taken by a garbage collector that had condemned it
before. Nothing watches secrets, so the resource is skipped without one until
the synchronization is seven days old; `convergence` has this too, and the
resource recovers. In every other case the secret of a skipped resource exists,
is its own, and holds a registered key.
`Converges` excepts a MaskinportenClient that is `Unattended`: with invalid
consumers in an exposed scope Reconcile does not requeue the resource, and
nothing notices later drift.

Two more limits of the code are left out of the properties they would break.
`AtMostOneRegistration` and the refinement do not hold when the POST that registers
the client is repeated or carried out late, nor, after somebody else deleted the
client, when a crash comes between the new registration and the status: the old
client ID in the status is trusted over the description, so `finalize` looks for
that one and leaves the new client behind. `GrantsFresh` and
`ScopesFollowAccess` except scopes that this process has seen open and that were
closed since, because open scopes stay in the cache until a restart.
`AccessAsSpecified` and `GrantedAccessKept` say nothing about a run into which
another resource with the same scopes has cut; `Restored` says that the scopes are
as the spec wants again and again. With two such resources that disagree, each
restores its own view, and nothing reports it.

**Fairness.** `Reconciler`: weak fairness of the operator as a whole
(controller-runtime keeps its worker going and retries), of the delayed queue, and
of time passing; none of the garbage collector, on which nothing depends. `Scopes`: of the operator, and of the
synchronization getting old, the latter only while the resource is requeued, that
is without invalid consumers. `ConsumedScopes`: of a run in progress and of the
timers; strong fairness of a tick and of the start of a run, since a tick is
only excluded for the short time between two calls, and the work queue hands out
its entries in order. Users, owners, pods, late requests and faults owe nothing;
faults are bounded, since nothing converges while calls keep failing.

## The proofs

For every number of clients, keys, secrets, pods, scopes, organizations,
operations and faults:

* `TypeCorrect`: `Spec => []TypeOK`. The type invariant says more than the ranges
  of the variables: from the upsert to the write of the secret the client is
  known and is the one in `txStatus`, and the key is chosen when it is needed.
* `RegistrationInvariant`, and from it `OneRegistration`, `FinalizerFirst` and
  `NoOrphan`: `AtMostOneRegistration`, `RegisteredUnderFinalizer` and
  `NothingLeftBehind`, under the assumption `Undisturbed`: nobody else deletes
  clients, no registration is repeated, no request is carried out late, and the
  integration type of the spec is left alone. All other faults are allowed,
  repeated updates, key registrations and deletions among them. Each part is
  needed: for the first three see the runs above; without the last, a lost reply
  to a registration followed by a change of the type leaves two clients.
* `RefinesManagedClient`: under `Undisturbed`, `Reconciler` implements
  `ManagedClient`.
* `KeyInvariant`, and from it `KeysPublishedRegistered`:
  `PublishedKeysRegistered`, under `KeysUndisturbed`: nobody else deletes clients or
  keys, and no request is carried out late.
* `ListedInvariant`: `[]ListedInv`, under no assumption; from it `KeysInUseKept`:
  `UsedKeysKept`, under `KeysUndisturbed`.
* `UsableInvariant`, and from it `SkippedUsable`: `SkippedIsUsable`, under
  `LeftAlone`: nobody else deletes clients, keys or secrets, users do not withdraw
  annotations, and no request is carried out late. Registrations may be repeated
  here and integration types change: a second client does not make the first
  unusable. Resources may be deleted and created again, and adopt old secrets.
* `ScopesTypes`, `RunInvariant`, and from them `AccessIsAsSpecified`,
  `NoGrantedAccessLost` and `NoneActiveWhenGone`: `TypeOK`, `RunInv`,
  `AccessAsSpecified`, `GrantedAccessKept` and `DisabledWhenGone` of `Scopes`. All events
  are allowed, another resource with the same scopes among them; what the
  properties except is said in the properties (`quiet`, `current`).
* `CacheTypes`, `CacheInvariant`, and from them `GrantsAreFresh` and
  `DenialsAreFresh`: `TypeOK`, `CacheInv`, `GrantsFresh` and `DenialsFresh` of
  `ConsumedScopes`, for every lifetime of an entry.
* `TermInvariant` and `NoKeyExpires`: `TermInv` and `CredentialsValid` of `KeyExpiry`, for all values with
  `Threshold <= Validity` and `StaleAfter + MaxDelay < Threshold`.

None of the three registration properties is inductive. That a retry registers
no second client depends on what the first attempt left in the status, in the
transaction and in Digdir, and `RegistrationInv` says how the three hang
together: all registered clients have the type of the spec (`ObjectInv`); the
status names the registered client or none (`StatusInv`); a transaction is about
the stored type, and equals the stored object while it is `current`
(`TransactionInv`); in `process` the client of the transaction is registered, and
once `GetRegistration` found none there is none (`ProcessInv`); in `finalize`
nothing but the client of the transaction is registered, and nothing at all
after the deletion, unless it is to be preserved (`FinalizeInv`). The last part
needs `TransactionInv` once more: the finalizer can only be removed by a
transaction that is current, so the preserve annotation it acted on is the one
on the server. The proofs have one case per action; those of the type invariant
go through its four parts (cluster, Digdir, operator, bounds) with a lemma per
kind of write.

The refinement rests on `RegistrationInv` as well. `CreateClient` maps to
`Register`, whose guard `clients = {}` is `ProcessInv`; `AddFinalizer` maps to `Guard`,
because a current transaction at that point is about an object without the
finalizer; `DeleteClient` maps to `Deregister`, since in `finalize` nothing else is
registered; `RemoveFinalizer` maps to `Release` by the last part of `FinalizeInv`.
All actions that leave object and registry alone are stuttering steps. A lost
reply is the same step as the call it belongs to, and a repeated deletion or
update one that changes nothing.

`CredentialsValid` is not inductive either: a run looks at one key, so it must be
known that the others have just as long left. They do, because the keys in use
are only ever registered together (`TermInv`, first part); and days left plus age of
the synchronization never fall below the threshold while the resource is
requeued (second part), so that at the latest possible run something is left.

`SkippedIsUsable` is about a state in which no run need be under way, yet what
makes it true was done by a run, in some ten calls of which the last two write
the resource. `UsableInv` follows them. What the API server stores is consistent by
itself: an observed generation belongs to a registered client, and is not one of
the future, so that every edit makes the resource outdated (`SavedInv`). What the
operator has read agrees with it, equals it while it is `current`, and says so
after a failure (`ReadInv`, `KnownInv`). What the calls of the run have done so far
is still done, for the spec as it was read (`AchievedInv`). And a run in progress
works on a resource that would not be skipped, up to the removal of the
annotations: so the resource can only become one to be skipped by that removal
or by the final status, both of which need a transaction that is `current`, and
there the first parts say that everything is done. The secret must also be
`owned`, or the garbage collector could condemn it: this is why a run has to adopt
what a former resource has left. And if there is no secret after the run wrote
it, then its name is `doomed` (`Delivered`): a secret created anew is none that the
collector is after, so only an adopted one can be lost. `KeyInv` is needed for the step
that writes the secret.

`UsedKeysKept` needs `ListedInv`: between `GetManaged` and `RegisterKeys` no secret
appears and no secret changes, so what exists then was listed. The stronger
statements about running pods do not hold (`retried_rotation`, `late_pod`).

In `Scopes`, `AccessAsSpecified` is established by the last step of a run and by
nothing else, from what each earlier step did for one scope or one consumer.
`RunInv` is the bookkeeping of the two nested loops: scopes that are not on the
lists to create or to update are dealt with (`ProcessInv`); in the scope in hand,
so are all consumers that are not in the changes still to be sent; a change adds
a consumer exactly if the spec lists it (`ChangesInv`); `Finalize` has the same for
its single loop (`FinalizeInv`). All this is about the spec as it was read, and
`CurrentInv` connects it with the spec as it is.

In `ConsumedScopes` neither property says anything of a cache entry before it is
used. `CacheInv` does: time since the scope was accessible (or not approved) plus
ticks the entry has left is at most `TTL`, for every entry that expires; the
others are of scopes that have been open. Between the two calls of a cache miss
there may be no entry at all, and then access was not approved a moment ago: no
time passes between the two.

Model checked only: the liveness properties `Converges`, `DeletionCompletes`,
`Settles`, `Restored` and `ScopesFollowAccess`, which are out of the prover's reach
(fairness and `ENABLED`), and the runs that show a violation. All invariants and
action properties of the passing runs are proved.

## What is not modelled

* Clients of other resources: `GetRegistration` goes through all clients of the
  organization, but only one with the client ID of the status or the description
  of the resource can match.
* An IDPortenClient whose integration type is set to `maskinporten`:
  `toIDPortenClientRegistration` turns it into `idporten` in the payload, while
  `GetIntegrationType` and so `clientMatches` do not.
* A secret of the name in the spec that belongs to a different object: the write
  is refused, run after run, like a call that keeps failing.
* Two entries for the same scope in one resource, and secrets that hold no key
  or an unparsable one.
* How `Reconciler`'s own steps and a second resource with the same scopes
  interleave: the other resource is an environment in `Scopes`.
* Names: `Subscope` joins product and name with `/` when the name has one, so the
  scope in the example of the repository's README (lines 66-69) is
  `prefix:product/some/scope` and not `prefix:product:some/scope`.
* Authentication: a token is fetched for every request before it is sent and is
  not kept, so all it can do is to make a call fail without effect. Cryptography.
* The payloads' default values, the contents of secrets other than key and client
  ID, and configuration, which is read once at the start.
* Metrics and events: nothing reads them back.

## Plan

Done: `Instance`, `Reconciler` with all outcomes of a request, `ManagedClient` and the
refinement, `Scopes` with another resource at work, `ConsumedScopes`, `KeyExpiry`,
their runs, and the proofs above. Left:

1. What still holds when the assumptions of the proofs do not: which parts of
   `RegistrationInv` survive a repeated registration or a late request, and which
   parts of `UsableInv` survive drift.
2. The safety half of the convergence argument: from any state of `Reconciler` a
   run that is not disturbed ends in a usable resource, as a theorem about the
   steps of one run.
