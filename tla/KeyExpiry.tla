----------------------------- MODULE KeyExpiry -----------------------------
(***************************************************************************)
(* The expiry of the keys registered for a client:                         *)
(* ensureJwkValidExternalState of controllers/common/reconciler.go, which  *)
(* looks at the expiry of one key only, and isStale of                     *)
(* pkg/clients/instance.go, which makes it look.  Reconciler.tla leaves    *)
(* open how old a key is; here a key has days left, and all that happens   *)
(* between two runs is that days pass.                                     *)
(*                                                                         *)
(* That Digdir gives every key of a posted key set a new term, also one    *)
(* that it has already, is what the code expects of it ("refreshing...").  *)
(***************************************************************************)
EXTENDS Integers

CONSTANTS
    Keys,        \* JSON web keys
    Validity,    \* days that Digdir accepts a key from its registration on
    Threshold,   \* expiryThreshold: fewer days left are too few (30)
    StaleAfter,  \* StaleSyncThresholdDuration in days (7)
    MaxDelay     \* days until a stale resource has been processed

ASSUME KeyExpiryAssumption ==
    /\ Validity \in Nat
    /\ Threshold \in Nat
    /\ StaleAfter \in Nat
    /\ MaxDelay \in Nat
    /\ Threshold <= Validity
    /\ StaleAfter + MaxDelay < Threshold

VARIABLES
    left,      \* days each key has left in Digdir; 0 if it has none or is unknown
    current,   \* the key of the secret that the spec names
    used,      \* the keys of the managed secrets that pods refer to
    age,       \* days since the last synchronization
    attended   \* the resource is requeued

vars == <<left, current, used, age, attended>>

Deadline == StaleAfter + MaxDelay

\* The types of the variables.
TypeOK ==
    /\ left \in [Keys -> 0..Validity]
    /\ current \in Keys
    /\ used \in SUBSET Keys
    /\ age \in 0..Deadline
    /\ attended \in BOOLEAN

-----------------------------------------------------------------------------
\* Wrong RegisterKeys: the keys in use elsewhere are left out.
RegisterKeysNewOnly(keys, newest) == [k \in Keys |-> IF k = newest THEN Validity ELSE 0]

\* RegisterKeys with the newest key and the others: Digdir then has these keys.
RegisterKeys(keys, newest) ==
    [k \in Keys |-> IF k \in keys \cup {newest} THEN Validity ELSE 0]

\* Wrong Expiring: a key is refreshed on the day it has expired.
ExpiringTooLate(key) == left[key] < 1

\* The key is not found in Digdir, or about to expire.
Expiring(key) == left[key] < Threshold

\* A completed run.  A MaskinportenClient with invalid consumers in an exposed
\* scope is not requeued after it.
Synchronize ==
    /\ age' = 0
    /\ attended' \in BOOLEAN

\* A run without rotation.  It takes the key of the newest managed secret, which
\* after renaming to and fro is not the one that the spec names.
ensureJwkValidExternalState ==
    /\ \E key \in used \cup {current} :
         /\ left' = IF Expiring(key) THEN RegisterKeys(used, key) ELSE left
         /\ current' = key
    /\ Synchronize
    /\ UNCHANGED used

\* A run with rotation: a new key for the secret.  The secret with the old key
\* is another one that a pod still uses, or it is overwritten or deleted.
RotateKey ==
    /\ \E key \in {k \in Keys \ (used \cup {current}) : left[k] = 0} :
         /\ current' = key
         /\ used' \in {used, used \cup {current}}
         /\ left' = RegisterKeys(used', key)
    /\ Synchronize

\* The last pod that used an old secret stops.
Release ==
    /\ \E k \in used : used' = used \ {k}
    /\ UNCHANGED <<left, current, age, attended>>

\* A day passes.  A resource that is requeued gets stale, is looked at within
\* hours and retried until a run has completed.
Day ==
    /\ attended => age < Deadline
    /\ age' = IF age < Deadline THEN age + 1 ELSE age
    /\ left' = [k \in Keys |-> IF left[k] > 0 THEN left[k] - 1 ELSE 0]
    /\ UNCHANGED <<current, used, attended>>

\* The first run has just completed.
Init ==
    /\ current \in Keys
    /\ used = {}
    /\ left = RegisterKeys({}, current)
    /\ age = 0
    /\ attended = TRUE

Next == ensureJwkValidExternalState \/ RotateKey \/ Release \/ Day

Spec == Init /\ [][Next]_vars

-----------------------------------------------------------------------------
(* Correctness. *)

\* As long as the resource is requeued, Digdir accepts the key of its secret
\* and the key of every other secret that a pod uses, although each run looks at
\* the expiry of one key only, and not always at the same.
CredentialsValid == attended => \A k \in used \cup {current} : left[k] > 0

\* Why: the keys have one and the same term, and that does not run out before
\* the next run.
TermInv ==
    /\ \A k \in used : left[k] = left[current]
    /\ attended => left[current] + age >= Threshold
=============================================================================
