--------------------------- MODULE ConsumedScopes ---------------------------
(***************************************************************************)
(* The scopes that MaskinportenClients consume: filterConsumedScopes of    *)
(* controllers/common/reconciler.go, with CanAccessScope,                  *)
(* GetAccessibleScopes and GetOpenScopes of pkg/digdir/client.go and the   *)
(* cache they share.                                                       *)
(*                                                                         *)
(* Reconciler.tla takes filterConsumedScopes for one resource as one step. *)
(* Here several resources are reconciled one after the other (the          *)
(* controller has one worker) by a process whose cache outlives their      *)
(* runs, while owners of scopes grant, deny, open and close them.  Of the  *)
(* rest of Reconcile the model keeps when a run starts, the update of the  *)
(* client at its end, and how it is repeated.                              *)
(*                                                                         *)
(* Time passes in ticks; an entry of the cache lives for TTL of them (10   *)
(* minutes).  The two calls after a cache miss are short against a tick.   *)
(***************************************************************************)
EXTENDS Naturals

CONSTANTS
    Clients,       \* MaskinportenClients
    Scopes,        \* names of scopes
    ClientScope,   \* the scope of a client that consumes none
    TTL,           \* ticks an entry of the cache lives
    None,          \* nothing here
    Events,        \* what owners, users and the network do
    MaxEdits,      \* bound on the number of changes by owners and users
    MaxFaults      \* bound on the number of faults

ASSUME ConsumedScopesAssumption ==
    /\ ClientScope \in Scopes
    /\ TTL \in Nat \ {0}
    /\ None \notin Clients
    /\ None \notin Scopes
    /\ None \notin [access : BOOLEAN, left : 0..TTL]
    /\ Events \subseteq {"decide", "open", "close", "edit", "fail", "lostReply", "crash"}
    /\ MaxEdits \in Nat
    /\ MaxFaults \in Nat

VARIABLES
    \* Digdir
    state,       \* the state of the organization's access to each scope, or "none"
    open,        \* the scopes that are accessible for all
    registered,  \* the scopes each client is registered with
    \* the resources
    consumes,    \* spec.scopes.consumes
    queue,       \* each resource is "ready", "later" or "running"
    \* the operator
    cache,       \* scopeCache: what is known of each scope, or None
    pc,          \* "idle", "check" (CanAccessScope) or "getOpen" (GetOpenScopes)
    client,      \* the client of the run
    desired,     \* the scopes still to be checked
    asked,       \* the scope of the cache miss
    valid,       \* the scopes found accessible
    \* history
    lost,        \* ticks since each scope was last accessible, up to TTL
    unapproved,  \* ticks since access to it was last not approved, up to TTL
    seenOpen,    \* the scopes that were open while this process was running
    \* bounds
    edits, faults

digdirVars  == <<state, open>>
runVars     == <<pc, client, desired, asked, valid>>
historyVars == <<lost, unapproved, seenOpen>>
bounds      == <<edits, faults>>
vars        == <<digdirVars, registered, consumes, queue, cache, runVars, historyVars, bounds>>

States == {"none", "REQUESTED", "APPROVED", "DENIED"}

\* An entry of the cache and the ticks it has left; 0 is no expiration.
Entry == [access : BOOLEAN, left : 0..TTL]

\* The type invariant.  Between the two calls of a cache miss, the scope asked
\* for is still to be checked; between two runs there is nothing to check.
TypeOK ==
    /\ state \in [Scopes -> States]
    /\ open \subseteq Scopes
    /\ registered \in [Clients -> SUBSET Scopes]
    /\ consumes \in [Clients -> SUBSET Scopes]
    /\ queue \in [Clients -> {"ready", "later", "running"}]
    /\ cache \in [Scopes -> Entry \cup {None}]
    /\ pc \in {"idle", "check", "getOpen"}
    /\ client \in IF pc = "idle" THEN {None} ELSE Clients
    /\ desired \subseteq Scopes
    /\ asked \in IF pc = "getOpen" THEN desired ELSE {None}
    /\ valid \subseteq Scopes \ desired
    /\ pc = "idle" => desired = {} /\ valid = {}
    /\ lost \in [Scopes -> 0..TTL]
    /\ unapproved \in [Scopes -> 0..TTL]
    /\ open \subseteq seenOpen /\ seenOpen \subseteq Scopes
    /\ edits \in 0..MaxEdits
    /\ faults \in 0..MaxFaults

-----------------------------------------------------------------------------
(* A run of Reconcile, as far as consumed scopes matter. *)

\* A client without consumed scopes gets a default, since Digdir registers none
\* without scopes.
Desired(c) == IF consumes[c] = {} THEN {ClientScope} ELSE consumes[c]

Start(c) ==
    /\ pc = "idle"
    /\ queue[c] = "ready"
    /\ queue' = [queue EXCEPT ![c] = "running"]
    /\ pc' = "check"
    /\ client' = c
    /\ desired' = Desired(c)
    /\ UNCHANGED <<digdirVars, registered, consumes, cache, asked, valid, historyVars, bounds>>

\* The run is over.
End(next) ==
    /\ queue' = [queue EXCEPT ![client] = IF @ = "ready" THEN "ready" ELSE next]
    /\ pc' = "idle"
    /\ client' = None
    /\ desired' = {}
    /\ asked' = None
    /\ valid' = {}

\* Wrong Checked: a scope that was found valid is looked at again.
CheckedAgain(s, access) ==
    /\ desired' = IF access THEN desired ELSE desired \ {s}
    /\ valid' = IF access THEN valid \cup {s} ELSE valid

\* The scope is dealt with: it is valid if it is accessible.
Checked(s, access) ==
    /\ desired' = desired \ {s}
    /\ valid' = IF access THEN valid \cup {s} ELSE valid

\* CanAccessScope answers from the cache.
CacheHit ==
    /\ pc = "check"
    /\ \E s \in desired : cache[s] # None /\ Checked(s, cache[s].access)
    /\ UNCHANGED <<digdirVars, registered, consumes, queue, cache, pc, client, asked,
                   historyVars, bounds>>

IsAccessible(s) == s = "APPROVED"

\* Wrong Expiring: the entries of granted scopes do not expire.
ExpiringNever(access) == [access |-> access, left |-> 0]

\* An entry with expiration.
Expiring(access) == [access |-> access, left |-> TTL]

\* The answer to GetAccessibleScopes, put into the cache.
Accessible ==
    [s \in Scopes |-> IF state[s] = "none" THEN cache[s] ELSE Expiring(IsAccessible(state[s]))]

\* The answer to GetOpenScopes, put into the cache.
Open ==
    [s \in Scopes |-> IF s \in open THEN [access |-> TRUE, left |-> 0] ELSE cache[s]]

\* CanAccessScope does not find the scope in the cache: GetAccessibleScopes,
GetAccessibleScopes ==
    /\ pc = "check"
    /\ \E s \in desired : cache[s] = None /\ asked' = s
    /\ cache' = Accessible
    /\ pc' = "getOpen"
    /\ UNCHANGED <<digdirVars, registered, consumes, queue, client, desired, valid,
                   historyVars, bounds>>

\* Wrong GetOpenScopes: a scope that was not in the cache is taken as closed.
GetOpenScopesOnly ==
    /\ pc = "getOpen"
    /\ cache' = Open
    /\ Checked(asked, FALSE)
    /\ asked' = None
    /\ pc' = "check"
    /\ UNCHANGED <<digdirVars, registered, consumes, queue, client, historyVars, bounds>>

\* then GetOpenScopes, and it looks again.
GetOpenScopes ==
    /\ pc = "getOpen"
    /\ cache' = Open
    /\ Checked(asked, cache'[asked] # None /\ cache'[asked].access)
    /\ asked' = None
    /\ pc' = "check"
    /\ UNCHANGED <<digdirVars, registered, consumes, queue, client, historyVars, bounds>>

\* Wrong UpdateClient: the payload keeps the scopes that ToClientRegistration
\* took from the spec.
UpdateClientUnfiltered ==
    /\ pc = "check"
    /\ desired = {}
    /\ registered' = [registered EXCEPT ![client] = consumes[client]]
    /\ End("later")
    /\ UNCHANGED <<digdirVars, consumes, cache, historyVars, bounds>>

\* All scopes are checked: the client is updated with the valid ones.
UpdateClient ==
    /\ pc = "check"
    /\ desired = {}
    /\ registered' = [registered EXCEPT ![client] = valid]
    /\ End("later")
    /\ UNCHANGED <<digdirVars, consumes, cache, historyVars, bounds>>

\* An hour after a run that found invalid scopes, or seven days after one that
\* found none, the resource is processed again.  (One that is not requeued, for
\* invalid consumers of a scope that it exposes, is left out of this model.)
Requeue(c) ==
    /\ queue[c] = "later"
    /\ queue' = [queue EXCEPT ![c] = "ready"]
    /\ UNCHANGED <<digdirVars, registered, consumes, cache, runVars, historyVars, bounds>>

-----------------------------------------------------------------------------
(* What goes wrong. *)

Fault(kind) ==
    /\ kind \in Events
    /\ faults < MaxFaults
    /\ faults' = faults + 1
    /\ UNCHANGED <<digdirVars, consumes, edits>>

\* A call fails, and the run with it; what the cache has learnt stays.
Fail ==
    /\ Fault("fail")
    /\ pc # "idle"
    /\ End("ready")
    /\ UNCHANGED <<registered, cache, historyVars>>

\* The update of the client takes effect, but seems to fail.
LostReply ==
    /\ Fault("lostReply")
    /\ pc = "check"
    /\ desired = {}
    /\ registered' = [registered EXCEPT ![client] = valid]
    /\ End("ready")
    /\ UNCHANGED <<cache, historyVars>>

\* A new process starts with an empty cache and every resource in its queue.
Crash ==
    /\ Fault("crash")
    /\ pc' = "idle"
    /\ client' = None
    /\ desired' = {}
    /\ asked' = None
    /\ valid' = {}
    /\ queue' = [c \in Clients |-> "ready"]
    /\ cache' = [s \in Scopes |-> None]
    /\ seenOpen' = open
    /\ UNCHANGED <<registered, lost, unapproved>>

-----------------------------------------------------------------------------
(* Everybody else. *)

\* The organization can really access the scope.
CanAccess(s) == s \in open \/ state[s] = "APPROVED"

Edit(kind) ==
    /\ kind \in Events
    /\ edits < MaxEdits
    /\ edits' = edits + 1
    /\ UNCHANGED <<registered, cache, runVars, faults>>

\* History after a change in Digdir.
Observe ==
    /\ lost' = [s \in Scopes |-> IF CanAccess(s)' THEN 0 ELSE lost[s]]
    /\ unapproved' = [s \in Scopes |-> IF state'[s] = "APPROVED" THEN unapproved[s] ELSE 0]
    /\ seenOpen' = seenOpen \cup open'

\* The owner of a scope decides about access to it.
Decide(s) ==
    /\ Edit("decide")
    /\ \E new \in States \ {state[s]} : state' = [state EXCEPT ![s] = new]
    /\ UNCHANGED <<open, consumes, queue>>
    /\ Observe

\* The owner opens a scope to everybody, or closes it.
OpenUp(s) ==
    /\ Edit("open")
    /\ open' = open \cup {s}
    /\ open' # open
    /\ UNCHANGED <<state, consumes, queue>>
    /\ Observe

Close(s) ==
    /\ Edit("close")
    /\ open' = open \ {s}
    /\ open' # open
    /\ UNCHANGED <<state, consumes, queue>>
    /\ Observe

\* A user changes the scopes that a client consumes.
Apply(c) ==
    /\ Edit("edit")
    /\ \E new \in (SUBSET Scopes) \ {consumes[c]} : consumes' = [consumes EXCEPT ![c] = new]
    /\ queue' = [queue EXCEPT ![c] = "ready"]
    /\ UNCHANGED <<digdirVars, historyVars>>

Older(n) == IF n < TTL THEN n + 1 ELSE TTL

\* A tick: entries get older and expire.
Tick ==
    /\ pc # "getOpen"
    /\ cache' = [s \in Scopes |->
                   IF cache[s] = None \/ cache[s].left = 0 THEN cache[s]
                   ELSE IF cache[s].left = 1 THEN None
                   ELSE [cache[s] EXCEPT !.left = @ - 1]]
    /\ lost' = [s \in Scopes |-> IF CanAccess(s) THEN 0 ELSE Older(lost[s])]
    /\ unapproved' = [s \in Scopes |-> IF state[s] = "APPROVED" THEN Older(unapproved[s]) ELSE 0]
    /\ UNCHANGED <<digdirVars, registered, consumes, queue, runVars, seenOpen, bounds>>

-----------------------------------------------------------------------------
Init ==
    /\ state \in [Scopes -> {"none", "REQUESTED"}]
    /\ open = {}
    /\ registered = [c \in Clients |-> {}]
    /\ consumes \in [Clients -> SUBSET Scopes]
    /\ queue = [c \in Clients |-> "ready"]
    /\ cache = [s \in Scopes |-> None]
    /\ pc = "idle"
    /\ client = None
    /\ desired = {}
    /\ asked = None
    /\ valid = {}
    /\ lost = [s \in Scopes |-> TTL]
    /\ unapproved = [s \in Scopes |-> 0]
    /\ seenOpen = {}
    /\ edits = 0
    /\ faults = 0

Run == CacheHit \/ GetAccessibleScopes \/ GetOpenScopes \/ UpdateClient

Next ==
    \/ Run
    \/ \E c \in Clients : Start(c) \/ Requeue(c) \/ Apply(c)
    \/ Fail \/ LostReply \/ Crash
    \/ \E s \in Scopes : Decide(s) \/ OpenUp(s) \/ Close(s)
    \/ Tick

Spec == Init /\ [][Next]_vars

\* A run goes on, timers fire, time passes, and the work queue hands out its
\* entries in the order they came in, so that every resource gets its turn.
FairSpec ==
    /\ Spec
    /\ WF_vars(Run)
    /\ SF_vars(Tick)
    /\ \A c \in Clients : SF_vars(Start(c)) /\ WF_vars(Requeue(c))

-----------------------------------------------------------------------------
(* Correctness. *)

\* The history is that of Digdir.
HistoryInv ==
    \A s \in Scopes :
        /\ CanAccess(s) => lost[s] = 0
        /\ state[s] # "APPROVED" => unapproved[s] = 0

\* An entry without expiration is that of a scope once open.
Permanent(s) == cache[s].left = 0 /\ cache[s].access /\ s \in seenOpen

\* An entry that expires does so at the latest TTL after the scope was last as
\* the entry says.
Recent(s) ==
    /\ cache[s].left > 0
    /\ (IF cache[s].access THEN lost[s] ELSE unapproved[s]) + cache[s].left <= TTL

\* No entry of the cache outlives what it says of the scope by more than TTL,
\* except that open scopes are never forgotten.  A scope that is still not in
\* the cache after GetAccessibleScopes was not approved a moment ago.
CacheInv ==
    /\ HistoryInv
    /\ \A s \in {x \in Scopes : cache[x] # None} : Permanent(s) \/ Recent(s)
    /\ pc = "getOpen" /\ cache[asked] = None => unapproved[asked] = 0

\* CanAccessScope says yes only to a scope that was accessible within the last
\* TTL, even if the answer comes from the cache, or that was open at some time
\* since the process started.
GrantsFresh ==
    [][\A s \in valid' \ valid : lost[s] < TTL \/ s \in seenOpen]_vars

\* CanAccessScope says no only to a scope to which access was not approved at
\* some time within the last TTL.  (The scope may be open: if GetOpenScopes
\* fails, what GetAccessibleScopes has put into the cache stays there alone.)
DenialsFresh ==
    [][\A s \in desired \ desired' : pc' = "idle" \/ s \in valid' \/ unapproved[s] < TTL]_vars

\* The scopes that were closed after this process had seen them open.
Closed == seenOpen \ open

\* Once owners and users leave the scopes alone, each client is registered with
\* those of its scopes that are accessible, whatever the cache held and
\* whichever calls failed before.  Scopes closed by their owner are left out.
ScopesFollowAccess ==
    \A c \in Clients :
        <>[](registered[c] \ Closed = {s \in Desired(c) : CanAccess(s)} \ Closed)
=============================================================================
