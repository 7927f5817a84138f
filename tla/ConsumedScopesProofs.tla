------------------------ MODULE ConsumedScopesProofs ------------------------
(***************************************************************************)
(* The scope cache, for every value of the constants: what CanAccessScope  *)
(* answers is never older than the life of an entry, whatever the owners   *)
(* of the scopes decide between two calls and whenever a call fails or the *)
(* process restarts.                                                       *)
(***************************************************************************)
EXTENDS ConsumedScopes, TLAPS

USE ConsumedScopesAssumption

\* Ending a run keeps the types of the variables it assigns.
LEMMA TypeEnd ==
    ASSUME TypeOK, NEW next \in {"ready", "later"}, End(next)
    PROVE  /\ queue' \in [Clients -> {"ready", "later", "running"}]
           /\ client' \in IF pc' = "idle" THEN {None} ELSE Clients
           /\ desired' \subseteq Scopes
           /\ asked' \in IF pc' = "getOpen" THEN desired' ELSE {None}
           /\ valid' \subseteq Scopes \ desired'
           /\ pc' = "idle" /\ desired' = {} /\ valid' = {}
  BY DEF TypeOK, End

\* An entry is something.
LEMMA EntryNotNone ==
    \A a \in BOOLEAN : /\ Expiring(a) \in Entry /\ Expiring(a) # None
                       /\ [access |-> a, left |-> 0] \in Entry /\ [access |-> a, left |-> 0] # None
<1>1. \A a \in BOOLEAN : Expiring(a) \in Entry /\ [access |-> a, left |-> 0] \in Entry
  BY DEF Expiring, Entry
<1>2. None \notin Entry
  BY DEF Entry
<1> QED BY <1>1, <1>2

\* What GetAccessibleScopes and GetOpenScopes put into the cache are entries.
LEMMA TypeCache ==
    ASSUME TypeOK
    PROVE  /\ Accessible \in [Scopes -> Entry \cup {None}]
           /\ Open \in [Scopes -> Entry \cup {None}]
<1>1. \A x : IsAccessible(x) \in BOOLEAN
  BY DEF IsAccessible
<1> QED BY <1>1, EntryNotNone DEF TypeOK, Accessible, Open

\* Time keeps the types of what gets older.
LEMMA TypeTick == ASSUME TypeOK, Tick PROVE TypeOK'
<1>1. \A n \in 0..TTL : Older(n) \in 0..TTL
  BY DEF Older
<1>2. lost' \in [Scopes -> 0..TTL] /\ unapproved' \in [Scopes -> 0..TTL]
  BY <1>1 DEF Tick, TypeOK
<1>3. ASSUME NEW s \in Scopes, cache[s] # None, cache[s].left # 0
      PROVE  [cache[s] EXCEPT !.left = @ - 1] \in Entry
  <2>1. cache[s] \in Entry
    BY <1>3 DEF TypeOK
  <2>2. cache[s].left - 1 \in 0..TTL
    BY <1>3, <2>1 DEF Entry
  <2> QED BY <2>1, <2>2 DEF Entry
<1>4. cache' \in [Scopes -> Entry \cup {None}]
  BY <1>3 DEF Tick, TypeOK
<1> QED BY <1>2, <1>4 DEF Tick, TypeOK, digdirVars, runVars, bounds

\* Every step preserves the types.
LEMMA TypeStep == ASSUME TypeOK, [Next]_vars PROVE TypeOK'
<1>1. CASE CacheHit
  BY <1>1 DEF CacheHit, Checked, TypeOK, digdirVars, historyVars, bounds
<1>2. CASE GetAccessibleScopes
  BY <1>2, TypeCache DEF GetAccessibleScopes, TypeOK, digdirVars, historyVars, bounds
<1>3. CASE GetOpenScopes
  BY <1>3, TypeCache DEF GetOpenScopes, Checked, TypeOK, digdirVars, historyVars, bounds
<1>4. CASE UpdateClient
  BY <1>4, TypeEnd DEF UpdateClient, TypeOK, digdirVars, historyVars, bounds
<1>5. ASSUME NEW c \in Clients, Start(c) PROVE TypeOK'
  BY <1>5 DEF Start, Desired, TypeOK, digdirVars, historyVars, bounds
<1>6. ASSUME NEW c \in Clients, Requeue(c) \/ Apply(c) PROVE TypeOK'
  BY <1>6 DEF Requeue, Apply, Edit, TypeOK, digdirVars, runVars, historyVars, bounds
<1>7. CASE Fail
  BY <1>7, TypeEnd DEF Fail, Fault, TypeOK, digdirVars, historyVars
<1>8. CASE LostReply
  BY <1>8, TypeEnd DEF LostReply, Fault, TypeOK, digdirVars, historyVars
<1>9. CASE Crash
  BY <1>9 DEF Crash, Fault, TypeOK, digdirVars
<1>10. ASSUME NEW s \in Scopes, Decide(s) \/ OpenUp(s) \/ Close(s) PROVE TypeOK'
  <2>1. lost' \in [Scopes -> 0..TTL] /\ unapproved' \in [Scopes -> 0..TTL]
    BY <1>10 DEF Decide, OpenUp, Close, Observe, TypeOK
  <2>2. /\ state' \in [Scopes -> States]
        /\ open' \subseteq Scopes
        /\ open' \subseteq seenOpen' /\ seenOpen' \subseteq Scopes
    BY <1>10 DEF Decide, OpenUp, Close, Observe, TypeOK
  <2> QED BY <1>10, <2>1, <2>2 DEF Decide, OpenUp, Close, Edit, TypeOK, runVars
<1>11. CASE Tick
  BY <1>11, TypeTick
<1>12. CASE UNCHANGED vars
  BY <1>12 DEF vars, TypeOK, digdirVars, runVars, historyVars, bounds
<1> QED
  BY <1>1, <1>2, <1>3, <1>4, <1>5, <1>6, <1>7, <1>8, <1>9, <1>10, <1>11, <1>12 DEF Next, Run

\* The variables of the consumed scopes, their cache and its history always
\* have their types; between the two calls after a cache miss the scope asked
\* for is still to be checked.
THEOREM CacheTypes == Spec => []TypeOK
<1>1. Init => TypeOK
  BY DEF Init, TypeOK, States
<1>2. TypeOK /\ [Next]_vars => TypeOK'
  BY TypeStep
<1> QED BY <1>1, <1>2, PTL DEF Spec

-----------------------------------------------------------------------------
(* The age of what the cache says. *)

\* Steps that change neither Digdir nor the cache nor the history, and that do
\* not ask for another scope, preserve CacheInv.
LEMMA CacheElsewhere ==
    ASSUME CacheInv, UNCHANGED <<digdirVars, cache, historyVars>>, pc' # "getOpen" \/ UNCHANGED runVars
    PROVE  CacheInv'
  BY DEF CacheInv, HistoryInv, CanAccess, Permanent, Recent, digdirVars, historyVars, runVars

\* The answer to GetAccessibleScopes is as old as the history says.
LEMMA CacheAccessible == ASSUME TypeOK, CacheInv, GetAccessibleScopes PROVE CacheInv'
<1> USE DEF GetAccessibleScopes, digdirVars, historyVars
<1>1. HistoryInv'
  BY DEF CacheInv, HistoryInv, CanAccess
<1>2. ASSUME NEW s \in Scopes, cache'[s] # None
      PROVE  (Permanent(s) \/ Recent(s))'
  <2>1. CASE state[s] = "none"
    <3>1. cache'[s] = cache[s]
      BY <2>1 DEF Accessible
    <3> QED BY <1>2, <3>1 DEF CacheInv, Permanent, Recent
  <2>2. CASE state[s] # "none"
    <3>1. cache'[s].access = (state[s] = "APPROVED") /\ cache'[s].left = TTL
      BY <2>2 DEF Accessible, Expiring, IsAccessible
    <3>2. state[s] = "APPROVED" => lost[s] = 0
      BY DEF CacheInv, HistoryInv, CanAccess
    <3>3. state[s] # "APPROVED" => unapproved[s] = 0
      BY DEF CacheInv, HistoryInv
    <3>4. CASE state[s] = "APPROVED"
      <4>1. lost'[s] = 0 /\ cache'[s].access
        BY <3>1, <3>2, <3>4
      <4> HIDE DEF GetAccessibleScopes
      <4> QED BY <3>1, <4>1 DEF Recent
    <3>5. CASE state[s] # "APPROVED"
      <4>1. unapproved'[s] = 0 /\ ~cache'[s].access
        BY <3>1, <3>3, <3>5
      <4> HIDE DEF GetAccessibleScopes
      <4> QED BY <3>1, <4>1 DEF Recent
    <3> QED BY <3>4, <3>5
  <2> QED BY <2>1, <2>2
<1>3. cache'[asked'] = None => unapproved'[asked'] = 0
  <2>1. asked' \in Scopes
    BY DEF TypeOK
  <2>2. state[asked'] # "none" => cache'[asked'] # None
    BY <2>1, EntryNotNone DEF Accessible, IsAccessible
  <2> QED BY <2>1, <2>2 DEF CacheInv, HistoryInv
<1> QED BY <1>1, <1>2, <1>3 DEF CacheInv

\* The answer to GetOpenScopes is about scopes that were open.
LEMMA CacheOpen == ASSUME TypeOK, CacheInv, GetOpenScopes PROVE CacheInv'
<1> USE DEF GetOpenScopes, digdirVars, historyVars
<1>1. HistoryInv'
  BY DEF CacheInv, HistoryInv, CanAccess
<1>2. ASSUME NEW s \in Scopes, cache'[s] # None
      PROVE  (Permanent(s) \/ Recent(s))'
  <2>1. CASE s \in open
    BY <2>1 DEF Open, TypeOK, Permanent
  <2>2. CASE s \notin open
    <3>1. cache'[s] = cache[s]
      BY <2>2 DEF Open
    <3> QED BY <1>2, <3>1 DEF CacheInv, Permanent, Recent
  <2> QED BY <2>1, <2>2
<1> QED BY <1>1, <1>2 DEF CacheInv

\* What owners do can only make a scope accessible, or not approved, more
\* recently.
LEMMA CacheObserve ==
    ASSUME TypeOK, CacheInv, Observe, UNCHANGED <<cache, runVars>>
    PROVE  CacheInv'
<1>1. HistoryInv'
  BY DEF Observe, CacheInv, HistoryInv
<1>2. ASSUME NEW s \in Scopes
      PROVE  /\ lost'[s] <= lost[s] /\ unapproved'[s] <= unapproved[s]
             /\ unapproved[s] = 0 => unapproved'[s] = 0
             /\ lost[s] \in 0..TTL /\ unapproved[s] \in 0..TTL
             /\ lost'[s] \in 0..TTL /\ unapproved'[s] \in 0..TTL
  BY DEF Observe, TypeOK
<1>3. ASSUME NEW s \in Scopes, cache'[s] # None
      PROVE  (Permanent(s) \/ Recent(s))'
  <2>1. cache[s] \in Entry
    BY <1>3 DEF TypeOK
  <2>2. cache'[s] = cache[s] /\ seenOpen \subseteq seenOpen'
    BY DEF Observe
  <2> QED BY <1>2, <1>3, <2>1, <2>2 DEF CacheInv, Permanent, Recent, Entry
<1>4. pc = "getOpen" => asked \in Scopes
  BY DEF TypeOK
<1> QED BY <1>1, <1>2, <1>3, <1>4 DEF CacheInv, runVars

\* An entry gets older as fast as the history.
LEMMA CacheTick == ASSUME TypeOK, CacheInv, Tick PROVE CacheInv'
<1>1. HistoryInv'
  BY DEF Tick, CacheInv, HistoryInv, CanAccess, digdirVars, TypeOK
<1>2. ASSUME NEW s \in Scopes, cache'[s] # None
      PROVE  (Permanent(s) \/ Recent(s))'
  <2>1. cache[s] # None /\ cache[s] \in Entry
    BY <1>2 DEF Tick, TypeOK
  <2>2. CASE cache[s].left = 0
    BY <2>1, <2>2 DEF Tick, CacheInv, Permanent, Recent
  <2>3. CASE cache[s].left # 0
    <3>1. cache[s].left \in 2..TTL
      <4>1. cache[s].left # 1
        BY <1>2, <2>1, <2>3 DEF Tick
      <4> QED BY <2>1, <2>3, <4>1 DEF Entry
    <3>2. cache'[s].left = cache[s].left - 1 /\ cache'[s].access = cache[s].access
      BY <2>1, <3>1 DEF Tick, Entry
    <3>3. /\ lost[s] \in 0..TTL /\ lost'[s] \in 0..TTL /\ lost'[s] <= lost[s] + 1
          /\ unapproved[s] \in 0..TTL /\ unapproved'[s] \in 0..TTL
          /\ unapproved'[s] <= unapproved[s] + 1
      BY DEF Tick, TypeOK, Older
    <3>4. Recent(s)
      BY <2>1, <3>1 DEF CacheInv, Permanent
    <3> QED BY <2>1, <3>1, <3>2, <3>3, <3>4 DEF Recent, Entry
  <2> QED BY <2>2, <2>3
<1>3. pc' # "getOpen"
  BY DEF Tick, runVars
<1> QED BY <1>1, <1>2, <1>3 DEF CacheInv

\* Every step preserves CacheInv.
LEMMA CacheStep == ASSUME TypeOK, CacheInv, [Next]_vars PROVE CacheInv'
<1>1. CASE CacheHit
  BY <1>1, CacheElsewhere DEF CacheHit
<1>2. CASE GetAccessibleScopes
  BY <1>2, CacheAccessible
<1>3. CASE GetOpenScopes
  BY <1>3, CacheOpen
<1>4. CASE UpdateClient
  BY <1>4, CacheElsewhere DEF UpdateClient, End
<1>5. ASSUME NEW c \in Clients, Start(c) \/ Requeue(c) \/ Apply(c) PROVE CacheInv'
  BY <1>5, CacheElsewhere DEF Start, Requeue, Apply, Edit
<1>6. CASE Fail \/ LostReply
  BY <1>6, CacheElsewhere DEF Fail, LostReply, Fault, End
<1>7. CASE Crash
  BY <1>7 DEF Crash, Fault, CacheInv, HistoryInv, CanAccess, digdirVars
<1>8. ASSUME NEW s \in Scopes, Decide(s) \/ OpenUp(s) \/ Close(s) PROVE CacheInv'
  BY <1>8, CacheObserve DEF Decide, OpenUp, Close, Edit
<1>9. CASE Tick
  BY <1>9, CacheTick
<1>10. CASE UNCHANGED vars
  BY <1>10, CacheElsewhere DEF vars
<1> QED
  BY <1>1, <1>2, <1>3, <1>4, <1>5, <1>6, <1>7, <1>8, <1>9, <1>10 DEF Next, Run

\* The cache never holds an answer that outlives what it says of the scope by
\* more than the life of an entry, except about open scopes: for any number of
\* clients and scopes, any life of an entry, and whatever fails or restarts.
THEOREM CacheInvariant == Spec => []CacheInv
<1>1. Init => CacheInv
  BY DEF Init, CacheInv, HistoryInv, CanAccess
<1>2. TypeOK /\ CacheInv /\ [Next]_vars => CacheInv'
  BY CacheStep
<1> QED BY <1>1, <1>2, CacheTypes, PTL DEF Spec

\* A scope that CanAccessScope says yes to was accessible less than the life of
\* an entry ago, or was open since the process started.
THEOREM GrantsAreFresh == Spec => GrantsFresh
<1> DEFINE Fresh == \A s \in valid' \ valid : lost[s] < TTL \/ s \in seenOpen
<1>1. TypeOK /\ CacheInv /\ [Next]_vars => [Fresh]_vars
  <2> SUFFICES ASSUME TypeOK, CacheInv, Next, NEW s \in valid' \ valid
               PROVE  lost[s] < TTL \/ s \in seenOpen
    OBVIOUS
  <2>1. ASSUME s \in Scopes, cache[s] # None, cache[s].access
        PROVE  lost[s] < TTL \/ s \in seenOpen
    <3>1. cache[s] \in Entry /\ lost[s] \in 0..TTL
      BY <2>1 DEF TypeOK
    <3> QED BY <2>1, <3>1 DEF CacheInv, Permanent, Recent, Entry
  <2>2. CASE CacheHit
    BY <2>1, <2>2 DEF CacheHit, Checked, TypeOK
  <2>3. CASE GetOpenScopes
    <3>1. s = asked /\ s \in Scopes /\ cache'[s] # None /\ cache'[s].access
      BY <2>3 DEF GetOpenScopes, Checked, TypeOK
    <3> QED BY <2>1, <2>3, <3>1 DEF GetOpenScopes, Open, TypeOK
  <2> QED
    BY <2>2, <2>3
    DEF Next, Run, GetAccessibleScopes, UpdateClient, End, Start, Requeue, Apply, Edit, Fail,
        LostReply, Crash, Decide, OpenUp, Close, Tick, runVars
<1> QED BY <1>1, CacheTypes, CacheInvariant, PTL DEF Spec, GrantsFresh

\* A scope that CanAccessScope says no to was not approved less than the life
\* of an entry ago.
THEOREM DenialsAreFresh == Spec => DenialsFresh
<1> DEFINE Fresh ==
      \A s \in desired \ desired' : pc' = "idle" \/ s \in valid' \/ unapproved[s] < TTL
<1>1. TypeOK /\ CacheInv /\ [Next]_vars => [Fresh]_vars
  <2> SUFFICES ASSUME TypeOK, CacheInv, Next, NEW s \in desired \ desired', pc' # "idle", s \notin valid'
               PROVE  unapproved[s] < TTL
    OBVIOUS
  <2>1. s \in Scopes /\ unapproved[s] \in 0..TTL
    BY DEF TypeOK
  <2>2. ASSUME cache[s] # None, ~cache[s].access
        PROVE  unapproved[s] < TTL
    <3>1. cache[s] \in Entry
      BY <2>1, <2>2 DEF TypeOK
    <3> QED BY <2>1, <2>2, <3>1 DEF CacheInv, Permanent, Recent, Entry
  <2>3. CASE CacheHit
    BY <2>1, <2>2, <2>3 DEF CacheHit, Checked
  <2>4. CASE GetOpenScopes
    <3>1. s = asked /\ (cache'[s] # None => ~cache'[s].access)
      BY <2>4 DEF GetOpenScopes, Checked
    <3>2. s \notin open /\ cache'[s] = cache[s]
      BY <2>1, <2>4, <3>1, EntryNotNone DEF GetOpenScopes, Open
    <3>3. CASE cache[s] = None
      BY <2>4, <3>1, <3>3 DEF GetOpenScopes, CacheInv
    <3> QED BY <2>2, <3>1, <3>2, <3>3
  <2> QED
    BY <2>1, <2>3, <2>4
    DEF Next, Run, GetAccessibleScopes, UpdateClient, End, Start, Requeue, Apply, Edit, Fail,
        LostReply, Crash, Decide, OpenUp, Close, Tick, runVars, TypeOK
<1> QED BY <1>1, CacheTypes, CacheInvariant, PTL DEF Spec, DenialsFresh
=============================================================================
