-------------------------- MODULE KeyExpiryProofs --------------------------
(***************************************************************************)
(* No key in use expires, for every term of validity, threshold and        *)
(* interval between runs with StaleAfter + MaxDelay < Threshold <=         *)
(* Validity.  The inductive invariant is TermInv: a posted key set has one *)
(* term, so the expiry of the current key tells that of the others; a run  *)
(* leaves at least Threshold days, and each day passes for the term and    *)
(* for the age of the synchronization alike.                               *)
(***************************************************************************)
EXTENDS KeyExpiry, TLAPS

USE KeyExpiryAssumption

\* What a posted key set leaves: a full term for the keys in it.
LEMMA RegisterKeysType ==
    ASSUME NEW keys \in SUBSET Keys, NEW newest \in Keys
    PROVE  /\ RegisterKeys(keys, newest) \in [Keys -> 0..Validity]
           /\ \A k \in keys \cup {newest} : RegisterKeys(keys, newest)[k] = Validity
<1>1. 0 \in 0..Validity /\ Validity \in 0..Validity
  OBVIOUS
<1>2. RegisterKeys(keys, newest) \in [Keys -> 0..Validity]
  <2> HIDE KeyExpiryAssumption
  <2> QED BY <1>1 DEF RegisterKeys
<1>3. \A k \in keys \cup {newest} : RegisterKeys(keys, newest)[k] = Validity
  BY DEF RegisterKeys
<1> QED BY <1>2, <1>3

\* The variables keep their types.
LEMMA KeyExpiryTypes == Spec => []TypeOK
<1>1. Init => TypeOK
  BY RegisterKeysType DEF Init, TypeOK, Deadline
<1>2. TypeOK /\ [Next]_vars => TypeOK'
  <2> SUFFICES ASSUME TypeOK, [Next]_vars PROVE TypeOK'
    OBVIOUS
  <2>1. CASE ensureJwkValidExternalState
    <3>1. left' \in [Keys -> 0..Validity] /\ current' \in Keys
      BY <2>1, RegisterKeysType DEF ensureJwkValidExternalState, TypeOK
    <3> QED BY <2>1, <3>1 DEF ensureJwkValidExternalState, Synchronize, TypeOK, Deadline
  <2>2. CASE RotateKey
    <3>1. PICK key \in Keys : /\ current' = key
                              /\ used' \in {used, used \cup {current}}
                              /\ left' = RegisterKeys(used', key)
      BY <2>2 DEF RotateKey
    <3>2. used' \in SUBSET Keys
      BY <3>1 DEF TypeOK
    <3>3. left' \in [Keys -> 0..Validity]
      BY <3>1, <3>2, RegisterKeysType
    <3> QED BY <2>2, <3>1, <3>2, <3>3 DEF RotateKey, Synchronize, TypeOK, Deadline
  <2>3. CASE Release
    BY <2>3 DEF Release, TypeOK
  <2>4. CASE Day
    <3>1. left' \in [Keys -> 0..Validity]
      BY <2>4 DEF Day, TypeOK
    <3> QED BY <2>4, <3>1 DEF Day, TypeOK, Deadline
  <2>5. CASE UNCHANGED vars
    BY <2>5 DEF vars, TypeOK
  <2> QED BY <2>1, <2>2, <2>3, <2>4, <2>5 DEF Next
<1> QED BY <1>1, <1>2, PTL DEF Spec

\* The keys of the managed secrets have one term, and it outlasts the time to
\* the next run of ensureJwkValidExternalState.
THEOREM TermInvariant == Spec => []TermInv
<1>1. Init => TermInv
  BY RegisterKeysType DEF Init, TermInv
<1>2. TypeOK /\ TypeOK' /\ TermInv /\ [Next]_vars => TermInv'
  <2> SUFFICES ASSUME TypeOK, TypeOK', TermInv, [Next]_vars PROVE TermInv'
    OBVIOUS
  <2>1. CASE ensureJwkValidExternalState
    <3>1. PICK key \in used \cup {current} :
            /\ left' = IF Expiring(key) THEN RegisterKeys(used, key) ELSE left
            /\ current' = key
      BY <2>1 DEF ensureJwkValidExternalState
    <3>2. used' = used /\ age' = 0
      BY <2>1 DEF ensureJwkValidExternalState, Synchronize
    <3>3. CASE Expiring(key)
      <4>1. \A k \in used' \cup {current'} : left'[k] = Validity
        BY <3>1, <3>2, <3>3, RegisterKeysType DEF TypeOK
      <4> QED BY <3>2, <4>1 DEF TermInv
    <3>4. CASE ~Expiring(key)
      <4>1. left' = left /\ left[key] >= Threshold
        BY <3>1, <3>4 DEF Expiring, TypeOK
      <4> QED BY <3>1, <3>2, <4>1 DEF TermInv, TypeOK
    <3> QED BY <3>3, <3>4
  <2>2. CASE RotateKey
    <3>1. left' = RegisterKeys(used', current') /\ age' = 0
      BY <2>2 DEF RotateKey, Synchronize
    <3>2. \A k \in used' \cup {current'} : left'[k] = Validity
      BY <3>1, RegisterKeysType DEF TypeOK
    <3> QED BY <3>1, <3>2 DEF TermInv
  <2>3. CASE Release
    BY <2>3 DEF Release, TermInv
  <2>4. CASE Day
    <3>1. \A k \in used : k \in Keys /\ left'[k] = left'[current]
      BY <2>4 DEF Day, TermInv, TypeOK
    <3>2. ASSUME attended PROVE left'[current] + age' >= Threshold
      <4>1. age < Deadline /\ age \in Nat /\ left[current] \in Nat
        BY <2>4, <3>2 DEF Day, TypeOK
      <4>2. left[current] + age >= Threshold
        BY <3>2 DEF TermInv
      <4>3. left[current] > 0
        BY <4>1, <4>2 DEF Deadline
      <4>4. left'[current] = left[current] - 1 /\ age' = age + 1
        BY <2>4, <4>1, <4>3 DEF Day, TypeOK
      <4> QED BY <4>1, <4>2, <4>4
    <3> QED BY <2>4, <3>1, <3>2 DEF Day, TermInv
  <2>5. CASE UNCHANGED vars
    BY <2>5 DEF vars, TermInv
  <2> QED BY <2>1, <2>2, <2>3, <2>4, <2>5 DEF Next
<1> QED BY <1>1, <1>2, KeyExpiryTypes, PTL DEF Spec

\* No application is left with a key that Digdir no longer accepts while its
\* resource is requeued.
THEOREM NoKeyExpires == Spec => []CredentialsValid
<1>1. TypeOK /\ TermInv => CredentialsValid
  <2> SUFFICES ASSUME TypeOK, TermInv, attended PROVE \A k \in used \cup {current} : left[k] > 0
    BY DEF CredentialsValid
  <2>1. left[current] \in Nat /\ age \in Nat /\ age <= Deadline /\ left[current] + age >= Threshold
    BY DEF TypeOK, TermInv
  <2>2. left[current] > 0
    BY <2>1 DEF Deadline
  <2> QED BY <2>2 DEF TermInv
<1> QED BY <1>1, KeyExpiryTypes, TermInvariant, PTL
=============================================================================
