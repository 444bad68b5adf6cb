---------------------- MODULE KubeconfigProviderProofs ----------------------
(***************************************************************************)
(* Proofs about KubeconfigProvider, for every TTL and however time goes by *)
(* between the calls of Get: the age of the kubeconfigs that workers       *)
(* connect with is bounded.                                                *)
(***************************************************************************)
EXTENDS KubeconfigProvider, TLAPS

(* getJitterTTL gives at most 1.3 times the TTL.                           *)
LEMMA JitterIsBounded ==
    ASSUME NEW d \in Nat \ {0}, NEW j \in getJitterTTL(d)
    PROVE  j \in Nat /\ 10 * j <= 13 * d
PROOF
  <1>1. CASE d < 180
    BY <1>1 DEF getJitterTTL
  <1>2. CASE d >= 180
    <2>1. PICK jitter \in 0..((3 * d) \div 600 - 1) : j = 60 * (d \div 60 + jitter)
      BY <1>2 DEF getJitterTTL
    <2>2. d \div 60 \in Nat /\ 60 * (d \div 60) <= d
      OBVIOUS
    <2>3. (3 * d) \div 600 \in Nat /\ 600 * ((3 * d) \div 600) <= 3 * d
      OBVIOUS
    <2> HIDE DEF getJitterTTL
    <2>4. QED
      BY <2>1, <2>2, <2>3
  <1>3. QED
    BY <1>1, <1>2

(* A new process has an empty cache.                                       *)
LEMMA InitEstablishes == Init => IInv
PROOF
  <1> SUFFICES ASSUME Init PROVE IInv
    OBVIOUS
  <1>1. TypeOK
    <2>1. ended \in [Contents -> Nat \cup {None}]
      BY DEF Init
    <2>2. latest \in 0..MaxVersions /\ secret \in 0..latest /\ loading \in 0..latest
      BY StepAssumption DEF Init
    <2>3. crashed \in BOOLEAN
      BY Zenon DEF Init
    <2>4. QED
      BY <2>1, <2>2, <2>3 DEF Init, TypeOK
  <1>2. EndedInv /\ LoadingInv /\ ExpiryInv /\ ReplacedInTime
    BY DEF Init, EndedInv, LoadingInv, ExpiryInv, ReplacedInTime
  <1>3. QED
    BY <1>1, <1>2 DEF IInv

(* Time goes by: only what ended and expired gets older.                   *)
LEMMA AdvancePreserves == IInv /\ Advance => IInv'
PROOF
  <1> SUFFICES ASSUME IInv, Advance PROVE IInv'
    OBVIOUS
  <1> USE DEF IInv, Advance, secretVars
  <1>1. clock' \in Nat /\ clock' >= clock /\ clock \in Nat
    BY StepAssumption DEF TypeOK
  <1>2. TypeOK'
    BY <1>1 DEF TypeOK
  <1>3. EndedInv' /\ LoadingInv' /\ ReplacedInTime'
    BY DEF EndedInv, LoadingInv, ReplacedInTime
  <1>4. ExpiryInv'
    <2> SUFFICES ASSUME cached # None PROVE ExpiryInv'
      BY DEF ExpiryInv
    <2>1. cached.expires \in Nat /\ ttl \in Nat
      BY TTLAssumption DEF TypeOK
    <2>2. 10 * (cached.expires - clock) <= 13 * ttl
      BY DEF ExpiryInv
    <2>3. 10 * (cached.expires - clock') <= 13 * ttl
      BY <1>1, <2>1, <2>2
    <2>4. QED
      BY <2>3 DEF ExpiryInv
  <1>5. QED
    BY <1>2, <1>3, <1>4

(* The secret changes under the cache: its content ends now, which is not  *)
(* before it was loaded or returned.                                       *)
LEMMA SecretChangesPreserves == IInv /\ SecretChanges => IInv'
PROOF
  <1> SUFFICES ASSUME IInv, SecretChanges PROVE IInv'
    OBVIOUS
  <1> USE DEF IInv
  <1>1. /\ UNCHANGED <<ttl, clock, cached, loading, got, crashed>>
        /\ ended' = IF secret = 0 THEN ended ELSE [ended EXCEPT ![secret] = clock]
    BY DEF SecretChanges
  <1>2. latest \in 0..MaxVersions /\ latest' \in latest..MaxVersions /\ secret' \in 0..latest'
    BY StepAssumption DEF SecretChanges, TypeOK
  <1>3. /\ ended' \in [Contents -> Nat \cup {None}]
        /\ \A v \in Contents : ended'[v] = ended[v] \/ (v = secret /\ ended'[v] = clock)
    <2>1. ended \in [Contents -> Nat \cup {None}] /\ clock \in Nat
      BY DEF TypeOK
    <2>2. CASE secret = 0
      BY <1>1, <2>1, <2>2
    <2>3. CASE secret # 0
      BY <1>1, <2>1, <2>3
    <2>4. QED
      BY <2>2, <2>3
  <1>4. TypeOK'
    BY <1>1, <1>2, <1>3 DEF TypeOK
  <1>5. EndedInv'
    BY <1>2, <1>3 DEF EndedInv, SecretChanges, TypeOK, Contents
  <1>6. LoadingInv'
    BY <1>1, <1>2, <1>3 DEF LoadingInv, TypeOK, Contents
  <1>7. ASSUME NEW c \in 1..latest PROVE ended'[c] = ended[c] \/ ended'[c] = clock
    <2>1. c \in Contents
      BY <1>2, StepAssumption DEF Contents
    <2>2. QED
      BY <1>3, <2>1
  <1>8. ExpiryInv'
    BY <1>1, <1>7 DEF ExpiryInv, TypeOK
  <1>9. ReplacedInTime'
    <2> SUFFICES ASSUME got # None PROVE ReplacedInTime'
      BY <1>1 DEF ReplacedInTime
    <2>1. got.content \in 1..latest /\ got.at \in 0..clock /\ ttl \in Nat /\ clock \in Nat
      BY TTLAssumption DEF TypeOK
    <2>2. CASE ended'[got.content] = ended[got.content]
      BY <1>1, <2>2 DEF ReplacedInTime
    <2>3. CASE ended'[got.content] = clock
      <3>1. 10 * (got.at - clock) <= 13 * ttl
        BY <2>1
      <3>2. QED
        BY <1>1, <2>3, <3>1 DEF ReplacedInTime
    <2>4. QED
      BY <1>7, <2>1, <2>2, <2>3
  <1>10. QED
    BY <1>4, <1>5, <1>6, <1>8, <1>9

(* A hit returns an entry that has not expired.                            *)
LEMMA GetHitPreserves == IInv /\ GetHit => IInv'
PROOF
  <1> SUFFICES ASSUME IInv, GetHit PROVE IInv'
    OBVIOUS
  <1> USE DEF IInv, GetHit, secretVars
  <1>1. /\ cached # None /\ cached.expires > clock
        /\ cached.content \in 1..latest /\ cached.expires \in Nat
        /\ got'.content = cached.content /\ got'.at = clock
    BY DEF Live, TypeOK
  <1>2. TypeOK'
    BY <1>1 DEF TypeOK
  <1>3. EndedInv' /\ LoadingInv' /\ ExpiryInv'
    BY DEF EndedInv, LoadingInv, ExpiryInv
  <1>4. ReplacedInTime'
    <2> DEFINE end == ended[cached.content]
    <2>1. CASE end = None
      BY <1>1, <2>1 DEF ReplacedInTime
    <2>2. CASE end # None
      <3>1. end \in Nat /\ clock \in Nat /\ ttl \in Nat
        BY <1>1, <2>2, TTLAssumption, StepAssumption DEF TypeOK, Contents
      <3>2. 10 * (cached.expires - end) <= 13 * ttl
        BY <1>1, <2>2 DEF ExpiryInv
      <3>3. 10 * (clock - end) <= 13 * ttl
        BY <1>1, <3>1, <3>2
      <3>4. QED
        BY <1>1, <3>3 DEF ReplacedInTime
    <2>3. QED
      BY <2>1, <2>2
  <1>5. QED
    BY <1>2, <1>3, <1>4

(* A miss starts to load the current content, which has not ended.         *)
LEMMA GetMissPreserves == IInv /\ GetMiss => IInv'
PROOF
  <1> SUFFICES ASSUME IInv, GetMiss PROVE IInv'
    OBVIOUS
  <1> USE DEF IInv, GetMiss, secretVars
  <1>1. TypeOK'
    BY DEF TypeOK
  <1>2. EndedInv' /\ ExpiryInv' /\ ReplacedInTime'
    BY DEF EndedInv, ExpiryInv, ReplacedInTime
  <1>3. LoadingInv'
    BY StepAssumption DEF LoadingInv, EndedInv, TypeOK, Contents
  <1>4. QED
    BY <1>1, <1>2, <1>3

(* The loader caches a content that ended at the earliest now, for at most *)
(* 1.3 times the TTL.                                                      *)
LEMMA LoadPreserves == IInv /\ Load => IInv'
PROOF
  <1> SUFFICES ASSUME IInv, Load PROVE IInv'
    OBVIOUS
  <1> USE DEF IInv, secretVars
  <1>1. PICK d \in getJitterTTL(ttl) : cached' = [content |-> loading, expires |-> clock + d]
    BY DEF Load
  <1>2. ttl \in Nat \ {0} /\ clock \in Nat /\ loading \in 1..latest
    BY TTLAssumption, StepAssumption DEF TypeOK, Load
  <1>3. d \in Nat /\ 10 * d <= 13 * ttl
    BY <1>1, <1>2, JitterIsBounded
  <1>4. /\ loading' = 0 /\ got' = [content |-> loading, at |-> clock]
        /\ UNCHANGED <<ttl, clock, secret, latest, ended, crashed>>
        /\ cached'.content = loading /\ cached'.expires = clock + d
    BY <1>1 DEF Load
  <1>5. ended[loading] \in {None, clock}
    BY <1>2 DEF LoadingInv
  <1>6. TypeOK'
    BY <1>2, <1>3, <1>4 DEF TypeOK
  <1>7. EndedInv' /\ LoadingInv'
    BY <1>4 DEF EndedInv, LoadingInv
  <1>8. 10 * ((clock + d) - clock) <= 13 * ttl /\ 10 * (clock - clock) <= 13 * ttl
    BY <1>2, <1>3
  <1>9. ExpiryInv'
    BY <1>4, <1>5, <1>8 DEF ExpiryInv
  <1>10. ReplacedInTime'
    BY <1>4, <1>5, <1>8 DEF ReplacedInTime
  <1>11. QED
    BY <1>6, <1>7, <1>9, <1>10

(* A panic of the loader leaves nothing in the cache of the next process.  *)
LEMMA LoadPanicsPreserves == IInv /\ LoadPanics => IInv'
PROOF
  BY StepAssumption
  DEF IInv, LoadPanics, secretVars, TypeOK, EndedInv, LoadingInv, ExpiryInv, ReplacedInTime

(* Every step of Get, of the secret's owner and of time keeps IInv.        *)
THEOREM Invariance == Spec => []IInv
PROOF
  <1>1. IInv /\ UNCHANGED vars => IInv'
    BY DEF vars, secretVars, IInv, TypeOK, EndedInv, LoadingInv, ExpiryInv, ReplacedInTime
  <1>2. IInv /\ [Next]_vars => IInv'
    BY <1>1, AdvancePreserves, SecretChangesPreserves, GetHitPreserves, GetMissPreserves,
       LoadPreserves, LoadPanicsPreserves
    DEF Next, Get
  <1>3. QED
    BY <1>2, InitEstablishes, PTL DEF Spec

(* No unusable secret is ever cached or returned by Get.                   *)
THEOREM TypeCorrect == Spec => []TypeOK
PROOF
  <1>1. IInv => TypeOK
    BY DEF IInv
  <1>2. QED
    BY <1>1, Invariance, PTL

(* Whatever the TTL, a worker never connects with a kubeconfig that was    *)
(* replaced more than 1.3 times the TTL ago.                               *)
THEOREM AgeIsBounded == Spec => []ReplacedInTime
PROOF
  <1>1. IInv => ReplacedInTime
    BY DEF IInv
  <1>2. QED
    BY <1>1, Invariance, PTL
=============================================================================
