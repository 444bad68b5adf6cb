------------------------- MODULE KubeconfigProvider -------------------------
(***************************************************************************)
(* pkg/runtime/kubeconfigprovider: the cache of kubeconfigs with a time to *)
(* live, filled from the secrets of the control plane, as the workers use  *)
(* it for one runtime.  The entries of different runtimes do not interact, *)
(* and one worker at a time asks for a runtime (OneWorkerPerSubAccount of  *)
(* KmcProcess).                                                            *)
(*                                                                         *)
(* Times are in seconds.  The secret is replaced by its owner at any time; *)
(* its contents are numbered.  ttlcache and the API server are external; a *)
(* call to the API server is assumed to take less than one Step.           *)
(***************************************************************************)
EXTENDS Integers

CONSTANTS
    TTLs,           \* the values of the kubeconfig-cache-ttl flag to consider
    Step,           \* the granularity of time
    MaxTime,        \* bound: the time
    MaxVersions,    \* bound: the contents the secret has over time
    None

ASSUME TTLAssumption == TTLs \subseteq Nat \ {0}

ASSUME StepAssumption == Step \in Nat \ {0} /\ MaxTime \in Nat /\ MaxVersions \in Nat

VARIABLES
    ttl,        \* the flag
    clock,
    secret,     \* the content of the secret, 0 if there is none to be used
    latest,     \* the number of contents so far
    ended,      \* when each content was replaced or lost
    cached,     \* the cache entry
    loading,    \* the content the loader has read and is about to cache
    got,        \* what Get returned last, and when; None after an error
    crashed     \* the process has panicked before

secretVars == <<secret, latest, ended>>
vars == <<ttl, clock, secretVars, cached, loading, got, crashed>>

Contents == 1..MaxVersions

(* Every variable has the type of the state it models: in particular, an   *)
(* unusable secret (missing, without config, empty) is never cached.       *)
TypeOK ==
    /\ ttl \in TTLs
    /\ clock \in Nat
    /\ latest \in 0..MaxVersions
    /\ secret \in 0..latest
    /\ ended \in [Contents -> Nat \cup {None}]
    /\ cached # None => cached.content \in 1..latest /\ cached.expires \in Nat
    /\ loading \in 0..latest
    /\ got # None => got.content \in 1..latest /\ got.at \in 0..clock
    /\ crashed \in BOOLEAN

Init ==
    /\ ttl \in TTLs
    /\ clock = 0
    /\ secret = 0
    /\ latest = 0
    /\ ended = [v \in Contents |-> None]
    /\ cached = None
    /\ loading = 0
    /\ got = None
    /\ crashed = FALSE
-----------------------------------------------------------------------------
(* The environment.                                                        *)

Advance ==
    /\ loading = 0
    /\ clock + Step <= MaxTime
    /\ clock' = clock + Step
    /\ UNCHANGED <<ttl, secretVars, cached, loading, got, crashed>>

(* The secret gets a new content, or is lost.                              *)
SecretChanges ==
    /\ \/ latest < MaxVersions /\ latest' = latest + 1 /\ secret' = latest + 1
       \/ secret # 0 /\ secret' = 0 /\ UNCHANGED latest
    /\ ended' = IF secret = 0 THEN ended ELSE [ended EXCEPT ![secret] = clock]
    /\ UNCHANGED <<ttl, clock, cached, loading, got, crashed>>
-----------------------------------------------------------------------------
(* The provider.                                                           *)

(* The results getJitterTTL may return.  There is none when rand.Int63n is *)
(* called with 0, which panics.  (The code computes buffer in floating     *)
(* point; for a few TTLs rounding makes it one smaller than here.)         *)
getJitterTTL(d) ==
    IF d < 180 THEN {d}
    ELSE LET minutes == d \div 60
             buffer == (3 * d) \div 600
         IN  {60 * (minutes + jitter) : jitter \in 0..(buffer - 1)}

Live == cached # None /\ cached.expires > clock

(* Faulty variant: a hit prolongs the life of the entry.                   *)
GetHitTouching ==
    /\ loading = 0
    /\ Live
    /\ cached' = [cached EXCEPT !.expires = clock + ttl]
    /\ got' = [content |-> cached.content, at |-> clock]
    /\ UNCHANGED <<ttl, clock, secretVars, loading, crashed>>

(* Get finds an entry that has not expired; a hit does not prolong it.     *)
GetHit ==
    /\ loading = 0
    /\ Live
    /\ got' = [content |-> cached.content, at |-> clock]
    /\ UNCHANGED <<ttl, clock, secretVars, cached, loading, crashed>>

(* Faulty variant: an empty kubeconfig is cached.                          *)
GetMissUnchecked ==
    /\ loading = 0
    /\ ~ Live
    /\ cached' = IF secret = 0 THEN [content |-> 0, expires |-> clock + ttl] ELSE None
    /\ loading' = secret
    /\ got' = None
    /\ UNCHANGED <<ttl, clock, secretVars, crashed>>

(* DeleteExpired drops the entry, if any, and the loader reads the secret. *)
(* Without a usable secret nothing is cached and Get returns an error.     *)
GetMiss ==
    /\ loading = 0
    /\ ~ Live
    /\ cached' = None
    /\ loading' = secret
    /\ got' = None
    /\ UNCHANGED <<ttl, clock, secretVars, crashed>>

(* The loader caches what it has read.                                     *)
Load ==
    /\ loading # 0
    /\ \E d \in getJitterTTL(ttl) :
          cached' = [content |-> loading, expires |-> clock + d]
    /\ got' = [content |-> loading, at |-> clock]
    /\ loading' = 0
    /\ UNCHANGED <<ttl, clock, secretVars, crashed>>

(* The panic ends the process, which is restarted with an empty cache.     *)
LoadPanics ==
    /\ loading # 0
    /\ getJitterTTL(ttl) = {}
    /\ crashed' = TRUE
    /\ cached' = None
    /\ loading' = 0
    /\ got' = None
    /\ UNCHANGED <<ttl, clock, secretVars>>

Get == GetHit \/ GetMiss \/ Load \/ LoadPanics

Next == Advance \/ SecretChanges \/ Get

Spec == Init /\ [][Next]_vars
-----------------------------------------------------------------------------
(* Properties.                                                             *)

(* A worker never connects with a kubeconfig that was replaced more than   *)
(* 1.3 times the TTL ago, however often it asks: the jitter is less than   *)
(* the factor allows and hits do not prolong an entry.                     *)
ReplacedInTime ==
    got # None =>
        LET end == ended[got.content]
        IN  end = None \/ 10 * (got.at - end) <= 13 * ttl

(* The inductive invariant: a content that is current, or yet to come, has *)
(* not ended; one that is being loaded ended at the earliest while it is   *)
(* loaded; an entry expires soon enough after now and after its end.       *)
EndedInv == \A v \in Contents : v = secret \/ v > latest => ended[v] = None

LoadingInv == loading # 0 => ended[loading] \in {None, clock}

ExpiryInv ==
    cached # None =>
        LET end == ended[cached.content]
        IN  /\ 10 * (cached.expires - clock) <= 13 * ttl
            /\ end = None \/ 10 * (cached.expires - end) <= 13 * ttl

IInv == TypeOK /\ EndedInv /\ LoadingInv /\ ExpiryInv /\ ReplacedInTime

(* What the comments of getJitterTTL say: a TTL of three minutes or more   *)
(* gets jitter added.  So there is a result for every TTL.                 *)
LoaderDoesNotPanic == ~ crashed
=============================================================================
