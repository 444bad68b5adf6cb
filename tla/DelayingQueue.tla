--------------------------- MODULE DelayingQueue ---------------------------
(***************************************************************************)
(* The delaying work queue of k8s.io/client-go that pkg/queue/queue.go     *)
(* creates and that the KEB poller and the workers share.  The library is  *)
(* not part of the repository: it is modelled by what the process relies   *)
(* on.  Every operator below is one call made under the queue's lock, so   *)
(* one atomic step.                                                        *)
(*                                                                         *)
(* queue       the keys a call to Get may hand out, oldest first           *)
(* dirty       the keys that still have to be processed                    *)
(* processing  the keys handed out by Get and not yet given back by Done   *)
(* waiting     the keys whose AddAfter delay is running; the library keeps *)
(*             at most one timer per key                                   *)
(***************************************************************************)
EXTENDS Naturals, Sequences

CONSTANT SubAccounts    \* the keys: subaccount IDs

VARIABLES queue, dirty, processing, waiting

queueVars == <<queue, dirty, processing, waiting>>

QueueTypeOK ==
    /\ queue \in Seq(SubAccounts)
    /\ dirty \subseteq SubAccounts
    /\ processing \subseteq SubAccounts
    /\ waiting \subseteq SubAccounts

Queued == {queue[i] : i \in DOMAIN queue}

(* NewQueue. *)
QueueInit ==
    /\ queue = <<>>
    /\ dirty = {}
    /\ processing = {}
    /\ waiting = {}

(* What Add does to queue and dirty: a key that is already dirty is not    *)
(* queued twice, one that is being processed is queued by its Done.        *)
Enqueue(k) ==
    /\ dirty' = dirty \cup {k}
    /\ queue' = IF k \in dirty \cup processing THEN queue ELSE Append(queue, k)

Add(k) ==
    /\ Enqueue(k)
    /\ UNCHANGED <<processing, waiting>>

(* AddAfter starts a timer.  A delay that is not positive makes the        *)
(* library call Add at once: AddAfter followed by Expire.                  *)
AddAfter(k) ==
    /\ waiting' = waiting \cup {k}
    /\ UNCHANGED <<queue, dirty, processing>>

(* A timer runs out: the library's waiting loop adds the key.              *)
Expire(k) ==
    /\ k \in waiting
    /\ waiting' = waiting \ {k}
    /\ Enqueue(k)
    /\ UNCHANGED processing

(* Get blocks until the queue has a key and hands out the oldest one.      *)
Get(k) ==
    /\ queue # <<>>
    /\ k = Head(queue)
    /\ queue' = Tail(queue)
    /\ processing' = processing \cup {k}
    /\ dirty' = dirty \ {k}
    /\ UNCHANGED waiting

(* Done gives the key back; one that became dirty meanwhile is queued.     *)
Done(k) ==
    /\ processing' = processing \ {k}
    /\ queue' = IF k \in dirty THEN Append(queue, k) ELSE queue
    /\ UNCHANGED <<dirty, waiting>>

(* The queue never holds a key twice or one that a consumer has, and every *)
(* dirty key is either handed out by a later Get or queued by its Done.    *)
QueueInv ==
    /\ \A i, j \in DOMAIN queue : queue[i] = queue[j] => i = j
    /\ Queued \cap processing = {}
    /\ Queued \subseteq dirty
    /\ dirty \subseteq Queued \cup processing
=============================================================================
