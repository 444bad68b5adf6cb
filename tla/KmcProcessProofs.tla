-------------------------- MODULE KmcProcessProofs --------------------------
(***************************************************************************)
(* IInv is an inductive invariant of KmcProcess, for any number of         *)
(* subaccounts, runtimes and workers.  One lemma per conjunct shows that   *)
(* every step preserves it; the safety properties follow from IInv.        *)
(***************************************************************************)
EXTENDS KmcProcess, TLAPS
-----------------------------------------------------------------------------
(* The work queue: every call on it keeps its type and its invariant.      *)

(* Appending a key adds exactly this key to the queued ones.               *)
LEMMA AppendQueued ==
    ASSUME NEW k \in SubAccounts, queue \in Seq(SubAccounts),
           queue' = Append(queue, k)
    PROVE  /\ queue' \in Seq(SubAccounts)
           /\ Queued' = Queued \cup {k}
  <1>1. /\ queue' \in Seq(SubAccounts)
        /\ DOMAIN queue' = 1 .. (Len(queue) + 1)
        /\ DOMAIN queue = 1 .. Len(queue)
        /\ \A i \in 1 .. Len(queue) : queue'[i] = queue[i]
        /\ queue'[Len(queue) + 1] = k
        /\ Len(queue) \in Nat
    OBVIOUS
  <1>2. Queued' \subseteq Queued \cup {k}
    BY <1>1 DEF Queued
  <1>3. Queued \subseteq Queued'
    BY <1>1 DEF Queued
  <1>4. k \in Queued'
    BY <1>1 DEF Queued
  <1> QED
    BY <1>1, <1>2, <1>3, <1>4

(* A key that is not queued stays unique when it is appended.              *)
LEMMA AppendDistinct ==
    ASSUME NEW k \in SubAccounts, queue \in Seq(SubAccounts),
           queue' = Append(queue, k), k \notin Queued,
           \A i, j \in DOMAIN queue : queue[i] = queue[j] => i = j
    PROVE  \A i, j \in DOMAIN queue' : queue'[i] = queue'[j] => i = j
  <1>1. /\ DOMAIN queue' = 1 .. (Len(queue) + 1)
        /\ DOMAIN queue = 1 .. Len(queue)
        /\ \A i \in 1 .. Len(queue) : queue'[i] = queue[i]
        /\ queue'[Len(queue) + 1] = k
        /\ Len(queue) \in Nat
    OBVIOUS
  <1>2. \A i \in 1 .. Len(queue) : queue[i] # k
    BY <1>1 DEF Queued
  <1> QED
    BY <1>1, <1>2

(* Taking the head removes exactly this key and leaves the others unique.  *)
LEMMA TailQueued ==
    ASSUME queue \in Seq(SubAccounts), queue # <<>>, queue' = Tail(queue),
           \A i, j \in DOMAIN queue : queue[i] = queue[j] => i = j
    PROVE  /\ Head(queue) \in Queued
           /\ queue' \in Seq(SubAccounts)
           /\ Queued' = Queued \ {Head(queue)}
           /\ \A i, j \in DOMAIN queue' : queue'[i] = queue'[j] => i = j
  <1>1. /\ queue' \in Seq(SubAccounts)
        /\ Len(queue) \in Nat \ {0}
        /\ DOMAIN queue = 1 .. Len(queue)
        /\ DOMAIN queue' = 1 .. (Len(queue) - 1)
        /\ \A i \in 1 .. (Len(queue) - 1) : queue'[i] = queue[i + 1]
        /\ Head(queue) = queue[1]
    OBVIOUS
  <1>2. Head(queue) \in Queued
    BY <1>1 DEF Queued
  <1>3. Queued' \subseteq Queued \ {Head(queue)}
    BY <1>1 DEF Queued
  <1>4. ASSUME NEW k \in Queued, k # Head(queue)
        PROVE  k \in Queued'
    <2>1. PICK i \in 1 .. Len(queue) : k = queue[i]
      BY <1>1 DEF Queued
    <2>2. i - 1 \in 1 .. (Len(queue) - 1)
      BY <1>1, <1>4, <2>1
    <2>3. queue'[i - 1] = k
      BY <1>1, <2>1, <2>2
    <2> QED
      BY <1>1, <2>2, <2>3 DEF Queued
  <1>5. \A i, j \in DOMAIN queue' : queue'[i] = queue'[j] => i = j
    BY <1>1
  <1> QED
    BY <1>1, <1>2, <1>3, <1>4, <1>5

(* NewQueue establishes the invariant.                                     *)
LEMMA QueueInitInv ==
    ASSUME QueueInit
    PROVE  QueueTypeOK /\ QueueInv
  BY DEF QueueInit, QueueTypeOK, QueueInv, Queued

(* Add, and the Add a timer makes: the key becomes dirty, the others stay  *)
(* what they were, and nothing the library guarantees is broken.           *)
LEMMA EnqueueKeepsInv ==
    ASSUME QueueTypeOK, QueueInv, NEW k \in SubAccounts,
           Enqueue(k), UNCHANGED processing, waiting' \subseteq SubAccounts
    PROVE  /\ QueueTypeOK' /\ QueueInv'
           /\ dirty' = dirty \cup {k}
  <1> USE DEF QueueTypeOK, QueueInv
  <1>1. CASE k \in dirty \cup processing
    <2>1. queue' = queue /\ Queued' = Queued
      BY <1>1 DEF Enqueue, Queued
    <2> QED
      BY <1>1, <2>1 DEF Enqueue
  <1>2. CASE k \notin dirty \cup processing
    <2>1. queue' = Append(queue, k) /\ k \notin Queued
      BY <1>2 DEF Enqueue
    <2>2. queue' \in Seq(SubAccounts) /\ Queued' = Queued \cup {k}
      BY <2>1, AppendQueued
    <2>3. \A i, j \in DOMAIN queue' : queue'[i] = queue'[j] => i = j
      BY <2>1, AppendDistinct
    <2> QED
      BY <1>2, <2>2, <2>3 DEF Enqueue
  <1> QED
    BY <1>1, <1>2

(* AddAfter only starts a timer.                                           *)
LEMMA AddAfterKeepsInv ==
    ASSUME QueueTypeOK, QueueInv, NEW k \in SubAccounts, AddAfter(k)
    PROVE  QueueTypeOK' /\ QueueInv'
  BY DEF AddAfter, QueueTypeOK, QueueInv, Queued

(* Get hands out a key that nobody has.                                    *)
LEMMA GetKeepsInv ==
    ASSUME QueueTypeOK, QueueInv, NEW k, Get(k)
    PROVE  /\ QueueTypeOK' /\ QueueInv'
           /\ k \in SubAccounts \ processing
  <1> USE DEF QueueTypeOK, QueueInv, Get
  <1>1. /\ k \in Queued
        /\ queue' \in Seq(SubAccounts)
        /\ Queued' = Queued \ {k}
        /\ \A i, j \in DOMAIN queue' : queue'[i] = queue'[j] => i = j
    BY TailQueued
  <1>2. k \in SubAccounts \ processing
    BY <1>1
  <1> QED
    BY <1>1, <1>2

(* Done, called for a key the caller has, frees it.                        *)
LEMMA DoneKeepsInv ==
    ASSUME QueueTypeOK, QueueInv, NEW k \in processing, Done(k)
    PROVE  QueueTypeOK' /\ QueueInv'
  <1> USE DEF QueueTypeOK, QueueInv, Done
  <1>1. k \in SubAccounts /\ k \notin Queued
    OBVIOUS
  <1>2. CASE k \in dirty
    <2>1. queue' \in Seq(SubAccounts) /\ Queued' = Queued \cup {k}
      BY <1>1, <1>2, AppendQueued
    <2>2. \A i, j \in DOMAIN queue' : queue'[i] = queue'[j] => i = j
      BY <1>1, <1>2, AppendDistinct
    <2> QED
      BY <1>1, <1>2, <2>1, <2>2
  <1>3. CASE k \notin dirty
    <2>1. queue' = queue /\ Queued' = Queued
      BY <1>3 DEF Queued
    <2> QED
      BY <1>3, <2>1
  <1> QED
    BY <1>2, <1>3
-----------------------------------------------------------------------------
(* The process.                                                            *)

USE DEF queueVars, pollerVars, workerVars, HasRecord

(* The initial state satisfies the inductive invariant.                    *)
LEMMA InitIInv == Init => IInv
  <1> SUFFICES ASSUME Init PROVE IInv
    OBVIOUS
  <1>1. QueueTypeOK /\ QueueInv
    BY QueueInitInv DEF Init
  <1>2. CacheTypeOK /\ PollerTypeOK /\ WorkerTypeOK
    BY DEF Init, NoItems, CacheTypeOK, PollerTypeOK, WorkerTypeOK, PollerPcs,
       WorkerPcs, Status
  <1>3. WorkerInv /\ ProcessingIsHeld /\ OneWorkerPerSubAccount
    BY DEF Init, QueueInit, WorkerInv, ProcessingIsHeld, OneWorkerPerSubAccount, Busy
  <1>4. CacheInv /\ PollerInv /\ PendingInv
    BY DEF Init, NoItems, CacheInv, PollerInv, PendingInv
  <1> QED
    BY <1>1, <1>2, <1>3, <1>4 DEF IInv, TypeOK

(* The poller leaves the workers and what they process alone, and takes    *)
(* no key off the queue.                                                   *)
LEMMA PollerFrame ==
    ASSUME Poller
    PROVE  UNCHANGED <<wpc, wkey, wrec, processing, waiting>> /\ dirty \subseteq dirty'
  BY DEF Poller, PollFetch, PollSkip, PollNew, PollChanged, PollUntrackable,
     Visit, PollAdd, PollEnqueue, Add, Enqueue, PollReset, PollDrop, PollPurge,
     PollSweep, PollSweepDrop, PollSweepPurge, PollEnd

(* Workers leave the poller alone.                                         *)
LEMMA WorkerFrame ==
    ASSUME NEW w \in Workers, Worker(w)
    PROVE  UNCHANGED <<reply, ppc, todo, cur, found, items>>
  BY DEF Worker, WorkerGet, WorkerMiss, WorkerHit, WorkerUnreachable,
     WorkerCollectFails, WorkerCollect, WorkerRecord, WorkerStore,
     WorkerError, WorkerDone, WorkerDoneRequeue, WorkerRequeue

(* The cache changes only where the code calls Add, Set or Delete on it.   *)
LEMMA CacheFrame ==
    ASSUME Step,
           ~(PollAdd \/ PollReset \/ PollDrop),
           ~\E k \in SubAccounts : PollSweepDrop(k),
           ~\E w \in Workers : WorkerStore(w)
    PROVE  UNCHANGED cache
  <1>1. CASE Poller
    BY <1>1 DEF Poller, PollFetch, PollSkip, PollNew, PollChanged, PollUntrackable,
       Visit, PollEnqueue, PollPurge, PollSweep, PollSweepPurge, PollEnd
  <1>2. CASE \E w \in Workers : Worker(w)
    BY <1>2 DEF Worker, WorkerGet, WorkerMiss, WorkerHit, WorkerUnreachable,
       WorkerCollectFails, WorkerCollect, WorkerRecord, WorkerError, WorkerDone,
       WorkerDoneRequeue, WorkerRequeue
  <1>3. CASE \E k \in SubAccounts : Timer(k)
    BY <1>3 DEF Timer
  <1> QED
    BY <1>1, <1>2, <1>3 DEF Step

(* Nobody breaks the queue: Add and AddAfter get subaccounts, Done gets a  *)
(* key that the worker has.                                                *)
LEMMA QueueKept ==
    ASSUME IInv, Step
    PROVE  QueueTypeOK' /\ QueueInv'
  <1>a. QueueTypeOK /\ QueueInv /\ WorkerInv /\ PollerInv /\ WorkerTypeOK
    BY DEF IInv, TypeOK
  <1>b. waiting \subseteq SubAccounts
    BY <1>a DEF QueueTypeOK
  <1>0. ASSUME UNCHANGED queueVars
        PROVE  QueueTypeOK' /\ QueueInv'
    BY <1>a, <1>0 DEF QueueTypeOK, QueueInv, Queued
  <1>1. CASE Poller
    <2>1. CASE PollEnqueue
      <3>1. SubAccountOf[cur] \in SubAccounts
        BY <1>a, <2>1, SubAccountOfAssumption DEF PollEnqueue, PollerInv
      <3>2. /\ Enqueue(SubAccountOf[cur])
            /\ UNCHANGED processing
            /\ waiting' \subseteq SubAccounts
        BY <1>b, <2>1 DEF PollEnqueue, Add
      <3> QED
        BY <1>a, <3>1, <3>2, EnqueueKeepsInv
    <2>2. CASE ~PollEnqueue
      <3>1. UNCHANGED queueVars
        BY <1>1, <2>2 DEF Poller, PollFetch, PollSkip, PollNew, PollChanged,
           PollUntrackable, Visit, PollAdd, PollReset, PollDrop, PollPurge,
           PollSweep, PollSweepDrop, PollSweepPurge, PollEnd
      <3> QED
        BY <1>0, <3>1
    <2> QED
      BY <2>1, <2>2
  <1>2. ASSUME NEW w \in Workers, Worker(w)
        PROVE  QueueTypeOK' /\ QueueInv'
    <2>1. CASE WorkerGet(w)
      <3>1. \E k \in SubAccounts : Get(k)
        BY <2>1, Zenon DEF WorkerGet
      <3> QED
        BY <1>a, <3>1, GetKeepsInv
    <2>2. CASE WorkerError(w) \/ WorkerRequeue(w)
      <3>1. wkey[w] \in SubAccounts /\ AddAfter(wkey[w])
        BY <1>a, <2>2 DEF WorkerError, WorkerRequeue, WorkerInv, WorkerTypeOK, Goto
      <3> QED
        BY <1>a, <3>1, AddAfterKeepsInv
    <2>3. CASE WorkerDone(w) \/ WorkerDoneRequeue(w)
      <3>1. wkey[w] \in processing /\ Done(wkey[w])
        BY <1>a, <2>3 DEF WorkerDone, WorkerDoneRequeue, WorkerInv, Busy, Goto
      <3> QED
        BY <1>a, <3>1, DoneKeepsInv
    <2>4. CASE ~(WorkerGet(w) \/ WorkerError(w) \/ WorkerRequeue(w)
                 \/ WorkerDone(w) \/ WorkerDoneRequeue(w))
      <3>1. UNCHANGED queueVars
        BY <1>2, <2>4 DEF Worker, WorkerMiss, WorkerHit, WorkerUnreachable,
           WorkerCollectFails, WorkerCollect, WorkerRecord, WorkerStore
      <3> QED
        BY <1>0, <3>1
    <2> QED
      BY <2>1, <2>2, <2>3, <2>4
  <1>3. ASSUME NEW k \in SubAccounts, Timer(k)
        PROVE  QueueTypeOK' /\ QueueInv'
    <2>1. Enqueue(k) /\ UNCHANGED processing /\ waiting' \subseteq SubAccounts
      BY <1>b, <1>3 DEF Timer, Expire
    <2> QED
      BY <1>a, <2>1, EnqueueKeepsInv
  <1> QED
    BY <1>1, <1>2, <1>3 DEF Step

(* The cache holds records only, each one filed under its own subaccount   *)
(* and with scans of its own shoot: the poller stores records without      *)
(* scans, and a worker stores what it read from the same key.              *)
LEMMA CacheKept ==
    ASSUME IInv, Step
    PROVE  cache' \in [SubAccounts -> Record \cup {None}] /\ CacheInv'
  <1>a. cache \in [SubAccounts -> Record \cup {None}] /\ CacheInv
    BY DEF IInv, TypeOK, CacheTypeOK
  <1>1. ASSUME NEW r \in Runtimes,
               cache' = [cache EXCEPT ![SubAccountOf[r]] = NewRecord(r)]
        PROVE  cache' \in [SubAccounts -> Record \cup {None}] /\ CacheInv'
    <2>1. /\ NewRecord(r) \in Record
          /\ NewRecord(r).rt = r
          /\ NewRecord(r).scans = None
          /\ SubAccountOf[r] \in SubAccounts
      BY SubAccountOfAssumption DEF NewRecord, Record
    <2> QED
      BY <1>a, <1>1, <2>1 DEF CacheInv, OwnScans
  <1>2. CASE PollAdd \/ PollReset
    <2>1. cur \in Runtimes
      BY <1>2 DEF PollAdd, PollReset, PollerInv, IInv
    <2>2. \/ cache' = cache
          \/ cache' = [cache EXCEPT ![SubAccountOf[cur]] = NewRecord(cur)]
      BY <1>2 DEF PollAdd, PollReset
    <2> QED
      BY <1>a, <1>1, <2>1, <2>2 DEF CacheInv
  <1>3. CASE PollDrop \/ \E k \in SubAccounts : PollSweepDrop(k)
    <2>1. \E k \in SubAccounts \cup {SubAccountOf[cur]} :
              cache' = [cache EXCEPT ![k] = None]
      BY <1>3, Zenon DEF PollDrop, PollSweepDrop
    <2> QED
      BY <1>a, <2>1, Zenon DEF CacheInv
  <1>4. ASSUME NEW w \in Workers, WorkerStore(w)
        PROVE  cache' \in [SubAccounts -> Record \cup {None}] /\ CacheInv'
    <2>1. /\ wrec[w] \in Record
          /\ OwnScans(wrec[w])
          /\ cache' = [cache EXCEPT ![SubAccountOf[wrec[w].rt]] = wrec[w]]
      BY <1>4 DEF WorkerStore, WorkerInv, IInv, Goto
    <2> QED
      BY <1>a, <2>1, Zenon DEF CacheInv, OwnScans
  <1>5. CASE UNCHANGED cache
    BY <1>a, <1>5 DEF CacheInv
  <1> QED
    BY <1>2, <1>3, <1>4, <1>5, CacheFrame

(* Metric series are only recorded for runtimes, or without labels.        *)
LEMMA SeriesKept ==
    ASSUME IInv, Step
    PROVE  series' \subseteq Runtimes \cup {None}
  <1>a. series \subseteq Runtimes \cup {None}
    BY DEF IInv, TypeOK, CacheTypeOK
  <1>1. CASE Poller \/ \E k \in SubAccounts : Timer(k)
    <2>1. series' \subseteq series
      BY <1>1 DEF Poller, PollFetch, PollSkip, PollNew, PollChanged,
         PollUntrackable, Visit, PollAdd, PollEnqueue, PollReset, PollDrop,
         PollPurge, PollSweep, PollSweepDrop, PollSweepPurge, PollEnd,
         DeleteMetrics, Timer
    <2> QED
      BY <1>a, <2>1
  <1>2. ASSUME NEW w \in Workers, Worker(w)
        PROVE  series' \subseteq Runtimes \cup {None}
    <2>1. WorkerInv
      BY DEF IInv
    <2>2. \/ series' \subseteq series \cup {None}
          \/ series' = series \cup {wrec[w].rt} /\ wrec[w] \in Record
      BY <1>2, <2>1 DEF WorkerInv, Worker, WorkerGet, WorkerMiss, WorkerHit,
         WorkerUnreachable, WorkerCollectFails, WorkerCollect, WorkerRecord,
         WorkerStore, WorkerError, WorkerDone, WorkerDoneRequeue, WorkerRequeue, Goto
    <2> QED
      BY <1>a, <2>2 DEF Record
  <1> QED
    BY <1>1, <1>2 DEF Step

(* The workers' variables keep their types.                                *)
LEMMA WorkerTypeKept ==
    ASSUME IInv, Step
    PROVE  WorkerTypeOK'
  <1>t. WorkerTypeOK /\ WorkerInv
    BY DEF IInv, TypeOK
  <1>1. CASE Poller \/ \E k \in SubAccounts : Timer(k)
    <2>1. UNCHANGED <<wpc, wkey, wrec>>
      BY <1>1, PollerFrame DEF Timer
    <2> QED
      BY <1>t, <2>1 DEF WorkerTypeOK
  <1>2. ASSUME NEW w \in Workers, Worker(w)
        PROVE  WorkerTypeOK'
    <2>1. wpc' \in [Workers -> WorkerPcs]
      BY <1>t, <1>2 DEF WorkerTypeOK, WorkerPcs, Goto, Worker, WorkerGet,
         WorkerMiss, WorkerHit, WorkerUnreachable, WorkerCollectFails,
         WorkerCollect, WorkerRecord, WorkerStore, WorkerError, WorkerDone,
         WorkerDoneRequeue, WorkerRequeue
    <2>2. wkey' \in [Workers -> SubAccounts \cup {None}]
      BY <1>t, <1>2 DEF WorkerTypeOK, Worker, WorkerGet,
         WorkerMiss, WorkerHit, WorkerUnreachable, WorkerCollectFails,
         WorkerCollect, WorkerRecord, WorkerStore, WorkerError, WorkerDone,
         WorkerDoneRequeue, WorkerRequeue
    <2>3. wrec' \in [Workers -> Record \cup {None}]
      <3>1. CASE WorkerHit(w)
        <4>1. wkey[w] \in SubAccounts
          BY <1>t, <3>1 DEF WorkerHit, WorkerInv, WorkerTypeOK, Goto
        <4>2. cache[wkey[w]] \in Record \cup {None}
          BY <4>1 DEF IInv, TypeOK, CacheTypeOK
        <4> QED
          BY <1>t, <3>1, <4>2 DEF WorkerHit, WorkerTypeOK
      <3>2. CASE WorkerCollect(w)
        <4>1. wrec[w] \in Record
          BY <1>t, <3>2 DEF WorkerCollect, WorkerInv, Goto
        <4>2. [wrec[w] EXCEPT !.scans = wrec[w].rt] \in Record
          BY <4>1 DEF Record
        <4> QED
          BY <1>t, <3>2, <4>2 DEF WorkerCollect, WorkerTypeOK
      <3>3. CASE WorkerStore(w) \/ WorkerError(w)
        BY <1>t, <3>3 DEF WorkerStore, WorkerError, WorkerTypeOK
      <3>4. CASE ~(WorkerHit(w) \/ WorkerCollect(w) \/ WorkerStore(w) \/ WorkerError(w))
        BY <1>t, <1>2, <3>4 DEF WorkerTypeOK, Worker, WorkerGet, WorkerMiss,
           WorkerUnreachable, WorkerCollectFails, WorkerRecord, WorkerDone,
           WorkerDoneRequeue, WorkerRequeue
      <3> QED
        BY <3>1, <3>2, <3>3, <3>4
    <2> QED
      BY <2>1, <2>2, <2>3 DEF WorkerTypeOK
  <1> QED
    BY <1>1, <1>2 DEF Step

(* What each worker has is what the queue guards for it: the three         *)
(* invariants about the workers and processing, which need each other.     *)
LEMMA WorkersKept ==
    ASSUME IInv, Step
    PROVE  WorkerInv' /\ ProcessingIsHeld' /\ OneWorkerPerSubAccount'
  <1> DEFINE Goal == WorkerInv' /\ ProcessingIsHeld' /\ OneWorkerPerSubAccount'
  <1>a. WorkerInv /\ ProcessingIsHeld /\ OneWorkerPerSubAccount
    BY DEF IInv
  <1>t. /\ wpc \in [Workers -> WorkerPcs]
        /\ wkey \in [Workers -> SubAccounts \cup {None}]
        /\ wrec \in [Workers -> Record \cup {None}]
    BY DEF IInv, TypeOK, WorkerTypeOK
  <1>q. QueueTypeOK /\ QueueInv
    BY DEF IInv, TypeOK
  <1>1. CASE Poller \/ \E k \in SubAccounts : Timer(k)
    <2>1. UNCHANGED <<wpc, wkey, wrec, processing>>
      BY <1>1, PollerFrame DEF Timer, Expire
    <2>2. WorkerInv'
      BY <1>a, <2>1 DEF WorkerInv, Busy, OwnScans
    <2>3. ProcessingIsHeld' /\ OneWorkerPerSubAccount'
      BY <1>a, <2>1 DEF ProcessingIsHeld, OneWorkerPerSubAccount, Busy
    <2> QED
      BY <2>2, <2>3
  <1>2. ASSUME NEW w \in Workers, Worker(w)
        PROVE  Goal
    <2>1. CASE WorkerGet(w)
      <3>1. PICK k \in SubAccounts : Get(k) /\ wkey' = [wkey EXCEPT ![w] = k]
        BY <2>1, Zenon DEF WorkerGet
      <3>2. k \notin processing /\ processing' = processing \cup {k}
        <4>1. k \notin processing
          BY <1>q, <3>1, GetKeepsInv
        <4> QED
          BY <3>1, <4>1 DEF Get
      <3>3. \A v \in Workers \ {w} :
               wkey'[v] = wkey[v] /\ wpc'[v] = wpc[v] /\ wrec'[v] = wrec[v]
        BY <1>t, <2>1, <3>1 DEF WorkerGet, Goto
      <3>4. wkey'[w] = k /\ wpc[w] = "idle" /\ wpc'[w] = "lookup"
        BY <1>t, <2>1, <3>1 DEF WorkerGet, Goto
      <3>5. WorkerInv'
        BY <1>a, <3>2, <3>3, <3>4, NoneAssumption DEF WorkerInv, Busy, OwnScans
      <3>6. ProcessingIsHeld'
        BY <1>a, <3>2, <3>3, <3>4 DEF ProcessingIsHeld, Busy
      <3>7. \A v \in Workers \ {w} : Busy(v) => wkey[v] # k
        BY <1>a, <3>2 DEF WorkerInv
      <3>8. OneWorkerPerSubAccount'
        BY <1>a, <3>3, <3>4, <3>7 DEF OneWorkerPerSubAccount, Busy
      <3> QED
        BY <3>5, <3>6, <3>8
    <2>2. CASE \/ WorkerMiss(w) \/ WorkerHit(w) \/ WorkerUnreachable(w)
               \/ WorkerCollectFails(w) \/ WorkerCollect(w) \/ WorkerRecord(w)
               \/ WorkerStore(w) \/ WorkerError(w)
      <3>1. wkey' = wkey /\ processing' = processing
        BY <2>2 DEF WorkerMiss, WorkerHit, WorkerUnreachable, WorkerCollectFails,
           WorkerCollect, WorkerRecord, WorkerStore, WorkerError, AddAfter
      <3>2. \A v \in Workers \ {w} : wpc'[v] = wpc[v] /\ wrec'[v] = wrec[v]
        BY <1>t, <2>2 DEF WorkerMiss, WorkerHit, WorkerUnreachable, Goto,
           WorkerCollectFails, WorkerCollect, WorkerRecord, WorkerStore, WorkerError
      <3>3. Busy(w) /\ Busy(w)'
        BY <1>t, <2>2 DEF WorkerMiss, WorkerHit, WorkerUnreachable, Goto, Busy,
           WorkerCollectFails, WorkerCollect, WorkerRecord, WorkerStore, WorkerError
      <3>4. wpc'[w] \in {"collect", "error", "record", "store"} =>
               /\ wrec'[w] \in Record
               /\ SubAccountOf[wrec'[w].rt] = wkey[w]
               /\ OwnScans(wrec'[w])
        <4>1. CASE WorkerHit(w)
          <5>1. /\ wkey[w] \in SubAccounts
                /\ cache[wkey[w]] # None
                /\ wrec'[w] = cache[wkey[w]]
            BY <1>a, <1>t, <4>1 DEF WorkerHit, WorkerInv, Goto
          <5>2. cache \in [SubAccounts -> Record \cup {None}] /\ CacheInv
            BY DEF IInv, TypeOK, CacheTypeOK
          <5> QED
            BY <5>1, <5>2 DEF CacheInv
        <4>2. CASE WorkerUnreachable(w) \/ WorkerCollectFails(w) \/ WorkerRecord(w)
          BY <1>a, <4>2 DEF WorkerUnreachable, WorkerCollectFails, WorkerRecord,
             WorkerInv, Goto
        <4>3. CASE WorkerCollect(w)
          <5>1. wrec[w] \in Record /\ SubAccountOf[wrec[w].rt] = wkey[w]
            BY <1>a, <4>3 DEF WorkerCollect, WorkerInv, Goto
          <5>2. wrec'[w] = [wrec[w] EXCEPT !.scans = wrec[w].rt]
            BY <1>t, <4>3 DEF WorkerCollect
          <5>3. /\ wrec'[w] \in Record
                /\ wrec'[w].rt = wrec[w].rt
                /\ wrec'[w].scans = wrec[w].rt
            BY <5>1, <5>2 DEF Record
          <5> QED
            BY <5>1, <5>3 DEF OwnScans
        <4>4. CASE WorkerMiss(w) \/ WorkerStore(w) \/ WorkerError(w)
          BY <1>t, <4>4 DEF WorkerMiss, WorkerStore, WorkerError, Goto
        <4> QED
          BY <2>2, <4>1, <4>2, <4>3, <4>4
      <3>5. \A v \in Workers : (wpc'[v] = "idle" <=> wpc[v] = "idle") /\ (Busy(v)' <=> Busy(v))
        BY <3>2, <3>3 DEF Busy
      <3>6. WorkerInv'
        BY <1>a, <3>1, <3>2, <3>4, <3>5 DEF WorkerInv, OwnScans
      <3>7. ProcessingIsHeld' /\ OneWorkerPerSubAccount'
        BY <1>a, <3>1, <3>5 DEF ProcessingIsHeld, OneWorkerPerSubAccount
      <3> QED
        BY <3>6, <3>7
    <2>3. CASE WorkerDone(w) \/ WorkerDoneRequeue(w)
      <3>1. processing' = processing \ {wkey[w]} /\ wrec' = wrec
        BY <2>3 DEF WorkerDone, WorkerDoneRequeue, Done
      <3>2. \A v \in Workers \ {w} : wkey'[v] = wkey[v] /\ wpc'[v] = wpc[v]
        BY <1>t, <2>3 DEF WorkerDone, WorkerDoneRequeue, Goto
      <3>3. /\ Busy(w)
            /\ wpc'[w] \in {"idle", "requeue"}
            /\ wpc'[w] = "idle" <=> wkey'[w] = None
        BY <1>a, <1>t, <2>3 DEF WorkerDone, WorkerDoneRequeue, Goto, Busy, WorkerInv
      <3>4. \A v \in Workers \ {w} : Busy(v) => wkey[v] # wkey[w]
        BY <1>a, <3>3 DEF OneWorkerPerSubAccount
      <3>5. ~Busy(w)' /\ \A v \in Workers \ {w} : Busy(v)' <=> Busy(v)
        BY <3>2, <3>3 DEF Busy
      <3>6. WorkerInv'
        BY <1>a, <3>1, <3>2, <3>3, <3>4, <3>5 DEF WorkerInv, OwnScans
      <3>7. ProcessingIsHeld'
        BY <1>a, <3>1, <3>2, <3>5 DEF ProcessingIsHeld
      <3>8. OneWorkerPerSubAccount'
        BY <1>a, <3>2, <3>5 DEF OneWorkerPerSubAccount
      <3> QED
        BY <3>6, <3>7, <3>8
    <2>4. CASE WorkerRequeue(w)
      <3>1. processing' = processing /\ wrec' = wrec
        BY <2>4 DEF WorkerRequeue, AddAfter
      <3>2. \A v \in Workers \ {w} : wkey'[v] = wkey[v] /\ wpc'[v] = wpc[v]
        BY <1>t, <2>4 DEF WorkerRequeue, Goto
      <3>3. wpc[w] = "requeue" /\ wpc'[w] = "idle" /\ wkey'[w] = None
        BY <1>t, <2>4 DEF WorkerRequeue, Goto
      <3>4. ~Busy(w) /\ \A v \in Workers : Busy(v)' <=> Busy(v)
        BY <3>2, <3>3 DEF Busy
      <3>5. WorkerInv'
        BY <1>a, <3>1, <3>2, <3>3, <3>4 DEF WorkerInv, OwnScans
      <3>6. ProcessingIsHeld' /\ OneWorkerPerSubAccount'
        BY <1>a, <3>1, <3>2, <3>4 DEF ProcessingIsHeld, OneWorkerPerSubAccount
      <3> QED
        BY <3>5, <3>6
    <2> QED
      BY <1>2, <2>1, <2>2, <2>3, <2>4 DEF Worker
  <1> QED
    BY <1>1, <1>2 DEF Step

(* The poller's variables keep their types.                                *)
LEMMA PollerTypeKept ==
    ASSUME IInv, Step
    PROVE  PollerTypeOK'
  <1>a. PollerTypeOK /\ PollerInv /\ cache \in [SubAccounts -> Record \cup {None}]
    BY DEF IInv, TypeOK, CacheTypeOK
  <1>1. CASE PollFetch
    BY <1>a, <1>1 DEF PollFetch, Replies, PollerTypeOK, PollerPcs, Listed
  <1>2. ASSUME NEW r \in Runtimes,
               PollSkip(r) \/ PollNew(r) \/ PollChanged(r) \/ PollUntrackable(r)
        PROVE  PollerTypeOK'
    <2>1. SubAccountOf[r] \in SubAccounts
      BY SubAccountOfAssumption
    <2>2. \E branch \in {"visit", "add", "reset", "drop"},
             record \in Record \cup {None} : Visit(r, branch, record)
      BY <1>a, <1>2, <2>1 DEF PollSkip, PollNew, PollChanged, PollUntrackable, Cached
    <2> QED
      BY <1>a, <2>2 DEF Visit, PollerTypeOK, PollerPcs
  <1>3. CASE \/ PollAdd \/ PollEnqueue \/ PollReset \/ PollDrop
             \/ PollPurge \/ PollSweepPurge \/ PollEnd
    BY <1>a, <1>3 DEF PollAdd, PollEnqueue, PollReset, PollDrop, PollPurge,
       PollSweepPurge, PollEnd, PollerTypeOK, PollerPcs
  <1>4. CASE PollSweep
    BY <1>a, <1>4 DEF PollSweep, PollerTypeOK, PollerPcs
  <1>5. ASSUME NEW k \in SubAccounts, PollSweepDrop(k)
        PROVE  PollerTypeOK'
    BY <1>a, <1>5 DEF PollSweepDrop, PollerTypeOK, PollerPcs
  <1>6. CASE (\E w \in Workers : Worker(w)) \/ \E k \in SubAccounts : Timer(k)
    <2>1. UNCHANGED <<reply, ppc, todo, cur, found, items>>
      BY <1>6, WorkerFrame DEF Timer
    <2> QED
      BY <1>a, <2>1 DEF PollerTypeOK
  <1> QED
    BY <1>1, <1>2, <1>3, <1>4, <1>5, <1>6 DEF Step, Poller

(* Workers add records to the cache and never remove one, so the record    *)
(* the poller found stays there until the poller replaces it.              *)
LEMMA PollerInvKept ==
    ASSUME IInv, Step
    PROVE  PollerInv'
  <1>a. PollerInv
    BY DEF IInv
  <1>1. ASSUME NEW r \in Runtimes,
               PollSkip(r) \/ PollNew(r) \/ PollChanged(r) \/ PollUntrackable(r)
        PROVE  PollerInv'
    BY <1>1 DEF PollSkip, PollNew, PollChanged, PollUntrackable, Visit, PollerInv,
       Cached
  <1>2. CASE \/ PollFetch \/ PollAdd \/ PollEnqueue \/ PollReset \/ PollDrop
             \/ PollPurge \/ PollSweep \/ PollSweepPurge \/ PollEnd
             \/ \E k \in SubAccounts : PollSweepDrop(k)
    BY <1>a, <1>2 DEF PollFetch, PollAdd, PollEnqueue, PollReset, PollDrop,
       PollPurge, PollSweep, PollSweepDrop, PollSweepPurge, PollEnd, PollerInv
  <1>3. CASE (\E w \in Workers : Worker(w)) \/ \E k \in SubAccounts : Timer(k)
    <2>1. UNCHANGED <<ppc, cur>>
      BY <1>3, WorkerFrame DEF Timer
    <2>2. \A k \in SubAccounts : cache[k] # None => cache'[k] # None
      <3>1. cache \in [SubAccounts -> Record \cup {None}] /\ WorkerInv
        BY DEF IInv, TypeOK, CacheTypeOK
      <3>2. ASSUME NEW w \in Workers, WorkerStore(w)
            PROVE  wrec[w] # None
                   /\ cache' = [cache EXCEPT ![SubAccountOf[wrec[w].rt]] = wrec[w]]
        BY <3>1, <3>2, NoneAssumption DEF WorkerStore, WorkerInv, Goto
      <3>3. (\E w \in Workers : WorkerStore(w)) \/ cache' = cache
        BY <1>3 DEF Worker, WorkerGet, WorkerMiss, WorkerHit, WorkerUnreachable,
           WorkerCollectFails, WorkerCollect, WorkerRecord, WorkerError,
           WorkerDone, WorkerDoneRequeue, WorkerRequeue, Timer
      <3> QED
        BY <3>1, <3>2, <3>3
    <2> QED
      BY <1>a, <2>1, <2>2, SubAccountOfAssumption DEF PollerInv, Cached
  <1> QED
    BY <1>1, <1>2, <1>3 DEF Step, Poller

(* A pending subaccount stays pending when no key leaves the queue and no  *)
(* worker lets go of one, as long as the poller is not about to queue it.  *)
LEMMA PendingFrame ==
    ASSUME NEW k \in SubAccounts, Pending(k),
           dirty \cup waiting \subseteq dirty' \cup waiting',
           \A w \in Workers : wkey[w] = k /\ wpc[w] # "done"
                             => wkey'[w] = k /\ wpc'[w] # "done",
           ppc = "enqueue" => ppc' = "enqueue" /\ cur' = cur
    PROVE  Pending(k)'
  BY DEF Pending

(* Every tracked subaccount stays pending.  The steps that matter: Get     *)
(* takes a key off the queue but hands it to a worker, a timer that runs   *)
(* out queues its key, a worker that is through with a key has requeued it *)
(* or found no record, and a record is only added together with a key in   *)
(* somebody's hands.                                                       *)
LEMMA PendingInvKept ==
    ASSUME IInv, Step
    PROVE  PendingInv'
  <1> SUFFICES ASSUME NEW k \in SubAccounts, cache'[k] # None
               PROVE  Pending(k)'
    BY DEF PendingInv
  <1>a. cache[k] # None => Pending(k)
    BY DEF IInv, PendingInv
  <1>b. PollerInv /\ WorkerInv /\ cache \in [SubAccounts -> Record \cup {None}]
    BY DEF IInv, TypeOK, CacheTypeOK
  <1>t. WorkerTypeOK
    BY DEF IInv, TypeOK
  <1>1. CASE Poller
    <2>1. /\ UNCHANGED <<wkey, wpc>>
          /\ dirty \cup waiting \subseteq dirty' \cup waiting'
      BY <1>1, PollerFrame
    <2>2. CASE PollEnqueue
      <3>1. SubAccountOf[cur] \in dirty' /\ cache' = cache
        BY <2>2 DEF PollEnqueue, Add, Enqueue
      <3> QED
        BY <1>a, <2>1, <3>1 DEF Pending
    <2>3. CASE PollAdd
      <3>1. /\ ppc = "add"
            /\ cache[k] # None \/ (ppc' = "enqueue" /\ cur' = cur /\ SubAccountOf[cur] = k)
        BY <1>b, <2>3 DEF PollAdd
      <3> QED
        BY <1>a, <2>1, <3>1 DEF Pending
    <2>4. CASE ~(PollEnqueue \/ PollAdd)
      <3>1. ppc # "enqueue"
        BY <1>1, <2>4 DEF Poller, PollFetch, PollSkip, PollNew, PollChanged,
           PollUntrackable, Visit, PollReset, PollDrop, PollPurge, PollSweep,
           PollSweepDrop, PollSweepPurge, PollEnd
      <3>2. CASE PollReset
        <4>1. cache[k] # None
          BY <1>b, <3>2 DEF PollReset, PollerInv, Cached
        <4> QED
          BY <1>a, <2>1, <3>1, <4>1, PendingFrame
      <3>3. CASE ~PollReset
        <4>1. cache[k] # None
          BY <1>1, <1>b, <2>4, <3>3 DEF Poller, PollFetch, PollSkip, PollNew,
             PollChanged, PollUntrackable, Visit, PollDrop, PollPurge, PollSweep,
             PollSweepDrop, PollSweepPurge, PollEnd
        <4> QED
          BY <1>a, <2>1, <3>1, <4>1, PendingFrame
      <3> QED
        BY <3>2, <3>3
    <2> QED
      BY <2>2, <2>3, <2>4
  <1>2. ASSUME NEW w \in Workers, Worker(w)
        PROVE  Pending(k)'
    <2>1. UNCHANGED <<ppc, cur>>
      BY <1>2, WorkerFrame
    <2>2. CASE WorkerGet(w)
      <3>1. PICK j \in SubAccounts : Get(j) /\ wkey' = [wkey EXCEPT ![w] = j]
        BY <2>2, Zenon DEF WorkerGet
      <3>2. wpc[w] = "idle" /\ wpc' = [wpc EXCEPT ![w] = "lookup"] /\ cache' = cache
        BY <2>2 DEF WorkerGet, Goto
      <3>3. wkey[w] = None /\ wkey'[w] = j /\ wpc'[w] = "lookup"
        BY <1>b, <1>t, <3>1, <3>2 DEF WorkerInv, WorkerTypeOK
      <3>4. CASE j = k
        BY <3>3, <3>4 DEF Pending
      <3>5. CASE j # k
        <4>1. dirty' = dirty \ {j} /\ waiting' = waiting
          BY <3>1 DEF Get
        <4>2. \A v \in Workers \ {w} : wkey'[v] = wkey[v] /\ wpc'[v] = wpc[v]
          BY <1>t, <3>1, <3>2 DEF WorkerTypeOK
        <4>3. wkey[w] # k
          BY <3>3, NoneAssumption
        <4> QED
          BY <1>a, <2>1, <3>2, <3>5, <4>1, <4>2, <4>3 DEF Pending
      <3> QED
        BY <3>4, <3>5
    <2>3. CASE WorkerMiss(w)
      <3>1. /\ cache' = cache /\ wkey[w] # k
            /\ wkey' = wkey /\ \A v \in Workers \ {w} : wpc'[v] = wpc[v]
            /\ dirty' = dirty /\ waiting' = waiting
        BY <1>t, <2>3 DEF WorkerMiss, Goto, WorkerTypeOK
      <3> QED
        BY <1>a, <2>1, <3>1, PendingFrame
    <2>4. CASE WorkerError(w) \/ WorkerRequeue(w)
      <3>1. /\ cache' = cache
            /\ dirty' = dirty /\ waiting' = waiting \cup {wkey[w]}
            /\ \A v \in Workers \ {w} : wkey'[v] = wkey[v] /\ wpc'[v] = wpc[v]
        BY <1>t, <2>4 DEF WorkerError, WorkerRequeue, AddAfter, Goto, WorkerTypeOK
      <3>2. CASE wkey[w] = k
        BY <3>1, <3>2 DEF Pending
      <3>3. CASE wkey[w] # k
        BY <1>a, <2>1, <3>1, <3>3, PendingFrame
      <3> QED
        BY <3>2, <3>3
    <2>5. CASE WorkerDone(w)
      <3>1. /\ cache' = cache
            /\ wpc[w] = "done"
            /\ dirty' = dirty /\ waiting' = waiting
            /\ \A v \in Workers \ {w} : wkey'[v] = wkey[v] /\ wpc'[v] = wpc[v]
        BY <1>t, <2>5 DEF WorkerDone, Done, Goto, WorkerTypeOK
      <3> QED
        BY <1>a, <2>1, <3>1, PendingFrame
    <2>6. CASE \/ WorkerHit(w) \/ WorkerUnreachable(w) \/ WorkerCollectFails(w)
               \/ WorkerCollect(w) \/ WorkerRecord(w) \/ WorkerStore(w)
               \/ WorkerDoneRequeue(w)
      <3>1. dirty' = dirty /\ waiting' = waiting /\ wkey' = wkey
        BY <2>6 DEF WorkerHit, WorkerUnreachable, WorkerCollectFails,
           WorkerCollect, WorkerRecord, WorkerStore, WorkerDoneRequeue, Done
      <3>2. wpc'[w] # "done" /\ \A v \in Workers \ {w} : wpc'[v] = wpc[v]
        BY <1>t, <2>6 DEF WorkerHit, WorkerUnreachable, WorkerCollectFails,
           WorkerCollect, WorkerRecord, WorkerStore, WorkerDoneRequeue, Goto,
           WorkerTypeOK
      <3>3. cache[k] # None \/ wkey[w] = k
        BY <1>b, <2>6 DEF WorkerHit, WorkerUnreachable, WorkerCollectFails,
           WorkerCollect, WorkerRecord, WorkerStore, WorkerDoneRequeue,
           WorkerInv, Goto
      <3>4. CASE wkey[w] = k
        BY <3>1, <3>2, <3>4 DEF Pending
      <3>5. CASE wkey[w] # k
        BY <1>a, <2>1, <3>1, <3>2, <3>3, <3>5, PendingFrame
      <3> QED
        BY <3>4, <3>5
    <2> QED
      BY <1>2, <2>2, <2>3, <2>4, <2>5, <2>6 DEF Worker
  <1>3. ASSUME NEW j \in SubAccounts, Timer(j)
        PROVE  Pending(k)'
    <2>1. /\ cache' = cache
          /\ dirty \cup waiting \subseteq dirty' \cup waiting'
          /\ UNCHANGED <<ppc, cur, wkey, wpc>>
      BY <1>3 DEF Timer, Expire, Enqueue
    <2> QED
      BY <1>a, <2>1, PendingFrame
  <1> QED
    BY <1>1, <1>2, <1>3 DEF Step

(* The inductive step, stuttering included.                                *)
LEMMA NextIInv == IInv /\ [Next]_vars => IInv'
  <1> SUFFICES ASSUME IInv, [Next]_vars PROVE IInv'
    OBVIOUS
  <1>1. CASE Step
    <2>1. TypeOK'
      BY <1>1, QueueKept, CacheKept, SeriesKept, PollerTypeKept, WorkerTypeKept
      DEF TypeOK, CacheTypeOK
    <2>2. QueueInv' /\ CacheInv' /\ PollerInv' /\ PendingInv'
      BY <1>1, QueueKept, CacheKept, PollerInvKept, PendingInvKept
    <2>3. WorkerInv' /\ ProcessingIsHeld' /\ OneWorkerPerSubAccount'
      BY <1>1, WorkersKept
    <2> QED
      BY <2>1, <2>2, <2>3 DEF IInv
  <1>3. CASE Restart
    <2>1. Init'
      BY <1>3 DEF Restart, Init, QueueInit
    <2> QED
      BY <2>1, InitIInv, PTL
  <1>2. CASE UNCHANGED vars
    <2>1. UNCHANGED <<queue, dirty, processing, waiting, cache, series, reply, ppc,
                      todo, cur, found, items, wpc, wkey, wrec>>
      BY <1>2 DEF vars
    <2>2. TypeOK'
      BY <2>1 DEF IInv, TypeOK, QueueTypeOK, CacheTypeOK, PollerTypeOK, WorkerTypeOK
    <2>3. QueueInv' /\ CacheInv' /\ PollerInv' /\ PendingInv'
      BY <2>1 DEF IInv, QueueInv, Queued, CacheInv, OwnScans, PollerInv, Cached,
         PendingInv, Pending
    <2>4. WorkerInv' /\ ProcessingIsHeld' /\ OneWorkerPerSubAccount'
      BY <2>1 DEF IInv, WorkerInv, Busy, OwnScans, ProcessingIsHeld,
         OneWorkerPerSubAccount
    <2> QED
      BY <2>2, <2>3, <2>4 DEF IInv
  <1> QED
    BY <1>1, <1>2, <1>3 DEF Next

(* The inductive invariant holds in every state of every behaviour.        *)
THEOREM Invariance == Spec => []IInv
  BY InitIInv, NextIInv, PTL DEF Spec

(* The variables of the process always have their types: in particular     *)
(* every cache entry a worker casts to a Record is one, so that the "bad   *)
(* item" branches of the code are dead.                                    *)
THEOREM TypeCorrect == Spec => []TypeOK
  <1>1. IInv => TypeOK
    BY DEF IInv
  <1> QED
    BY <1>1, Invariance, PTL

(* No tracked subaccount ever drops out of the scrape cycle.               *)
THEOREM NothingLost == Spec => []NoSubAccountLost
  <1>1. IInv => NoSubAccountLost
    <2> SUFFICES ASSUME IInv, NEW k \in SubAccounts, cache[k] # None
                 PROVE  \/ k \in Queued \cup waiting
                        \/ \E w \in Workers : WillRequeue(w, k)
                        \/ ppc = "enqueue" /\ SubAccountOf[cur] = k
      BY DEF NoSubAccountLost
    <2>1. Pending(k)
      BY DEF IInv, PendingInv
    <2>2. CASE k \in dirty
      <3>1. CASE k \in processing
        BY <2>2, <3>1 DEF IInv, ProcessingIsHeld, WillRequeue
      <3> QED
        BY <2>2, <3>1 DEF IInv, QueueInv
    <2>3. CASE \E w \in Workers : wkey[w] = k /\ wpc[w] # "done"
      BY <2>3 DEF WillRequeue
    <2> QED
      BY <2>1, <2>2, <2>3 DEF Pending
  <1> QED
    BY <1>1, Invariance, PTL

(* No two workers ever process one subaccount at the same time.            *)
THEOREM Exclusive == Spec => []OneWorkerPerSubAccount
  <1>1. IInv => OneWorkerPerSubAccount
    BY DEF IInv
  <1> QED
    BY <1>1, Invariance, PTL

(* Measurements sent for a shoot never come from scans of another one.     *)
THEOREM OwnScansOnly == Spec => []FallbackIsOwnScans
  <1>1. IInv => FallbackIsOwnScans
    BY DEF IInv, WorkerInv, OwnScans, FallbackIsOwnScans
  <1> QED
    BY <1>1, Invariance, PTL

(* The queue keeps the guarantees the process relies on, because Done is   *)
(* only called for keys that were handed out.                              *)
THEOREM QueueUsedRightly == Spec => []QueueInv
  <1>1. IInv => QueueInv
    BY DEF IInv
  <1> QED
    BY <1>1, Invariance, PTL
=============================================================================
