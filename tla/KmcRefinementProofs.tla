------------------------ MODULE KmcRefinementProofs ------------------------
(***************************************************************************)
(* KmcProcess implements SubAccountSpec, for any number of subaccounts,    *)
(* runtimes and workers.  The lemmas say how each part of the refinement   *)
(* mapping changes; the steps of the process are then matched one by one.  *)
(***************************************************************************)
EXTENDS KmcProcessProofs

USE DEF queueVars, pollerVars, workerVars

(* What the refinement needs of the inductive invariant.                   *)
LEMMA IInvFacts ==
    ASSUME IInv
    PROVE  /\ WorkerTypeOK /\ WorkerInv /\ OneWorkerPerSubAccount /\ PollerInv
           /\ cache \in [SubAccounts -> Record \cup {None}] /\ CacheInv
           /\ QueueTypeOK /\ QueueInv /\ ProcessingIsHeld /\ PendingInv
  BY DEF IInv, TypeOK, CacheTypeOK

(* The billed clusters change with the cache.                              *)
LEMMA BilledFrame ==
    ASSUME UNCHANGED cache
    PROVE  BilledCluster' = BilledCluster
  BY DEF BilledCluster

(* A record that is stored makes its cluster the one that is billed.       *)
LEMMA BilledSet ==
    ASSUME cache \in [SubAccounts -> Record \cup {None}],
           NEW k \in SubAccounts, NEW record \in Record,
           cache' = [cache EXCEPT ![k] = record]
    PROVE  BilledCluster' = [BilledCluster EXCEPT ![k] = record.rt]
  BY NoneAssumption DEF BilledCluster

(* A record that is deleted leaves the subaccount with no cluster billed.  *)
LEMMA BilledCleared ==
    ASSUME cache \in [SubAccounts -> Record \cup {None}],
           NEW k \in SubAccounts,
           cache' = [cache EXCEPT ![k] = None]
    PROVE  BilledCluster' = [BilledCluster EXCEPT ![k] = None]
  BY DEF BilledCluster

(* The billed cluster is the one of the record, if there is a record.      *)
LEMMA BilledIsNone ==
    ASSUME IInv, NEW k \in SubAccounts
    PROVE  /\ BilledCluster[k] = None <=> cache[k] = None
           /\ cache[k] # None => BilledCluster[k] = cache[k].rt
  <1>1. cache[k] # None => cache[k] \in Record
    BY IInvFacts
  <1>2. cache[k] # None => cache[k].rt \in Runtimes
    BY <1>1 DEF Record
  <1> QED
    BY <1>2, NoneAssumption DEF BilledCluster

(* The copies of the workers.                                              *)
LEMMA CopiesFrame ==
    ASSUME UNCHANGED <<wpc, wkey, wrec>>
    PROVE  Copies' = Copies
  BY DEF Copies, HasRecord

(* Worker w has moved and the others have not.                             *)
OnlyMoved(w) ==
    \A v \in Workers \ {w} :
        wpc'[v] = wpc[v] /\ wkey'[v] = wkey[v] /\ wrec'[v] = wrec[v]

(* What the copies are when one worker moves: its own and the others'.     *)
LEMMA CopiesMembers ==
    ASSUME NEW w \in Workers, OnlyMoved(w)
    PROVE  /\ \A c : c \in Copies <=>
                \/ HasRecord(w) /\ c = <<wkey[w], wrec[w].rt>>
                \/ \E v \in Workers \ {w} : HasRecord(v) /\ c = <<wkey[v], wrec[v].rt>>
           /\ \A c : c \in Copies' <=>
                \/ HasRecord(w)' /\ c = <<wkey'[w], wrec'[w].rt>>
                \/ \E v \in Workers \ {w} : HasRecord(v) /\ c = <<wkey[v], wrec[v].rt>>
  <1>1. \A v \in Workers \ {w} : HasRecord(v)' <=> HasRecord(v)
    BY DEF HasRecord, OnlyMoved
  <1>2. ASSUME NEW c
        PROVE  c \in Copies <=> \E v \in Workers : HasRecord(v) /\ c = <<wkey[v], wrec[v].rt>>
    BY DEF Copies
  <1>3. ASSUME NEW c
        PROVE  c \in Copies' <=> \E v \in Workers : HasRecord(v)' /\ c = <<wkey'[v], wrec'[v].rt>>
    BY DEF Copies
  <1>4. ASSUME NEW v \in Workers \ {w}
        PROVE  <<wkey'[v], wrec'[v].rt>> = <<wkey[v], wrec[v].rt>>
    BY DEF OnlyMoved
  <1>5. ASSUME NEW c
        PROVE  c \in Copies' <=>
                \/ HasRecord(w)' /\ c = <<wkey'[w], wrec'[w].rt>>
                \/ \E v \in Workers \ {w} : HasRecord(v) /\ c = <<wkey[v], wrec[v].rt>>
    BY <1>1, <1>3, <1>4
  <1> QED
    BY <1>2, <1>5

(* A worker that keeps its copy, or has none, leaves the copies as they are. *)
LEMMA CopiesKept ==
    ASSUME NEW w \in Workers, OnlyMoved(w),
           \/ ~ HasRecord(w) /\ ~ HasRecord(w)'
           \/ /\ HasRecord(w) /\ HasRecord(w)'
              /\ wkey'[w] = wkey[w] /\ wrec'[w].rt = wrec[w].rt
    PROVE  Copies' = Copies
  <1>1. \A c : c \in Copies' <=> c \in Copies
    BY CopiesMembers
  <1> QED
    BY <1>1

(* A worker that reads a record adds one copy.                             *)
LEMMA CopyTaken ==
    ASSUME NEW w \in Workers, OnlyMoved(w), ~ HasRecord(w), HasRecord(w)'
    PROVE  Copies' = Copies \cup {<<wkey'[w], wrec'[w].rt>>}
  <1>1. \A c : c \in Copies' <=> c \in Copies \cup {<<wkey'[w], wrec'[w].rt>>}
    BY CopiesMembers
  <1> QED
    BY <1>1

(* A worker that gives up its copy removes it.                             *)
LEMMA CopyReturned ==
    ASSUME NEW w \in Workers, OnlyMoved(w), HasRecord(w), ~ HasRecord(w)',
           \A v \in Workers \ {w} : HasRecord(v) => wkey[v] # wkey[w]
    PROVE  Copies' = Copies \ {<<wkey[w], wrec[w].rt>>}
  <1>1. \A c : c \in Copies' <=> c \in Copies \ {<<wkey[w], wrec[w].rt>>}
    BY CopiesMembers
  <1> QED
    BY <1>1

(* Who is due.                                                             *)
LEMMA DueFrame ==
    ASSUME \A k \in SubAccounts : Pending(k)' <=> Pending(k)
    PROVE  Due' = Due
  BY DEF Due

(* Every step of the poller is one of SubAccountSpec or none.              *)
LEMMA PollerImplements ==
    ASSUME IInv, Poller
    PROVE  SubAccount!Next \/ UNCHANGED SubAccount!vars
  <1>f. UNCHANGED <<processing, wpc, wkey, wrec>>
    BY PollerFrame
  <1>c. UNCHANGED Copies
    BY <1>f, CopiesFrame
  <1>t. cache \in [SubAccounts -> Record \cup {None}] /\ PollerInv
    BY IInvFacts
  <1>n. \A r \in Runtimes : NewRecord(r) \in Record /\ NewRecord(r).rt = r
    BY DEF NewRecord, Record
  <1>d. ASSUME UNCHANGED <<dirty, waiting>>, ppc # "enqueue", ppc' # "enqueue"
        PROVE  UNCHANGED Due
    BY <1>d, <1>f, DueFrame DEF Pending
  <1>1. CASE PollAdd
    <2> DEFINE k == SubAccountOf[cur]
    <2>1. ppc = "add" /\ cur \in Runtimes /\ UNCHANGED <<dirty, waiting>>
      BY <1>t, <1>1 DEF PollAdd, PollerInv
    <2>2. k \in SubAccounts
      BY <2>1, SubAccountOfAssumption
    <2>3. CASE cache[k] = None
      <3>1. /\ cache' = [cache EXCEPT ![k] = NewRecord(cur)]
            /\ ppc' = "enqueue" /\ cur' = cur
        BY <1>1, <2>3 DEF PollAdd, Cached
      <3>2. BilledCluster' = [BilledCluster EXCEPT ![k] = cur]
        BY <1>t, <1>n, <2>1, <2>2, <3>1, BilledSet
      <3>3. BilledCluster[k] = None
        BY <2>2, <2>3, BilledIsNone
      <3>4. \A j \in SubAccounts : Pending(j)' <=> Pending(j) \/ j = k
        BY <1>f, <2>1, <3>1 DEF Pending
      <3>5. Due' = Due \cup {k}
        BY <2>2, <3>4 DEF Due
      <3>6. SubAccount!Track(k)
        BY <1>f, <1>c, <2>1, <3>2, <3>3, <3>5 DEF SubAccount!Track
      <3> QED
        BY <2>2, <3>6 DEF SubAccount!Next
    <2>4. CASE cache[k] # None
      <3>1. cache' = cache /\ ppc' = "visit"
        BY <1>1, <2>4 DEF PollAdd, Cached
      <3> QED
        BY <1>f, <1>c, <1>d, <2>1, <3>1, BilledFrame DEF SubAccount!vars
    <2> QED
      BY <2>3, <2>4
  <1>2. CASE PollEnqueue
    <2>1. /\ ppc = "enqueue" /\ ppc' = "visit"
          /\ dirty' = dirty \cup {SubAccountOf[cur]}
          /\ UNCHANGED <<waiting, cache>>
      BY <1>2 DEF PollEnqueue, Add, Enqueue
    <2>2. UNCHANGED Due
      BY <1>f, <2>1, DueFrame DEF Pending
    <2> QED
      BY <1>f, <1>c, <2>1, <2>2, BilledFrame DEF SubAccount!vars
  <1>3. CASE PollReset
    <2> DEFINE k == SubAccountOf[cur]
    <2>1. cur \in Runtimes /\ cache' = [cache EXCEPT ![k] = NewRecord(cur)]
      BY <1>t, <1>3 DEF PollReset, PollerInv
    <2>2. /\ ppc = "reset" /\ ppc' = "purge" /\ cache[k] # None
          /\ UNCHANGED <<dirty, waiting>>
      BY <1>t, <1>3 DEF PollReset, PollerInv, Cached
    <2>3. k \in SubAccounts
      BY <2>1, SubAccountOfAssumption
    <2>4. BilledCluster' = [BilledCluster EXCEPT ![k] = cur]
      BY <1>t, <1>n, <2>1, <2>3, BilledSet
    <2>5. BilledCluster[k] # None
      BY <2>2, <2>3, BilledIsNone
    <2>6. SubAccount!Replace(k)
      BY <1>f, <1>c, <1>d, <2>1, <2>2, <2>4, <2>5 DEF SubAccount!Replace
    <2> QED
      BY <2>3, <2>6 DEF SubAccount!Next
  <1>4. CASE PollDrop \/ \E k \in SubAccounts : PollSweepDrop(k)
    <2>1. PICK k \in SubAccounts : cache' = [cache EXCEPT ![k] = None]
      BY <1>t, <1>4, SubAccountOfAssumption DEF PollDrop, PollSweepDrop, PollerInv
    <2>2. /\ ppc # "enqueue" /\ ppc' # "enqueue"
          /\ UNCHANGED <<dirty, waiting>>
      BY <1>4 DEF PollDrop, PollSweepDrop
    <2>3. SubAccount!Untrack(k)
      BY <1>f, <1>c, <1>d, <1>t, <2>1, <2>2, BilledCleared DEF SubAccount!Untrack
    <2> QED
      BY <2>3 DEF SubAccount!Next
  <1>5. CASE \/ PollFetch \/ PollPurge \/ PollSweep \/ PollSweepPurge \/ PollEnd
             \/ \E r \in Runtimes : PollSkip(r) \/ PollNew(r) \/ PollChanged(r)
                                       \/ PollUntrackable(r)
    <2>1. /\ ppc # "enqueue" /\ ppc' # "enqueue"
          /\ UNCHANGED <<dirty, waiting, cache>>
      BY <1>5 DEF PollFetch, PollPurge, PollSweep, PollSweepPurge, PollEnd,
         PollSkip, PollNew, PollChanged, PollUntrackable, Visit
    <2> QED
      BY <1>f, <1>c, <1>d, <2>1, BilledFrame DEF SubAccount!vars
  <1> QED
    BY <1>1, <1>2, <1>3, <1>4, <1>5 DEF Poller

(* A worker's step moves no other worker.                                  *)
LEMMA WorkerMovesAlone ==
    ASSUME IInv, NEW w \in Workers, Worker(w)
    PROVE  OnlyMoved(w)
  <1>1. WorkerTypeOK
    BY IInvFacts
  <1> QED
    BY <1>1 DEF OnlyMoved, WorkerTypeOK, Worker, WorkerGet, WorkerMiss, WorkerHit,
       WorkerUnreachable, WorkerCollectFails, WorkerCollect, WorkerRecord,
       WorkerStore, WorkerError, WorkerDone, WorkerDoneRequeue, WorkerRequeue, Goto

(* Only one worker at a time has a copy of a subaccount's record.          *)
LEMMA OneCopy ==
    ASSUME IInv, NEW w \in Workers, Busy(w)
    PROVE  /\ wkey[w] \in SubAccounts /\ wkey[w] \in processing
           /\ \A v \in Workers \ {w} : HasRecord(v) => wkey[v] # wkey[w]
           /\ ~ HasRecord(w) => ~ SubAccount!Copied(wkey[w])
  <1>1. /\ WorkerTypeOK /\ WorkerInv /\ OneWorkerPerSubAccount
        /\ processing \subseteq SubAccounts
    BY IInvFacts DEF QueueTypeOK
  <1>2. wkey[w] \in processing
    BY <1>1 DEF WorkerInv
  <1>3. \A v \in Workers : HasRecord(v) => Busy(v)
    BY DEF HasRecord, Busy
  <1>4. \A v \in Workers \ {w} : HasRecord(v) => wkey[v] # wkey[w]
    BY <1>1, <1>3 DEF OneWorkerPerSubAccount
  <1>5. ASSUME ~ HasRecord(w), NEW r \in Runtimes, <<wkey[w], r>> \in Copies
        PROVE  FALSE
    <2>1. PICK v \in Workers : HasRecord(v) /\ <<wkey[w], r>> = <<wkey[v], wrec[v].rt>>
      BY <1>5 DEF Copies
    <2> QED
      BY <1>4, <1>5, <2>1
  <1> QED
    BY <1>1, <1>2, <1>4, <1>5 DEF SubAccount!Copied

(* Every step of a worker is one of SubAccountSpec or none.                *)
LEMMA WorkerImplements ==
    ASSUME IInv, NEW w \in Workers, Worker(w)
    PROVE  SubAccount!Next \/ UNCHANGED SubAccount!vars
  <1>o. OnlyMoved(w) /\ UNCHANGED <<ppc, cur>>
    BY WorkerMovesAlone, WorkerFrame
  <1>t. WorkerTypeOK /\ WorkerInv
    BY IInvFacts
  <1> DEFINE k == wkey[w]
  <1>1. CASE WorkerGet(w)
    <2>1. PICK j \in SubAccounts : Get(j) /\ wkey' = [wkey EXCEPT ![w] = j]
      BY <1>1 DEF WorkerGet
    <2>2. /\ wpc[w] = "idle" /\ wpc'[w] = "lookup" /\ wkey[w] = None
          /\ UNCHANGED cache
      BY <1>t, <1>1 DEF WorkerGet, Goto, WorkerTypeOK, WorkerInv
    <2>3. wkey'[w] = j
      BY <1>t, <2>1 DEF WorkerTypeOK
    <2>4. j \in Queued
      BY <2>1, IInvFacts DEF Get, Queued, QueueTypeOK
    <2>5. j \in dirty /\ j \notin processing
      BY <2>4, IInvFacts DEF QueueInv
    <2>6. dirty' = dirty \ {j} /\ waiting' = waiting /\ processing' = processing \cup {j}
      BY <2>1 DEF Get
    <2>7. ASSUME NEW i \in SubAccounts
          PROVE  Pending(i)' <=> Pending(i)
      BY <1>o, <2>2, <2>3, <2>5, <2>6, NoneAssumption DEF Pending, OnlyMoved
    <2>8. UNCHANGED <<Due, Copies, BilledCluster>>
      BY <1>o, <2>2, <2>7, DueFrame, CopiesKept, BilledFrame DEF HasRecord
    <2>9. SubAccount!Start(j)
      BY <2>5, <2>6, <2>8 DEF SubAccount!Start, Due, Pending
    <2> QED
      BY <2>9 DEF SubAccount!Next
  <1>2. CASE WorkerMiss(w)
    <2>1. /\ wpc[w] = "lookup" /\ wpc'[w] = "done" /\ cache[k] = None
          /\ UNCHANGED <<cache, dirty, waiting, processing, wkey>>
      BY <1>t, <1>2 DEF WorkerMiss, Goto, WorkerTypeOK
    <2>2. k \in SubAccounts /\ k \in processing /\ ~ SubAccount!Copied(k)
      BY <2>1, OneCopy DEF Busy, HasRecord
    <2>3. UNCHANGED <<Copies, BilledCluster>>
      BY <1>o, <2>1, CopiesKept, BilledFrame DEF HasRecord
    <2>4. PICK j \in SubAccounts : j = k
      BY <2>2
    <2>5. ASSUME NEW i \in SubAccounts, i # j
          PROVE  Pending(i)' <=> Pending(i)
      BY <1>o, <2>1, <2>4, <2>5 DEF Pending, OnlyMoved
    <2>6. CASE Pending(j)'
      <3>1. Pending(j)
        BY <2>1, <2>4 DEF Pending
      <3> QED
        BY <2>1, <2>3, <2>5, <2>6, <3>1, DueFrame DEF SubAccount!vars
    <2>7. CASE ~ Pending(j)'
      <3>1. \A i : i \in Due' <=> i \in SubAccounts /\ Pending(i)'
        BY DEF Due
      <3>2. \A i : i \in Due <=> i \in SubAccounts /\ Pending(i)
        BY DEF Due
      <3>3. Due' = Due \ {j}
        BY <2>5, <2>7, <3>1, <3>2
      <3>4. BilledCluster[j] = None
        BY <2>1, <2>4, BilledIsNone
      <3>5. SubAccount!Forget(j)
        BY <2>1, <2>2, <2>3, <2>4, <3>3, <3>4 DEF SubAccount!Forget
      <3> QED
        BY <3>5 DEF SubAccount!Next
    <2> QED
      BY <2>6, <2>7
  <1>3. CASE WorkerHit(w)
    <2>1. /\ wpc[w] = "lookup" /\ wpc'[w] = "collect" /\ cache[k] # None
          /\ wrec'[w] = cache[k]
          /\ UNCHANGED <<cache, dirty, waiting, processing, wkey>>
      BY <1>t, <1>3 DEF WorkerHit, Goto, WorkerTypeOK
    <2>2. k \in SubAccounts /\ k \in processing /\ ~ SubAccount!Copied(k)
      BY <2>1, OneCopy DEF Busy, HasRecord
    <2>3. Copies' = Copies \cup {<<k, cache[k].rt>>}
      BY <1>o, <2>1, CopyTaken DEF HasRecord
    <2>4. BilledCluster[k] = cache[k].rt /\ BilledCluster[k] # None
      BY <2>1, <2>2, BilledIsNone DEF BilledCluster
    <2>5. ASSUME NEW i \in SubAccounts
          PROVE  Pending(i)' <=> Pending(i)
      BY <1>o, <2>1 DEF Pending, OnlyMoved
    <2>6. UNCHANGED <<Due, BilledCluster>>
      BY <2>1, <2>5, DueFrame, BilledFrame
    <2>7. SubAccount!Read(k)
      BY <2>1, <2>2, <2>3, <2>4, <2>6 DEF SubAccount!Read
    <2> QED
      BY <2>2, <2>7 DEF SubAccount!Next
  <1>4. CASE WorkerUnreachable(w) \/ WorkerCollectFails(w) \/ WorkerCollect(w) \/ WorkerRecord(w)
    <2>1. /\ HasRecord(w) /\ HasRecord(w)' /\ wpc[w] # "done" /\ wpc'[w] # "done"
          /\ UNCHANGED <<cache, dirty, waiting, processing, wkey>>
      BY <1>t, <1>4 DEF WorkerUnreachable, WorkerCollectFails, WorkerCollect,
         WorkerRecord, Goto, WorkerTypeOK, HasRecord
    <2>2. wrec'[w].rt = wrec[w].rt
      <3>1. wrec[w] \in Record
        BY <1>t, <2>1 DEF WorkerInv
      <3>2. [wrec[w] EXCEPT !.scans = wrec[w].rt].rt = wrec[w].rt
        BY <3>1 DEF Record
      <3>3. CASE WorkerCollect(w)
        BY <1>t, <3>2, <3>3 DEF WorkerCollect, WorkerTypeOK
      <3> QED
        BY <1>4, <3>3 DEF WorkerUnreachable, WorkerCollectFails, WorkerRecord
    <2>3. ASSUME NEW i \in SubAccounts
          PROVE  Pending(i)' <=> Pending(i)
      BY <1>o, <2>1 DEF Pending, OnlyMoved
    <2>4. Copies' = Copies
      BY <1>o, <2>1, <2>2, CopiesKept
    <2>5. UNCHANGED <<Due, BilledCluster>>
      BY <2>1, <2>3, DueFrame, BilledFrame
    <2> QED
      BY <2>1, <2>4, <2>5 DEF SubAccount!vars
  <1>5. CASE WorkerStore(w)
    <2>1. /\ wpc[w] = "store" /\ wpc'[w] = "doneRequeue"
          /\ UNCHANGED <<dirty, waiting, processing, wkey>>
      BY <1>t, <1>5 DEF WorkerStore, Goto, WorkerTypeOK
    <2>2. /\ k \in SubAccounts
          /\ \A v \in Workers \ {w} : HasRecord(v) => wkey[v] # wkey[w]
      BY <2>1, OneCopy DEF Busy
    <2>3. wrec[w] \in Record /\ SubAccountOf[wrec[w].rt] = k /\ wrec[w].rt \in Runtimes
      BY <1>t, <2>1 DEF WorkerInv, HasRecord, Record
    <2>4. cache' = [cache EXCEPT ![k] = wrec[w]]
      BY <1>5, <2>3 DEF WorkerStore
    <2>5. BilledCluster' = [BilledCluster EXCEPT ![k] = wrec[w].rt]
      BY <2>2, <2>3, <2>4, BilledSet, IInvFacts
    <2>6. Copies' = Copies \ {<<k, wrec[w].rt>>}
      BY <1>o, <2>1, <2>2, CopyReturned DEF HasRecord
    <2>7. <<k, wrec[w].rt>> \in Copies
      BY <2>1 DEF Copies, HasRecord
    <2>8. ASSUME NEW i \in SubAccounts
          PROVE  Pending(i)' <=> Pending(i)
      BY <1>o, <2>1 DEF Pending, OnlyMoved
    <2>9. Due' = Due
      BY <2>8, DueFrame
    <2>10. SubAccount!WriteBack(k)
      BY <2>1, <2>3, <2>5, <2>6, <2>7, <2>9 DEF SubAccount!WriteBack
    <2> QED
      BY <2>2, <2>10 DEF SubAccount!Next
  <1>6. CASE WorkerError(w)
    <2>1. /\ wpc[w] = "error" /\ wpc'[w] = "done" /\ waiting' = waiting \cup {k}
          /\ UNCHANGED <<cache, dirty, processing, wkey>>
      BY <1>t, <1>6 DEF WorkerError, AddAfter, Goto, WorkerTypeOK
    <2>2. /\ k \in SubAccounts
          /\ \A v \in Workers \ {w} : HasRecord(v) => wkey[v] # wkey[w]
      BY <2>1, OneCopy DEF Busy
    <2>3. wrec[w].rt \in Runtimes /\ <<k, wrec[w].rt>> \in Copies
      BY <1>t, <2>1 DEF WorkerInv, HasRecord, Record, Copies
    <2>4. Copies' = Copies \ {<<k, wrec[w].rt>>}
      BY <1>o, <2>1, <2>2, CopyReturned DEF HasRecord
    <2>5. ASSUME NEW i \in SubAccounts
          PROVE  Pending(i)' <=> Pending(i)
      BY <1>o, <2>1 DEF Pending, OnlyMoved
    <2>6. UNCHANGED <<Due, BilledCluster>>
      BY <2>1, <2>5, DueFrame, BilledFrame
    <2>7. SubAccount!GiveUp(k)
      BY <2>1, <2>3, <2>4, <2>6 DEF SubAccount!GiveUp
    <2> QED
      BY <2>2, <2>7 DEF SubAccount!Next
  <1>7. CASE WorkerDone(w) \/ WorkerDoneRequeue(w)
    <2>1. /\ wpc[w] \in {"done", "doneRequeue"} /\ wpc'[w] \in {"idle", "requeue"}
          /\ processing' = processing \ {k}
          /\ UNCHANGED <<cache, dirty, waiting>>
      BY <1>t, <1>7 DEF WorkerDone, WorkerDoneRequeue, Done, Goto, WorkerTypeOK
    <2>2. k \in SubAccounts /\ k \in processing /\ ~ SubAccount!Copied(k)
      BY <2>1, OneCopy DEF Busy, HasRecord
    <2>3. IF wpc[w] = "done" THEN wkey'[w] = None
                             ELSE wkey'[w] = k /\ wpc'[w] = "requeue"
      BY <1>t, <1>7 DEF WorkerDone, WorkerDoneRequeue, Goto, WorkerTypeOK
    <2>4. ASSUME NEW i \in SubAccounts
          PROVE  Pending(i)' <=> Pending(i)
      BY <1>o, <2>1, <2>3, NoneAssumption DEF Pending, OnlyMoved
    <2>5. UNCHANGED <<Due, Copies, BilledCluster>>
      BY <1>o, <2>1, <2>4, DueFrame, CopiesKept, BilledFrame DEF HasRecord
    <2>6. SubAccount!Finish(k)
      BY <2>1, <2>2, <2>5 DEF SubAccount!Finish
    <2> QED
      BY <2>2, <2>6 DEF SubAccount!Next
  <1>8. CASE WorkerRequeue(w)
    <2>1. /\ wpc[w] = "requeue" /\ wpc'[w] = "idle" /\ wkey'[w] = None
          /\ waiting' = waiting \cup {k}
          /\ UNCHANGED <<cache, dirty, processing>>
      BY <1>t, <1>8 DEF WorkerRequeue, AddAfter, Goto, WorkerTypeOK
    <2>2. ASSUME NEW i \in SubAccounts
          PROVE  Pending(i)' <=> Pending(i)
      BY <1>o, <2>1, NoneAssumption DEF Pending, OnlyMoved
    <2>3. UNCHANGED <<Due, Copies, BilledCluster>>
      BY <1>o, <2>1, <2>2, DueFrame, CopiesKept, BilledFrame DEF HasRecord
    <2> QED
      BY <2>1, <2>3 DEF SubAccount!vars
  <1> QED
    BY <1>1, <1>2, <1>3, <1>4, <1>5, <1>6, <1>7, <1>8 DEF Worker

(* A delay that runs out changes nothing SubAccountSpec speaks of.         *)
LEMMA TimerImplements ==
    ASSUME IInv, NEW k \in SubAccounts, Timer(k)
    PROVE  UNCHANGED SubAccount!vars
  <1>1. UNCHANGED <<cache, processing, ppc, cur, wpc, wkey, wrec>>
    BY DEF Timer, Expire
  <1>2. \A i \in SubAccounts : i \in dirty' \cup waiting' <=> i \in dirty \cup waiting
    BY DEF Timer, Expire, Enqueue
  <1>3. ASSUME NEW i \in SubAccounts
        PROVE  Pending(i)' <=> Pending(i)
    BY <1>1, <1>2 DEF Pending
  <1>4. UNCHANGED <<Due, Copies, BilledCluster>>
    BY <1>1, <1>3, DueFrame, CopiesFrame, BilledFrame
  <1> QED
    BY <1>1, <1>4 DEF SubAccount!vars

(* The process implements what is promised for one subaccount at a time:   *)
(* its record only changes by what KEB lists or by the write-back of the   *)
(* one copy a worker has, it stays in the cycle until a visit finds no     *)
(* record, and a restart forgets everything at once.                       *)
THEOREM Refinement == Spec => ImplementsSubAccountSpec
  <1>1. Init => SubAccount!Init
    <2> SUFFICES ASSUME Init PROVE SubAccount!Init
      OBVIOUS
    <2>1. BilledCluster = [k \in SubAccounts |-> None]
      BY DEF Init, BilledCluster, NoItems
    <2>2. Due = {}
      BY NoneAssumption DEF Init, Due, Pending, QueueInit
    <2>3. Copies = {}
      BY DEF Init, Copies, HasRecord
    <2> QED
      BY <2>1, <2>2, <2>3 DEF Init, QueueInit, SubAccount!Init
  <1>2. ASSUME IInv, [Next]_vars
        PROVE  [SubAccount!Next]_SubAccount!vars
    <2>1. CASE Poller
      BY <1>2, <2>1, PollerImplements
    <2>2. CASE \E w \in Workers : Worker(w)
      BY <1>2, <2>2, WorkerImplements
    <2>3. CASE \E k \in SubAccounts : Timer(k)
      BY <1>2, <2>3, TimerImplements
    <2>4. CASE Restart
      <3>1. BilledCluster' = [k \in SubAccounts |-> None]
        BY <2>4 DEF Restart, BilledCluster, NoItems
      <3>2. Due' = {}
        BY <2>4, NoneAssumption DEF Restart, Due, Pending
      <3>3. Copies' = {}
        BY <2>4 DEF Restart, Copies, HasRecord
      <3>4. processing' = {}
        BY <2>4 DEF Restart
      <3> QED
        BY <3>1, <3>2, <3>3, <3>4 DEF SubAccount!Next, SubAccount!Restart
    <2>5. CASE UNCHANGED vars
      <3>1. UNCHANGED <<cache, dirty, waiting, processing, ppc, cur, wpc, wkey, wrec>>
        BY <2>5 DEF vars
      <3>2. ASSUME NEW i \in SubAccounts
            PROVE  Pending(i)' <=> Pending(i)
        BY <3>1 DEF Pending
      <3> QED
        BY <3>1, <3>2, DueFrame, CopiesFrame, BilledFrame DEF SubAccount!vars
    <2> QED
      BY <1>2, <2>1, <2>2, <2>3, <2>4, <2>5 DEF Next, Step
  <1> QED
    BY <1>1, <1>2, Invariance, PTL DEF Spec, ImplementsSubAccountSpec, SubAccount!Spec
=============================================================================
