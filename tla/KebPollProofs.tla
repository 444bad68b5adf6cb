---------------------------- MODULE KebPollProofs ----------------------------
(***************************************************************************)
(* Proofs about KEBClient and KebPoll, for any runtimes, subaccounts, page *)
(* size and RetryCount, and for any number of changes during a poll.       *)
(***************************************************************************)
EXTENDS KebPoll, FiniteSetTheorems, TLAPS

-----------------------------------------------------------------------------
(* The client.                                                             *)

(* Nothing has been read before the first call.                            *)
LEMMA InitIInv == Init => IInv
  BY RetryCountAssumption
  DEF Init, IInv, TypeOK, PagesInv, AheadInv, PrefixInv, NothingMissed, ExactIfUnchanged

(* A page holds the entries that follow those of the full pages before it, *)
(* at most PageSize of them, and fewer only at the end of the list.        *)
LEMMA PageFacts ==
    ASSUME TypeOK, PagesInv, pc = "fetch"
    PROVE  /\ PageOf(pageNum) \in Seq(Runtimes)
           /\ Len(PageOf(pageNum)) <= PageSize
           /\ \A j \in 1..Len(PageOf(pageNum)) :
                 recordsSeen + j \in DOMAIN table /\ PageOf(pageNum)[j] = table[recordsSeen + j]
           /\ Len(PageOf(pageNum)) < PageSize => recordsSeen + Len(PageOf(pageNum)) >= Len(table)
           /\ recordsSeen <= Len(table) => recordsSeen + Len(PageOf(pageNum)) <= Len(table)
  <1> DEFINE left == Len(table) - recordsSeen
             count == IF Len(table) <= recordsSeen THEN 0
                      ELSE IF left < PageSize THEN left ELSE PageSize
  <1>1. table \in Seq(Runtimes) /\ recordsSeen \in Nat /\ Len(table) \in Nat
    BY DEF TypeOK
  <1>2. PageOf(pageNum) = [j \in 1..count |-> table[recordsSeen + j]]
    BY DEF PageOf, PagesInv
  <1>3. count \in Nat /\ count <= PageSize /\ (count > 0 => recordsSeen + count <= Len(table))
    BY <1>1, PageSizeAssumption
  <1>4. \A j \in 1..count : recordsSeen + j \in 1..Len(table) /\ table[recordsSeen + j] \in Runtimes
    <2>1. ASSUME NEW j \in 1..count
          PROVE  recordsSeen + j \in 1..Len(table)
      BY <1>1, <1>3
    <2> QED
      BY <1>1, <2>1
  <1>5. PageOf(pageNum) \in Seq(Runtimes) /\ Len(PageOf(pageNum)) = count
    BY <1>2, <1>3, <1>4
  <1>6. count < PageSize => recordsSeen + count >= Len(table)
    BY <1>1, PageSizeAssumption
  <1>7. recordsSeen <= Len(table) => recordsSeen + count <= Len(table)
    BY <1>1, <1>3
  <1> HIDE DEF count
  <1> QED
    BY <1>1, <1>2, <1>3, <1>4, <1>5, <1>6, <1>7

(* A call starts at the first page, with the whole list still to come.     *)
LEMMA GetAllRuntimesIInv == ASSUME IInv, GetAllRuntimes PROVE IInv'
  <1>1. TypeOK /\ TypeOK'
    BY RetryCountAssumption DEF IInv, TypeOK, GetAllRuntimes
  <1>2. PagesInv'
    BY PageSizeAssumption, RetryCountAssumption DEF GetAllRuntimes, PagesInv
  <1>3. AheadInv'
    <2>1. ASSUME NEW r \in Runtimes, NEW i \in DOMAIN table
          PROVE  i > 0
      BY <1>1 DEF TypeOK
    <2> QED
      BY <2>1 DEF GetAllRuntimes, AheadInv, InList
  <1>4. PrefixInv'
    BY <1>1 DEF GetAllRuntimes, PrefixInv, TypeOK
  <1> QED
    BY <1>1, <1>2, <1>3, <1>4 DEF IInv, GetAllRuntimes, NothingMissed, ExactIfUnchanged

(* What a page brings was next in the list.                                *)
LEMMA PageArrivesIInv == ASSUME IInv, PageArrives PROVE IInv'
  <1> DEFINE page == PageOf(pageNum)
  <1>1. TypeOK /\ PagesInv /\ AheadInv /\ PrefixInv /\ pc = "fetch"
    BY DEF IInv, PageArrives
  <1>2. /\ page \in Seq(Runtimes) /\ Len(page) \in Nat /\ Len(page) <= PageSize
        /\ \A j \in 1..Len(page) :
              recordsSeen + j \in DOMAIN table /\ page[j] = table[recordsSeen + j]
        /\ Len(page) < PageSize => recordsSeen + Len(page) >= Len(table)
        /\ recordsSeen <= Len(table) => recordsSeen + Len(page) <= Len(table)
    BY <1>1, PageFacts
  <1> HIDE DEF page
  <1>3. /\ data' = data \o page /\ recordsSeen' = recordsSeen + Len(page)
        /\ UNCHANGED <<table, start, change>>
        /\ \/ recordsSeen' >= Len(table) /\ pc' = "done" /\ UNCHANGED <<pageNum, tries>>
           \/ /\ ~(recordsSeen' >= Len(table)) /\ pc' = "fetch"
              /\ pageNum' = pageNum + 1 /\ tries' = 0
    BY <1>1 DEF PageArrives, page
  <1>4. /\ table \in Seq(Runtimes) /\ data \in Seq(Runtimes) /\ start \in Seq(Runtimes)
        /\ recordsSeen \in Nat /\ pageNum \in Nat /\ Len(table) \in Nat /\ Len(data) \in Nat
    BY <1>1 DEF TypeOK
  <1>5. /\ data' \in Seq(Runtimes) /\ Len(data') = Len(data) + Len(page)
        /\ \A i \in 1..Len(data) : data'[i] = data[i]
        /\ \A j \in 1..Len(page) : data'[Len(data) + j] = page[j]
    BY <1>2, <1>3, <1>4
  <1>6. TypeOK'
    <2>1. recordsSeen' \in Nat /\ pageNum' \in Nat
      BY <1>2, <1>3, <1>4
    <2> QED
      BY <1>1, <1>3, <1>5, <2>1, RetryCountAssumption DEF TypeOK
  <1>7. PagesInv'
    <2>1. ASSUME pc' = "fetch"
          PROVE  recordsSeen' = pageNum * PageSize
      <3>1. Len(page) = PageSize
        BY <1>2, <1>3, <2>1, PageSizeAssumption, <1>4
      <3>2. recordsSeen = (pageNum - 1) * PageSize
        BY <1>1 DEF PagesInv
      <3> QED
        BY <1>3, <1>4, <3>1, <3>2, PageSizeAssumption
    <2>2. pageNum >= 1
      BY <1>1 DEF PagesInv
    <2>3. ASSUME pc' = "fetch" PROVE pageNum' - 1 = pageNum /\ pageNum' >= 1
      BY <1>3, <1>4, <2>2, <2>3
    <2> QED
      BY <1>3, <2>1, <2>3, RetryCountAssumption DEF PagesInv
  <1>8. ASSUME change # "removed", NEW r \in Runtimes, InList(r, start)
        PROVE  \/ InList(r, data')
               \/ \E i \in DOMAIN table : i > recordsSeen' /\ table[i] = r
    <2>1. CASE InList(r, data)
      <3>1. PICK i \in DOMAIN data : data[i] = r
        BY <2>1 DEF InList
      <3>2. i \in 1..Len(data) /\ i \in DOMAIN data'
        BY <1>2, <1>4, <1>5
      <3> QED
        BY <1>5, <3>1, <3>2 DEF InList
    <2>2. ASSUME NEW i \in DOMAIN table, i > recordsSeen, table[i] = r,
                 ~(i > recordsSeen')
          PROVE  InList(r, data')
      <3>1. i \in Nat /\ i <= recordsSeen + Len(page)
        BY <1>2, <1>3, <1>4, <2>2
      <3>2. PICK j \in 1..Len(page) : i = recordsSeen + j
        <4>1. i - recordsSeen \in 1..Len(page) /\ i = recordsSeen + (i - recordsSeen)
          BY <1>2, <1>4, <2>2, <3>1
        <4> QED
          BY <4>1
      <3>3. data'[Len(data) + j] = r
        BY <1>2, <1>5, <2>2, <3>2
      <3>4. Len(data) + j \in DOMAIN data'
        BY <1>2, <1>4, <1>5
      <3> QED
        BY <3>3, <3>4 DEF InList
    <2> QED
      BY <1>1, <1>8, <2>1, <2>2 DEF AheadInv
  <1>9. AheadInv'
    BY <1>3, <1>8 DEF AheadInv, InList
  <1>10. NothingMissed'
    <2>1. ASSUME pc' = "done", NEW i \in DOMAIN table PROVE ~(i > recordsSeen')
      BY <1>2, <1>3, <1>4, <2>1
    <2> QED
      BY <1>3, <1>8, <2>1 DEF NothingMissed, InList
  <1>11. ASSUME change = "none"
         PROVE  /\ Len(data') = recordsSeen'
                /\ recordsSeen' <= Len(table)
                /\ \A i \in 1..Len(data') : data'[i] = table[i]
    <2>1. /\ Len(data) = recordsSeen /\ recordsSeen <= Len(table)
          /\ \A i \in 1..Len(data) : data[i] = table[i]
      BY <1>1, <1>11 DEF PrefixInv
    <2>2. Len(data') = recordsSeen' /\ recordsSeen' <= Len(table)
      BY <1>2, <1>3, <1>4, <1>5, <2>1
    <2>3. ASSUME NEW i \in 1..Len(data') PROVE data'[i] = table[i]
      <3>1. CASE i <= Len(data)
        BY <1>4, <1>5, <2>1, <3>1
      <3>2. CASE i > Len(data)
        <4>1. i - Len(data) \in 1..Len(page) /\ i = Len(data) + (i - Len(data))
          BY <1>2, <1>4, <1>5, <3>2
        <4>2. data'[i] = page[i - Len(data)]
          BY <1>5, <4>1
        <4>3. page[i - Len(data)] = table[recordsSeen + (i - Len(data))]
          BY <1>2, <4>1
        <4> QED
          BY <2>1, <4>1, <4>2, <4>3
      <3> QED
        BY <1>4, <1>5, <1>2, <3>1, <3>2
    <2> QED
      BY <2>2, <2>3
  <1>12. PrefixInv'
    BY <1>3, <1>11 DEF PrefixInv
  <1>13. ExactIfUnchanged'
    <2>1. ASSUME pc' = "done", change = "none" PROVE data' = table
      <3>1. Len(data') = Len(table)
        BY <1>2, <1>3, <1>4, <1>11, <2>1
      <3>2. \A i \in 1..Len(table) : data'[i] = table[i]
        BY <1>11, <2>1, <3>1
      <3> QED
        BY <1>4, <1>5, <3>1, <3>2
    <2> QED
      BY <1>3, <2>1 DEF ExactIfUnchanged
  <1> QED
    BY <1>6, <1>7, <1>9, <1>10, <1>12, <1>13 DEF IInv

(* A runtime that is added moves others towards the end of the list only.  *)
LEMMA KebAddIInv == ASSUME IInv, NEW r \in Runtimes, KebAdd(r) PROVE IInv'
  <1>1. PICK i \in 1..(Len(table) + 1) :
          table' = [j \in 1..(Len(table) + 1) |->
                       IF j < i THEN table[j] ELSE IF j = i THEN r ELSE table[j - 1]]
    BY DEF KebAdd
  <1>2. /\ change' \in {"none", "added", "removed"}
        /\ pc # "idle" => change' # "none"
        /\ change' # "removed" => change # "removed"
        /\ UNCHANGED <<pc, pageNum, recordsSeen, data, tries, start>>
    BY DEF KebAdd, clientVars, IInv, TypeOK
  <1>3. TypeOK /\ AheadInv /\ table \in Seq(Runtimes) /\ Len(table) \in Nat /\ recordsSeen \in Nat
    BY DEF IInv, TypeOK
  <1>4. table' \in Seq(Runtimes) /\ Len(table') = Len(table) + 1
    <2>1. ASSUME NEW j \in 1..(Len(table) + 1)
          PROVE  (IF j < i THEN table[j] ELSE IF j = i THEN r ELSE table[j - 1]) \in Runtimes
      BY <1>3
    <2> QED
      BY <1>1, <1>3, <2>1
  <1>5. TypeOK'
    BY <1>2, <1>3, <1>4 DEF TypeOK
  <1>6. ASSUME NEW n \in DOMAIN table
        PROVE  \E m \in DOMAIN table' : m >= n /\ table'[m] = table[n]
    <2>1. CASE n < i
      <3>1. n \in DOMAIN table' /\ table'[n] = table[n] /\ n >= n
        BY <1>1, <1>3, <1>4, <2>1
      <3> QED
        BY <3>1
    <2>2. CASE ~(n < i)
      <3>1. n + 1 \in DOMAIN table' /\ table'[n + 1] = table[n] /\ n + 1 >= n
        BY <1>1, <1>3, <1>4, <2>2
      <3> QED
        BY <3>1
    <2> QED
      BY <2>1, <2>2
  <1>7. AheadInv'
    <2>1. ASSUME NEW n \in DOMAIN table, n > recordsSeen
          PROVE  \E m \in DOMAIN table' : m > recordsSeen /\ table'[m] = table[n]
      <3>1. PICK m \in DOMAIN table' : m >= n /\ table'[m] = table[n]
        BY <1>6
      <3>2. m > recordsSeen
        BY <1>3, <1>4, <2>1, <3>1
      <3> QED
        BY <3>1, <3>2
    <2> QED
      BY <1>2, <1>3, <2>1 DEF AheadInv, InList
  <1>8. PagesInv' /\ PrefixInv' /\ NothingMissed' /\ ExactIfUnchanged'
    BY <1>2 DEF IInv, PagesInv, PrefixInv, NothingMissed, ExactIfUnchanged, InList
  <1> QED
    BY <1>5, <1>7, <1>8 DEF IInv

(* After a removal only the types and the page numbers are promised.       *)
LEMMA KebRemoveIInv == ASSUME IInv, KebRemove PROVE IInv'
  <1>1. PICK i \in DOMAIN table :
          table' = [j \in 1..(Len(table) - 1) |-> IF j < i THEN table[j] ELSE table[j + 1]]
    BY DEF KebRemove
  <1>2. /\ change' \in {"none", "added", "removed"}
        /\ pc # "idle" => change' = "removed"
        /\ UNCHANGED <<pc, pageNum, recordsSeen, data, tries, start>>
    BY DEF KebRemove, clientVars, IInv, TypeOK
  <1>3. TypeOK /\ table \in Seq(Runtimes) /\ Len(table) \in Nat
    BY DEF IInv, TypeOK
  <1>4. table' \in Seq(Runtimes)
    <2>1. Len(table) - 1 \in Nat
      BY <1>3
    <2>2. ASSUME NEW j \in 1..(Len(table) - 1)
          PROVE  (IF j < i THEN table[j] ELSE table[j + 1]) \in Runtimes
      BY <1>3
    <2> QED
      BY <1>1, <2>1, <2>2
  <1>5. TypeOK'
    BY <1>2, <1>3, <1>4 DEF TypeOK
  <1> QED
    BY <1>2, <1>5 DEF IInv, PagesInv, AheadInv, PrefixInv, NothingMissed, ExactIfUnchanged, InList

(* Every step of the client and of KEB keeps the invariant.                *)
LEMMA NextIInv == IInv /\ [Next]_vars => IInv'
  <1> SUFFICES ASSUME IInv, [Next]_vars PROVE IInv'
    OBVIOUS
  <1>1. CASE GetAllRuntimes
    BY <1>1, GetAllRuntimesIInv
  <1>2. CASE PageArrives
    BY <1>2, PageArrivesIInv
  <1>3. CASE PageFails
    <2>1. /\ UNCHANGED <<table, pageNum, recordsSeen, data, start, change>>
          /\ pc = "fetch" /\ tries' = tries + 1
          /\ \/ tries' = RetryCount /\ pc' = "failed"
             \/ tries' # RetryCount /\ pc' = "fetch"
      BY <1>3 DEF PageFails
    <2>2. TypeOK' /\ PagesInv'
      BY <2>1, RetryCountAssumption DEF IInv, TypeOK, PagesInv
    <2>3. AheadInv' /\ PrefixInv'
      BY <2>1 DEF IInv, AheadInv, PrefixInv, InList
    <2> QED
      BY <2>1, <2>2, <2>3 DEF IInv, NothingMissed, ExactIfUnchanged
  <1>4. CASE Return
    <2>1. TypeOK'
      BY <1>4, RetryCountAssumption DEF Return, IInv, TypeOK
    <2> QED
      BY <1>4, <2>1 DEF Return, IInv, PagesInv, AheadInv, PrefixInv, NothingMissed, ExactIfUnchanged
  <1>5. ASSUME NEW r \in Runtimes, KebAdd(r) PROVE IInv'
    BY <1>5, KebAddIInv
  <1>6. CASE KebRemove
    BY <1>6, KebRemoveIInv
  <1>7. CASE UNCHANGED vars
    BY <1>7 DEF vars, clientVars, IInv, TypeOK, PagesInv, AheadInv, PrefixInv,
                NothingMissed, ExactIfUnchanged, InList
  <1> QED
    BY <1>1, <1>2, <1>3, <1>4, <1>5, <1>6, <1>7 DEF Next, Client
-----------------------------------------------------------------------------
(* The inductive invariant holds in every reachable state.                 *)
THEOREM Invariance == Spec => []IInv
  BY InitIInv, NextIInv, PTL DEF Spec

(* Type correctness of the client, with the bound on the requests.         *)
THEOREM TypeCorrect == Spec => []TypeOK
  <1>1. IInv => TypeOK
    BY DEF IInv
  <1> QED
    BY <1>1, Invariance, PTL

(* No runtime that was listed all the time is missed while KEB only adds   *)
(* runtimes, for any page size and any number of runtimes.                 *)
THEOREM CompleteList == Spec => []NothingMissed
  <1>1. IInv => NothingMissed
    BY DEF IInv
  <1> QED
    BY <1>1, Invariance, PTL

(* An unchanged list is returned as it is.                                 *)
THEOREM ExactList == Spec => []ExactIfUnchanged
  <1>1. IInv => ExactIfUnchanged
    BY DEF IInv
  <1> QED
    BY <1>1, Invariance, PTL
-----------------------------------------------------------------------------
(* The records and the entries of a list.                                  *)

(* Induction over the natural numbers, for a set of good numbers.          *)
LEMMA NatSetInduction ==
    ASSUME NEW G, 0 \in G, \A n \in Nat : n \in G => n + 1 \in G
    PROVE  \A n \in Nat : n \in G
<1> SUFFICES ASSUME NEW k \in Nat, k \notin G PROVE FALSE
  OBVIOUS
<1> DEFINE Bad == Nat \ G
           R == OpToRel(<, Nat)
<1>1. PICK n \in Bad : \A m \in Bad : <<m, n>> \notin R
  <2>1. Bad \subseteq Nat /\ Bad # {}
    OBVIOUS
  <2>2. IsWellFoundedOn(R, Nat)
    BY Zenon, NatLessThanWellFounded
  <2> HIDE DEF Bad, R
  <2> QED
    BY Zenon, <2>1, <2>2, WFMin
<1>2. n - 1 \in Nat /\ n = (n - 1) + 1
  <2>1. n \in Nat /\ n # 0
    OBVIOUS
  <2> HIDE DEF Bad, R
  <2> QED
    BY <2>1
<1>3. <<n - 1, n>> \in R
  BY <1>2 DEF OpToRel
<1> QED
  BY Zenon, <1>1, <1>2, <1>3

Cache == [SubAccounts -> Record \cup {None}]

(* A new record is of the runtime, without scans.                          *)
LEMMA NewRecordIs ==
    ASSUME NEW r \in Runtimes
    PROVE  NewRecord(r) \in Record /\ NewRecord(r) # None /\ NewRecord(r).rt = r
<1>1. NewRecord(r) \in Record /\ NewRecord(r).rt = r
  BY DEF Record, NewRecord
<1> QED
  BY Zenon, <1>1, NoneAssumption

(* A subaccount with entries has a last one.                               *)
LEMMA LastEntry ==
    ASSUME entries \in Seq(Entry), NEW k, EntriesOf(k) # {}
    PROVE  /\ Max(EntriesOf(k)) \in EntriesOf(k)
           /\ \A i \in EntriesOf(k) : i <= Max(EntriesOf(k))
<1> DEFINE Own == EntriesOf(k)
           G == {n \in Nat : (\E i \in Own : i <= n) =>
                                \E m \in Own : m <= n /\ \A i \in Own : i <= n => i <= m}
<1>1. Own \subseteq 1..Len(entries) /\ Len(entries) \in Nat /\ Own \subseteq Nat
  BY DEF EntriesOf
<1> HIDE DEF Own
<1>2. 0 \in G
  BY <1>1
<1>3. ASSUME NEW n \in Nat, n \in G PROVE n + 1 \in G
  <2>1. CASE n + 1 \in Own
    <3>1. n + 1 <= n + 1 /\ \A i \in Own : i <= n + 1 => i <= n + 1
      OBVIOUS
    <3> QED
      BY <2>1, <3>1
  <2>2. CASE n + 1 \notin Own
    <3>1. \A i \in Own : i <= n + 1 <=> i <= n
      BY <1>1, <2>2
    <3> QED
      BY <1>3, <3>1
  <2> QED
    BY <2>1, <2>2
<1>4. Len(entries) \in G
  <2> HIDE DEF G
  <2>1. \A n \in Nat : n \in G
    BY <1>2, <1>3, NatSetInduction
  <2> QED
    BY <1>1, <2>1
<1>5. \A i \in Own : i <= Len(entries)
  BY <1>1
<1>6. \E m \in Own : \A i \in Own : i <= m
  BY <1>4, <1>5 DEF Own
<1>7. \E m \in Own : \A i \in Own : m >= i
  BY <1>1, <1>6
<1>8. Max(Own) \in Own /\ \A i \in Own : Max(Own) >= i
  BY <1>7 DEF Max
<1> QED
  BY <1>1, <1>8 DEF Own
-----------------------------------------------------------------------------
(* A poll.                                                                 *)

(* What a poll reads: what the client promises, a list without duplicates, *)
(* entries that are copies of what was read, and the histories around what *)
(* is listed and billable now.                                             *)
ListInv ==
    /\ IInv
    /\ \A i, j \in DOMAIN table : table[i] = table[j] => i = j
    /\ cache \in Cache /\ copy \in Cache
    /\ entries \in Seq(Entry) /\ Len(entries) = Len(data)
    /\ \A i \in DOMAIN entries :
          /\ entries[i].rt = data[i]
          /\ entries[i].billable => entries[i].rt \in ever
          /\ entries[i].rt \in steady => entries[i].billable
    /\ pc = "idle" => entries = <<>> /\ steady = {}
    /\ pc # "idle" => ListedNow \cap billable \subseteq ever
    /\ \A r \in steady : r \in ListedNow \cap billable /\ InList(r, start)

(* The last of the entries before place p that is of subaccount k and not  *)
(* skipped has decided on its record.                                      *)
Decided(k, p, record) ==
    \A m \in EntriesOf(k) :
        m < p /\ (\A i \in EntriesOf(k) : i < p => i <= m) => Settled(entries[m], record)

(* An entry of subaccount k is being written.                              *)
Writing(k) == ppc = "write" /\ SubAccountOf[entries[place].rt] = k

(* The inductive invariant of the loop, for the subaccounts that no worker *)
(* has stored since the poller's last look or write: the entries before    *)
(* place have decided on the record, a record to be written over is still  *)
(* the one that was found, and what the cleanup has not deleted is listed. *)
LoopInv ==
    /\ place \in 1..(Len(entries) + 1)
    /\ pc # "done" => ppc = "visit" /\ place = 1
    /\ \A k \in SubAccounts \ late : Writing(k) \/ Decided(k, place, cache[k])
    /\ ppc = "write" =>
          /\ place <= Len(entries)
          /\ ~ Skipped(entries[place])
          /\ ~ Settled(entries[place], found)
          /\ LET k == SubAccountOf[entries[place].rt] IN k \notin late => cache[k] = found
    /\ ppc = "cleanup" =>
          /\ place = Len(entries) + 1
          /\ items \cap validSubAccounts = {}
          /\ \A k \in SubAccounts \ (late \cup items \cup validSubAccounts) : cache[k] = None

(* The inductive invariant of a poll.                                      *)
PollInv == ListInv /\ LoopInv

(* Every step of a poll is a step of the client or of KEB, or leaves both  *)
(* alone.                                                                  *)
LEMMA PollStepIsClientStep == [PollNext]_pollVars => [Next]_vars
  BY Zenon DEF PollNext, pollVars, pollKEBForRuntimes, Fetch, ReadPage, FailPage, GiveUp, Sleep,
         populateCacheAndQueue, SkipEntry, VisitEntry, WriteEntry, StartCleanup, Cleanup,
         EndPoll, Listing, Unlisting, Change, Worker, TakeRecord, StoreRecord, LeaveRecord,
         Next, Client

(* A runtime that KEB adds is listed once, next to those there were.       *)
LEMMA KebAddLists ==
    ASSUME ListInv, NEW r \in Runtimes, KebAdd(r)
    PROVE  /\ ListedNow' = ListedNow \cup {r}
           /\ \A i, j \in DOMAIN table' : table'[i] = table'[j] => i = j
<1>1. PICK n \in 1..(Len(table) + 1) :
        table' = [j \in 1..(Len(table) + 1) |->
                     IF j < n THEN table[j] ELSE IF j = n THEN r ELSE table[j - 1]]
  BY Zenon DEF KebAdd
<1>2. /\ table \in Seq(Runtimes) /\ Len(table) \in Nat /\ DOMAIN table = 1..Len(table)
      /\ \A i, j \in 1..Len(table) : table[i] = table[j] => i = j
      /\ \A i \in 1..Len(table) : table[i] # r
  <2>1. table \in Seq(Runtimes)
    BY Zenon DEF ListInv, IInv, TypeOK
  <2>2. Len(table) \in Nat /\ DOMAIN table = 1..Len(table)
    BY <2>1
  <2>3. \A i, j \in DOMAIN table : table[i] = table[j] => i = j
    BY Zenon DEF ListInv
  <2>4. \A i \in DOMAIN table : table[i] # r
    BY Zenon DEF KebAdd, InList
  <2> QED
    BY Zenon, <2>1, <2>2, <2>3, <2>4
<1>3. DOMAIN table' = 1..(Len(table) + 1)
  BY <1>1, Zenon
<1>4. ASSUME NEW i \in 1..(Len(table) + 1)
      PROVE  /\ i < n => i \in 1..Len(table) /\ table'[i] = table[i]
             /\ i = n => table'[i] = r
             /\ i > n => i - 1 \in 1..Len(table) /\ table'[i] = table[i - 1]
  BY <1>1, <1>2
<1>5. ASSUME NEW i \in 1..Len(table)
      PROVE  \E j \in 1..(Len(table) + 1) : table'[j] = table[i]
  <2>1. CASE i < n
    BY <1>1, <1>2, <2>1
  <2>2. CASE ~ (i < n)
    <3>1. i + 1 \in 1..(Len(table) + 1) /\ i + 1 > n /\ (i + 1) - 1 = i
      BY <1>2, <2>2
    <3> QED
      BY Zenon, <1>4, <3>1
  <2> QED
    BY <2>1, <2>2, Zenon
<1>6. ListedNow' = ListedNow \cup {r}
  <2>1. ASSUME NEW x \in Runtimes, NEW i \in 1..(Len(table) + 1), table'[i] = x
        PROVE  x = r \/ InList(x, table)
    <3>1. i < n \/ i = n \/ i > n
      BY <1>2
    <3> QED
      BY <1>2, <1>4, <2>1, <3>1, Zenon DEF InList
  <2>2. n \in 1..(Len(table) + 1) /\ table'[n] = r
    BY <1>4, Zenon
  <2>3. ASSUME NEW x \in Runtimes PROVE InList(x, table') <=> x = r \/ InList(x, table)
    <3>1. InList(x, table') => x = r \/ InList(x, table)
      BY <1>3, <2>1, Zenon DEF InList
    <3>2. InList(x, table) => InList(x, table')
      BY <1>2, <1>3, <1>5, Zenon DEF InList
    <3>3. InList(r, table')
      BY <1>3, <2>2, Zenon DEF InList
    <3> QED
      BY <3>1, <3>2, <3>3, Zenon
  <2> QED
    BY <2>3, Zenon DEF ListedNow
<1>7. ASSUME NEW i \in 1..(Len(table) + 1), NEW j \in 1..(Len(table) + 1), table'[i] = table'[j]
      PROVE  i = j
  <2>1. (i < n \/ i = n \/ i > n) /\ (j < n \/ j = n \/ j > n)
    BY <1>2
  <2>2. /\ i < n => i \in 1..Len(table) /\ table'[i] = table[i]
        /\ i = n => table'[i] = r
        /\ i > n => i - 1 \in 1..Len(table) /\ table'[i] = table[i - 1]
    BY <1>4, Zenon
  <2>3. /\ j < n => j \in 1..Len(table) /\ table'[j] = table[j]
        /\ j = n => table'[j] = r
        /\ j > n => j - 1 \in 1..Len(table) /\ table'[j] = table[j - 1]
    BY <1>4, Zenon
  <2>4. CASE i < n /\ j > n
    BY <1>2, <1>7, <2>2, <2>3, <2>4
  <2>5. CASE i > n /\ j < n
    BY <1>2, <1>7, <2>2, <2>3, <2>5
  <2>6. CASE i > n /\ j > n
    <3>1. i - 1 = j - 1
      BY <1>2, <1>7, <2>2, <2>3, <2>6, Zenon
    <3> QED
      BY <3>1
  <2>7. CASE i < n /\ j < n
    BY <1>2, <1>7, <2>2, <2>3, <2>7
  <2>8. CASE i = n \/ j = n
    BY <1>2, <1>7, <2>1, <2>2, <2>3, <2>8, Zenon
  <2> QED
    BY <2>1, <2>4, <2>5, <2>6, <2>7, <2>8, Zenon
<1> QED
  BY <1>3, <1>6, <1>7, Zenon

(* A removal lists nothing.                                                *)
LEMMA KebRemoveLists ==
    ASSUME ListInv, KebRemove
    PROVE  /\ ListedNow' \subseteq ListedNow
           /\ \A i, j \in DOMAIN table' : table'[i] = table'[j] => i = j
<1>1. PICK n \in DOMAIN table :
        table' = [j \in 1..(Len(table) - 1) |-> IF j < n THEN table[j] ELSE table[j + 1]]
  BY Zenon DEF KebRemove
<1>2. /\ table \in Seq(Runtimes) /\ Len(table) \in Nat /\ DOMAIN table = 1..Len(table)
      /\ \A i, j \in 1..Len(table) : table[i] = table[j] => i = j
  BY DEF ListInv, IInv, TypeOK
<1>3. DOMAIN table' = 1..(Len(table) - 1)
  BY <1>1, Zenon
<1>4. ASSUME NEW i \in 1..(Len(table) - 1)
      PROVE  /\ i < n => i \in 1..Len(table) /\ table'[i] = table[i]
             /\ ~ (i < n) => i + 1 \in 1..Len(table) /\ table'[i] = table[i + 1]
  BY <1>1, <1>2
<1>5. ListedNow' \subseteq ListedNow
  <2>1. ASSUME NEW x \in Runtimes, NEW i \in 1..(Len(table) - 1), table'[i] = x
        PROVE  InList(x, table)
    BY <1>2, <1>4, <2>1, Zenon DEF InList
  <2> QED
    BY <1>3, <2>1, Zenon DEF ListedNow, InList
<1>6. ASSUME NEW i \in 1..(Len(table) - 1), NEW j \in 1..(Len(table) - 1), table'[i] = table'[j]
      PROVE  i = j
  <2>1. /\ i < n => i \in 1..Len(table) /\ table'[i] = table[i]
        /\ ~ (i < n) => i + 1 \in 1..Len(table) /\ table'[i] = table[i + 1]
    BY <1>4, Zenon
  <2>2. /\ j < n => j \in 1..Len(table) /\ table'[j] = table[j]
        /\ ~ (j < n) => j + 1 \in 1..Len(table) /\ table'[j] = table[j + 1]
    BY <1>4, Zenon
  <2>3. CASE i < n /\ ~ (j < n)
    BY <1>2, <1>6, <2>1, <2>2, <2>3
  <2>4. CASE ~ (i < n) /\ j < n
    BY <1>2, <1>6, <2>1, <2>2, <2>4
  <2>5. CASE ~ (i < n) /\ ~ (j < n)
    <3>1. i + 1 = j + 1
      BY <1>2, <1>6, <2>1, <2>2, <2>5, Zenon
    <3> QED
      BY <3>1
  <2>6. CASE i < n /\ j < n
    BY <1>2, <1>6, <2>1, <2>2, <2>6, Zenon
  <2> QED
    BY <2>3, <2>4, <2>5, <2>6, Zenon
<1> QED
  BY <1>3, <1>5, <1>6, Zenon

(* What is read of a page is listed, with the verdict it has now.          *)
LEMMA ReadPageKeeps == ASSUME ListInv, ReadPage, IInv' PROVE ListInv'
<1> DEFINE page == PageOf(pageNum)
           new == [j \in DOMAIN page |-> [rt |-> page[j], billable |-> page[j] \in billable]]
<1>1. /\ pc = "fetch" /\ pc' \in {"fetch", "done"}
      /\ data' = data \o page /\ entries' = entries \o new
      /\ UNCHANGED <<table, start, billable, cache, copy, steady, ever>>
  BY Zenon DEF ReadPage, PageArrives, history
<1>2. page \in Seq(Runtimes) /\ \A j \in 1..Len(page) : page[j] \in ListedNow
  <2>1. TypeOK /\ PagesInv
    BY Zenon DEF ListInv, IInv
  <2>2. /\ page \in Seq(Runtimes)
        /\ \A j \in 1..Len(page) :
              recordsSeen + j \in DOMAIN table /\ page[j] = table[recordsSeen + j]
    BY <1>1, <2>1, PageFacts, Zenon
  <2> HIDE DEF page
  <2> QED
    BY <2>2 DEF ListedNow, InList
<1> HIDE DEF page
<1>3. /\ new \in Seq(Entry) /\ Len(new) = Len(page) /\ Len(page) \in Nat
      /\ \A j \in 1..Len(page) : /\ new[j].rt = page[j]
                                 /\ new[j].billable <=> page[j] \in billable
  <2>1. DOMAIN page = 1..Len(page) /\ Len(page) \in Nat
    BY <1>2
  <2>2. \A j \in 1..Len(page) : [rt |-> page[j], billable |-> page[j] \in billable] \in Entry
    BY <1>2 DEF Entry
  <2>3. new \in [1..Len(page) -> Entry]
    BY Zenon, <2>1, <2>2
  <2>4. new \in Seq(Entry) /\ Len(new) = Len(page)
    <3> HIDE DEF new
    <3> QED
      BY <2>1, <2>3
  <2>5. \A j \in 1..Len(page) : new[j].rt = page[j] /\ (new[j].billable <=> page[j] \in billable)
    BY Zenon, <2>1
  <2> HIDE DEF new
  <2> QED
    BY Zenon, <2>1, <2>4, <2>5
<1> HIDE DEF new
<1>4. /\ entries \in Seq(Entry) /\ data \in Seq(Runtimes) /\ Len(entries) = Len(data)
      /\ ListedNow \cap billable \subseteq ever
      /\ \A r \in steady : r \in billable
      /\ \A i \in 1..Len(entries) : /\ entries[i].rt = data[i]
                                    /\ entries[i].billable => entries[i].rt \in ever
                                    /\ entries[i].rt \in steady => entries[i].billable
  <2>1. entries \in Seq(Entry) /\ data \in Seq(Runtimes) /\ Len(entries) = Len(data)
    BY Zenon DEF ListInv, IInv, TypeOK
  <2>2. DOMAIN entries = 1..Len(entries)
    BY <2>1
  <2>3. ListedNow \cap billable \subseteq ever /\ \A r \in steady : r \in billable
    BY <1>1, Zenon DEF ListInv
  <2>4. \A i \in DOMAIN entries : /\ entries[i].rt = data[i]
                                  /\ entries[i].billable => entries[i].rt \in ever
                                  /\ entries[i].rt \in steady => entries[i].billable
    BY Zenon DEF ListInv
  <2> QED
    BY Zenon, <2>1, <2>2, <2>3, <2>4
<1>5. /\ entries' \in Seq(Entry) /\ Len(entries') = Len(entries) + Len(page)
      /\ Len(entries') = Len(data')
  <2>1. Len(entries) \in Nat /\ Len(data) \in Nat
    BY <1>4
  <2>2. entries \o new \in Seq(Entry) /\ Len(entries \o new) = Len(entries) + Len(new)
    <3>1. entries \in Seq(Entry) /\ new \in Seq(Entry)
      BY Zenon, <1>3, <1>4
    <3> QED
      BY <3>1
  <2>3. Len(data \o page) = Len(data) + Len(page)
    BY <1>2, <1>4
  <2> QED
    BY <1>1, <1>3, <1>4, <2>1, <2>2, <2>3, Zenon
<1>6. ASSUME NEW i \in 1..Len(entries')
      PROVE  /\ entries'[i].rt = data'[i]
             /\ entries'[i].billable => entries'[i].rt \in ever
             /\ entries'[i].rt \in steady => entries'[i].billable
  <2>1. CASE i <= Len(entries)
    <3>1. i \in 1..Len(entries) /\ entries'[i] = entries[i] /\ data'[i] = data[i]
      BY <1>1, <1>2, <1>3, <1>4, <1>5, <2>1
    <3> QED
      BY <1>4, <3>1, Zenon
  <2>2. CASE i > Len(entries)
    <3> DEFINE j == i - Len(entries)
    <3>1. j \in 1..Len(page) /\ entries'[i] = new[j] /\ data'[i] = page[j]
      BY <1>1, <1>2, <1>3, <1>4, <1>5, <2>2
    <3> HIDE DEF j
    <3> QED
      BY <1>2, <1>3, <1>4, <3>1, Zenon
  <2> QED
    BY <1>4, <1>5, <2>1, <2>2
<1>7. DOMAIN entries' = 1..Len(entries')
  BY <1>5
<1> QED
  BY <1>1, <1>5, <1>6, <1>7, Zenon DEF ListInv, ListedNow

(* A step of the loop over the list, or of the cleanup, leaves what was    *)
(* read alone, and writes records.                                         *)
LEMMA LoopKeeps ==
    ASSUME PollInv,
           \/ SkipEntry \/ VisitEntry \/ WriteEntry \/ StartCleanup
           \/ \E k \in SubAccounts : Cleanup(k)
    PROVE  /\ UNCHANGED <<vars, billable, entries, copy, steady, ever>>
           /\ cache' \in Cache
<1>1. UNCHANGED <<vars, billable, entries, copy, steady, ever>>
  BY Zenon DEF SkipEntry, VisitEntry, WriteEntry, StartCleanup, Cleanup, history
<1>2. cache \in Cache /\ entries \in Seq(Entry)
  BY Zenon DEF PollInv, ListInv
<1>3. CASE WriteEntry
  <2> DEFINE e == entries[place]
             new == IF e.billable THEN NewRecord(e.rt) ELSE None
  <2>1. CASE cache' = cache
    BY <1>1, <1>2, <2>1, Zenon
  <2>2. CASE cache' = [cache EXCEPT ![SubAccountOf[e.rt]] = new]
    <3>1. e.rt \in Runtimes
      <4>1. place \in 1..Len(entries)
        BY <1>2, <1>3 DEF PollInv, LoopInv, WriteEntry
      <4>2. e \in Entry
        BY <1>2, <4>1
      <4> QED
        BY <4>2, Zenon DEF Entry
    <3>2. new \in Record \cup {None}
      BY <3>1, NewRecordIs, Zenon
    <3> HIDE DEF new
    <3> QED
      BY <1>1, <1>2, <2>2, <3>2, Zenon DEF Cache
  <2> QED
    BY <1>3, <2>1, <2>2, Zenon DEF WriteEntry
<1> QED
  BY <1>1, <1>2, <1>3, Zenon DEF SkipEntry, VisitEntry, StartCleanup, Cleanup, Cache

(* The worker writes a record back.                                        *)
LEMMA StoreKeeps ==
    ASSUME PollInv, NEW k \in SubAccounts, Worker(k)
    PROVE  /\ UNCHANGED <<vars, billable, entries, loopVars, steady, ever>>
           /\ cache' \in Cache /\ copy' \in Cache
           /\ UNCHANGED <<cache, late>> \/ (pc # "done" /\ late' = late)
                 \/ (late' = late \cup {k} /\ \A j \in SubAccounts \ {k} : cache'[j] = cache[j])
<1>1. UNCHANGED <<vars, billable, entries, loopVars, steady, ever>>
  BY Zenon DEF Worker, TakeRecord, StoreRecord, LeaveRecord, history
<1>2. cache \in Cache /\ copy \in Cache
  BY Zenon DEF PollInv, ListInv
<1>3. CASE TakeRecord(k) \/ LeaveRecord(k)
  BY <1>1, <1>2, <1>3, Zenon DEF TakeRecord, LeaveRecord, Cache
<1>4. CASE StoreRecord(k)
  <2>1. copy[k] \in Record
    BY <1>2, <1>4, Zenon DEF StoreRecord, Cache
  <2>2. [copy[k] EXCEPT !.scans = TRUE] \in Record
    BY Zenon, <2>1 DEF Record
  <2>3. cache' \in Cache /\ copy' \in Cache /\ \A j \in SubAccounts \ {k} : cache'[j] = cache[j]
    BY <1>2, <1>4, <2>2, Zenon DEF StoreRecord, Cache
  <2> QED
    BY <1>1, <1>4, <2>3, Zenon DEF StoreRecord
<1> QED
  BY <1>3, <1>4, Zenon DEF Worker

(* Every step keeps what is known of the list that was read.               *)
LEMMA ListNextInv == PollInv /\ [PollNext]_pollVars => ListInv'
<1> SUFFICES ASSUME PollInv, [PollNext]_pollVars PROVE ListInv'
  BY Zenon
<1>1. ListInv /\ IInv /\ IInv'
  BY PollStepIsClientStep, NextIInv, Zenon DEF PollInv, ListInv
<1>2. CASE Fetch
  BY <1>1, <1>2 DEF Fetch, GetAllRuntimes, ListInv, ListedNow
<1>3. CASE ReadPage
  BY <1>1, <1>3, ReadPageKeeps, Zenon
<1>4. CASE FailPage
  BY <1>1, <1>4, Zenon DEF FailPage, PageFails, ListInv, ListedNow, history
<1>5. CASE GiveUp \/ EndPoll
  <2>1. /\ pc' = "idle" /\ data' = <<>> /\ entries' = <<>> /\ steady' = {}
        /\ UNCHANGED <<table, cache, copy>>
    BY <1>5, Zenon DEF GiveUp, EndPoll, Sleep, Return
  <2> QED
    BY <1>1, <2>1 DEF ListInv
<1>6. CASE \/ SkipEntry \/ VisitEntry \/ WriteEntry \/ StartCleanup
           \/ \E k \in SubAccounts : Cleanup(k)
  <2>1. /\ UNCHANGED <<vars, billable, entries, copy, steady, ever>>
        /\ cache' \in Cache
    BY <1>6, LoopKeeps, Zenon
  <2> QED
    BY <1>1, <2>1, Zenon DEF ListInv, ListedNow, vars, clientVars
<1>7. ASSUME NEW r \in Runtimes, Listing(r) PROVE ListInv'
  <2>1. /\ ListedNow' = ListedNow \cup {r}
        /\ \A i, j \in DOMAIN table' : table'[i] = table'[j] => i = j
    BY <1>1, <1>7, KebAddLists, Zenon DEF Listing
  <2>2. /\ UNCHANGED <<pc, data, start, billable, entries, cache, copy, steady>>
        /\ ever' = ever \cup ({r} \cap billable)
    BY <1>7, Zenon DEF Listing, Move, KebAdd, clientVars
  <2> QED
    BY <1>1, <2>1, <2>2, Zenon DEF ListInv
<1>8. ASSUME NEW r \in Runtimes, Change(r) PROVE ListInv'
  <2>1. /\ UNCHANGED <<table, pc, data, start, entries, cache, copy>>
        /\ ListedNow' = ListedNow
        /\ ever' = ever \cup (ListedNow \cap billable') /\ steady' = steady \ {r}
        /\ billable' = IF r \in billable THEN billable \ {r} ELSE billable \cup {r}
    BY <1>8, Zenon DEF Change, Move, vars, clientVars, ListedNow
  <2> QED
    BY <1>1, <2>1, Zenon DEF ListInv
<1>9. CASE Unlisting
  <2>1. /\ ListedNow' \subseteq ListedNow
        /\ \A i, j \in DOMAIN table' : table'[i] = table'[j] => i = j
    BY <1>1, <1>9, KebRemoveLists, Zenon DEF Unlisting
  <2>2. /\ UNCHANGED <<pc, data, start, billable, entries, cache, copy, ever>>
        /\ steady' = steady \cap ListedNow'
    BY <1>9, Zenon DEF Unlisting, Move, KebRemove, clientVars
  <2> QED
    BY <1>1, <2>1, <2>2, Zenon DEF ListInv
<1>10. ASSUME NEW k \in SubAccounts, Worker(k) PROVE ListInv'
  <2>1. /\ UNCHANGED <<vars, billable, entries, loopVars, steady, ever>>
        /\ cache' \in Cache /\ copy' \in Cache
    BY <1>10, StoreKeeps, Zenon
  <2> QED
    BY <1>1, <2>1, Zenon DEF ListInv, ListedNow, vars, clientVars
<1>11. CASE UNCHANGED pollVars
  BY <1>1, <1>11, Zenon DEF pollVars, vars, clientVars, history, ListInv, ListedNow
<1> QED
  BY <1>2, <1>3, <1>4, <1>5, <1>6, <1>7, <1>8, <1>9, <1>10, <1>11
  DEF PollNext, pollKEBForRuntimes, populateCacheAndQueue

(* When the loop goes on, the entry it leaves behind has decided if it is  *)
(* of the subaccount, and otherwise those before it still do.              *)
LEMMA DecidedNext ==
    ASSUME entries \in Seq(Entry), NEW p \in 1..Len(entries), NEW k, NEW record,
           IF p \in EntriesOf(k) THEN Settled(entries[p], record) ELSE Decided(k, p, record)
    PROVE  Decided(k, p + 1, record)
<1> SUFFICES ASSUME NEW m \in EntriesOf(k), m < p + 1,
                    \A i \in EntriesOf(k) : i < p + 1 => i <= m
             PROVE  Settled(entries[m], record)
  BY Zenon DEF Decided
<1>1. EntriesOf(k) \subseteq 1..Len(entries) /\ Len(entries) \in Nat
  BY DEF EntriesOf
<1>2. CASE p \in EntriesOf(k)
  <2>1. m = p
    BY <1>1, <1>2
  <2> QED
    BY <1>2, <2>1, Zenon
<1>3. CASE p \notin EntriesOf(k)
  <2>1. m < p /\ \A i \in EntriesOf(k) : i < p => i <= m
    BY <1>1, <1>3
  <2> QED
    BY <1>3, <2>1, Zenon DEF Decided
<1> QED
  BY <1>2, <1>3, Zenon

(* Before the first entry nothing has been decided.                        *)
LEMMA NothingDecided ==
    ASSUME entries \in Seq(Entry), NEW k, NEW record PROVE Decided(k, 1, record)
<1>1. EntriesOf(k) \subseteq 1..Len(entries)
  BY DEF EntriesOf
<1> QED
  BY <1>1 DEF Decided

(* An entry of the list that is not skipped is one of its subaccount only. *)
LEMMA EntryIsOf ==
    ASSUME entries \in Seq(Entry), NEW p \in 1..Len(entries)
    PROVE  /\ \A k : p \in EntriesOf(k) <=>
                       SubAccountOf[entries[p].rt] = k /\ ~ Skipped(entries[p])
           /\ ~ Skipped(entries[p]) => SubAccountOf[entries[p].rt] \in SubAccounts
<1>1. DOMAIN entries = 1..Len(entries) /\ entries[p] \in Entry
  OBVIOUS
<1>2. SubAccountOf[entries[p].rt] \in SubAccounts \cup {None}
  BY <1>1, SubAccountOfAssumption, Zenon DEF Entry
<1> QED
  BY <1>1, <1>2, Zenon DEF EntriesOf, Skipped

(* The loop keeps its invariant: an entry that is skipped decides nothing. *)
LEMMA SkipKeepsLoop == ASSUME PollInv, SkipEntry PROVE LoopInv'
<1>1. /\ entries \in Seq(Entry) /\ Len(entries) \in Nat
      /\ place \in 1..Len(entries) /\ Skipped(entries[place])
      /\ pc = "done" /\ pc' = pc /\ ppc = "visit" /\ place' = place + 1
      /\ UNCHANGED <<entries, ppc, cache, late>>
  BY DEF PollInv, ListInv, LoopInv, SkipEntry, vars, clientVars
<1>2. ASSUME NEW k \in SubAccounts \ late PROVE Decided(k, place + 1, cache[k])
  <2>1. Decided(k, place, cache[k])
    BY <1>1, Zenon DEF PollInv, LoopInv, Writing
  <2>2. place \notin EntriesOf(k)
    BY <1>1, EntryIsOf, Zenon
  <2> QED
    BY <1>1, <2>1, <2>2, DecidedNext, Zenon
<1> QED
  BY <1>1, <1>2 DEF LoopInv, Decided, EntriesOf

(* An entry that is looked up has decided, or its record is to be written. *)
LEMMA VisitKeepsLoop == ASSUME PollInv, VisitEntry PROVE LoopInv'
<1> DEFINE e == entries[place]
           k0 == SubAccountOf[e.rt]
<1>1. /\ entries \in Seq(Entry) /\ Len(entries) \in Nat
      /\ place \in 1..Len(entries) /\ ~ Skipped(e)
      /\ pc = "done" /\ pc' = pc /\ ppc = "visit" /\ late' = late \ {k0}
      /\ UNCHANGED <<entries, cache>>
      /\ \A k \in SubAccounts \ late : Decided(k, place, cache[k])
  BY DEF PollInv, ListInv, LoopInv, Writing, VisitEntry, vars, clientVars
<1>2. k0 \in SubAccounts /\ \A k \in SubAccounts : place \in EntriesOf(k) <=> k = k0
  BY <1>1, EntryIsOf, Zenon
<1>3. CASE Settled(e, cache[k0])
  <2>1. place' = place + 1 /\ ppc = "visit" /\ ppc' = ppc
    BY <1>3, Zenon DEF VisitEntry
  <2>2. ASSUME NEW k \in SubAccounts \ late' PROVE Decided(k, place + 1, cache[k])
    <3>1. IF place \in EntriesOf(k) THEN Settled(entries[place], cache[k])
          ELSE Decided(k, place, cache[k])
      BY <1>1, <1>2, <1>3, Zenon
    <3> QED
      BY <1>1, <3>1, DecidedNext, Zenon
  <2> QED
    BY <1>1, <2>1, <2>2 DEF LoopInv, Decided, EntriesOf
<1>4. CASE ~ Settled(e, cache[k0])
  <2>1. UNCHANGED place /\ ppc' = "write" /\ found' = cache[k0]
    BY <1>4, Zenon DEF VisitEntry
  <2>2. \A k \in SubAccounts \ late' : k = k0 \/ Decided(k, place, cache[k])
    BY <1>1, Zenon
  <2> QED
    BY <1>1, <1>4, <2>1, <2>2 DEF LoopInv, Writing, Decided, EntriesOf
<1> QED
  BY <1>3, <1>4, Zenon

(* What is written is what the entry asks for, unless Cache.Add finds that *)
(* a worker has stored a record meanwhile.                                 *)
LEMMA WriteKeepsLoop == ASSUME PollInv, WriteEntry PROVE LoopInv'
<1> DEFINE e == entries[place]
           k0 == SubAccountOf[e.rt]
           new == IF e.billable THEN NewRecord(e.rt) ELSE None
<1>1. /\ entries \in Seq(Entry) /\ Len(entries) \in Nat /\ cache \in Cache
      /\ place \in 1..Len(entries) /\ ~ Skipped(e) /\ ~ Settled(e, found)
      /\ k0 \notin late => cache[k0] = found
      /\ pc = "done" /\ pc' = pc /\ ppc' = "visit" /\ place' = place + 1
      /\ UNCHANGED entries
      /\ \A k \in SubAccounts \ late : k = k0 \/ Decided(k, place, cache[k])
  BY DEF PollInv, ListInv, LoopInv, Writing, WriteEntry, vars, clientVars
<1>2. k0 \in SubAccounts /\ \A k \in SubAccounts : place \in EntriesOf(k) <=> k = k0
  BY <1>1, EntryIsOf, Zenon
<1>3. Settled(e, new)
  <2>1. e \in Entry
    BY <1>1
  <2>2. e.rt \in Runtimes
    BY <2>1, Zenon DEF Entry
  <2>3. NewRecord(e.rt) # None /\ NewRecord(e.rt).rt = e.rt
    BY <2>2, NewRecordIs, Zenon
  <2> HIDE DEF e
  <2> QED
    BY <2>3, Zenon DEF Settled
<1>4. \/ UNCHANGED <<cache, late>> /\ k0 \in late
      \/ late' = late \ {k0} /\ cache' = [cache EXCEPT ![k0] = new]
  BY <1>1, Zenon DEF WriteEntry
<1>5. \A k \in SubAccounts \ late' : /\ k = k0 => Settled(e, cache'[k])
                                     /\ k # k0 => k \notin late /\ cache'[k] = cache[k]
  <2>1. CASE UNCHANGED <<cache, late>> /\ k0 \in late
    BY <2>1, Zenon
  <2>2. CASE late' = late \ {k0} /\ cache' = [cache EXCEPT ![k0] = new]
    <3>1. cache'[k0] = new /\ \A k \in SubAccounts : k # k0 => cache'[k] = cache[k]
      <4> HIDE DEF k0, new
      <4> QED
        BY <1>1, <1>2, <2>2, Zenon DEF Cache
    <3> HIDE DEF k0, new, e
    <3> QED
      BY <1>3, <2>2, <3>1, Zenon
  <2> QED
    BY <1>4, <2>1, <2>2, Zenon
<1>6. ASSUME NEW k \in SubAccounts \ late' PROVE Decided(k, place + 1, cache'[k])
  <2>1. IF place \in EntriesOf(k) THEN Settled(entries[place], cache'[k])
        ELSE Decided(k, place, cache'[k])
    <3>1. CASE k = k0
      BY <1>2, <1>5, <3>1, Zenon
    <3>2. CASE k # k0
      <4>1. Decided(k, place, cache[k]) /\ cache'[k] = cache[k] /\ place \notin EntriesOf(k)
        BY <1>1, <1>2, <1>5, <3>2, Zenon
      <4> QED
        BY <4>1, Zenon
    <3> QED
      BY <3>1, <3>2, Zenon
  <2> QED
    BY <1>1, <2>1, DecidedNext, Zenon
<1> QED
  BY <1>1, <1>6 DEF LoopInv, Decided, EntriesOf

(* The cleanup starts with a copy of the subaccounts that are not listed.  *)
LEMMA StartCleanupKeepsLoop == ASSUME PollInv, StartCleanup PROVE LoopInv'
<1>1. /\ pc = "done" /\ pc' = pc /\ ppc = "visit" /\ ppc' = "cleanup"
      /\ place \in 1..(Len(entries) + 1) /\ Len(entries) \in Nat /\ place > Len(entries)
      /\ items' = {k \in SubAccounts : cache[k] # None} \ validSubAccounts
      /\ late' = late \cap validSubAccounts
      /\ UNCHANGED <<entries, place, cache>>
      /\ \A k \in SubAccounts \ late : Decided(k, place, cache[k])
  BY DEF PollInv, ListInv, LoopInv, Writing, StartCleanup, vars, clientVars
<1>2. place' = Len(entries') + 1
  BY <1>1
<1>3. validSubAccounts' = validSubAccounts
  BY <1>1, Zenon DEF validSubAccounts
<1>4. ASSUME NEW k \in SubAccounts \ late' PROVE Decided(k, place, cache[k])
  <2>1. CASE k \notin late
    BY <1>1, <2>1, Zenon
  <2>2. CASE k \notin validSubAccounts
    <3>1. EntriesOf(k) = {}
      BY <2>2, NoneAssumption, Zenon DEF EntriesOf, validSubAccounts
    <3> QED
      BY <3>1, Zenon DEF Decided
  <2> QED
    BY <1>1, <2>1, <2>2, Zenon
<1> QED
  BY <1>1, <1>2, <1>3, <1>4 DEF LoopInv, Decided, EntriesOf

(* It deletes nothing that is listed.                                      *)
LEMMA CleanupKeepsLoop == ASSUME PollInv, NEW k0 \in SubAccounts, Cleanup(k0) PROVE LoopInv'
<1>1. /\ pc = "done" /\ pc' = pc /\ ppc = "cleanup" /\ ppc' = ppc
      /\ place = Len(entries) + 1 /\ Len(entries) \in Nat
      /\ items \cap validSubAccounts = {} /\ k0 \in items
      /\ items' = items \ {k0} /\ late' = late \ {k0} /\ cache \in Cache
      /\ cache' = [cache EXCEPT ![k0] = None]
      /\ UNCHANGED <<entries, place>>
      /\ \A k \in SubAccounts \ late : Decided(k, place, cache[k])
      /\ \A k \in SubAccounts \ (late \cup items \cup validSubAccounts) : cache[k] = None
  BY DEF PollInv, ListInv, LoopInv, Writing, Cleanup, vars, clientVars
<1>2. validSubAccounts' = validSubAccounts
  BY <1>1, Zenon DEF validSubAccounts
<1>3. EntriesOf(k0) = {}
  BY <1>1, NoneAssumption, Zenon DEF EntriesOf, validSubAccounts
<1>4. cache'[k0] = None /\ \A k \in SubAccounts : k # k0 => cache'[k] = cache[k]
  BY <1>1, Zenon DEF Cache
<1>5. ASSUME NEW k \in SubAccounts \ late' PROVE Decided(k, place, cache'[k])
  <2>1. CASE k = k0
    BY <1>3, <2>1, Zenon DEF Decided
  <2>2. CASE k # k0
    BY <1>1, <1>4, <2>2, Zenon
  <2> QED
    BY <2>1, <2>2, Zenon
<1>6. ASSUME NEW k \in SubAccounts \ (late' \cup items' \cup validSubAccounts)
      PROVE  cache'[k] = None
  BY <1>1, <1>4, Zenon
<1> QED
  BY <1>1, <1>2, <1>5, <1>6 DEF LoopInv, Decided, EntriesOf

(* Every step keeps the invariant of the loop.                             *)
LEMMA LoopNextInv == PollInv /\ [PollNext]_pollVars => LoopInv'
<1> SUFFICES ASSUME PollInv, [PollNext]_pollVars PROVE LoopInv'
  BY Zenon
<1>1. ListInv /\ LoopInv /\ ListInv'
  BY ListNextInv, Zenon DEF PollInv
<1>2. ASSUME ppc' = "visit", place' = 1 PROVE LoopInv'
  <2>1. entries' \in Seq(Entry) /\ Len(entries') \in Nat
    BY <1>1 DEF ListInv
  <2>2. \A k \in SubAccounts : EntriesOf(k)' \subseteq 1..Len(entries')
    BY <2>1 DEF EntriesOf
  <2>3. \A k \in SubAccounts : Decided(k, place, cache[k])'
    BY <1>2, <2>2 DEF Decided
  <2> QED
    BY <1>2, <2>1, <2>3 DEF LoopInv
<1>3. CASE \/ Fetch \/ ReadPage \/ FailPage \/ Unlisting
           \/ \E r \in Runtimes : Listing(r) \/ Change(r)
  <2>1. pc # "done" /\ UNCHANGED loopVars
    BY <1>3, Zenon DEF Fetch, GetAllRuntimes, ReadPage, PageArrives, FailPage, PageFails,
                Unlisting, Listing, Change, Move
  <2> QED
    BY <1>1, <1>2, <2>1, Zenon DEF LoopInv, loopVars
<1>4. CASE GiveUp \/ EndPoll
  BY <1>2, <1>4, Zenon DEF GiveUp, EndPoll, Sleep
<1>5. CASE SkipEntry
  BY <1>5, SkipKeepsLoop, Zenon
<1>6. CASE VisitEntry
  BY <1>6, VisitKeepsLoop, Zenon
<1>7. CASE WriteEntry
  BY <1>7, WriteKeepsLoop, Zenon
<1>8. CASE StartCleanup
  BY <1>8, StartCleanupKeepsLoop, Zenon
<1>9. ASSUME NEW k \in SubAccounts, Cleanup(k) PROVE LoopInv'
  BY <1>9, CleanupKeepsLoop, Zenon
<1>10. ASSUME NEW k \in SubAccounts, Worker(k) PROVE LoopInv'
  <2>1. /\ UNCHANGED <<pc, entries, ppc, place, found, items>>
        /\ \/ UNCHANGED <<cache, late>>
           \/ pc # "done"
           \/ late' = late \cup {k} /\ \A j \in SubAccounts \ {k} : cache'[j] = cache[j]
    BY <1>10, StoreKeeps, Zenon DEF vars, clientVars, loopVars
  <2>2. CASE UNCHANGED <<cache, late>>
    BY <1>1, <2>1, <2>2 DEF LoopInv, Decided, Writing, EntriesOf, validSubAccounts
  <2>3. CASE pc # "done"
    <3>1. ppc = "visit" /\ place = 1
      BY <1>1, <2>3, Zenon DEF LoopInv
    <3> QED
      BY <1>2, <2>1, <3>1, Zenon
  <2>4. CASE late' = late \cup {k} /\ \A j \in SubAccounts \ {k} : cache'[j] = cache[j]
    <3>1. \A j \in SubAccounts \ late' : j \in SubAccounts \ late /\ cache'[j] = cache[j]
      BY <2>4, Zenon
    <3>2. \A j \in SubAccounts \ late' : Writing(j)' \/ Decided(j, place, cache[j])'
      BY <1>1, <2>1, <3>1, Zenon DEF LoopInv, Decided, Writing, EntriesOf
    <3>3. ppc' = "write" =>
            /\ place' <= Len(entries')
            /\ ~ Skipped(entries'[place'])
            /\ ~ Settled(entries'[place'], found')
            /\ SubAccountOf[entries'[place'].rt] \notin late' =>
                  cache'[SubAccountOf[entries'[place'].rt]] = found'
      <4> SUFFICES ASSUME ppc = "write", SubAccountOf[entries[place].rt] \notin late'
                   PROVE  cache'[SubAccountOf[entries[place].rt]] = found
        BY <1>1, <2>1, Zenon DEF LoopInv
      <4>1. /\ entries \in Seq(Entry) /\ place \in 1..Len(entries) /\ ~ Skipped(entries[place])
            /\ SubAccountOf[entries[place].rt] \notin late =>
                  cache[SubAccountOf[entries[place].rt]] = found
        BY <1>1 DEF ListInv, LoopInv
      <4>2. SubAccountOf[entries[place].rt] \in SubAccounts
        BY <4>1, EntryIsOf, Zenon
      <4> QED
        BY <2>4, <3>1, <4>1, <4>2, Zenon
    <3>4. validSubAccounts' = validSubAccounts
      BY <2>1, Zenon DEF validSubAccounts
    <3> QED
      BY <1>1, <2>1, <2>4, <3>1, <3>2, <3>3, <3>4 DEF LoopInv
  <2> QED
    BY <2>1, <2>2, <2>3, <2>4, Zenon
<1>11. CASE UNCHANGED pollVars
  BY <1>1, <1>11, Zenon DEF pollVars, vars, clientVars, loopVars, LoopInv, Decided, Writing, EntriesOf,
                     validSubAccounts
<1> QED
  BY <1>3, <1>4, <1>5, <1>6, <1>7, <1>8, <1>9, <1>10, <1>11
  DEF PollNext, pollKEBForRuntimes, populateCacheAndQueue

(* Every step keeps the invariant.                                         *)
LEMMA PollNextInv == PollInv /\ [PollNext]_pollVars => PollInv'
  BY ListNextInv, LoopNextInv, Zenon DEF PollInv

(* Nothing has been read before the first poll.                            *)
LEMMA PollInitInv == PollInit => PollInv
<1> SUFFICES ASSUME PollInit PROVE PollInv
  BY Zenon
<1>1. IInv
  BY InitIInv, Zenon DEF PollInit
<1>2. /\ table = <<>> /\ pc = "idle" /\ data = <<>> /\ entries = <<>> /\ steady = {}
      /\ cache = NoRecords /\ copy = NoRecords /\ ppc = "visit" /\ place = 1
  BY Zenon DEF PollInit, Init
<1>3. NoRecords \in Cache
  BY Zenon DEF NoRecords, Cache
<1>4. ListInv
  BY <1>1, <1>2, <1>3 DEF ListInv
<1>5. \A k \in SubAccounts : Decided(k, place, cache[k])
  <2>1. entries \in Seq(Entry)
    BY <1>4, Zenon DEF ListInv
  <2> QED
    BY <1>2, <2>1, NothingDecided, Zenon
<1> QED
  BY <1>2, <1>4, <1>5 DEF PollInv, LoopInv

(* The invariant holds in every reachable state of a poll.                 *)
THEOREM PollInvariance == PollSpec => []PollInv
  BY PollInitInv, PollNextInv, PTL DEF PollSpec

(* Polls use the client as it is specified: every behaviour of the poller, *)
(* with KEB's changes and the workers, is a behaviour of KEBClient, so     *)
(* that what is proved of GetAllRuntimes holds for the lists of all polls. *)
THEOREM PollsUseTheClient == PollSpec => Spec
<1>1. PollInit => Init
  BY Zenon DEF PollInit
<1> QED
  BY <1>1, PollStepIsClientStep, PTL DEF PollSpec, Spec

(* When a poll is over, the last entry of a subaccount that is not skipped *)
(* has decided, and a subaccount that is not listed has no record, unless  *)
(* a worker has stored one since.                                          *)
LEMMA EndDecides ==
    ASSUME PollInv, EndPoll, NEW k \in SubAccounts \ late
    PROVE  /\ EntriesOf(k) = {} => OnlySkipped(k) \/ cache[k] = None
           /\ EntriesOf(k) # {} =>
                 /\ Max(EntriesOf(k)) \in EntriesOf(k)
                 /\ Settled(entries[Max(EntriesOf(k))], cache[k])
<1>1. /\ entries \in Seq(Entry) /\ Len(entries) \in Nat /\ DOMAIN entries = 1..Len(entries)
      /\ ppc = "cleanup" /\ place = Len(entries) + 1
      /\ Decided(k, place, cache[k])
      /\ k \notin validSubAccounts => cache[k] = None
  BY DEF PollInv, ListInv, LoopInv, Writing, EndPoll
<1>2. ASSUME EntriesOf(k) = {} PROVE OnlySkipped(k) \/ cache[k] = None
  BY <1>1, <1>2, Zenon DEF OnlySkipped, validSubAccounts
<1>3. ASSUME EntriesOf(k) # {}
      PROVE  /\ Max(EntriesOf(k)) \in EntriesOf(k)
             /\ Settled(entries[Max(EntriesOf(k))], cache[k])
  <2> DEFINE m == Max(EntriesOf(k))
  <2>1. m \in EntriesOf(k) /\ \A i \in EntriesOf(k) : i <= m
    BY <1>1, <1>3, LastEntry, Zenon
  <2> HIDE DEF m
  <2>2. m < place
    BY <1>1, <2>1 DEF EntriesOf
  <2>3. Settled(entries[m], cache[k])
    BY <1>1, <2>1, <2>2, Zenon DEF Decided
  <2> QED
    BY <2>1, <2>3, Zenon DEF m
<1> QED
  BY <1>2, <1>3, Zenon

(* The last entry of a subaccount decides, for any list, any cache and any *)
(* interleaving with the workers, of the subaccounts they leave alone.     *)
THEOREM LastEntryAlwaysDecides == PollSpec => LastEntryDecides
<1>1. ASSUME PollInv, EndPoll, NEW k \in SubAccounts \ late
      PROVE  \/ OnlySkipped(k)
             \/ IF EntriesOf(k) = {} \/ ~ entries[Max(EntriesOf(k))].billable
                THEN cache[k] = None
                ELSE IsOf(cache[k], entries[Max(EntriesOf(k))].rt)
  BY <1>1, EndDecides, Zenon DEF Settled, IsOf
<1>2. PollInv =>
        [EndPoll =>
            \A k \in SubAccounts \ late :
                \/ OnlySkipped(k)
                \/ IF EntriesOf(k) = {} \/ ~ entries[Max(EntriesOf(k))].billable
                   THEN cache[k] = None
                   ELSE IsOf(cache[k], entries[Max(EntriesOf(k))].rt)]_pollVars
  BY <1>1, Zenon
<1> QED
  BY <1>2, PollInvariance, PTL DEF LastEntryDecides

(* Nothing is billed after a poll that was not billable and listed at some *)
(* time during the call, but for what a worker has stored since and for    *)
(* subaccounts listed with filtered runtimes only: for any list, any page  *)
(* size, any changes meanwhile and any interleaving with the workers.      *)
THEOREM OnlyListedIsBilled == PollSpec => NothingElseIsBilled
<1>1. ASSUME PollInv, EndPoll, NEW k \in SubAccounts \ late, cache[k] # None, ~ OnlySkipped(k)
      PROVE  cache[k].rt \in ever
  <2> DEFINE m == Max(EntriesOf(k))
  <2>1. m \in EntriesOf(k) /\ Settled(entries[m], cache[k])
    BY <1>1, EndDecides, Zenon
  <2> HIDE DEF m
  <2>2. m \in DOMAIN entries /\ entries[m].billable /\ cache[k].rt = entries[m].rt
    BY <1>1, <2>1, Zenon DEF Settled, EntriesOf
  <2> QED
    BY <1>1, <2>2, Zenon DEF PollInv, ListInv
<1>2. PollInv =>
        [EndPoll =>
            \A k \in SubAccounts \ late :
                cache[k] # None => cache[k].rt \in ever \/ OnlySkipped(k)]_pollVars
  BY <1>1, Zenon
<1> QED
  BY <1>2, PollInvariance, PTL DEF NothingElseIsBilled

(* A steady cluster is on the list, unskipped, and all its entries are     *)
(* billable: the client has missed nothing that was listed all the time.   *)
LEMMA SteadyIsListed ==
    ASSUME PollInv, pc = "done", NEW r \in SteadyAlone
    PROVE  /\ r \in Runtimes /\ SubAccountOf[r] \in SubAccounts
           /\ EntriesOf(SubAccountOf[r]) # {} /\ SubAccountOf[r] \in validSubAccounts
           /\ \A i \in EntriesOf(SubAccountOf[r]) : entries[i].rt = r /\ entries[i].billable
<1>1. /\ r \in steady /\ r \notin Filtered /\ change # "removed" /\ SubAccountOf[r] # None
      /\ \A i \in EntriesOf(SubAccountOf[r]) : entries[i].rt = r
  BY Zenon DEF SteadyAlone
<1>2. r \in Runtimes /\ InList(r, start)
  BY <1>1, Zenon DEF PollInv, ListInv, ListedNow
<1>3. SubAccountOf[r] \in SubAccounts
  BY <1>1, <1>2, SubAccountOfAssumption, Zenon
<1>4. InList(r, data)
  BY <1>1, <1>2, Zenon DEF PollInv, ListInv, IInv, NothingMissed
<1>5. DOMAIN entries = DOMAIN data
  <2>1. entries \in Seq(Entry) /\ data \in Seq(Runtimes) /\ Len(entries) = Len(data)
    BY Zenon DEF PollInv, ListInv, IInv, TypeOK
  <2> QED
    BY <2>1
<1>6. PICK i \in DOMAIN entries : entries[i].rt = r
  BY <1>4, <1>5, Zenon DEF InList, PollInv, ListInv
<1>7. i \in EntriesOf(SubAccountOf[r]) /\ SubAccountOf[r] \in validSubAccounts
  BY <1>1, <1>6, Zenon DEF EntriesOf, Skipped, validSubAccounts
<1>8. \A j \in EntriesOf(SubAccountOf[r]) : entries[j].billable
  BY <1>1, Zenon DEF EntriesOf, PollInv, ListInv
<1> QED
  BY <1>1, <1>2, <1>3, <1>7, <1>8

(* A cluster that was billable and listed all the time keeps its record,   *)
(* and its scans unless they were stored since the look-up, while KEB only *)
(* adds runtimes, and has a record when the poll is over.                  *)
THEOREM SteadyAlwaysKeepsRecord == PollSpec => SteadyKeepsRecord
<1>1. ASSUME PollInv, populateCacheAndQueue, NEW r \in SteadyAlone,
             IsOf(cache[SubAccountOf[r]], r)
      PROVE  IF SubAccountOf[r] \in late THEN IsOf(cache'[SubAccountOf[r]], r)
             ELSE cache'[SubAccountOf[r]] = cache[SubAccountOf[r]]
  <2> DEFINE k == SubAccountOf[r]
  <2>1. pc = "done"
    BY <1>1, Zenon DEF populateCacheAndQueue, SkipEntry, VisitEntry, WriteEntry, StartCleanup,
                Cleanup, EndPoll
  <2>2. /\ r \in Runtimes /\ k \in SubAccounts /\ k \in validSubAccounts
        /\ \A i \in EntriesOf(k) : entries[i].rt = r /\ entries[i].billable
    BY <1>1, <2>1, SteadyIsListed, Zenon
  <2>3. cache \in Cache
    BY <1>1, Zenon DEF PollInv, ListInv
  <2> HIDE DEF k
  <2>4. CASE cache'[k] = cache[k]
    BY <1>1, <2>4, Zenon DEF k
  <2>5. CASE WriteEntry /\ cache'[k] # cache[k]
    <3> DEFINE e == entries[place]
               k0 == SubAccountOf[e.rt]
    <3>1. /\ entries \in Seq(Entry) /\ place \in 1..Len(entries)
          /\ ~ Skipped(e) /\ ~ Settled(e, found)
          /\ k0 \notin late => cache[k0] = found
      <4>1. /\ entries \in Seq(Entry)
            /\ place \in 1..(Len(entries) + 1) /\ place <= Len(entries)
        BY <1>1, <2>5, Zenon DEF PollInv, ListInv, LoopInv, WriteEntry
      <4>2. ~ Skipped(e) /\ ~ Settled(e, found) /\ (k0 \notin late => cache[k0] = found)
        BY <1>1, <2>5, Zenon DEF PollInv, LoopInv, WriteEntry
      <4>3. place \in 1..Len(entries)
        BY <4>1
      <4> QED
        BY <4>1, <4>2, <4>3, Zenon
    <3>2. cache' = [cache EXCEPT ![k0] = IF e.billable THEN NewRecord(e.rt) ELSE None]
      BY <2>5, Zenon DEF WriteEntry
    <3>3. k0 = k
      <4> HIDE DEF k0, e
      <4> QED
        BY <2>2, <2>3, <2>5, <3>2, Zenon DEF Cache
    <3>4. e.rt = r /\ e.billable
      BY <2>2, <3>1, <3>3, EntryIsOf, Zenon
    <3>5. k \in late
      BY <1>1, <3>1, <3>3, <3>4, Zenon DEF k, Settled, IsOf
    <3>6. cache'[k] = NewRecord(r)
      <4> HIDE DEF k0, e
      <4> QED
        BY <2>2, <2>3, <3>2, <3>3, <3>4, Zenon DEF Cache
    <3> QED
      BY <2>2, <3>5, <3>6, NewRecordIs, Zenon DEF k, IsOf
  <2>6. ASSUME NEW j \in SubAccounts, Cleanup(j) PROVE cache'[k] = cache[k]
    <3>1. j # k /\ cache' = [cache EXCEPT ![j] = None]
      BY <1>1, <2>2, <2>6, Zenon DEF PollInv, LoopInv, Cleanup
    <3> QED
      BY <2>2, <2>3, <3>1, Zenon DEF Cache
  <2> QED
    BY <1>1, <2>4, <2>5, <2>6, Zenon
    DEF populateCacheAndQueue, SkipEntry, VisitEntry, StartCleanup, EndPoll, Sleep
<1>2. ASSUME PollInv, EndPoll, NEW r \in SteadyAlone, SubAccountOf[r] \notin late
      PROVE  IsOf(cache[SubAccountOf[r]], r)
  <2> DEFINE k == SubAccountOf[r]
             m == Max(EntriesOf(k))
  <2>1. /\ k \in SubAccounts /\ EntriesOf(k) # {}
        /\ \A i \in EntriesOf(k) : entries[i].rt = r /\ entries[i].billable
    BY <1>2, SteadyIsListed, Zenon DEF EndPoll
  <2>2. m \in EntriesOf(k) /\ Settled(entries[m], cache[k])
    BY <1>2, <2>1, EndDecides, Zenon
  <2> HIDE DEF m
  <2> QED
    BY <2>1, <2>2, Zenon DEF Settled, IsOf
<1>3. PollInv =>
        [populateCacheAndQueue =>
            \A r \in SteadyAlone :
                LET k == SubAccountOf[r]
                IN  /\ IsOf(cache[k], r) =>
                          IF k \in late THEN IsOf(cache'[k], r) ELSE cache'[k] = cache[k]
                    /\ EndPoll /\ k \notin late => IsOf(cache[k], r)]_pollVars
  BY <1>1, <1>2, Zenon
<1> QED
  BY <1>3, PollInvariance, PTL DEF SteadyKeepsRecord
-----------------------------------------------------------------------------
(* A call of GetAllRuntimes makes a bounded number of requests.            *)

(* KEB's list is never longer than there are runtimes.                     *)
LEMMA ListIsBounded ==
    ASSUME PollInv, IsFiniteSet(Runtimes) PROVE Len(table) <= Cardinality(Runtimes)
<1>1. table \in [1..Len(table) -> Runtimes] /\ Len(table) \in Nat
  BY DEF PollInv, ListInv, IInv, TypeOK
<1>2. \A i, j \in 1..Len(table) : table[i] = table[j] => i = j
  BY <1>1, Zenon DEF PollInv, ListInv
<1>3. IsFiniteSet(1..Len(table)) /\ Cardinality(1..Len(table)) = Len(table)
  <2>1. 1 \in Int /\ Len(table) \in Int
    BY <1>1
  <2>2. /\ IsFiniteSet(1..Len(table))
        /\ Cardinality(1..Len(table)) = IF 1 > Len(table) THEN 0 ELSE Len(table) - 1 + 1
    BY Zenon, <2>1, FS_Interval
  <2>3. ASSUME NEW c, NEW n \in Nat, c = IF 1 > n THEN 0 ELSE n - 1 + 1
        PROVE  c = n
    BY <2>3
  <2> QED
    BY Zenon, <1>1, <2>2, <2>3
<1>4. ~ (Cardinality(Runtimes) < Cardinality(1..Len(table)))
  BY <1>1, <1>2, <1>3, FS_PigeonHole
<1>5. Cardinality(Runtimes) \in Nat
  BY FS_CardinalityType, Zenon
<1> QED
  BY <1>1, <1>3, <1>4, <1>5

(* While the list is read, fewer records have been seen than there are     *)
(* runtimes, and the page has been requested fewer than RetryCount times.  *)
FetchInv ==
    pc = "fetch" => /\ recordsSeen = 0 \/ recordsSeen < Cardinality(Runtimes)
                    /\ tries < RetryCount

(* A step of the call ends it, reads a further page or uses up a request   *)
(* of this page; the steps of the others leave it alone.                   *)
FetchAdvances ==
    [][pc = "fetch" /\ pc' = "fetch" =>
          \/ recordsSeen' >= recordsSeen + PageSize
          \/ ~ Client /\ UNCHANGED clientVars
          \/ recordsSeen' = recordsSeen /\ tries' = tries + 1]_pollVars

(* GetAllRuntimes makes at most RetryCount requests for a page, and fewer  *)
(* pages than there are runtimes, or one, whatever KEB does with its list  *)
(* meanwhile: the lexicographic order of recordsSeen and tries rises with  *)
(* every request and is bounded.                                           *)
THEOREM RequestsAreBounded ==
    ASSUME IsFiniteSet(Runtimes), RetryCount > 0
    PROVE  PollSpec => []FetchInv /\ FetchAdvances
<1>1. PollInit => FetchInv
  BY Zenon DEF PollInit, Init, FetchInv
<1>2. ASSUME PollInv, [PollNext]_pollVars, pc = "fetch", pc' = "fetch"
      PROVE  \/ /\ PageArrives /\ recordsSeen' >= recordsSeen + PageSize
                /\ recordsSeen' < Len(table) /\ tries' = 0
             \/ ~ Client /\ UNCHANGED clientVars
             \/ recordsSeen' = recordsSeen /\ tries' = tries + 1 /\ tries' # RetryCount
  <2>1. [Next]_vars
    BY <1>2, PollStepIsClientStep, Zenon
  <2>2. CASE PageArrives
    <3>1. TypeOK /\ PagesInv /\ recordsSeen \in Nat /\ table \in Seq(Runtimes)
      BY <1>2, Zenon DEF PollInv, ListInv, IInv, TypeOK
    <3>2. /\ recordsSeen' = recordsSeen + Len(PageOf(pageNum))
          /\ ~ (recordsSeen' >= Len(table)) /\ tries' = 0
      BY <1>2, <2>2, Zenon DEF PageArrives
    <3>3. /\ PageOf(pageNum) \in Seq(Runtimes)
          /\ Len(PageOf(pageNum)) <= PageSize
          /\ Len(PageOf(pageNum)) < PageSize => recordsSeen + Len(PageOf(pageNum)) >= Len(table)
      BY <1>2, <3>1, PageFacts, Zenon
    <3>4. Len(PageOf(pageNum)) \in Nat /\ Len(table) \in Nat
      BY <3>1, <3>3
    <3> QED
      BY <2>2, <3>1, <3>2, <3>3, <3>4, PageSizeAssumption
  <2>3. CASE PageFails
    BY <1>2, <2>3, Zenon DEF PageFails
  <2>4. CASE UNCHANGED clientVars /\ ~ PageArrives /\ ~ PageFails
    <3>1. ~ GetAllRuntimes /\ ~ Return
      BY <1>2, Zenon DEF GetAllRuntimes, Return
    <3> QED
      BY <2>4, <3>1, Zenon DEF Client
  <2> QED
    BY <1>2, <2>1, <2>2, <2>3, <2>4
    DEF Next, Client, GetAllRuntimes, Return, KebAdd, KebRemove, vars
<1>3. ASSUME PollInv, FetchInv, [PollNext]_pollVars PROVE FetchInv'
  <2>1. CASE pc' # "fetch"
    BY <2>1, Zenon DEF FetchInv
  <2>2. CASE pc' = "fetch" /\ pc = "fetch"
    <3>1. /\ recordsSeen \in Nat /\ tries \in Nat /\ Len(table) \in Nat
          /\ recordsSeen' \in Nat
      <4>1. IInv /\ IInv'
        BY <1>3, PollNextInv, Zenon DEF PollInv, ListInv
      <4> QED
        BY <4>1 DEF IInv, TypeOK
    <3>2. Len(table) <= Cardinality(Runtimes) /\ Cardinality(Runtimes) \in Nat
      BY <1>3, ListIsBounded, FS_CardinalityType, Zenon
    <3> QED
      BY <1>2, <1>3, <2>2, <3>1, <3>2, RetryCountAssumption DEF FetchInv, clientVars
  <2>3. CASE pc' = "fetch" /\ pc # "fetch"
    <3>1. GetAllRuntimes
      BY <1>3, <2>3, PollStepIsClientStep, Zenon
      DEF Next, Client, PageArrives, PageFails, Return, KebAdd, KebRemove, vars, clientVars
    <3> QED
      BY <3>1, Zenon DEF GetAllRuntimes, FetchInv
  <2> QED
    BY <2>1, <2>2, <2>3, Zenon
<1>4. PollInv /\ [PollNext]_pollVars =>
        [pc = "fetch" /\ pc' = "fetch" =>
            \/ recordsSeen' >= recordsSeen + PageSize
            \/ ~ Client /\ UNCHANGED clientVars
            \/ recordsSeen' = recordsSeen /\ tries' = tries + 1]_pollVars
  BY <1>2, Zenon
<1> QED
  BY <1>1, <1>3, <1>4, PollInvariance, PTL DEF PollSpec, FetchAdvances
=============================================================================
