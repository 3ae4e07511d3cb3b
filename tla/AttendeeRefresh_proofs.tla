----------------------- MODULE AttendeeRefresh_proofs -----------------------
(***************************************************************************)
(* Proofs about AttendeeRefresh, for any sets of attendees, replies,       *)
(* runners and work items and any batch size: no attendee is dropped from  *)
(* the table before he is sent what was made for him, and the table is     *)
(* never left without a work item.                                         *)
(***************************************************************************)
EXTENDS AttendeeRefresh, TLAPS, FiniteSetTheorems

\* A runner that executes an item has locked it, and the item is still there.
RunnerHoldsItem ==
    \A w \in Runners : run[w] # "idle" => item[w] \in work /\ item[w] \in group[w]

\* The group lock lets one runner at a time execute items of the event.
OneRunner ==
    \A w, v \in Runners : run[w] # "idle" /\ run[v] # "idle" => w = v

\* Replies, and refreshes that read the event, hold the UID lock.
HoldLock ==
    /\ \A r \in Replies : rep[r] # "idle" => uidLock = r
    /\ \A w \in Runners : run[w] = "locked" => uidLock = w

\* Items that were enqueued and not committed are new, and differ.
EnqueuedFresh ==
    /\ \A t \in Txns : enq[t] # Nobody => enq[t] \notin work
    /\ \A t, u \in Txns : t # u /\ enq[t] # Nobody => enq[t] # enq[u]
    /\ \A r \in Replies : rep[r] = "queued" => enq[r] \in WorkIds

\* What a reply has queued, with what was pending when it looked and still
\* is, covers everyone it is to refresh.
QueuedCovers ==
    \A r \in Replies : rep[r] = "queued" =>
       \A a \in Attendees \ {repBy[r]} : a \in Pending(sra \cup repRows[r])

\* No attendee waits for a version that was not made, and there is a number
\* for the version a reply makes.
RoomForVersion == \A r \in Replies : rep[r] # "idle" => data < MaxVersion
NeedsKnown == \A a \in Attendees : needs[a] <= data

Others(w) == work \ {item[w]} # {}

\* A runner that will not enqueue an item leaves nobody pending, or there is
\* another item.
NobodyLeft(w) ==
    /\ run[w] = "done" => sra = {} \/ Others(w)
    /\ run[w] = "found" => Pending(sra) \subseteq pending[w] \/ Others(w)
    /\ run[w] \in {"batched", "locked"} =>
          /\ \A x \in delRows[w] : x[1] \in batch[w]
          /\ enq[w] = Nobody => sra \subseteq delRows[w] \/ Others(w)

LeavesNobody == \A w \in Runners : NobodyLeft(w)

IndInv ==
    /\ TypeOK /\ RunnerHoldsItem /\ OneRunner /\ HoldLock /\ EnqueuedFresh
    /\ QueuedCovers /\ RoomForVersion /\ NeedsKnown /\ LeavesNobody
    /\ NoLostRefresh /\ PendingHasWork

-----------------------------------------------------------------------------
\* Facts about pending rows

\* The attendees of two sets of rows.
LEMMA PendingUnion ==
    ASSUME NEW S, NEW T PROVE Pending(S \cup T) = Pending(S) \cup Pending(T)
BY DEF Pending

\* Deleting the rows of a batch leaves every other attendee pending.
LEMMA PendingMinus ==
    ASSUME NEW S, NEW D, NEW B, \A x \in D : x[1] \in B, NEW a \in Pending(S), a \notin B
    PROVE  a \in Pending(S \ D)
BY DEF Pending

\* Rows are of attendees.
LEMMA PendingType ==
    ASSUME NEW S, S \subseteq Rows PROVE Pending(S) \subseteq Attendees
BY DEF Pending, Rows

\* Some row makes somebody pending.
LEMMA PendingEmpty ==
    ASSUME NEW S PROVE Pending(S) = {} <=> S = {}
BY DEF Pending

-----------------------------------------------------------------------------
\* The initial state satisfies the inductive invariant.
LEMMA InitInv == Init => IndInv
<1> SUFFICES ASSUME Init PROVE IndInv
  OBVIOUS
<1> USE RefreshAssumption
<1>1. TypeOK
  <2>1. Cardinality({}) = 0
    BY FS_EmptySet
  <2>2. \A w \in Runners : Cardinality(batch[w]) <= AttendeeRefreshBatch
    BY <2>1 DEF Init
  <2>3. QED
    BY <2>2 DEF Init, TypeOK, Txns
<1>2. RunnerHoldsItem /\ OneRunner /\ HoldLock /\ EnqueuedFresh /\ QueuedCovers
  BY DEF Init, RunnerHoldsItem, OneRunner, HoldLock, EnqueuedFresh, QueuedCovers
<1>3. RoomForVersion /\ NeedsKnown /\ LeavesNobody /\ NoLostRefresh /\ PendingHasWork
  BY DEF Init, RoomForVersion, NeedsKnown, LeavesNobody, NobodyLeft, NoLostRefresh, PendingHasWork
<1>4. QED
  BY <1>1, <1>2, <1>3 DEF IndInv

\* A reply takes the lock.
LEMMA ReplyLockInv ==
    ASSUME IndInv, NEW r \in Replies, NEW a \in Attendees, ReplyLock(r, a) PROVE IndInv'
<1> USE RefreshAssumption DEF IndInv, ReplyLock, dbVars, runVars
<1>1. TypeOK'
  BY DEF TypeOK, Txns
<1>2. RunnerHoldsItem' /\ OneRunner'
  BY DEF RunnerHoldsItem, OneRunner
<1>3. HoldLock'
  BY DEF HoldLock, TypeOK
<1>4. EnqueuedFresh'
  BY DEF EnqueuedFresh, TypeOK
<1>5. QueuedCovers'
  BY DEF QueuedCovers, TypeOK, HoldLock
<1>6. RoomForVersion'
  BY DEF RoomForVersion, HoldLock, TypeOK
<1>7. NeedsKnown' /\ LeavesNobody' /\ NoLostRefresh' /\ PendingHasWork'
  BY DEF NeedsKnown, LeavesNobody, NobodyLeft, Others, NoLostRefresh, PendingHasWork
<1>8. QED
  BY <1>1, <1>2, <1>3, <1>4, <1>5, <1>6, <1>7

\* A reply queues the refresh.
LEMMA RefreshAttendeesInv ==
    ASSUME IndInv, NEW r \in Replies, NEW i \in WorkIds, refreshAttendees(r, i)
    PROVE  IndInv'
<1> USE RefreshAssumption DEF IndInv, refreshAttendees, dbVars, runVars
<1> DEFINE new == {<<a, data + 1>> : a \in (Attendees \ {repBy[r]}) \ Pending(sra)}
<1>1. data + 1 \in 1..MaxVersion
  BY DEF TypeOK, RoomForVersion
<1>2. TypeOK'
  <2>1. new \subseteq Rows
    BY <1>1 DEF Rows
  <2>2. repRows' \in [Replies -> SUBSET Rows]
    BY <2>1 DEF TypeOK
  <2>3. enq' \in [Txns -> WorkIds \cup {Nobody}]
    BY DEF TypeOK
  <2>4. QED
    BY <2>2, <2>3 DEF TypeOK
<1>3. RunnerHoldsItem' /\ OneRunner'
  BY DEF RunnerHoldsItem, OneRunner
<1>4. HoldLock' /\ RoomForVersion'
  BY DEF HoldLock, RoomForVersion, TypeOK
<1>5. EnqueuedFresh'
  BY DEF EnqueuedFresh, TypeOK, Txns, Free
<1>6. QueuedCovers'
  <2>1. \A a \in Attendees \ {repBy[r]} : a \in Pending(sra) \/ a \in Pending(new)
    <3> SUFFICES ASSUME NEW a \in Attendees \ {repBy[r]}, a \notin Pending(sra)
                 PROVE  a \in Pending(new)
      OBVIOUS
    <3>1. <<a, data + 1>> \in new /\ <<a, data + 1>>[1] = a
      OBVIOUS
    <3> HIDE DEF new
    <3>2. QED
      BY <3>1 DEF Pending
  <2>2. repRows'[r] = new
    BY DEF TypeOK
  <2> HIDE DEF new
  <2>3. \A a \in Attendees \ {repBy[r]} : a \in Pending(sra \cup new)
    BY <2>1, PendingUnion
  <2>4. \A q \in Replies \ {r} : rep'[q] = rep[q] /\ repRows'[q] = repRows[q]
    BY DEF TypeOK
  <2>5. QED
    BY <2>2, <2>3, <2>4 DEF QueuedCovers
<1>7. NeedsKnown' /\ LeavesNobody' /\ NoLostRefresh' /\ PendingHasWork'
  BY DEF NeedsKnown, LeavesNobody, NobodyLeft, Others, NoLostRefresh, PendingHasWork
<1>8. QED
  BY <1>2, <1>3, <1>4, <1>5, <1>6, <1>7

\* A reply commits.
LEMMA ReplyCommitInv ==
    ASSUME IndInv, NEW r \in Replies, ReplyCommit(r) PROVE IndInv'
<1> USE RefreshAssumption DEF IndInv, ReplyCommit, runVars
<1>1. data + 1 \in 1..MaxVersion /\ data' = data + 1 /\ data \in Nat
  BY DEF TypeOK, RoomForVersion
<1>2. /\ enq[r] \in WorkIds /\ enq[r] \notin work /\ enq[r] # Nobody
      /\ work' = work \cup {enq[r]} /\ uidLock = r /\ r \in Txns
  BY DEF EnqueuedFresh, HoldLock, Txns
<1>3. TypeOK'
  BY <1>1, <1>2 DEF TypeOK, Txns, Rows
<1>4. RunnerHoldsItem' /\ OneRunner'
  BY <1>2 DEF RunnerHoldsItem, OneRunner
<1>5. HoldLock' /\ RoomForVersion'
  BY <1>2 DEF HoldLock, RoomForVersion, TypeOK
<1>6. EnqueuedFresh'
  BY <1>2 DEF EnqueuedFresh, TypeOK
<1>7. QueuedCovers'
  BY <1>2 DEF QueuedCovers, HoldLock, TypeOK
<1>8. NeedsKnown'
  BY <1>1 DEF NeedsKnown, TypeOK
<1>9. NoLostRefresh'
  <2> SUFFICES ASSUME NEW a \in Attendees, needs'[a] > seen[a]
               PROVE  a \in Pending(sra \cup repRows[r]) \/ missed[a] >= needs'[a]
    BY DEF NoLostRefresh
  <2>1. CASE a = repBy[r]
    <3>1. needs'[a] = needs[a]
      BY <2>1
    <3>2. a \in Pending(sra) \/ missed[a] >= needs[a]
      BY <3>1 DEF NoLostRefresh
    <3>3. QED
      BY <3>1, <3>2, PendingUnion
  <2>2. CASE a # repBy[r]
    BY <2>2 DEF QueuedCovers
  <2>3. QED
    BY <2>1, <2>2
<1>10. PendingHasWork'
  BY <1>2 DEF PendingHasWork
<1>11. LeavesNobody'
  <2> SUFFICES ASSUME NEW w \in Runners PROVE NobodyLeft(w)'
    BY DEF LeavesNobody
  <2>1. CASE run[w] = "idle"
    BY <2>1 DEF NobodyLeft
  <2>2. CASE run[w] # "idle"
    <3>1. item[w] \in work
      BY <2>2 DEF RunnerHoldsItem
    <3>2. Others(w)'
      BY <3>1, <1>2 DEF Others
    <3>3. run[w] \in {"batched", "locked"} => \A x \in delRows[w] : x[1] \in batch[w]
      BY DEF LeavesNobody, NobodyLeft
    <3>4. QED
      BY <3>2, <3>3 DEF NobodyLeft
  <2>3. QED
    BY <2>1, <2>2
<1>12. QED
  BY <1>3, <1>4, <1>5, <1>6, <1>7, <1>8, <1>9, <1>10, <1>11

\* A reply is rolled back.
LEMMA ReplyAbortInv ==
    ASSUME IndInv, NEW r \in Replies, ReplyAbort(r) PROVE IndInv'
<1> USE RefreshAssumption DEF IndInv, ReplyAbort, dbVars, runVars
<1>1. uidLock = r /\ r \in Txns
  BY DEF HoldLock, Txns
<1>2. TypeOK'
  BY DEF TypeOK, Txns
<1>3. RunnerHoldsItem' /\ OneRunner'
  BY DEF RunnerHoldsItem, OneRunner
<1>4. HoldLock' /\ RoomForVersion'
  BY <1>1 DEF HoldLock, RoomForVersion, TypeOK
<1>5. EnqueuedFresh'
  BY <1>1 DEF EnqueuedFresh, TypeOK
<1>6. QueuedCovers'
  BY <1>1 DEF QueuedCovers, HoldLock, TypeOK
<1>7. NeedsKnown' /\ LeavesNobody' /\ NoLostRefresh' /\ PendingHasWork'
  BY DEF NeedsKnown, LeavesNobody, NobodyLeft, Others, NoLostRefresh, PendingHasWork
<1>8. QED
  BY <1>2, <1>3, <1>4, <1>5, <1>6, <1>7

\* A runner locks the items of the event.
LEMMA RunlockInv ==
    ASSUME IndInv, NEW w \in Runners, NEW i \in WorkIds, runlock(w, i) PROVE IndInv'
<1> USE RefreshAssumption DEF IndInv, runlock, dbVars, repVars
<1>1. TypeOK'
  BY DEF TypeOK
<1>2. RunnerHoldsItem'
  BY DEF RunnerHoldsItem, TypeOK
<1>3. OneRunner'
  <2>1. \A v \in Runners \ {w} : run[v] = "idle"
    BY DEF RunnerHoldsItem
  <2>2. QED
    BY <2>1 DEF OneRunner, TypeOK
<1>4. HoldLock' /\ RoomForVersion'
  BY DEF HoldLock, RoomForVersion, TypeOK
<1>5. EnqueuedFresh' /\ QueuedCovers'
  BY DEF EnqueuedFresh, QueuedCovers
<1>6. NeedsKnown' /\ NoLostRefresh' /\ PendingHasWork'
  BY DEF NeedsKnown, NoLostRefresh, PendingHasWork
<1>7. LeavesNobody'
  <2> SUFFICES ASSUME NEW v \in Runners PROVE NobodyLeft(v)'
    BY DEF LeavesNobody
  <2>1. CASE v = w
    BY <2>1 DEF NobodyLeft, TypeOK
  <2>2. CASE v # w
    <3>1. run'[v] = run[v] /\ item'[v] = item[v]
      BY <2>2 DEF TypeOK
    <3>2. QED
      BY <3>1 DEF LeavesNobody, NobodyLeft, Others
  <2>3. QED
    BY <2>1, <2>2
<1>8. QED
  BY <1>1, <1>2, <1>3, <1>4, <1>5, <1>6, <1>7

\* What every step of a running item keeps: it changes no table and does not
\* end the run.
LEMMA GotoInv ==
    ASSUME IndInv, NEW w \in Runners, run[w] # "idle",
           NEW s \in {"alone", "found", "batched", "locked", "done"}, Goto(w, s)
    PROVE  /\ run' \in [Runners -> {"idle", "started", "alone", "found", "batched",
                                    "locked", "done"}]
           /\ run'[w] = s /\ \A v \in Runners \ {w} : run'[v] = run[v]
           /\ RunnerHoldsItem' /\ OneRunner' /\ RoomForVersion'
           /\ QueuedCovers' /\ NeedsKnown' /\ NoLostRefresh' /\ PendingHasWork'
<1> USE DEF IndInv, Goto, dbVars, repVars
<1>1. /\ run' \in [Runners -> {"idle", "started", "alone", "found", "batched",
                               "locked", "done"}]
      /\ run'[w] = s /\ \A v \in Runners \ {w} : run'[v] = run[v]
  BY DEF TypeOK
<1>2. RunnerHoldsItem' /\ OneRunner'
  BY <1>1 DEF RunnerHoldsItem, OneRunner
<1>3. RoomForVersion' /\ QueuedCovers'
  BY DEF RoomForVersion, QueuedCovers
<1>4. NeedsKnown' /\ NoLostRefresh' /\ PendingHasWork'
  BY DEF NeedsKnown, NoLostRefresh, PendingHasWork
<1>5. QED
  BY <1>1, <1>2, <1>3, <1>4

\* An item that is ignored, or alone, or finds who is pending.
LEMMA LookInv ==
    ASSUME IndInv, NEW w \in Runners,
           IgnoreItem(w) \/ NoOtherItem(w) \/ FoundPending(w)
    PROVE  IndInv'
<1>1. PICK s \in {"alone", "found", "done"} : Goto(w, s)
  BY Zenon DEF IgnoreItem, NoOtherItem, FoundPending
<1>2. run[w] # "idle" /\ UNCHANGED <<uidLock, batch, delRows, enq>>
  BY DEF IgnoreItem, NoOtherItem, FoundPending
<1>3. UNCHANGED <<data, seen, needs, missed, sra, work, rep, repBy, repRows, item, group, failures>>
  BY <1>1 DEF Goto, dbVars, repVars
<1>4. /\ run' \in [Runners -> {"idle", "started", "alone", "found", "batched",
                               "locked", "done"}]
      /\ run'[w] = s /\ \A v \in Runners \ {w} : run'[v] = run[v]
      /\ RunnerHoldsItem' /\ OneRunner' /\ RoomForVersion'
      /\ QueuedCovers' /\ NeedsKnown' /\ NoLostRefresh' /\ PendingHasWork'
  BY <1>1, <1>2, GotoInv
<1>5. pending' \in [Runners -> SUBSET Attendees]
  <2>1. Pending(sra) \subseteq Attendees
    BY PendingType DEF IndInv, TypeOK
  <2>2. pending' = pending \/ pending' = [pending EXCEPT ![w] = Pending(sra)]
    BY DEF IgnoreItem, NoOtherItem, FoundPending
  <2>3. QED
    BY <2>1, <2>2 DEF IndInv, TypeOK
<1>6. TypeOK'
  BY <1>2, <1>3, <1>4, <1>5 DEF IndInv, TypeOK
<1>7. HoldLock'
  BY <1>2, <1>3, <1>4 DEF IndInv, HoldLock
<1>8. EnqueuedFresh'
  BY <1>2, <1>3 DEF IndInv, EnqueuedFresh
<1>9. LeavesNobody'
  <2> SUFFICES ASSUME NEW v \in Runners PROVE NobodyLeft(v)'
    BY DEF LeavesNobody
  <2>1. CASE v # w
    <3>1. pending'[v] = pending[v] /\ run'[v] = run[v]
      BY <1>4, <2>1 DEF IgnoreItem, NoOtherItem, FoundPending, IndInv, TypeOK
    <3>2. QED
      BY <3>1, <1>2, <1>3 DEF IndInv, LeavesNobody, NobodyLeft, Others
  <2>2. CASE v = w
    <3>1. CASE IgnoreItem(w)
      <4>1. Others(w) /\ run'[w] = "done"
        BY <3>1 DEF IgnoreItem, Others, Goto, IndInv, TypeOK
      <4>2. QED
        BY <4>1, <2>2, <1>3 DEF NobodyLeft, Others
    <3>2. CASE NoOtherItem(w)
      <4>1. run'[w] = "alone"
        BY <3>2 DEF NoOtherItem, Goto, IndInv, TypeOK
      <4>2. QED
        BY <4>1, <2>2 DEF NobodyLeft
    <3>3. CASE FoundPending(w)
      <4>1. pending'[w] = Pending(sra)
        BY <3>3 DEF FoundPending, IndInv, TypeOK
      <4>2. run'[w] = IF Pending(sra) = {} THEN "done" ELSE "found"
        BY <3>3 DEF FoundPending, Goto, IndInv, TypeOK
      <4>3. QED
        BY <4>1, <4>2, <2>2, <1>3, PendingEmpty DEF NobodyLeft
    <3>4. QED
      BY <3>1, <3>2, <3>3
  <2>3. QED
    BY <2>1, <2>2
<1>10. QED
  BY <1>4, <1>6, <1>7, <1>8, <1>9 DEF IndInv

\* A batch is taken out of the table.
LEMMA DeleteBatchInv ==
    ASSUME IndInv, NEW w \in Runners, NEW B \in SUBSET Attendees,
           NEW i \in WorkIds \cup {Nobody}, DeleteBatch(w, B, i)
    PROVE  IndInv'
<1>1. /\ run[w] = "found" /\ Goto(w, "batched") /\ UNCHANGED <<uidLock, pending>>
      /\ batch' = [batch EXCEPT ![w] = B] /\ enq' = [enq EXCEPT ![w] = i]
      /\ delRows' = [delRows EXCEPT ![w] = {r \in sra : r[1] \in B}]
      /\ IsBatch(B, pending[w]) /\ Reschedule(w, i, B)
  BY DEF DeleteBatch
<1>2. UNCHANGED <<data, seen, needs, missed, sra, work, rep, repBy, repRows, item, group, failures>>
  BY <1>1 DEF Goto, dbVars, repVars
<1>3. /\ run' \in [Runners -> {"idle", "started", "alone", "found", "batched",
                               "locked", "done"}]
      /\ run'[w] = "batched" /\ \A v \in Runners \ {w} : run'[v] = run[v]
      /\ RunnerHoldsItem' /\ OneRunner' /\ RoomForVersion'
      /\ QueuedCovers' /\ NeedsKnown' /\ NoLostRefresh' /\ PendingHasWork'
  BY <1>1, GotoInv
<1>4. w \in Txns /\ TypeOK
  BY DEF Txns, IndInv
<1>5. /\ batch'[w] = B /\ enq'[w] = i /\ delRows'[w] = {r \in sra : r[1] \in B}
      /\ \A v \in Runners \ {w} : batch'[v] = batch[v] /\ delRows'[v] = delRows[v]
      /\ \A t \in Txns \ {w} : enq'[t] = enq[t]
  BY <1>1, <1>4 DEF TypeOK
<1>6. TypeOK'
  <2>1. Cardinality(B) <= AttendeeRefreshBatch
    BY <1>1, RefreshAssumption DEF IsBatch
  <2>2. \A v \in Runners : Cardinality(batch'[v]) <= AttendeeRefreshBatch
    BY <2>1, <1>5, <1>4 DEF TypeOK
  <2>3. batch' \in [Runners -> SUBSET Attendees] /\ enq' \in [Txns -> WorkIds \cup {Nobody}]
    BY <1>1, <1>4 DEF TypeOK
  <2>4. delRows' \in [Runners -> SUBSET Rows]
    BY <1>1, <1>4 DEF TypeOK
  <2>5. QED
    BY <2>2, <2>3, <2>4, <1>1, <1>2, <1>3, <1>4 DEF TypeOK
<1>7. HoldLock'
  BY <1>1, <1>2, <1>3 DEF IndInv, HoldLock
<1>8. EnqueuedFresh'
  <2>1. i # Nobody => i \in WorkIds /\ Free(i)
    BY <1>1 DEF Reschedule
  <2>2. \A r \in Replies : enq'[r] = enq[r]
    BY <1>5, RefreshAssumption DEF Txns
  <2>3. QED
    BY <2>1, <2>2, <1>2, <1>5 DEF IndInv, EnqueuedFresh, Free
<1>9. LeavesNobody'
  <2> SUFFICES ASSUME NEW v \in Runners PROVE NobodyLeft(v)'
    BY DEF LeavesNobody
  <2>1. CASE v # w
    BY <2>1, <1>1, <1>2, <1>3, <1>5 DEF IndInv, LeavesNobody, NobodyLeft, Others, Txns
  <2>2. CASE v = w
    <3>1. \A x \in delRows'[w] : x[1] \in batch'[w]
      BY <1>5
    <3>2. ASSUME i = Nobody PROVE sra \subseteq delRows'[w] \/ Others(w)
      <4>1. pending[w] = B
        BY <3>2, <1>1, RefreshAssumption DEF Reschedule
      <4>2. Pending(sra) \subseteq pending[w] \/ Others(w)
        BY <1>1 DEF IndInv, LeavesNobody, NobodyLeft
      <4>3. \A x \in sra : x[1] \in Pending(sra)
        BY DEF Pending
      <4>4. QED
        BY <4>1, <4>2, <4>3, <1>5
    <3>3. QED
      BY <2>2, <3>1, <3>2, <1>2, <1>3, <1>5 DEF NobodyLeft, Others
  <2>3. QED
    BY <2>1, <2>2
<1>10. QED
  BY <1>3, <1>6, <1>7, <1>8, <1>9 DEF IndInv

\* A runner takes the UID lock.
LEMMA RefreshLockInv ==
    ASSUME IndInv, NEW w \in Runners, RefreshLock(w) PROVE IndInv'
<1>1. /\ run[w] = "batched" /\ Goto(w, "locked") /\ uidLock = Nobody /\ uidLock' = w
      /\ UNCHANGED <<pending, batch, delRows, enq>>
  BY DEF RefreshLock
<1>2. UNCHANGED <<data, seen, needs, missed, sra, work, rep, repBy, repRows, item, group, failures>>
  BY <1>1 DEF Goto, dbVars, repVars
<1>3. /\ run' \in [Runners -> {"idle", "started", "alone", "found", "batched",
                               "locked", "done"}]
      /\ run'[w] = "locked" /\ \A v \in Runners \ {w} : run'[v] = run[v]
      /\ RunnerHoldsItem' /\ OneRunner' /\ RoomForVersion'
      /\ QueuedCovers' /\ NeedsKnown' /\ NoLostRefresh' /\ PendingHasWork'
  BY <1>1, GotoInv
<1>4. TypeOK'
  BY <1>1, <1>2, <1>3 DEF IndInv, TypeOK, Txns
<1>5. HoldLock'
  BY <1>1, <1>2, <1>3, RefreshAssumption DEF IndInv, HoldLock
<1>6. EnqueuedFresh'
  BY <1>1, <1>2 DEF IndInv, EnqueuedFresh
<1>7. LeavesNobody'
  <2> SUFFICES ASSUME NEW v \in Runners PROVE NobodyLeft(v)'
    BY DEF LeavesNobody
  <2>1. CASE v # w
    BY <2>1, <1>1, <1>2, <1>3 DEF IndInv, LeavesNobody, NobodyLeft, Others
  <2>2. CASE v = w
    BY <2>2, <1>1, <1>2, <1>3 DEF IndInv, LeavesNobody, NobodyLeft, Others
  <2>3. QED
    BY <2>1, <2>2
<1>8. QED
  BY <1>3, <1>4, <1>5, <1>6, <1>7 DEF IndInv

\* What the end of a run leaves behind: the runner is idle and holds nothing.
LEMMA EndRunInv ==
    ASSUME IndInv, NEW w \in Runners, EndRun(w)
    PROVE  /\ run'[w] = "idle" /\ enq'[w] = Nobody
           /\ \A v \in Runners \ {w} :
                /\ run'[v] = run[v] /\ item'[v] = item[v] /\ group'[v] = group[v]
                /\ pending'[v] = pending[v] /\ batch'[v] = batch[v]
                /\ delRows'[v] = delRows[v]
           /\ \A t \in Txns \ {w} : enq'[t] = enq[t]
           /\ \A r \in Replies : enq'[r] = enq[r]
           /\ run' \in [Runners -> {"idle", "started", "alone", "found", "batched",
                                    "locked", "done"}]
           /\ item' \in [Runners -> WorkIds \cup {Nobody}]
           /\ group' \in [Runners -> SUBSET WorkIds]
           /\ pending' \in [Runners -> SUBSET Attendees]
           /\ batch' \in [Runners -> SUBSET Attendees]
           /\ \A v \in Runners : Cardinality(batch'[v]) <= AttendeeRefreshBatch
           /\ delRows' \in [Runners -> SUBSET Rows]
           /\ enq' \in [Txns -> WorkIds \cup {Nobody}]
           /\ uidLock' \in Txns \cup {Nobody}
           /\ OneRunner'
<1> USE DEF EndRun
<1>1. TypeOK /\ w \in Txns
  BY DEF IndInv, Txns
<1>2. /\ run'[w] = "idle" /\ enq'[w] = Nobody
      /\ \A v \in Runners \ {w} :
           /\ run'[v] = run[v] /\ item'[v] = item[v] /\ group'[v] = group[v]
           /\ pending'[v] = pending[v] /\ batch'[v] = batch[v]
           /\ delRows'[v] = delRows[v]
      /\ \A t \in Txns \ {w} : enq'[t] = enq[t]
  BY <1>1 DEF TypeOK
<1>3. \A r \in Replies : enq'[r] = enq[r]
  BY <1>2, RefreshAssumption DEF Txns
<1>4. \A v \in Runners : Cardinality(batch'[v]) <= AttendeeRefreshBatch
  <2>1. Cardinality({}) = 0 /\ batch'[w] = {}
    BY <1>1, FS_EmptySet DEF TypeOK
  <2>2. QED
    BY <2>1, <1>1, <1>2, RefreshAssumption DEF TypeOK
<1>5. /\ run' \in [Runners -> {"idle", "started", "alone", "found", "batched",
                               "locked", "done"}]
      /\ item' \in [Runners -> WorkIds \cup {Nobody}]
      /\ group' \in [Runners -> SUBSET WorkIds]
      /\ pending' \in [Runners -> SUBSET Attendees]
      /\ batch' \in [Runners -> SUBSET Attendees]
      /\ delRows' \in [Runners -> SUBSET Rows]
      /\ enq' \in [Txns -> WorkIds \cup {Nobody}]
      /\ uidLock' \in Txns \cup {Nobody}
  BY <1>1 DEF TypeOK, Unlocked
<1>6. OneRunner'
  BY <1>2 DEF IndInv, OneRunner
<1>7. QED
  BY <1>2, <1>3, <1>4, <1>5, <1>6

\* While one runner is at work the others are idle, so that whatever they
\* left behind is as they left it.
LEMMA OthersIdle ==
    ASSUME IndInv, NEW w \in Runners, run[w] # "idle"
    PROVE  \A v \in Runners \ {w} : run[v] = "idle"
BY DEF IndInv, OneRunner

\* When a run ends, no runner is left to leave anybody behind.
LEMMA EndedLeavesNobody ==
    ASSUME IndInv, NEW w \in Runners, run[w] # "idle", EndRun(w)
    PROVE  /\ LeavesNobody' /\ RunnerHoldsItem'
           /\ \A v \in Runners : run'[v] = "idle"
<1>1. \A v \in Runners : run'[v] = "idle"
  BY EndRunInv, OthersIdle
<1>2. QED
  BY <1>1 DEF LeavesNobody, NobodyLeft, RunnerHoldsItem

\* The lock after a run has ended.
LEMMA EndedHoldLock ==
    ASSUME IndInv, NEW w \in Runners, run[w] # "idle", EndRun(w), UNCHANGED rep
    PROVE  HoldLock'
<1>1. uidLock' = IF uidLock = w THEN Nobody ELSE uidLock
  BY DEF EndRun, Unlocked
<1>2. \A r \in Replies : r # w
  BY RefreshAssumption
<1>3. QED
  BY <1>1, <1>2, EndedLeavesNobody DEF IndInv, HoldLock

\* An item ends without a refresh.
LEMMA CommitIdleInv ==
    ASSUME IndInv, NEW w \in Runners, CommitIdle(w) PROVE IndInv'
<1>1. /\ run[w] = "done" /\ EndRun(w) /\ work' = work \ {item[w]}
      /\ UNCHANGED <<data, seen, needs, missed, sra, rep, repBy, repRows, failures>>
  BY DEF CommitIdle, repVars
<1>2. TypeOK'
  BY <1>1, EndRunInv DEF IndInv, TypeOK
<1>3. RunnerHoldsItem' /\ OneRunner' /\ LeavesNobody' /\ HoldLock'
  BY <1>1, EndRunInv, EndedLeavesNobody, EndedHoldLock
<1>4. EnqueuedFresh'
  BY <1>1, EndRunInv DEF IndInv, EnqueuedFresh
<1>5. QueuedCovers' /\ RoomForVersion' /\ NeedsKnown' /\ NoLostRefresh'
  BY <1>1 DEF IndInv, QueuedCovers, RoomForVersion, NeedsKnown, NoLostRefresh
<1>6. PendingHasWork'
  BY <1>1 DEF IndInv, PendingHasWork, LeavesNobody, NobodyLeft, Others
<1>7. QED
  BY <1>2, <1>3, <1>4, <1>5, <1>6 DEF IndInv

\* A batch is refreshed.
LEMMA CommitRefreshInv ==
    ASSUME IndInv, NEW w \in Runners, NEW D \in SUBSET batch[w], CommitRefresh(w, D)
    PROVE  IndInv'
<1>1. /\ run[w] = "locked" /\ EndRun(w)
      /\ seen' = [a \in Attendees |-> IF a \in D THEN data ELSE seen[a]]
      /\ missed' = [a \in Attendees |-> IF a \in batch[w] \ D THEN data ELSE missed[a]]
      /\ sra' = sra \ delRows[w]
      /\ work' = (work \ {item[w]}) \cup ({enq[w]} \ {Nobody})
      /\ UNCHANGED <<data, needs, rep, repBy, repRows, failures>>
  BY DEF CommitRefresh, processSend, repVars
<1>2. /\ \A x \in delRows[w] : x[1] \in batch[w]
      /\ enq[w] = Nobody => sra \subseteq delRows[w] \/ Others(w)
  BY <1>1 DEF IndInv, LeavesNobody, NobodyLeft
<1>3. w \in Txns /\ TypeOK /\ uidLock = w
  BY <1>1 DEF Txns, IndInv, HoldLock
<1>4. TypeOK'
  <2>1. /\ seen' \in [Attendees -> 0..MaxVersion] /\ missed' \in [Attendees -> 0..MaxVersion]
        /\ work' \subseteq WorkIds /\ sra' \subseteq Rows
    BY <1>1, <1>3 DEF TypeOK
  <2>2. QED
    BY <2>1, <1>1, EndRunInv DEF IndInv, TypeOK
<1>5. RunnerHoldsItem' /\ OneRunner' /\ LeavesNobody' /\ HoldLock'
  BY <1>1, EndRunInv, EndedLeavesNobody, EndedHoldLock
<1>6. EnqueuedFresh'
  BY <1>1, <1>3, EndRunInv DEF IndInv, EnqueuedFresh
<1>7. QueuedCovers' /\ RoomForVersion'
  <2>1. \A r \in Replies : rep[r] = "idle"
    BY <1>3, RefreshAssumption DEF IndInv, HoldLock
  <2>2. QED
    BY <2>1, <1>1 DEF QueuedCovers, RoomForVersion
<1>8. NeedsKnown'
  BY <1>1 DEF IndInv, NeedsKnown
<1>9. NoLostRefresh'
  <2> SUFFICES ASSUME NEW a \in Attendees, needs[a] > seen'[a]
               PROVE  a \in Pending(sra') \/ missed'[a] >= needs[a]
    BY <1>1 DEF NoLostRefresh
  <2>1. a \notin D
    BY <1>1, <1>3 DEF IndInv, NeedsKnown, TypeOK
  <2>2. CASE a \in batch[w]
    BY <2>1, <2>2, <1>1, <1>3 DEF IndInv, NeedsKnown, TypeOK
  <2>3. CASE a \notin batch[w]
    <3>1. missed'[a] = missed[a] /\ seen'[a] = seen[a]
      BY <2>1, <2>3, <1>1
    <3>2. a \in Pending(sra) \/ missed[a] >= needs[a]
      BY <3>1 DEF IndInv, NoLostRefresh
    <3>3. QED
      BY <2>3, <3>1, <3>2, <1>1, <1>2, PendingMinus
  <2>4. QED
    BY <2>2, <2>3
<1>10. PendingHasWork'
  BY <1>1, <1>2 DEF PendingHasWork, Others
<1>11. QED
  BY <1>4, <1>5, <1>6, <1>7, <1>8, <1>9, <1>10 DEF IndInv

\* An item fails and is rolled back.
LEMMA FailRunInv ==
    ASSUME IndInv, NEW w \in Runners, FailRun(w) PROVE IndInv'
<1>1. /\ run[w] # "idle" /\ EndRun(w)
      /\ failures < MaxFailures /\ failures' = failures + 1
      /\ UNCHANGED <<data, seen, needs, missed, sra, work, rep, repBy, repRows>>
  BY DEF FailRun, dbVars, repVars
<1>2. TypeOK'
  <2>1. failures' \in 0..MaxFailures
    BY <1>1, RefreshAssumption DEF IndInv, TypeOK
  <2>2. QED
    BY <2>1, <1>1, EndRunInv DEF IndInv, TypeOK
<1>3. RunnerHoldsItem' /\ OneRunner' /\ LeavesNobody' /\ HoldLock'
  BY <1>1, EndRunInv, EndedLeavesNobody, EndedHoldLock
<1>4. EnqueuedFresh'
  BY <1>1, EndRunInv DEF IndInv, EnqueuedFresh
<1>5. QueuedCovers' /\ RoomForVersion' /\ NeedsKnown' /\ NoLostRefresh' /\ PendingHasWork'
  BY <1>1 DEF IndInv, QueuedCovers, RoomForVersion, NeedsKnown, NoLostRefresh,
              PendingHasWork
<1>6. QED
  BY <1>2, <1>3, <1>4, <1>5 DEF IndInv

-----------------------------------------------------------------------------
\* Every state that replies and work items can reach satisfies the inductive
\* invariant.
THEOREM InductiveInvariant == Spec => []IndInv
<1>1. IndInv /\ [Next]_vars => IndInv'
  <2> SUFFICES ASSUME IndInv, [Next]_vars PROVE IndInv'
    OBVIOUS
  <2>1. ASSUME NEW r \in Replies, ReplyStep(r) PROVE IndInv'
    BY <2>1, ReplyLockInv, RefreshAttendeesInv, ReplyCommitInv, ReplyAbortInv DEF ReplyStep
  <2>2. ASSUME NEW w \in Runners, Run(w) PROVE IndInv'
    BY <2>2, RunlockInv DEF Run
  <2>3. ASSUME NEW w \in Runners, DoWork(w) PROVE IndInv'
    BY <2>3, LookInv, DeleteBatchInv, RefreshLockInv, CommitIdleInv, CommitRefreshInv
    DEF DoWork
  <2>4. ASSUME NEW w \in Runners, FailRun(w) PROVE IndInv'
    BY <2>4, FailRunInv
  <2>5. CASE UNCHANGED vars
    BY <2>5
    DEF vars, dbVars, repVars, runVars, IndInv, TypeOK, RunnerHoldsItem, OneRunner,
        HoldLock, EnqueuedFresh, QueuedCovers, RoomForVersion, NeedsKnown,
        LeavesNobody, NobodyLeft, Others, NoLostRefresh, PendingHasWork
  <2>6. QED
    BY <2>1, <2>2, <2>3, <2>4, <2>5 DEF Next
<1>2. QED
  BY <1>1, InitInv, PTL DEF Spec

\* Type correctness, with the bound on the size of a batch.
THEOREM TypeCorrect == Spec => []TypeOK
<1>1. IndInv => TypeOK
  BY DEF IndInv
<1>2. QED
  BY <1>1, InductiveInvariant, PTL

\* No interleaving of replies, batches, retries and failures drops an attendee
\* from SCHEDULE_REFRESH_ATTENDEES before he is sent what was made for him; he
\* lacks it afterwards only if the delivery of that message failed.
THEOREM NoRefreshLost == Spec => []NoLostRefresh
<1>1. IndInv => NoLostRefresh
  BY DEF IndInv
<1>2. QED
  BY <1>1, InductiveInvariant, PTL

\* Pending attendees always have a work item.
THEOREM WorkForPending == Spec => []PendingHasWork
<1>1. IndInv => PendingHasWork
  BY DEF IndInv
<1>2. QED
  BY <1>1, InductiveInvariant, PTL

=============================================================================
