--------------------------- MODULE AttendeeRefresh ---------------------------
(***************************************************************************)
(* Batched refresh of attendees after a reply, for one event:              *)
(* ScheduleRefreshWork and the group lock of ScheduleWorkMixin in          *)
(* txdav/caldav/datastore/scheduling/work.py, and the processing of a      *)
(* REPLY that queues it (scheduling/processing.py).                        *)
(*                                                                         *)
(* The organizer's copy of the event is a version number.  A reply changes *)
(* it and has every other attendee refreshed: it adds the attendees that   *)
(* are not pending yet to SCHEDULE_REFRESH_ATTENDEES and enqueues a work   *)
(* item.  Job runners (in any worker process) execute the items: the last  *)
(* item takes a batch of attendees out of the table, enqueues another item *)
(* if some remain, and sends the batch the event.  A message of a refresh  *)
(* that cannot be delivered is not sent again: its response only sets the  *)
(* SCHEDULE-STATUS of a calendar that is not saved, and the row is gone.   *)
(*                                                                         *)
(* Replies and work items are database transactions at READ COMMITTED: a   *)
(* statement sees what was committed before it, and what a transaction     *)
(* writes appears with its commit or never.  Both take the NamedLock       *)
(* ImplicitUIDLock, which is held until the transaction ends.              *)
(*                                                                         *)
(* The replies modelled are those processed in a request of their own      *)
(* (POST: iSchedule, iMIP) or with the work queue switched off; one that   *)
(* is itself a work item of the event is kept apart from refreshes by the  *)
(* group lock.  Batching is on (AttendeeRefreshBatch > 0), the reply       *)
(* changes the event, and there is somebody else to refresh.               *)
(***************************************************************************)
EXTENDS Integers, FiniteSets

CONSTANTS Attendees,            \* the attendees of the event
          Replies,              \* reply transactions that can be open together
          Runners,              \* job runners
          WorkIds,              \* WORK_ID of refresh work items
          Nobody,               \* no holder of the lock, no work item
          AttendeeRefreshBatch, \* attendees refreshed by one item
          MaxVersion,           \* bound: replies that commit
          MaxFailures           \* bound: transactions that abort

ASSUME RefreshAssumption ==
    /\ AttendeeRefreshBatch \in Nat \ {0}
    /\ MaxVersion \in Nat /\ MaxFailures \in Nat
    /\ Nobody \notin Replies \cup Runners \cup WorkIds
    /\ Replies \cap Runners = {}
    /\ \A a \in Attendees : Attendees \ {a} # {}

VARIABLES
    data,      \* committed version of the organizer's event
    seen,      \* committed version each attendee has
    needs,     \* (history) version each attendee is to be refreshed to
    missed,    \* (history) version last sent to him that could not be delivered
    sra,       \* SCHEDULE_REFRESH_ATTENDEES: rows <<attendee, version>>
    work,      \* committed refresh work items
    uidLock,   \* holder of ImplicitUIDLock
    rep,       \* the state of each reply transaction
    repBy,     \* who replies
    repRows,   \* rows a reply has inserted
    run,       \* the state of each runner
    item,      \* the work item it executes
    group,     \* the SCHEDULE_WORK rows it has locked
    pending,   \* the attendees it has found pending
    batch,     \* the attendees it refreshes
    delRows,   \* the rows it has deleted
    enq,       \* the work item a reply or a runner has enqueued
    failures   \* (bound) transactions that were aborted

dbVars == <<data, seen, needs, missed, sra, work>>
repVars == <<rep, repBy, repRows>>
runVars == <<run, item, group, pending, batch, delRows>>
vars == <<dbVars, uidLock, repVars, runVars, enq, failures>>

Txns == Replies \cup Runners
Rows == Attendees \X (1..MaxVersion)
Pending(rows) == {r[1] : r \in rows}
Free(i) == i \notin work /\ \A t \in Txns : enq[t] # i

-----------------------------------------------------------------------------
Init ==
    /\ data = 0
    /\ seen = [a \in Attendees |-> 0]
    /\ needs = [a \in Attendees |-> 0]
    /\ missed = [a \in Attendees |-> 0]
    /\ sra = {}
    /\ work = {}
    /\ uidLock = Nobody
    /\ rep = [r \in Replies |-> "idle"]
    /\ repBy \in [Replies -> Attendees]
    /\ repRows = [r \in Replies |-> {}]
    /\ run = [w \in Runners |-> "idle"]
    /\ item = [w \in Runners |-> Nobody]
    /\ group = [w \in Runners |-> {}]
    /\ pending = [w \in Runners |-> {}]
    /\ batch = [w \in Runners |-> {}]
    /\ delRows = [w \in Runners |-> {}]
    /\ enq = [t \in Txns |-> Nobody]
    /\ failures = 0

Unlocked(t) == IF uidLock = t THEN Nobody ELSE uidLock

-----------------------------------------------------------------------------
\* A reply

\* The transaction of the reply takes the lock before it reads the event.
ReplyLock(r, a) ==
    /\ rep[r] = "idle" /\ uidLock = Nobody
    /\ data < MaxVersion
    /\ rep' = [rep EXCEPT ![r] = "locked"]
    /\ repBy' = [repBy EXCEPT ![r] = a]
    /\ uidLock' = r
    /\ UNCHANGED <<dbVars, repRows, runVars, enq, failures>>

\* The event is written, and the refresh of the other attendees queued.
refreshAttendees(r, i) ==
    /\ rep[r] = "locked"
    /\ Free(i)
    /\ repRows' = [repRows EXCEPT ![r] =
          {<<a, data + 1>> : a \in (Attendees \ {repBy[r]}) \ Pending(sra)}]
    /\ enq' = [enq EXCEPT ![r] = i]
    /\ rep' = [rep EXCEPT ![r] = "queued"]
    /\ UNCHANGED <<dbVars, uidLock, repBy, runVars, failures>>

ReplyCommit(r) ==
    /\ rep[r] = "queued"
    /\ data' = data + 1
    /\ needs' = [a \in Attendees |-> IF a = repBy[r] THEN needs[a] ELSE data + 1]
    /\ sra' = sra \cup repRows[r]
    /\ work' = work \cup {enq[r]}
    /\ rep' = [rep EXCEPT ![r] = "idle"]
    /\ repRows' = [repRows EXCEPT ![r] = {}]
    /\ enq' = [enq EXCEPT ![r] = Nobody]
    /\ uidLock' = Nobody
    /\ UNCHANGED <<seen, missed, repBy, runVars, failures>>

ReplyAbort(r) ==
    /\ rep[r] # "idle" /\ failures < MaxFailures
    /\ failures' = failures + 1
    /\ rep' = [rep EXCEPT ![r] = "idle"]
    /\ repRows' = [repRows EXCEPT ![r] = {}]
    /\ enq' = [enq EXCEPT ![r] = Nobody]
    /\ uidLock' = Nobody
    /\ UNCHANGED <<dbVars, repBy, runVars>>

-----------------------------------------------------------------------------
\* A work item.  What a runner writes is kept in delRows, enq and batch, and
\* the deletion of its own item (beforeWork) in item.

\* Mutant: only the item itself is locked.
runlock_own(w, i) ==
    /\ run[w] = "idle" /\ i \in work
    /\ \A v \in Runners \ {w} : i \notin group[v]
    /\ group' = [group EXCEPT ![w] = {i}]
    /\ item' = [item EXCEPT ![w] = i]
    /\ run' = [run EXCEPT ![w] = "started"]
    /\ UNCHANGED <<dbVars, uidLock, repVars, pending, batch, delRows, enq, failures>>

\* All items of the event are locked, without waiting: if one is locked by
\* another runner this one gives up, and comes back later.
runlock(w, i) ==
    /\ run[w] = "idle" /\ i \in work
    /\ \A v \in Runners \ {w} : group[v] \cap work = {}
    /\ group' = [group EXCEPT ![w] = work]
    /\ item' = [item EXCEPT ![w] = i]
    /\ run' = [run EXCEPT ![w] = "started"]
    /\ UNCHANGED <<dbVars, uidLock, repVars, pending, batch, delRows, enq, failures>>

Goto(w, s) ==
    /\ run' = [run EXCEPT ![w] = s]
    /\ UNCHANGED <<dbVars, repVars, item, group, failures>>

\* Other items for the event will do the work: this one is done.
IgnoreItem(w) ==
    /\ run[w] = "started" /\ work \ {item[w]} # {}
    /\ Goto(w, "done")
    /\ UNCHANGED <<uidLock, pending, batch, delRows, enq>>

NoOtherItem(w) ==
    /\ run[w] = "started" /\ work \ {item[w]} = {}
    /\ Goto(w, "alone")
    /\ UNCHANGED <<uidLock, pending, batch, delRows, enq>>

FoundPending(w) ==
    /\ run[w] = "alone"
    /\ pending' = [pending EXCEPT ![w] = Pending(sra)]
    /\ Goto(w, IF Pending(sra) = {} THEN "done" ELSE "found")
    /\ UNCHANGED <<uidLock, batch, delRows, enq>>

\* Any order of the attendees is possible: the batch is any subset of its size.
IsBatch(B, S) ==
    /\ B \subseteq S
    /\ \/ Cardinality(B) = AttendeeRefreshBatch
       \/ B = S /\ Cardinality(S) <= AttendeeRefreshBatch

\* Mutant: no item is enqueued for those who remain.
Reschedule_never(w, i, B) == i = Nobody

\* An item is enqueued for those who remain, if any.
Reschedule(w, i, B) == IF pending[w] = B THEN i = Nobody ELSE i \in WorkIds /\ Free(i)

DeleteBatch(w, B, i) ==
    /\ run[w] = "found"
    /\ IsBatch(B, pending[w])
    /\ Reschedule(w, i, B)
    /\ batch' = [batch EXCEPT ![w] = B]
    /\ delRows' = [delRows EXCEPT ![w] = {r \in sra : r[1] \in B}]
    /\ enq' = [enq EXCEPT ![w] = i]
    /\ Goto(w, "batched")
    /\ UNCHANGED <<uidLock, pending>>

\* Mutant: the refresh does not wait for the lock.
RefreshLock_none(w) ==
    /\ run[w] = "batched"
    /\ Goto(w, "locked")
    /\ UNCHANGED <<uidLock, pending, batch, delRows, enq>>

RefreshLock(w) ==
    /\ run[w] = "batched" /\ uidLock = Nobody
    /\ uidLock' = w
    /\ Goto(w, "locked")
    /\ UNCHANGED <<pending, batch, delRows, enq>>

EndRun(w) ==
    /\ run' = [run EXCEPT ![w] = "idle"]
    /\ item' = [item EXCEPT ![w] = Nobody]
    /\ group' = [group EXCEPT ![w] = {}]
    /\ pending' = [pending EXCEPT ![w] = {}]
    /\ batch' = [batch EXCEPT ![w] = {}]
    /\ delRows' = [delRows EXCEPT ![w] = {}]
    /\ enq' = [enq EXCEPT ![w] = Nobody]
    /\ uidLock' = Unlocked(w)

\* The transaction commits without a refresh.
CommitIdle(w) ==
    /\ run[w] = "done"
    /\ work' = work \ {item[w]}
    /\ EndRun(w)
    /\ UNCHANGED <<data, seen, needs, missed, sra, repVars, failures>>

\* The event is sent at once to every attendee of the batch, each delivery for
\* itself: those in D get it, the others are given up.
processSend(w, D) ==
    /\ seen' = [a \in Attendees |-> IF a \in D THEN data ELSE seen[a]]
    /\ missed' = [a \in Attendees |-> IF a \in batch[w] \ D THEN data ELSE missed[a]]

\* The event is read, under the lock, and sent to the attendees of the batch;
\* the transaction commits, whatever became of the messages.
CommitRefresh(w, D) ==
    /\ run[w] = "locked"
    /\ processSend(w, D)
    /\ sra' = sra \ delRows[w]
    /\ work' = (work \ {item[w]}) \cup ({enq[w]} \ {Nobody})
    /\ EndRun(w)
    /\ UNCHANGED <<data, needs, repVars, failures>>

\* The item fails, or its process dies: the job is run again later.
FailRun(w) ==
    /\ run[w] # "idle" /\ failures < MaxFailures
    /\ failures' = failures + 1
    /\ EndRun(w)
    /\ UNCHANGED <<dbVars, repVars>>

-----------------------------------------------------------------------------
ReplyStep(r) ==
    \/ \E a \in Attendees : ReplyLock(r, a)
    \/ \E i \in WorkIds : refreshAttendees(r, i)
    \/ ReplyCommit(r) \/ ReplyAbort(r)

Run(w) == \E i \in WorkIds : runlock(w, i)

DoWork(w) ==
    \/ IgnoreItem(w) \/ NoOtherItem(w) \/ FoundPending(w)
    \/ \E B \in SUBSET Attendees, i \in WorkIds \cup {Nobody} : DeleteBatch(w, B, i)
    \/ RefreshLock(w) \/ CommitIdle(w)
    \/ \E D \in SUBSET batch[w] : CommitRefresh(w, D)

Next ==
    \/ \E r \in Replies : ReplyStep(r)
    \/ \E w \in Runners : Run(w) \/ DoWork(w) \/ FailRun(w)

\* A transaction that was begun ends, and the job queue keeps running items
\* and retries the ones that fail.  Nobody has to reply.
Fairness ==
    /\ \A r \in Replies :
          WF_vars((\E i \in WorkIds : refreshAttendees(r, i)) \/ ReplyCommit(r))
    /\ WF_vars(\E w \in Runners : Run(w))
    /\ \A w \in Runners : WF_vars(DoWork(w))

Spec == Init /\ [][Next]_vars /\ Fairness

-----------------------------------------------------------------------------
\* Properties

\* Types; a batch has at most AttendeeRefreshBatch attendees.
TypeOK ==
    /\ data \in 0..MaxVersion
    /\ seen \in [Attendees -> 0..MaxVersion] /\ needs \in [Attendees -> 0..MaxVersion]
    /\ missed \in [Attendees -> 0..MaxVersion]
    /\ sra \subseteq Rows /\ work \subseteq WorkIds
    /\ uidLock \in Txns \cup {Nobody}
    /\ rep \in [Replies -> {"idle", "locked", "queued"}]
    /\ repBy \in [Replies -> Attendees] /\ repRows \in [Replies -> SUBSET Rows]
    /\ run \in [Runners -> {"idle", "started", "alone", "found", "batched",
                            "locked", "done"}]
    /\ item \in [Runners -> WorkIds \cup {Nobody}]
    /\ group \in [Runners -> SUBSET WorkIds]
    /\ pending \in [Runners -> SUBSET Attendees]
    /\ batch \in [Runners -> SUBSET Attendees]
    /\ \A w \in Runners : Cardinality(batch[w]) <= AttendeeRefreshBatch
    /\ delRows \in [Runners -> SUBSET Rows]
    /\ enq \in [Txns -> WorkIds \cup {Nobody}]
    /\ failures \in 0..MaxFailures

\* An attendee who has not got a version that a reply made for him is pending,
\* unless that version or a later one was sent to him and could not be
\* delivered: no interleaving of replies, batches and failed items drops him
\* from the table before a message is sent.
NoLostRefresh ==
    \A a \in Attendees :
       needs[a] > seen[a] => a \in Pending(sra) \/ missed[a] >= needs[a]

\* As long as attendees are pending there is a work item to refresh them: two
\* items never leave the work to each other, and the last one does not stop
\* with attendees left.
PendingHasWork == sra # {} => work # {}

\* Every attendee is sent the changes that were made for him, and has them
\* unless the delivery of that message failed.
RefreshArrives ==
    \A a \in Attendees :
       needs[a] > seen[a] ~> seen[a] >= needs[a] \/ missed[a] >= needs[a]

=============================================================================
