# Verification of the Calendar and Contacts Server

TLA+ models of the parts of the server in which steps of several actors meet, the TLC
runs that check them on small instances, and TLAPS proofs for every instance. Paths
below are relative to the root of the repository (`src/` in `PROJECT.json`).

## 1. The system

A master process accepts connections and hands the sockets to worker processes over one
UNIX "meta socket" per worker. Workers are single-threaded Twisted reactors: everything
inside one worker interleaves only at `yield`s and callbacks. All durable state is in
PostgreSQL, reached through transactions at READ COMMITTED; workers (and hosts) interact
through rows, row locks, `NamedLock`s and a job queue kept in tables. memcached holds
caches and locks. `twext` (job queue, database pool, socket dispatcher, `NamedLock`) and
Twisted are libraries outside of the repository and modelled from their use.

### Inventory

| Component | State | Operations | Interacts through | What is hard | What makes it correct |
|---|---|---|---|---|---|
| Sync tokens, revision rows (`txdav/common/datastore/sql_util.py`, `sql.py`, `work/revision_cleanup.py`, `twistedcaldav/resource.py`) | `*_OBJECT_REVISIONS`, `REVISION_SEQ`, `MIN-VALID-REVISION` | insert/update/delete of a name, property bump, rename, clean-up, report | rows, sequence, work items | revisions are taken before the commit; clean-up removes rows others rely on | a client with a valid token misses nothing; tokens never go back |
| Attendee refresh (`scheduling/work.py`, `processing.py`) | `SCHEDULE_REFRESH_ATTENDEES`, work items, `ImplicitUIDLock` | reply, batch, reschedule, retry | rows, job queue, locks | coalescing of items, batches against new replies, failures | nobody is dropped, pending attendees have work, everyone is refreshed |
| Implicit scheduling (`scheduling/work.py`, `implicit.py`, `processing.py`, `itip.py`, `icaldiff.py`) | copies of an event, `SCHEDULE_WORK` and per-type tables | PUT and DELETE of organizer and attendees, organizer, send, reply and auto-reply items, promotion of the next item | job queue, UID lock, other servers | items overtake each other, temporary failures, repeated messages | everyone ends with the present version, answers agree, failures show |
| Connection dispatch (`txweb2/metafd.py`, `txweb2/channel/http.py`, `calendarserver/tap/caldav.py`) | `WorkerStatus` per slot, sockets held, paused port | accept, status messages, process start/stop | meta socket, process events | reports of dead processes, sockets that outlive a process | counters match the work, the port resumes, the limit holds |
| Process monitor (`calendarserver/tap/caldav.py`, `tap/util.py`) | protocols, timers, deferreds of the stop | add, start, stop, end, kill, memory limit | timers, SIGCHLD | timers that race with exits and with the stop | one process per name, restarts, a stop that ends |
| Memcache pool (`twistedcaldav/memcachepool.py`) | busy/free clients, queue, pending connects, shutdown deferred | request, reply, connect, lose, reconnect, time-out, shutdown | callbacks of Twisted | callbacks that re-enter the pool, reconnection | requests answered, no client shared, limit kept |
| Response cache (`twistedcaldav/cache.py`) | entries, and tokens of URIs, in memcached | look up, compare, store, replace a token, expire | memcached, post-commit hooks | tokens read after the response was made; notifications late or lost | staleness only by overlap, and for a time |
| Memcache locks, properties (`memcachelock.py`, `memcacher.py`, `memcacheprops.py`) | keys with an expiry | acquire, release | memcached | expiry while held | mutual exclusion |
| Transactions (`sql.py`: `CommonStoreTransaction`, monitor, `subtransaction`) | statement blocks, savepoints, timers, hooks | execute, savepoint retry, commit, abort, time-out | database pool | time-out against commit, retries | all or nothing, hooks once |
| Query cache (`txdav/base/datastore/util.py`) | memcached entries per home | set after commit, invalidate | memcached, hooks | other worker between read and set | no stale entry |
| Push (`calendarserver/push`, `sql_apn.py`) | `PUSH_NOTIFICATION_WORK`, `APN_SUBSCRIPTIONS`, queues, connections and token histories of the workers | enqueue, coalesce, send, stagger, reconnect, feedback, purge | job queue, AMP, Apple's services | items that delete each other, pushes in memory, errors for earlier pushes | a push after the last change, the right subscriptions removed |
| Sharing, external homes (`sql_sharing.py`, `caldav/datastore/sql.py`, `twistedcaldav/sharing.py`, `sql_external.py`) | bind rows, `GROUP_SHAREE`, notifications | invite and remove users and groups, accept, decline, trash, reconcile | rows of two homes, groups, other pods | one row for several reasons, reconciliation later than the change | the row tells the reasons, the access is the highest granted |
| Pods, home migration (`podding/`) | remote ids, sync states, `MIGRATING` status | incremental sync, disable, final sync, switch | HTTP conduit | failure in any step | nothing lost at the switch |
| Groups, delegates (`txdav/who/groups.py`, `delegates.py`, `sql_directory.py`) | `GROUPS`, membership, work items | poll, refresh, reconcile | job queue, directory | items that replace each other, polls that delete what came into use | sharees follow the directory |
| Directory cache and proxy (`txdav/who/cache.py`, `txdav/dps`) | look-up tables with expiry | look up, expire | AMP | stale entries | bounded staleness |
| iMIP, iSchedule (`scheduling/imip`, `scheduling/ischedule`) | tokens, polling work | send, poll, inject | mail, HTTP | repeated delivery | a reply is applied once |
| Attachments, quota (`txdav/caldav/datastore/sql_attachment.py`, `sql.py`) | attachment rows and links, used bytes | add, update, remove, copy | rows, files | commit against file system | no orphan, exact quota |
| Trash (`sql.py`) | trash collection, flags | move to trash, recover, empty | rows | two change logs | nothing lost |
| PostgreSQL child service (`txdav/base/datastore/subpostgres.py`) | process, readiness retries | start, wait, stop | process events | stop while starting | no orphan server |
| HTTP channel (`txweb2/channel/http.py`) | requests of a connection, timers | read, pipeline, lose | reactor | time-outs | every request finished once |
| iCalendar/vCard/XML/query data, WebDAV resources, file store, upgrades, tools, configuration, authentication | none, or start-up only | | | | |

`PROJECT.json` lists the same components with their sources and the reason for each that
is not modelled, and the hazards at their lines.

## 2. Plan

Done, in this order: `SyncTokens`, `ConnectionLimiter`, `ProcessMonitor`,
`AttendeeRefresh`, `MemCachePool`, `ImplicitScheduling`, `PushNotifications` with the
abstract specification `PushPromise`, `ResponseCache`, `GroupSharing`. Each has an MC
module, and the properties of each that are not liveness are proved; `Master_proofs` holds
the proofs about the two modules of the master, `ConnectionLimiter` and `ProcessMonitor`.

To do, most important first:

1. Extensions of `SyncTokens`: removal and trash of a collection, the home-level report
   (`sql.py` 2345-2508), shared collections (4006-4078).
2. Extensions of `GroupSharing`: direct shares, sharees on another pod, group attendees.
3. `HomeMigration`, `Attachments`, `PostgresService`.
4. Composition `MasterWorker`: the process events of `ConnectionLimiter` driven by
   `ProcessMonitor`; abstract specification: a bounded buffer of connections.

A model instance has two or three of each actor, one object (event, collection, pool)
and bounded counters. There is one passing run per module, and a counterexample run where
the code disagrees with what it says about itself.

## 3. The modules

Every bound is a CONSTANT named `Max...`; variables marked *(history)* and *(bound)* are
not in the code. Operators whose comment begins with "Mutant" are variants of the next
definition with a plausible bug, used to see that the properties notice it; no
specification uses them.

**`SyncTokens`** - one collection. `rows` is the revision table (slot `Coll` is the row
without RESOURCE_NAME), `seq` the sequence, `newRows`/`newObjs` what each open transaction
has written. A statement waits for rows (`Locked`) that other transactions have written.
`InsertFind` and `InsertRevision` are the SELECT and the UPDATE/INSERT of one insert, with
others in between. `FindMinValidRevision(cut)` and `RevisionCleanup` are the two work
items; the cut-off date is any time not after the oldest open transaction. A report is
two steps: `ReadToken`, then the list. `late` notes which revisions were out and not
committed when a token was read.

**`AttendeeRefresh`** - one event, whose data is a version number. A reply locks, queues
(`refreshAttendees`) and commits; a work item is locked with its group (`runlock`) and
goes through `doWork` statement by statement. What a transaction writes is held in
`repRows`, `delRows`, `enq` and applied by its commit. An item that raises is rolled back
and run again. A single message of a refresh that cannot be delivered raises nothing: its
response is put on a calendar that is not saved (`implicit.py` 1389-1411), the row is gone
and nothing sends it again, so `processSend` lets any part of the batch fail and `missed`
(history) notes for whom. `NoLostRefresh` and `RefreshArrives` say that everyone is *sent*
what was made for him, and lacks it only if that very delivery failed.

**`ConnectionLimiter`** - `status` is `WorkerStatus`, `pipe` and `msgs` the two directions
of a meta socket, which survive the process in the slot. The master may be told of a death
before or after it has read what the process reported; `lateAcks` and `lateReady` note
which reports of a dead process were counted for its successor.

**`ProcessMonitor`** - `protocols`, `starts`, `restart`, `murder` are the protocol, the
scheduled `delayedStart`, `startProcess` and `_forceStopProcess` of each name; delays have
no length, a timer fires at any time. Its specification is `MonitorSpec`, so that
`Master_proofs` can extend this module and `ConnectionLimiter`.

**`MemCachePool`** - a client is a factory with its current protocol instance; `cur` is the
request it executes. One reactor event is one step, including what it re-enters:
`clientFree` performs the next queued request, and `FailAll` is the whole chain in which a
failed client is freed, takes the next queued request and fails that too.

**`ImplicitScheduling`** - one event that does not recur. `org` and `copy` are the
organizer's and the attendees' copies, whose SEQUENCE stands for their content; `items` are
organizer, send and reply work items, `autoReply` and `refresh` the other two kinds. A PUT,
a DELETE or an item is one step, because each holds `ImplicitUIDLock` until it commits;
the items run in any order, since the queue promises none. Which attendees' servers never
answer (`down`) is chosen in `Init`. `Remote` attendees are on another server, and for
`Automatic` ones the server answers, or leaves the event to be answered by hand
(`AutoAnswer`); a refresh makes it answer only for a copy that is new, as in `processing.py`
483 and 524. The reset of an attendee is the SEQUENCE at which he was asked last: everyone
when the time changes, otherwise those whom the change adds (again) and those whose PARTSTAT
it puts back (`icaldiff.py` 988-1006, `implicit.py` 741-752). `Init` is either no event, or an
event that everyone has and nobody has answered (`StandingAt`), so that two PUTs are enough
to remove somebody and invite him again, or to delete the event and restore it; no messages
are repeated in the second case. A send item whose delivery fails for good at once, or on the
same server, is not an action of its own: it has the effect of `SendGiveUp`, which is modelled
for `Remote` attendees and after the retries. The histories name what the code gives up: messages
that failed for good (`lost`), replies that were lost or overtaken (`unsure`), and copies
that a message made again although its attendee had answered or deleted his copy since it
was made, or had already been sent a newer version (`revived`). `erased` names the attendees of
an event that was deleted: its CANCEL raises the SEQUENCE of their copies above the resets of
the event as it is restored, so that an old answer can count for it. `revived` needs the
highest SEQUENCE that ever reached him (`heard`), since a deleted copy leaves the server nothing to compare with.

**`PushNotifications`** - `work` holds the rows, `run`/`item`/`taken` the transaction of the
job of each worker, `conn`, `queue`, `outstanding`, `history` and `rejects` its provider.
A history keeps
the highest identifier given out and the newest `maxSize` entries (`add`): by count, as
`del self.history[:-self.maxSize]` does, so that an entry taken out for an error makes room
for an older one to stay. `modified` is the table of subscriptions, `feedback` a feedback message whose rows were
read and not yet deleted. `EnableStaggering` is chosen in `Init`. **`PushPromise`** is what
devices are promised: from the commit of a change until a later push a subscribed device
is *owed* one, unless the push is lost with the memory of a process. The refinement maps
`subscribed` to the rows and `owed` to whatever a row, a queue, an open connection or a
delayed call still stands for; `PromiseKept` is the abstract specification as a property.
Its liveness is a leads-to (`Paid`), so that TLC can check it of the detailed module.

**`ResponseCache`** - the entry of one request (`key`, chosen in `Init`: entries do not
interact), the tokens it depends on, and one reader. A look-up reads the entry, then the
tokens one by one; a miss renders the response, then reads the tokens, then stores. A
change commits, and its notifications replace tokens afterwards, or never. The memcached
client answers `None` to a get that fails (`memcachepool.py` 231-242) and `_tokenForURI` passes
that on, so that every read of a token may answer "no token" (`tokenForURI`), when an entry is
stored as well as when it is compared; `failed` (history) notes the tokens that a look-up took
for missing. Sets may fail too: of an entry, of the token of a principal, of both tokens of a
change or only of the first (`SkipToken`). A failed read of the entry itself does not look
like a miss: the unpacking of `None` in `getResponseForRequest` ends the request with an error.
Time passes in ticks. A look-up or a caching that lasts into another tick is marked `slow` (history): one
that took as long as the time-out of an entry could store it under tokens that have expired
since. One reader is enough: what a look-up
answers depends on the entry and the tokens only, and a store replaces the entry.

**`GroupSharing`** - one calendar. `mode` and `declined` are the bind rows, `linkMode` and
`linkHash` the rows of `GROUP_SHAREE`, `row` and `members` the cached groups, `dir` the
directory. `InviteUser`, `UninviteUser`, `InviteGroup` and `UninviteGroup` are requests of
the owner, each ended by `HandleInvite`, which marks the calendar as shared or not;
`ToTrash` includes `ownerDeleteShare`. `GroupsToRefresh` and `Update` are the poll,
`RefreshGroup` and `ReconcileGroupSharee` the work items. A membership hash is the set of
members it is made from. The owner is not among `Users`; a group that vanishes from the
directory is one without members. `outOfStep` collects the users whom the code itself
passes by, each case confirmed by the counterexample TLC gives without it:
- uninvited one by one although his group still has the share;
- no longer a member when the group is invited again, which overwrites the hash;
- with a membership change that is not reconciled when a group of his is removed: a former
  member keeps his row, and one who was invited himself can lose it;
- in a group that the poll deletes after it came into use;
- reconciled with a change of a group other than the one the item names, whose hash stays
  as it was, so that a change back is taken for none;
- left behind by the move to the trash.
`dropped` collects the groups whose item was replaced by one that found nothing to do.

## 4. Runs

| Run | Instance | Shows |
|---|---|---|
| `sync_concurrent` | 2 names, 2 transactions, 1 client, 4 revisions, clean-up | `RowsMatchObjects`, `OnlyLateChangesLost`, `TokensStayKnown` |
| `sync_late_commit` (violation) | 2 transactions, no clean-up | `NoLostChange` fails: commit order differs from revision order |
| `refresh` | 3 attendees, 2 replies, 2 runners, 3 ids, batches of 1, 2 versions, 1 failure | `NoLostRefresh`, `PendingHasWork`, `RefreshArrives` |
| `limiter` | 2 slots, limit 2, 3 sockets, 2 deaths, reports read late | `AcknowledgedTracksWork`, `EveryAckHasASocket`, `LoadBounded`, `ReadyWhenActive`, `AcceptsAgain`, `SocketsTaken` |
| `monitor` | 2 names, unexpected deaths | `OneProcessPerName`, `StoppedMeansGone`, `KeptRunning`, `QuietStopEnds` |
| `pool` | 3 clients, limit 2, 4 requests, 2 losses, shutdown | `FreeMeansIdle`, `ConnectionsBounded`, `AnsweredUntilForgotten`, `ShutdownEnds`, `ShutdownWaits` |
| `scheduling` | 2 attendees (one remote, one automatic), a new event or one that both have, 2 PUTs or DELETEs of the organizer, 1 answer, 1 repeated message, 1 retry | `EveryoneUpToDate`, `AnswersAgree`, `AnswerIsForThisTime`, `NoStrayCopies`, `FailureShown`, `QueueDrains` |
| `scheduling_restore` (violation) | the same, an event with SEQUENCE 0 that both have | `RestoredEventArrives` fails: an event restored with the SEQUENCE it had is older than its cancellation |
| `push` | 2 workers, 2 push ids, 2 devices, 2 changes, 3 events | `NothingForgotten`, `ErrorHitsItsToken`, `ResubscribedStays`, `PromiseKept` |
| `response_cache` | 2 homes that share a calendar, 2 users, depth 0 and 1, 2 changes, time-out of 2 ticks | `StaleOnlyByOverlap`, `Settles` |
| `sharing` | 1 user, 2 groups, 3 changes of the directory | `NeverWritesUngranted`, `ModeTells`, `FollowsDirectory` |
| `sharing_trash` (violation) | the same, no changes | `UnsharedHasNoSharees` fails: a sharee in a group as well keeps his row |

The runs of `limiter`, `scheduling`, `push` and `response_cache` check `TypeOK` as well. In
the other modules it is only a theorem, as are `TokenMonotonic`, `NoQueueWhileFree` and
`AccessIsMaximum`, and no run repeats them.

Observed on the way and not kept as runs of their own:

- *Sync*: the token of an emptied log is the revision of the next change; a property
  change is not seen when the row to bump was cleaned up.
- *Dispatch*: a `+` of a dead process read after `stop()` is never taken back, and can keep
  the port paused; a late `0` makes a booting slot active; sockets a dead worker had not
  taken push the load over `MaxRequests` when its successor takes them.
- *Monitor*: a stop during the back-off of a restart leaves a Deferred that nothing fires.
- *Pool*: a reconnection does not serve the queue, so that a request queued while all
  clients were lost waits for the next one; a lost connection answers every queued request
  with `None`.
- *Refresh*: a message of a refresh that cannot be delivered is neither recorded nor sent again;
  the class comment of `ScheduleRefreshWork` announces a reschedule after the
  last batch that the code does not do, and the proof shows it is not needed.
- *Scheduling*: attendees removed by a queued change are not told when the item finds the
  event deleted (`implicit.py` 418-423); a CANCEL that overtakes a REQUEST leaves a stray
  copy; replies are unordered (`itip.py` 402); a copy its attendee deleted is made again
  by an older message; an auto-reply is lost with the copy; a CANCEL of a deleted event is
  not retried.
- *Push*: of the items of one id the highest priority is not the one that is kept; pushes
  in the memory of a process go with it; a device that has subscribed again before its
  feedback is read keeps its subscription because the times are compared, but one that does
  so between that read and the delete by key loses it (`applepush.py` 734).
- *Response cache*: the depth 0 response of a sharee's home has no token that a change of
  the shared collection replaces, so that it is stale until it expires; principals get
  their new token inside the transaction that changes them; while the token of a change cannot
  be read, a response that was cached without one is served again.
- *Groups*: an invitation that overlaps a refresh of the same group gets no reconciliation;
  removing a group from one event deletes its links to all events (`sql.py` 2821 of the
  calendar store); `assignExternalDelegates` says it deletes external assignments and
  deletes all.

**Why the bounds are enough.** The races need two concurrent actors and one object; a
third attendee lets a batch leave somebody behind who did not reply; four revisions allow
create, change, clean-up and another change while a second transaction is open; two deaths
let a successor die with its predecessor's sockets, and a third socket is there when two
are on the books; two losses allow a client to be lost
again after it has reconnected or two clients to be lost together; two PUTs put the items
of a change and of the next one, or of a deletion, into the queue together, and of an event that
everyone has they are a removal and a re-invitation, or a deletion and a restoration; a time-out of
two ticks lets a token expire before, with or after an entry; three changes are needed for
a group to go back to its old members while another one changes, and a second user was
tried without a difference to depth 13. The safety properties
of all modules are proved for all bounds; a bound matters only to the liveness
properties and to the counterexamples. Deadlock is checked in
`response_cache` and in `sharing`, which never stop; every other instance legitimately ends
when its bounded inputs are used up.

**Fairness.** `SyncTokens` has none (safety only). `AttendeeRefresh`: an open transaction
goes on and the queue runs items, as the job queue polls and retries; replies are not
forced. `ConnectionLimiter`: the master reads, reaps and restarts, workers boot, read and
finish connections (channels time out); crashes and stops are not forced.
`ProcessMonitor`: timers fire and ended processes are reaped; a process need not obey TERM,
the kill timer is fair. `MemCachePool`: memcached replies, connection attempts are repeated
until one succeeds (`ReconnectingClientFactory`), closing connections close; no further
request is forced. `ImplicitScheduling`: the queue runs some item while there is one (`RunItem`); nobody has to
change the event, and servers need not answer. `PushNotifications`: a worker does whatever
it can next, that is runs jobs, connects and makes delayed calls; faults are not forced.
`ResponseCache`: time passes. `GroupSharing`: the poll regenerates itself and the queue runs
reconciliations; a refresh whose directory fails is repeated by the next poll, and strong
fairness says that the directory answers now and then. All others are weak, on actions
that stay enabled until they are taken - except for `RefreshLock`, which waits for a lock:
every holder releases it, and only finitely many replies compete for it in an instance, so
that weak fairness is enough there.

## 5. Proofs

All theorems hold for any values of the constants that satisfy the named ASSUME of the
module. Those say that bounds are numbers and that model values differ; that clients of a
pool, slots of the limiter and pairs of device and push id are finitely many, because the
code counts them; for `ResponseCache`, that principals, homes and collections have
different URIs, and that a collection is bound in its owner's home; for
`AttendeeRefresh`, that there is somebody else to refresh; and for `ImplicitScheduling`, that
a restored event is raised above its CANCEL (`RestoreGap > 2`; the code adds 1000), whose
SEQUENCE is at most two above that of the deleted version. Runs check the assumptions too.

- `SyncTokens_proofs`: `TypeCorrect`, `RowsMatch`, `OnlyLateLost`, `TokensKnown`,
  `TokenNeverBack`. The invariant adds to the properties: rows carry the last change of
  their name and only rows below MIN-VALID-REVISION are missing (`RowsCarryLast`), an
  uncommitted row is newer than all that is committed or cleaned up (`PendingFresh`), two
  writers of a slot exclude each other (`FindHoldsLock`), and whatever a client does not
  know is above its token or late (`LateNoted`, `ViewGap`). Needed because what a report
  will say depends on rows that are not committed yet. The maximum of a set of revisions
  is handled by one lemma (`TokenIsMax`).
- `AttendeeRefresh_proofs`: `TypeCorrect`, `NoRefreshLost`, `WorkForPending`. The invariant
  adds who holds the UID lock in which state, that one runner at a time has got past the
  check for other items, that a queued reply covers everyone not pending, and that a
  runner leaves nobody behind without an item.
- `ImplicitScheduling_proofs`: `TypeCorrect`, `EveryoneIsUpToDate`, `BothSidesAgree`,
  `AnswersAreForThisTime`, `NobodyIsLeftBehind`, `FailuresAreShown`, for any attendees and any
  number of changes, answers, retries and repeated messages. Three of these properties speak
  of the empty queue, so that the invariant has to say what every order of the queued items
  will come to. It does so for each attendee by himself, in terms of the REQUESTs and
  CANCELs that are still to come to him (`Asked`, `Cancelling`), whether they are send items
  already or will be made by an organizer item; an organizer item that makes its send
  items then changes nothing:
  - `VersionInv`: nothing is asked, and no copy is live, above the last version;
  - `StrayInv`: whoever is out of the event has, for every REQUEST to come and for his live
    copy, a CANCEL above it that is to come, has come or was given up (`Told`);
  - `OrderInv`, `LostInv`, `IdInv`: while no event was restored with its old SEQUENCE, a CANCEL
    to an attendee is below the present version, and an item of the present version was made
    for the present resource. Otherwise an old item could undo the present version, or its
    failure be recorded in a resource that is gone;
  - `ItemInv`, `BlankInv`: a modification is from one version to the next, replies are
    numbered, and before the event exists there is nothing;
  - `FreshInv`: as long as the event was not deleted, a copy, a REQUEST or a reply whose
    SEQUENCE is not below the last reset is for the present time (`Era`). This is what makes
    the comparison with the reset, which is all that `replyCounts` looks at, mean the right thing;
    it survives removal and re-invitation because whoever is added is reset to the new
    SEQUENCE, above everything that was made before;
  - `DroppedInv`: a copy is younger than the one its attendee deleted before (`revived` excepted);
  - `AgreeInv`: an attendee who has not seen the last reset (`NotYet`) is NEEDS-ACTION at the
    organizer and nothing on its way changes that; for one who has, what the organizer will
    have when all replies have come is what the attendee's copy says (`WillBe`);
  - `ArriveInv`: the present version is to come, has come, was turned down by deleting the copy
    or was given up, or an older message came back (`revived`).
  The proof found a gap in an earlier form of `EveryoneUpToDate` that the run was too small to
  show: with three PUTs and two answers an older REQUEST can make a declined and deleted copy
  again although the attendee had been sent a newer version, which the exception for
  `revived` did not cover before `heard` was recorded. `RestoredEventsArrive` follows: the
  event of `scheduling_restore` would arrive if its SEQUENCE of 0 were raised like others
  (`revived` excepted again).
- `Master_proofs`, about `ProcessMonitor`: `MonitorTypes`,
  `OneProcess`, `StoppedGone`, with "no start before the service runs" and "what the stop
  waits for" as strengthening (`MonitorInvHolds`).
- `MemCachePool_proofs`: `TypeCorrect`, `FreeClientsIdle`, `QueueOnlyWhenNoneFree`,
  `ConnectionsLimited`, `ShutdownAfterRequests`. The strengthening says where a waiting
  request is (in the queue or with a client that is busy or connecting) until the shutdown
  has fired, and that a client without connection has no request. `ConnectionsLimited` needs
  more than the count: every client with a connection, or one that is to be made again, is
  busy or free or has been forgotten, and the busy, free and pending clients that are not
  forgotten are no more than `MaxClients` (`PlacesInv`). A client is forgotten when it
  reconnects: the pool removes the old protocol instance and never adds the new one,
  so that its place is free for another connection.
- `Master_proofs`, about `ConnectionLimiter`: `TypeCorrect`, `BooksTrackWork`, `LoadIsBounded`,
  `AcksHaveSockets`, `ActiveIsReady`. What is on the books says nothing of the process unless
  the messages on their way are counted in: `BooksInv` speaks of the connections the process
  *had* when it had sent the first k messages (`Had`), which is never negative, and of how many
  of the messages come from a process that is dead. `SentInv` says that a socket in the
  meta socket, or one whose `+` has not been read, is unacknowledged or abandoned. The sum
  over the slots (`Total`) counts pairs of a slot and a unit of its load; three lemmas
  say that it is monotone, what one unit more does, and that it is at most the sum of the parts.
- `ResponseCache_proofs`: `TypeCorrect`, `NotStale`. A look-up compares tokens and not
  versions, so that the invariant has to say what a token that differs proves. Two ideas:
  a token that was read and replaced never comes back, because no job that still has to set
  a token has the number of one that was read (`ReadOK`); and whatever was announced
  since the tokens of an entry were read has replaced one of them by a token that lives at
  least as long as the entry (`Guarded`), a half-done notification included. The same
  holds of a reader between its steps (`StoringInv`, `LookingInv`). Both ideas are about tokens that
  were read: `None` proves nothing and may come back, so that `NotStale` is for changes whose token
  the look-up did read. An entry that was stored with `None` for a token that existed is covered,
  because the token of any later change outlives it. That a replacement
  outlives the entry rests on entries and tokens having the same time-out in the code.
- `PushNotifications_proofs`: `TypeCorrect`, `Remembered`, `RightToken`, `Resubscribed`, and
  `Implements`: the initial states of `PushNotifications` are initial states of `PushPromise`
  and each of its steps is one of `PushPromise` or leaves the mapped variables as they are.
  The invariant says which rows belong to which job (`JobInv`), that nothing waits for a connection
  that is up and that an identifier stands for one token, in the history and in the errors
  to come (`NetInv`), and what is true between the push of a job
  and its commit, when its rows are still there: unless rows came since it read them, each
  device has been told of everything or its worker keeps the push in memory (`HandedInv`).
  Without that the commit, which removes the rows, could remove the last trace of
  a push. `Remembered` then follows from steps of `PushPromise` alone (`PromiseRemembers`).
- `GroupSharing_proofs`: `TypeCorrect`, `ModesTell`, `NobodyWritesUngranted`,
  `AccessMaximal`, `LeftOversOnlyRead`, for any users and any finite set of groups. `ModeTells` is not inductive,
  because it says nothing of users with a pending change; the invariant `FollowsHash`
  does: a bind row is a group row exactly if the user is in the *recorded hash* of a
  shared group, whatever the cache says meanwhile. `WritesOnlyGranted` covers those who
  are out of step too. That a row survives the removal of one of several groups rests on
  the count being above one exactly if there is another group (`CountsOtherGroups`).
  `LeftOversOnlyRead` bounds what the counterexample of `sharing_trash` can do: the sharees whom
  `ownerDeleteShare` leaves behind have rows of mode GROUP and no group (`LeftOver`), and may
  read but not write.

Each proof has one lemma or step per action, and one per conjunct the action can disturb.

The inductive invariants were checked by TLC on the instances of the runs before they were
proved (that of `PushNotifications` with histories of two entries as well).

**Only model-checked:** liveness (`RefreshArrives`, `AcceptsAgain`, `SocketsTaken`,
`KeptRunning`, `QuietStopEnds`, `AnsweredUntilForgotten`, `ShutdownEnds`, `QueueDrains`,
`Settles`, `FollowsDirectory`, and of `PromiseKept` the part `Paid`), which needs fairness and
ENABLED, beyond the prover; and the three counterexamples. Every other property of a run is a
theorem.

## 6. Not modelled

See the components with status `not_modelled`: those of the plan, and those that are data
transformation, configuration, or protocol encoding, where a small state machine has
nothing to say. Transactions are not modelled as a component: savepoints, statement queues
and locks are those of `twext` and PostgreSQL. In scheduling: recurrence, splitting, polls
and STATUS:CANCELLED. In push: priorities, the AMP observers, what Apple does, and the failure of a
subscription (`sql_apn.py` 56-85 reads, then inserts or updates and passes over an error; two that
overlap leave one row either way). In the
response cache: eviction by memcached and the composition of keys. In sharing: the purge of
groups that have been missing for long (`groups.py` 276-283, only with AutomaticPurging), direct
shares, other pods, notifications, address books, group attendees and delegates. Within the modelled parts: lengths of delays, logging, statistics counters
(`total`, `started`), the contents of events and responses, `removeProcess`, `restartAll`
and `suggestMaxClients` (no callers), and failed connection attempts, which are repeated
without an effect on the pool.

Hazards of parts that no property reaches yet, for whoever extends the project:

- the time-out of a transaction aborts it while a statement or its commit is under way
  (`txdav/common/datastore/sql.py` 550), a failed subtransaction is retried in a new
  command block (954), and a bump of MODIFIED that loses the row lock is skipped after the
  cached token was dropped (2787): all three are decided by `twext` and PostgreSQL;
- feedback data is cut from its buffer only after the message was processed, so that data
  that arrives meanwhile is parsed from the same place (`push/applepush.py` 686);
- an AMP client that disconnects while it is notified ends the loop over the others
  (`push/amppush.py` 211);
- an invitation of a group that overlaps its refresh, and the links of a group attendee
  (`caldav/datastore/sql.py` 2389 and 2821), as observed above;
- requests after the shutdown Deferred of the pool has fired (`memcachepool.py` 343).
