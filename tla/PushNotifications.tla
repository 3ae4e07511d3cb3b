-------------------------- MODULE PushNotifications --------------------------
(***************************************************************************)
(* Push notifications, from the change of a collection to the connection   *)
(* with Apple's push service: the work items of                            *)
(* calendarserver/push/notifier.py, the provider, its reconnects and its   *)
(* feedback in push/applepush.py, staggering and token history in          *)
(* push/util.py, and the subscriptions in txdav/common/datastore/          *)
(* sql_apn.py.                                                             *)
(*                                                                         *)
(* A transaction that changes a collection commits one work item for the   *)
(* push id of the collection and one for that of its home.  A worker       *)
(* process runs an item in a transaction of its own: it takes all other    *)
(* items of the id with it, and hands the id to its provider service       *)
(* before it commits.  The provider writes to its connection, or keeps     *)
(* the push in memory until there is one or until its turn comes.          *)
(*                                                                         *)
(* A push carries no data; what counts is that it is sent after the change *)
(* was committed.  `told' is the version of the push id at the moment of   *)
(* the last write.  What becomes of it in Apple's hands is not modelled,   *)
(* priorities and the AMP observers are not either.                        *)
(***************************************************************************)
EXTENDS Integers, FiniteSets, SequencesExt

CONSTANTS Tokens,         \* device tokens
          Keys,           \* push ids
          Home,           \* the push id of the home; the others are its children
          Workers,        \* worker processes, each with a provider service
          None,           \* no work item
          Pairs,          \* pairs <<token, key>> that devices subscribe to
          Subscriptions,  \* those that are there at the start
          maxSize,        \* size of a token history
          purgeSeconds,   \* age at which a subscription is purged
          MaxChanges,     \* bound: changes
          MaxEvents       \* bound: changes, faults, and what devices and the clock do

ASSUME PushAssumption ==
    /\ Home \in Keys
    /\ Subscriptions \subseteq Pairs /\ Pairs \subseteq Tokens \X Keys /\ IsFiniteSet(Pairs)
    /\ maxSize \in Nat \ {0} /\ purgeSeconds \in Nat
    /\ MaxChanges \in Nat /\ MaxEvents \in Nat

VARIABLES
    ver,        \* committed changes of each push id
    work,       \* committed PUSH_NOTIFICATION_WORK rows <<key, number>>
    run,        \* what the job of each worker has done
    item,       \* the row it runs
    taken,      \* the other rows it deletes
    staggering, \* EnableStaggering
    conn,       \* connection of each provider: "down", "up" or "stopped"
    queue,      \* pairs saved for when there is a connection
    outstanding,\* pairs whose turn has not come (PushScheduler)
    history,    \* [last, kept] of each connection (TokenHistory)
    modified,   \* APN_SUBSCRIPTIONS.MODIFIED of each pair, -1 without a row
    now,        \* the clock
    dead,       \* devices that no longer accept pushes
    rejects,    \* errors Apple has to report on each connection
    reports,    \* <<token, time>> the feedback service has to report
    feedback,   \* the feedback message in process, with the rows it has read
    told,       \* (history) version of the key at the last push of a pair
    lost,       \* (history) pairs whose push was lost with a process
    events      \* (bound) faults, and what devices and the clock did

jobVars == <<run, item, taken>>
netVars == <<conn, queue, outstanding, history, rejects>>
subVars == <<modified, now, dead, reports, feedback>>
ghosts == <<told, lost>>
vars == <<ver, work, jobVars, staggering, netVars, subVars, ghosts, events>>

NoFeedback == [token |-> None, time |-> 0, rows |-> {}]
subscribed == {p \in Pairs : modified[p] >= 0}

\* The push ids of a change: its own and, for a child, that of its home.
notifierIDs(k) == {k, Home}

Event == events + ver[Home] < MaxEvents /\ events' = events + 1

\* Pairs that have a push coming, if the state is as given.
OwedIf(rows, subs, c, q, o) ==
    {p \in subs : \E r \in rows : r[1] = p[2]}
      \cup UNION {q[w] \cup o[w] : w \in {v \in Workers : c[v] # "stopped"}}
Owed == OwedIf(work, subscribed, conn, queue, outstanding)

-----------------------------------------------------------------------------
Init ==
    /\ ver = [k \in Keys |-> 0]
    /\ work = {}
    /\ run = [w \in Workers |-> "idle"]
    /\ item = [w \in Workers |-> None]
    /\ taken = [w \in Workers |-> {}]
    /\ staggering \in BOOLEAN
    /\ conn = [w \in Workers |-> "down"]
    /\ queue = [w \in Workers |-> {}]
    /\ outstanding = [w \in Workers |-> {}]
    /\ history = [w \in Workers |-> [last |-> 0, kept |-> {}]]
    /\ modified = [p \in Pairs |-> IF p \in Subscriptions THEN 0 ELSE -1]
    /\ now = 0
    /\ dead = {}
    /\ rejects = [w \in Workers |-> {}]
    /\ reports = {}
    /\ feedback = NoFeedback
    /\ told = [p \in Pairs |-> 0]
    /\ lost = {}
    /\ events = 0

-----------------------------------------------------------------------------
\* Changes and work items

\* A transaction that changed k commits, with its work items.
notify(k) ==
    /\ ver[Home] < MaxChanges /\ events + ver[Home] < MaxEvents
    /\ ver' = [j \in Keys |-> IF j \in notifierIDs(k) THEN ver[j] + 1 ELSE ver[j]]
    /\ work' = work \cup {<<j, ver[j] + 1>> : j \in notifierIDs(k)}
    /\ lost' = lost \ {p \in subscribed : p[2] \in notifierIDs(k)}
    /\ UNCHANGED <<jobVars, staggering, netVars, subVars, told, events>>

SameKey(r) == {s \in work : s[1] = r[1]}

\* Mutant: the group is not locked.
doWork_unlocked(w, r) ==
    /\ run[w] = "idle"
    /\ \A v \in Workers : item[v] # r
    /\ run' = [run EXCEPT ![w] = "selected"]
    /\ item' = [item EXCEPT ![w] = r]
    /\ taken' = [taken EXCEPT ![w] = SameKey(r) \ {r}]
    /\ UNCHANGED <<ver, work, staggering, netVars, subVars, ghosts, events>>

\* The job queue locks an item and its group, the items of the same push id,
\* and deletes the item.  doWork reads the other items of the push id there are
\* by now, and deletes those it has read.
doWork(w, r) ==
    /\ run[w] = "idle"
    /\ \A v \in Workers : run[v] # "idle" => item[v][1] # r[1]
    /\ run' = [run EXCEPT ![w] = "selected"]
    /\ item' = [item EXCEPT ![w] = r]
    /\ taken' = [taken EXCEPT ![w] = SameKey(r) \ {r}]
    /\ UNCHANGED <<ver, work, staggering, netVars, subVars, ghosts, events>>

-----------------------------------------------------------------------------
\* The provider

\* What is left of a history of entries <<identifier, token>>: the newest ones.
Newest(S) == {x \in S : Cardinality({y \in S : y[1] > x[1]}) < maxSize}

\* The entries that the pushes in s get, in their order.
Numbered(h, s) == {<<h.last + n, s[n][1]>> : n \in 1..Len(s)}

\* Mutant: identifiers are positions in the history.
add_position(h, s) ==
    LET drop == IF h.last + Len(s) > maxSize THEN h.last + Len(s) - maxSize ELSE 0
        all == {x \in h.kept \cup Numbered(h, s) : x[1] > drop}
    IN  [last |-> h.last + Len(s) - drop, kept |-> {<<x[1] - drop, x[2]>> : x \in all}]

\* The token of each push in s is added to the history, with the next identifier;
\* the oldest entries are dropped beyond maxSize.
add(h, s) ==
    [last |-> h.last + Len(s), kept |-> Newest(h.kept \cup Numbered(h, s))]

\* Pushes are written to the connection, in the order of s.  Apple will report
\* those for devices that are gone.
Write(w, h, s) ==
    /\ history' = [history EXCEPT ![w] = add(h, s)]
    /\ rejects' = [rejects EXCEPT ![w] =
          (IF h = history[w] THEN @ ELSE {}) \cup {x \in Numbered(h, s) : x[2] \in dead}]
    /\ told' = [p \in Pairs |-> IF p \in Range(s) THEN ver[p[2]] ELSE told[p]]
    /\ lost' = lost \ Range(s)

\* scheduleNotifications for the pairs in S
Schedule(w, S) ==
    IF conn[w] # "up"
    THEN /\ queue' = [queue EXCEPT ![w] = @ \cup S]
         /\ UNCHANGED <<outstanding, history, rejects, ghosts>>
    ELSE IF staggering
    THEN /\ outstanding' = [outstanding EXCEPT ![w] = @ \cup S]
         /\ UNCHANGED <<queue, history, rejects, ghosts>>
    ELSE /\ \E s \in SetToSeqs(S) : Write(w, history[w], s)
         /\ UNCHANGED <<queue, outstanding>>

\* The job hands its push id to the provider, for the devices that subscribe.
enqueue(w) ==
    /\ run[w] = "selected"
    /\ run' = [run EXCEPT ![w] = "pushed"]
    /\ Schedule(w, {p \in subscribed : p[2] = item[w][1]})
    /\ UNCHANGED <<ver, work, item, taken, staggering, conn, subVars, events>>

\* Pairs whose push is gone with what a step drops.
Gone(S, left) == lost' = lost \cup ((S \cap Owed) \ left)

\* Mutant: all items of the push id are deleted, read or not.
CommitJob_all(w) ==
    /\ run[w] = "pushed"
    /\ work' = work \ SameKey(item[w])
    /\ run' = [run EXCEPT ![w] = "idle"]
    /\ item' = [item EXCEPT ![w] = None]
    /\ taken' = [taken EXCEPT ![w] = {}]
    /\ Gone(IF conn[w] = "stopped" THEN queue[w] \cup outstanding[w] ELSE {},
            OwedIf(work', subscribed, conn, queue, outstanding))
    /\ UNCHANGED <<ver, staggering, netVars, subVars, told, events>>

\* Mutant: the item itself is left in the table.
CommitJob_keep(w) ==
    /\ run[w] = "pushed"
    /\ work' = work \ taken[w]
    /\ run' = [run EXCEPT ![w] = "idle"]
    /\ item' = [item EXCEPT ![w] = None]
    /\ taken' = [taken EXCEPT ![w] = {}]
    /\ UNCHANGED <<ver, staggering, netVars, subVars, ghosts, events>>

CommitJob(w) ==
    /\ run[w] = "pushed"
    /\ work' = work \ ({item[w]} \cup taken[w])
    /\ run' = [run EXCEPT ![w] = "idle"]
    /\ item' = [item EXCEPT ![w] = None]
    /\ taken' = [taken EXCEPT ![w] = {}]
    /\ Gone(IF conn[w] = "stopped" THEN queue[w] \cup outstanding[w] ELSE {},
            OwedIf(work', subscribed, conn, queue, outstanding))
    /\ UNCHANGED <<ver, staggering, netVars, subVars, told, events>>

\* The transaction of the job fails; the job is tried again later.
FailJob(w) ==
    /\ run[w] # "idle" /\ Event
    /\ run' = [run EXCEPT ![w] = "idle"]
    /\ item' = [item EXCEPT ![w] = None]
    /\ taken' = [taken EXCEPT ![w] = {}]
    /\ UNCHANGED <<ver, work, staggering, netVars, subVars, ghosts>>

\* The turn of a push has come.
send(w, p) ==
    /\ p \in outstanding[w]
    /\ outstanding' = [outstanding EXCEPT ![w] = @ \ {p}]
    /\ IF conn[w] = "up"
       THEN Write(w, history[w], <<p>>) /\ UNCHANGED queue
       ELSE /\ queue' = [queue EXCEPT ![w] = @ \cup {p}]
            /\ UNCHANGED <<history, rejects, ghosts>>
    /\ UNCHANGED <<ver, work, jobVars, staggering, conn, subVars, events>>

NewHistory == [last |-> 0, kept |-> {}]

\* A connection is made, with a new history; the queue is written to it.
connectionMade(w) ==
    /\ conn[w] = "down"
    /\ conn' = [conn EXCEPT ![w] = "up"]
    /\ \E s \in SetToSeqs(queue[w]) : Write(w, NewHistory, s)
    /\ queue' = [queue EXCEPT ![w] = {}]
    /\ UNCHANGED <<ver, work, jobVars, staggering, outstanding, subVars, events>>

\* A connection is lost; after a certificate error it is not retried.
connectionLost(w, how) ==
    /\ conn[w] = "up" /\ Event
    /\ conn' = [conn EXCEPT ![w] = how]
    /\ history' = [history EXCEPT ![w] = NewHistory]
    /\ rejects' = [rejects EXCEPT ![w] = {}]
    /\ Gone(IF how = "stopped" THEN outstanding[w] ELSE {},
            OwedIf(work, subscribed, conn', queue, outstanding))
    /\ UNCHANGED <<ver, work, jobVars, staggering, queue, outstanding, subVars, told>>

\* A worker process ends, in any way, and is started again.
Restart(w) ==
    /\ Event
    /\ run' = [run EXCEPT ![w] = "idle"]
    /\ item' = [item EXCEPT ![w] = None]
    /\ taken' = [taken EXCEPT ![w] = {}]
    /\ conn' = [conn EXCEPT ![w] = "down"]
    /\ queue' = [queue EXCEPT ![w] = {}]
    /\ outstanding' = [outstanding EXCEPT ![w] = {}]
    /\ history' = [history EXCEPT ![w] = NewHistory]
    /\ rejects' = [rejects EXCEPT ![w] = {}]
    /\ Gone(queue[w] \cup outstanding[w],
            OwedIf(work, subscribed, conn', queue', outstanding'))
    /\ UNCHANGED <<ver, work, staggering, subVars, told>>

-----------------------------------------------------------------------------
\* Subscriptions

Tick ==
    /\ Event
    /\ now' = now + 1
    /\ UNCHANGED <<ver, work, jobVars, staggering, netVars, modified, dead, reports,
                   feedback, ghosts>>

\* A device drops the application.
Die(t) ==
    /\ t \notin dead /\ Event
    /\ dead' = dead \cup {t}
    /\ reports' = reports \cup {<<t, now>>}
    /\ UNCHANGED <<ver, work, jobVars, staggering, netVars, modified, now, feedback, ghosts>>

\* A device subscribes, or renews its subscription.  (The code reads the row, then
\* inserts or updates it and passes over an error; here that is one success.)
addSubscription(p) ==
    /\ Event
    /\ dead' = dead \ {p[1]}
    /\ modified' = [modified EXCEPT ![p] = now]
    /\ told' = IF p \in subscribed THEN told ELSE [told EXCEPT ![p] = ver[p[2]]]
    /\ lost' = IF p \in subscribed THEN lost ELSE lost \ {p}
    /\ UNCHANGED <<ver, work, jobVars, staggering, netVars, now, reports, feedback>>

DeleteRows(S) == modified' = [p \in Pairs |-> IF p \in S THEN -1 ELSE modified[p]]

\* Apple's answer to a push: the token is bad.  All its subscriptions go.
processError(w, e) ==
    /\ e \in rejects[w]
    /\ rejects' = [rejects EXCEPT ![w] = @ \ {e}]
    /\ LET found == {x \in history[w].kept : x[1] = e[1]}
       IN  /\ history' = [history EXCEPT ![w].kept = @ \ found]
           /\ DeleteRows({p \in subscribed : \E x \in found : p[1] = x[2]})
    /\ UNCHANGED <<ver, work, jobVars, staggering, conn, queue, outstanding, now, dead,
                   reports, feedback, ghosts, events>>

\* A message of the feedback service; the subscriptions of the token are read.
readFeedback(r) ==
    /\ r \in reports /\ feedback = NoFeedback
    /\ reports' = reports \ {r}
    /\ feedback' = [token |-> r[1], time |-> r[2],
                    rows |-> {<<p, modified[p]>> : p \in {q \in subscribed : q[1] = r[1]}}]
    /\ UNCHANGED <<ver, work, jobVars, staggering, netVars, modified, now, dead, ghosts, events>>

\* Mutant: the time of the report is not looked at.
Outdated_any(f) == {x[1] : x \in f.rows}

\* Rows that are older than the report
Outdated(f) == {x[1] : x \in {y \in f.rows : f.time > y[2]}}

processFeedback ==
    /\ feedback # NoFeedback
    /\ DeleteRows(Outdated(feedback))
    /\ feedback' = NoFeedback
    /\ UNCHANGED <<ver, work, jobVars, staggering, netVars, now, dead, reports, ghosts,
                   events>>

purgeOldAPNSubscriptions ==
    /\ \E p \in subscribed : modified[p] < now - purgeSeconds
    /\ DeleteRows({p \in subscribed : modified[p] < now - purgeSeconds})
    /\ UNCHANGED <<ver, work, jobVars, staggering, netVars, now, dead, reports, feedback, ghosts, events>>

-----------------------------------------------------------------------------
\* What a worker does by itself
Worker(w) ==
    \/ \E r \in work : doWork(w, r)
    \/ enqueue(w) \/ CommitJob(w)
    \/ connectionMade(w)
    \/ \E p \in Pairs : send(w, p)

Fault(w) ==
    \/ FailJob(w) \/ Restart(w)
    \/ \E how \in {"down", "stopped"} : connectionLost(w, how)

Subscription ==
    \/ Tick \/ \E t \in Tokens : Die(t)
    \/ \E p \in Pairs : addSubscription(p)
    \/ \E w \in Workers : \E e \in rejects[w] : processError(w, e)
    \/ \E r \in reports : readFeedback(r)
    \/ processFeedback \/ purgeOldAPNSubscriptions

Next ==
    \/ \E k \in Keys : notify(k)
    \/ \E w \in Workers : Worker(w) \/ Fault(w)
    \/ Subscription

\* A worker goes on: the job queue gives it the jobs there are, a connection
\* that is down is retried, and delayed calls are made.
Fairness == \A w \in Workers : WF_vars(Worker(w))

Spec == Init /\ [][Next]_vars /\ Fairness

-----------------------------------------------------------------------------
TypeOK ==
    /\ ver \in [Keys -> 0..MaxChanges]
    /\ work \subseteq Keys \X (1..MaxChanges)
    /\ run \in [Workers -> {"idle", "selected", "pushed"}]
    /\ \A w \in Workers : IF run[w] = "idle" THEN item[w] = None
                          ELSE {item[w]} \cup taken[w] \subseteq work
    /\ staggering \in BOOLEAN
    /\ conn \in [Workers -> {"down", "up", "stopped"}]
    /\ queue \in [Workers -> SUBSET Pairs]
    /\ outstanding \in [Workers -> SUBSET Pairs]
    /\ \A w \in Workers : Cardinality(history[w].kept) <= maxSize
    /\ modified \in [Pairs -> -1..MaxEvents]
    /\ now \in 0..MaxEvents
    /\ dead \subseteq Tokens
    /\ told \in [Pairs -> 0..MaxChanges]
    /\ lost \subseteq Pairs

\* A device that has not been told of the latest change of a push id it
\* subscribes to has a push coming: in a work item, in the memory of a provider
\* that will have a connection, or lost with the memory of a process that ended
\* or whose certificate was refused (notifier.py doWork, applepush.py
\* scheduleNotifications, clientConnectionMade).
NothingForgotten ==
    \A p \in subscribed : told[p] < ver[p[2]] => p \in Owed \cup lost

\* An error that Apple reports costs only the device it is about its
\* subscriptions: the identifier in the answer is looked up in the history of
\* the same connection, however many pushes were written since
\* (applepush.py processError, util.py TokenHistory).
ErrorHitsItsToken ==
    [][\A w \in Workers : \A e \in rejects[w] :
          processError(w, e) => \A p \in Pairs : modified'[p] # modified[p] => p[1] = e[2]]_vars

\* Feedback about a device that has since subscribed again does not cost it its
\* subscription, unless it subscribes while the feedback is being processed
\* (applepush.py processFeedback: "as long as that device has not re-subscribed
\* since the timestamp").
ResubscribedStays ==
    [][processFeedback =>
          \A p \in subscribed : modified[p] >= feedback.time
             => \/ modified'[p] = modified[p]
                \/ \E x \in feedback.rows : x[1] = p /\ x[2] # modified[p]]_vars

\* Pushes keep the promise of PushPromise.
Promise == INSTANCE PushPromise WITH subscribed <- subscribed, owed <- Owed
PromiseKept == Promise!Spec
=============================================================================
