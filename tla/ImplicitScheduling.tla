------------------------- MODULE ImplicitScheduling -------------------------
(***************************************************************************)
(* Implicit scheduling of one event between its organizer and attendees:   *)
(* ImplicitScheduler (implicit.py), the work items ScheduleOrganizerWork,  *)
(* ScheduleOrganizerSendWork, ScheduleReplyWork and ScheduleAutoReplyWork  *)
(* (work.py), ImplicitProcessor (processing.py) and the rules of iTIP      *)
(* (itip.py, icaldiff.py), all in txdav/caldav/datastore/scheduling.       *)
(*                                                                         *)
(* A PUT or DELETE of the event and each work item holds ImplicitUIDLock   *)
(* until its transaction ends, so each is one step.  The items of an event *)
(* run one at a time (runlock) but in any order: each is a job with its    *)
(* own delay, retries and worker process, and the promotion of the next    *)
(* send item (afterWork) only moves its notBefore.                         *)
(*                                                                         *)
(* The event does not recur.  Every significant change of the organizer    *)
(* raises SEQUENCE, so that the SEQUENCE stands for the content and the    *)
(* SEQUENCE of the last change of the time (time) for DTSTART and DTEND.   *)
(* The clients return the parameters they were given (X-CALENDARSERVER-    *)
(* RESET-PARTSTAT, reset).  Batches of refreshes are in AttendeeRefresh;   *)
(* here an item refreshes one attendee, and only his own data is followed. *)
(* Left out: recurrence, STATUS:CANCELLED set by the organizer, re-sending *)
(* an unchanged event, splitting, polls and the trash.                     *)
(***************************************************************************)
EXTENDS Integers, FiniteSets

CONSTANTS Attendees,            \* who can be invited
          Automatic,            \* those who are scheduled automatically
          Remote,               \* those on another server or pod
          None,                 \* no copy of the event
          MaxTemporaryFailures, \* retries of a message that cannot be sent
          StandingAt,           \* SEQUENCEs of events that everyone has at first
          RestoreGap,           \* what is added to the SEQUENCE of a restored event
          MaxPuts,              \* bound: PUTs and DELETEs of the organizer
          MaxAnswers,           \* bound: PUTs and DELETEs of the attendees
          MaxDuplicates         \* bound: messages sent again after they arrived

PartStats == {"NEEDS-ACTION", "ACCEPTED", "DECLINED"}

\* What the copies of the organizer and of an attendee are made of
Events == [id : Nat, seq : Nat, time : Nat, atts : SUBSET Attendees,
           ps : [Attendees -> PartStats], reset : [Attendees -> Nat],
           stat : [Attendees -> {"1.2", "2.0", "5.1"}]]
Copies == [seq : Nat, time : Nat, cancelled : BOOLEAN, ps : PartStats]

ASSUME SchedulingAssumption ==
    /\ None \notin Nat \cup Events \cup Copies
    /\ Automatic \subseteq Attendees /\ Remote \subseteq Attendees
    /\ StandingAt \subseteq Nat /\ RestoreGap \in Nat /\ RestoreGap > 2 /\ MaxTemporaryFailures \in Nat
    /\ MaxPuts \in Nat /\ MaxAnswers \in Nat /\ MaxDuplicates \in Nat

VARIABLES
    org,       \* the organizer's copy, or None
    deleted,   \* the copy the organizer deleted last, or None
    down,      \* attendees whose server never answers
    copy,      \* each attendee's copy, or None
    items,     \* organizer, send and reply work items
    autoReply, \* attendees with an auto-reply item
    refresh,   \* attendees with a refresh pending
    puts,      \* (bound) PUTs and DELETEs of the organizer
    answers,   \* (bound) PUTs and DELETEs of attendees
    dups,      \* (bound) messages sent again
    answered,  \* (history) time for which the answer was given that the organizer has
    erased,    \* (history) attendees of an event that was deleted
    regressed, \* (history) the event was restored with the SEQUENCE it had before
    cancelled, \* (history) highest SEQUENCE of a CANCEL that reached an attendee
    dropped,   \* (history) SEQUENCE of the copy an attendee deleted last
    heard,     \* (history) highest SEQUENCE of a REQUEST that reached an attendee
    lost,      \* (history) <<attendee, SEQUENCE>> of messages that were given up
    unsure,    \* (history) attendees a reply of whom was lost, overtaken or not made
    revived    \* (history) attendees whose deleted copy an older message made again

workVars == <<items, autoReply, refresh>>
boundVars == <<puts, answers, dups>>
histVars == <<answered, erased, regressed, cancelled, dropped, heard, lost, unsure,
              revived>>
vars == <<org, deleted, down, copy, workVars, boundVars, histVars>>

\* The organizer's copy as it is created: PARTSTAT starts as NEEDS-ACTION.
Created(A, seq) ==
    [id |-> 0, seq |-> seq, time |-> 0, atts |-> A,
     ps |-> [a \in Attendees |-> "NEEDS-ACTION"],
     reset |-> [a \in Attendees |-> 0],
     stat |-> [a \in Attendees |-> "1.2"]]

-----------------------------------------------------------------------------
Idle ==
    /\ deleted = None
    /\ items = {} /\ autoReply = {} /\ refresh = {}
    /\ puts = 0 /\ answers = 0
    /\ answered = [a \in Attendees |-> 0]
    /\ cancelled = [a \in Attendees |-> 0]
    /\ dropped = [a \in Attendees |-> -1]
    /\ erased = {} /\ regressed = FALSE /\ lost = {} /\ unsure = {} /\ revived = {}

\* There is no event yet, or there is one with a SEQUENCE of seq, whose time was
\* never changed, which everyone has and nobody has answered.  So that more changes
\* of it can be followed, no messages are sent again then (dups is at its bound).
Init ==
    /\ Idle
    /\ \/ /\ org = None /\ down \in SUBSET Remote /\ dups = 0
          /\ copy = [a \in Attendees |-> None]
          /\ heard = [a \in Attendees |-> -1]
       \/ \E seq \in StandingAt :
             /\ org = Created(Attendees, seq) /\ down = {} /\ dups = MaxDuplicates
             /\ copy = [a \in Attendees |->
                          [seq |-> seq, time |-> 0, cancelled |-> FALSE,
                           ps |-> "NEEDS-ACTION"]]
             /\ heard = [a \in Attendees |-> seq]

-----------------------------------------------------------------------------
\* The organizer's PUT and DELETE

\* queuedScheduleWithAttendees: the change is queued, and looks delivered.
Delivered(e) == [e EXCEPT !.stat = [a \in Attendees |-> "1.2"]]

OrganizerWork(action, old, new) ==
    [kind |-> "organizer", action |-> action, old |-> old, new |-> new]

Put(e, item) ==
    /\ puts < MaxPuts
    /\ puts' = puts + 1
    /\ org' = e
    /\ items' = items \cup {item}
    /\ UNCHANGED <<down, copy, autoReply, answers, dups, answered, cancelled,
                   dropped, heard, lost, unsure, revived>>

OrganizerCreate(A) ==
    /\ org = None /\ deleted = None
    /\ Put(Created(A, 0), OrganizerWork("create", None, Created(A, 0)))
    /\ UNCHANGED <<deleted, refresh, erased, regressed>>

\* Mutant: the SEQUENCE of a restored event is left as it is.
restored_same(e) ==
    Delivered([e EXCEPT !.id = @ + 1, !.ps = [a \in Attendees |-> "NEEDS-ACTION"]])

\* A deleted event is created again.  Its SEQUENCE must exceed that of the
\* CANCEL which attendees may have processed; one of 0 is not changed.
restored(e) ==
    Delivered([e EXCEPT !.id = @ + 1, !.seq = IF @ = 0 THEN 0 ELSE @ + RestoreGap,
                        !.ps = [a \in Attendees |-> "NEEDS-ACTION"]])

OrganizerRestore ==
    /\ org = None /\ deleted # None
    /\ Put(restored(deleted), OrganizerWork("create", None, restored(deleted)))
    /\ deleted' = None
    /\ regressed' = (regressed \/ deleted.seq = 0)
    /\ UNCHANGED <<refresh, erased>>

\* A significant change: SEQUENCE is raised; a change of the time asks everyone
\* again, and otherwise who is new to the event is asked, and whom (N) the
\* organizer asks again.  The reset is the SEQUENCE at which he was asked last.
modified(e, A, moved, N) ==
    LET again == IF moved THEN A ELSE N \cup (A \ e.atts) IN
    Delivered([e EXCEPT
        !.seq = @ + 1, !.atts = A,
        !.time = IF moved THEN e.seq + 1 ELSE @,
        !.ps = [a \in Attendees |->
                   IF a \in A \ again THEN @[a] ELSE "NEEDS-ACTION"],
        !.reset = [a \in Attendees |->
                      IF a \in again THEN e.seq + 1 ELSE IF a \in A THEN @[a] ELSE 0]])

OrganizerModify(A, moved, N) ==
    /\ org # None
    /\ N \subseteq {a \in A \cap org.atts : org.ps[a] # "NEEDS-ACTION"}
    /\ Put(modified(org, A, moved, N),
           OrganizerWork("modify", org, modified(org, A, moved, N)))
    /\ UNCHANGED <<deleted, refresh, erased, regressed>>

\* The event is deleted, and with it the rows of its refreshes.  bumpiTIPInfo
\* raises the SEQUENCE of the old data, which the work item keeps.
OrganizerDelete ==
    /\ org # None
    /\ Put(None, OrganizerWork("remove", [org EXCEPT !.seq = @ + 1], None))
    /\ deleted' = org
    /\ refresh' = {}
    /\ erased' = erased \cup org.atts
    /\ UNCHANGED regressed

-----------------------------------------------------------------------------
\* ScheduleOrganizerWork

generateCancel(e) == [method |-> "CANCEL", seq |-> e.seq + 1]

generateAttendeeRequest(e, a) ==
    [method |-> "REQUEST", seq |-> e.seq, time |-> e.time, ps |-> e.ps[a],
     reset |-> e.reset[a]]

SendWork(id, a, msg) == [kind |-> "send", id |-> id, att |-> a, msg |-> msg, failed |-> 0]

Cancels(id, e, A) == {SendWork(id, a, generateCancel(e)) : a \in A}
Requests(id, e) == {SendWork(id, a, generateAttendeeRequest(e, a)) : a \in e.atts}

\* The resource an item was made for is still there.
Exists(id) == org # None /\ org.id = id

\* Mutant: whoever was removed is not told.
scheduleWithAttendees_requests(i) ==
    IF i.action = "remove" THEN Cancels(None, i.old, i.old.atts)
    ELSE IF org = None THEN {} ELSE Requests(org.id, i.new)

\* What a change has sent: nothing if the event is gone by now, except for
\* its removal.  A created event is looked up by its UID.
scheduleWithAttendees(i) ==
    IF i.action = "remove" THEN Cancels(None, i.old, i.old.atts)
    ELSE IF i.action = "create" THEN IF org = None THEN {} ELSE Requests(org.id, i.new)
    ELSE IF Exists(i.new.id)
         THEN Cancels(org.id, i.old, i.old.atts \ i.new.atts) \cup Requests(org.id, i.new)
         ELSE {}

\* (history) Attendees who are not told that they were removed
NotTold(i) ==
    IF i.action = "modify" /\ ~Exists(i.new.id)
    THEN {<<a, i.new.seq>> : a \in i.old.atts \ i.new.atts} ELSE {}

queuedOrganizerProcessing(i) ==
    /\ i \in items /\ i.kind = "organizer"
    /\ items' = (items \ {i}) \cup scheduleWithAttendees(i)
    /\ lost' = lost \cup NotTold(i)
    /\ UNCHANGED <<org, deleted, down, copy, autoReply, refresh, boundVars, answered,
                   erased, regressed, cancelled, dropped, heard, unsure, revived>>

-----------------------------------------------------------------------------
\* An attendee receives a message (ImplicitProcessor).

sequenceComparison(msg, c) == msg.seq >= c.seq

\* Mutant: the answer is kept whenever the time is the same.
transferPartstat_time(msg, c) == msg.time = c.time

\* The attendee's own PARTSTAT is kept unless the time has changed, or the
\* organizer has asked again since.
transferPartstat(msg, c) == msg.time = c.time /\ c.seq >= msg.reset

Merged(msg, c) ==
    [seq |-> msg.seq, time |-> msg.time, cancelled |-> FALSE,
     ps |-> IF c # None /\ transferPartstat(msg, c) THEN c.ps ELSE msg.ps]

\* checkAttendeeAutoReply: whoever is scheduled automatically accepts or declines
\* at once, or leaves the event to be answered by hand, as his mode and his other
\* events have it.  A refresh makes him answer only if he has no copy yet.
AutoAnswer(a, c, refreshing) ==
    IF a \in Automatic /\ c.ps = "NEEDS-ACTION" /\ (copy[a] = None \/ ~refreshing)
    THEN {[c EXCEPT !.ps = p] : p \in PartStats}
    ELSE {c}

Ignored(a, msg) ==
    IF copy[a] = None
    THEN msg.method = "REQUEST" => msg.ps = "DECLINED"
    ELSE ~sequenceComparison(msg, copy[a])

\* (history) The attendee answered or deleted his copy since the message was made,
\* or has had a later message.
Outdated(a, msg) ==
    \/ a \in autoReply \/ \E i \in items : i.kind = "reply" /\ i.att = a
    \/ org # None /\ org.ps[a] # msg.ps
    \/ msg.seq <= dropped[a] \/ msg.seq < heard[a]

Keep == UNCHANGED <<copy, autoReply, unsure, revived>>

doImplicitAttendeeRequest(a, msg, refreshing) ==
    \E c \in AutoAnswer(a, Merged(msg, copy[a]), refreshing) :
       /\ copy' = [copy EXCEPT ![a] = c]
       /\ autoReply' = IF c # Merged(msg, copy[a]) THEN autoReply \cup {a} ELSE autoReply
       /\ revived' = revived \cup {b \in {a} : copy[a] = None /\ Outdated(a, msg)}
       /\ UNCHANGED unsure

\* Mutant: an auto-reply item outlives the copy.
Cascade_none(a) == autoReply

\* The auto-reply item of an attendee is deleted with his copy.
Cascade(a) == autoReply \ {a}

doImplicitAttendeeCancel(a, msg) ==
    /\ copy' = [copy EXCEPT ![a] =
          IF a \in Automatic THEN None ELSE [@ EXCEPT !.cancelled = TRUE, !.seq = msg.seq]]
    /\ autoReply' = IF a \in Automatic THEN Cascade(a) ELSE autoReply
    /\ unsure' = unsure \cup (autoReply \ autoReply')
    /\ UNCHANGED revived

Receive(a, msg, refreshing) ==
    /\ cancelled' = IF msg.method = "CANCEL" /\ msg.seq > cancelled[a]
                    THEN [cancelled EXCEPT ![a] = msg.seq] ELSE cancelled
    /\ heard' = IF msg.method = "REQUEST" /\ msg.seq > heard[a]
                THEN [heard EXCEPT ![a] = msg.seq] ELSE heard
    /\ IF Ignored(a, msg) THEN Keep
       ELSE \/ msg.method = "REQUEST" /\ doImplicitAttendeeRequest(a, msg, refreshing)
            \/ msg.method = "CANCEL" /\ doImplicitAttendeeCancel(a, msg)

-----------------------------------------------------------------------------
\* ScheduleOrganizerSendWork

Send(i) ==
    /\ i \in items /\ i.kind = "send" /\ i.att \notin down
    /\ Receive(i.att, i.msg, FALSE)
    /\ items' = items \ {i}
    /\ UNCHANGED <<org, deleted, down, refresh, boundVars, answered, erased,
                   regressed, dropped, lost>>

\* The message arrives on the other server, but the item does not complete.
SendAgain(i) ==
    /\ i \in items /\ i.kind = "send" /\ i.att \in Remote \ down
    /\ dups < MaxDuplicates
    /\ dups' = dups + 1
    /\ Receive(i.att, i.msg, FALSE)
    /\ UNCHANGED <<org, deleted, down, items, refresh, puts, answers, answered,
                   erased, regressed, dropped, lost>>

\* Mutant: an item that cannot send its message is tried again for ever.
checkTemporaryFailure_none(i, exists) == exists

\* The item is to be tried again.  Nothing is checked when the resource that
\* would record the failure is gone.
checkTemporaryFailure(i, exists) ==
    exists /\ i.failed < MaxTemporaryFailures

SendRetry(i) ==
    /\ i \in items /\ i.kind = "send" /\ i.att \in Remote
    /\ checkTemporaryFailure(i, Exists(i.id))
    /\ items' = (items \ {i}) \cup
                {[i EXCEPT !.failed = IF @ < MaxTemporaryFailures THEN @ + 1 ELSE @]}
    /\ UNCHANGED <<org, deleted, down, copy, autoReply, refresh, boundVars,
                   histVars>>

\* Mutant: the failure is not recorded.
handleSchedulingResponse_none(i) == org

\* The failure is recorded in the organizer's copy, if there is one that has
\* the attendee.
handleSchedulingResponse(i) ==
    IF Exists(i.id) /\ i.att \in org.atts THEN [org EXCEPT !.stat[i.att] = "5.1"] ELSE org

SendGiveUp(i) ==
    /\ i \in items /\ i.kind = "send" /\ i.att \in Remote
    /\ ~checkTemporaryFailure(i, Exists(i.id))
    /\ items' = items \ {i}
    /\ org' = handleSchedulingResponse(i)
    /\ lost' = lost \cup {<<i.att, i.msg.seq>>}
    /\ UNCHANGED <<deleted, down, copy, autoReply, refresh, boundVars, answered,
                   erased, regressed, cancelled, dropped, heard, unsure, revived>>

-----------------------------------------------------------------------------
\* An attendee's PUT and DELETE

ReplyWork(a, c, p, resource) ==
    [kind |-> "reply", att |-> a, seq |-> c.seq, time |-> c.time, ps |-> p,
     n |-> answers', resource |-> resource, failed |-> 0]

Replies(a) == {i \in items : i.kind = "reply" /\ i.att = a}

\* PARTSTAT is changed, and a reply queued.  An attendee on the server of the
\* organizer whose event is gone loses his copy, unless it is cancelled.
AttendeePut(a, p) ==
    /\ copy[a] # None /\ copy[a].ps # p /\ answers < MaxAnswers
    /\ answers' = answers + 1
    /\ \/ /\ a \in Remote \/ org # None
          /\ copy' = [copy EXCEPT ![a].ps = p]
          /\ items' = items \cup {ReplyWork(a, copy[a], p, TRUE)}
          /\ UNCHANGED autoReply
       \/ /\ a \notin Remote /\ org = None /\ copy[a].cancelled
          /\ copy' = [copy EXCEPT ![a].ps = p]
          /\ UNCHANGED <<items, autoReply>>
       \/ /\ a \notin Remote /\ org = None /\ ~copy[a].cancelled
          /\ copy' = [copy EXCEPT ![a] = None]
          /\ autoReply' = Cascade(a)
          /\ UNCHANGED items
    /\ dropped' = IF copy'[a] = None THEN [dropped EXCEPT ![a] = copy[a].seq] ELSE dropped
    /\ unsure' = unsure \cup (autoReply \ autoReply')
    /\ UNCHANGED <<org, deleted, down, refresh, puts, dups, answered, erased,
                   regressed, cancelled, heard, lost, revived>>

\* A copy that is deleted declines, unless it was cancelled or declined.
AttendeeDelete(a) ==
    /\ copy[a] # None /\ answers < MaxAnswers
    /\ answers' = answers + 1
    /\ copy' = [copy EXCEPT ![a] = None]
    /\ autoReply' = Cascade(a)
    /\ IF copy[a].cancelled \/ copy[a].ps = "DECLINED"
       THEN UNCHANGED items
       ELSE items' = items \cup {ReplyWork(a, copy[a], "DECLINED", FALSE)}
    /\ dropped' = IF copy'[a] = None THEN [dropped EXCEPT ![a] = copy[a].seq] ELSE dropped
    /\ unsure' = unsure \cup (autoReply \ autoReply')
    /\ UNCHANGED <<org, deleted, down, refresh, puts, dups, answered, erased,
                   regressed, cancelled, heard, lost, revived>>

\* ScheduleAutoReplyWork: a reply is queued with what the copy says now.
SendAutoReply(a) ==
    /\ a \in autoReply
    /\ UNCHANGED <<org, deleted, down, copy, refresh, boundVars, histVars>>
    /\ autoReply' = autoReply \ {a}
    /\ items' = IF copy[a] = None THEN items
                ELSE items \cup {ReplyWork(a, copy[a], copy[a].ps, TRUE)}

-----------------------------------------------------------------------------
\* ScheduleReplyWork

\* Mutant: a reply counts whatever has happened since.
replyCounts_always(e, i) == i.att \in e.atts

\* A reply counts if it was made after the last reset of the PARTSTAT.
replyCounts(e, i) == i.att \in e.atts /\ i.seq >= e.reset[i.att]

updateAttendeeDataFromReply(e, i) ==
    IF replyCounts(e, i)
    THEN [e EXCEPT !.ps[i.att] = i.ps, !.stat[i.att] = "2.0"] ELSE e

doImplicitOrganizerUpdate(i) ==
    /\ i \in items /\ i.kind = "reply" /\ i.att \notin down
    /\ items' = items \ {i}
    /\ IF org = None THEN UNCHANGED <<org, refresh, answered>>
       ELSE /\ org' = updateAttendeeDataFromReply(org, i)
            /\ answered' = IF replyCounts(org, i) THEN [answered EXCEPT ![i.att] = i.time]
                           ELSE answered
            /\ refresh' = IF org'.ps # org.ps THEN refresh \cup (org.atts \ {i.att})
                          ELSE refresh
    /\ unsure' = IF \E j \in Replies(i.att) \ {i} : j.n <= i.n THEN unsure \cup {i.att}
                 ELSE unsure
    /\ UNCHANGED <<deleted, down, copy, autoReply, boundVars, erased, regressed,
                   cancelled, dropped, heard, lost, revived>>

ReplyRetry(i) ==
    /\ i \in items /\ i.kind = "reply" /\ i.att \in Remote
    /\ checkTemporaryFailure(i, i.resource /\ copy[i.att] # None)
    /\ items' = (items \ {i}) \cup
                {[i EXCEPT !.failed = IF @ < MaxTemporaryFailures THEN @ + 1 ELSE @]}
    /\ UNCHANGED <<org, deleted, down, copy, autoReply, refresh, boundVars,
                   histVars>>

ReplyGiveUp(i) ==
    /\ i \in items /\ i.kind = "reply" /\ i.att \in Remote
    /\ ~checkTemporaryFailure(i, i.resource /\ copy[i.att] # None)
    /\ items' = items \ {i}
    /\ unsure' = unsure \cup {i.att}
    /\ UNCHANGED <<org, deleted, down, copy, autoReply, refresh, boundVars, answered,
                   erased, regressed, cancelled, dropped, heard, lost, revived>>

\* ScheduleRefreshWork: the organizer's current data is sent to an attendee.
\* If it cannot be delivered that is not recorded, and it is not sent again.
Refresh(a) ==
    /\ a \in refresh
    /\ refresh' = refresh \ {a}
    /\ \/ a \in org.atts \ down /\ Receive(a, generateAttendeeRequest(org, a), TRUE)
       \/ UNCHANGED <<copy, autoReply, cancelled, heard, unsure, revived>>
    /\ UNCHANGED <<org, deleted, down, items, boundVars, answered, erased,
                   regressed, dropped, lost>>

-----------------------------------------------------------------------------
OrganizerStep ==
    \/ \E A \in SUBSET Attendees \ {{}} :
          \/ OrganizerCreate(A)
          \/ \E moved \in BOOLEAN, N \in SUBSET A : OrganizerModify(A, moved, N)
    \/ OrganizerRestore
    \/ OrganizerDelete

AttendeeStep(a) ==
    AttendeeDelete(a) \/ \E p \in {"ACCEPTED", "DECLINED"} : AttendeePut(a, p)

Fault(i) ==
    SendAgain(i) \/ SendRetry(i) \/ SendGiveUp(i) \/ ReplyRetry(i) \/ ReplyGiveUp(i)

RunItem ==
    \/ \E i \in items : queuedOrganizerProcessing(i) \/ Send(i)
                        \/ doImplicitOrganizerUpdate(i) \/ Fault(i)
    \/ \E a \in Attendees : SendAutoReply(a) \/ Refresh(a)

Next == OrganizerStep \/ (\E a \in Attendees : AttendeeStep(a)) \/ RunItem

\* The job queue runs what is there, whether or not other servers answer.
\* Nobody has to change the event.
Fairness == WF_vars(RunItem)

Spec == Init /\ [][Next]_vars /\ Fairness

-----------------------------------------------------------------------------
\* Properties

Quiet == items = {} /\ autoReply = {} /\ refresh = {}

\* Messages and work items
CancelMsgs == [method : {"CANCEL"}, seq : Nat]
RequestMsgs == [method : {"REQUEST"}, seq : Nat, time : Nat, ps : PartStats, reset : Nat]
OrganizerItems ==
    [kind : {"organizer"}, action : {"create"}, old : {None}, new : Events]
    \cup [kind : {"organizer"}, action : {"modify"}, old : Events, new : Events]
    \cup [kind : {"organizer"}, action : {"remove"}, old : Events, new : {None}]
SendItems == [kind : {"send"}, id : Nat \cup {None}, att : Attendees,
              msg : CancelMsgs \cup RequestMsgs, failed : Nat]
ReplyItems == [kind : {"reply"}, att : Attendees, seq : Nat, time : Nat, ps : PartStats,
               n : Nat, resource : BOOLEAN, failed : Nat]

TypeOK ==
    /\ org \in Events \cup {None} /\ deleted \in Events \cup {None}
    /\ \A e \in {org, deleted} \ {None} :
          e.time <= e.seq /\ \A a \in Attendees : e.reset[a] <= e.seq
    /\ copy \in [Attendees -> Copies \cup {None}]
    /\ \A a \in Attendees : copy[a] # None => copy[a].time <= copy[a].seq
    /\ items \subseteq OrganizerItems \cup SendItems \cup ReplyItems
    /\ autoReply \subseteq {a \in Automatic : copy[a] # None} /\ refresh \subseteq Attendees
    /\ org = None => refresh = {}
    /\ puts \in 0..MaxPuts /\ answers \in 0..MaxAnswers /\ dups \in 0..MaxDuplicates
    /\ answered \in [Attendees -> Nat] /\ cancelled \in [Attendees -> Nat]
    /\ dropped \in [Attendees -> Int] /\ heard \in [Attendees -> Int]
    /\ lost \subseteq Attendees \X Nat /\ regressed \in BOOLEAN

\* Whatever the order in which items run and messages arrive, once the queue is
\* empty every attendee of the event has its present version.  Excepted is who
\* has no copy since he declined, to whom the message of that version was given
\* up, who deleted a copy that an older message made again, who has no copy of an
\* event that was deleted and restored (an answer to the old one may count for
\* the new one), and an event that was restored without a new SEQUENCE.
EveryoneUpToDate ==
    Quiet /\ org # None /\ ~regressed =>
       \A a \in org.atts :
          \/ copy[a] # None /\ copy[a].seq = org.seq /\ copy[a].time = org.time
             /\ ~copy[a].cancelled
          \/ copy[a] = None /\ (org.ps[a] = "DECLINED" \/ a \in unsure \cup erased)
          \/ <<a, org.seq>> \in lost
          \/ a \in revived

\* Once the queue is empty the organizer and an attendee who has the present
\* version agree on his answer, also when he was removed and invited again, unless
\* a reply was overtaken by another (replies carry no order), was lost, or crossed
\* with a message that brought the event back, or the event was deleted and
\* restored: its resets are older than the CANCEL.
AnswersAgree ==
    Quiet /\ org # None =>
       \A a \in org.atts \ (unsure \cup revived \cup erased) :
          copy[a] # None /\ copy[a].seq = org.seq => copy[a].ps = org.ps[a]

\* An answer never counts for a time other than the one it was given for: a reply
\* on its way when the organizer moves the event is not applied after it, nor is
\* one on its way when he removes an attendee whom he invites again later.
\* Excepted is an event that was deleted and restored: a cancelled copy has the
\* SEQUENCE of the CANCEL, which is above the resets of the restored event,
\* whatever its time.
AnswerIsForThisTime ==
    org # None =>
       \A a \in org.atts \ erased :
          org.ps[a] # "NEEDS-ACTION" => answered[a] >= org.time

\* Once the queue is empty nobody outside of the event keeps a live copy,
\* unless a CANCEL to him was given up, or came before the REQUEST that made
\* the copy.
NoStrayCopies ==
    Quiet =>
       \A a \in Attendees :
          (org = None \/ a \notin org.atts) /\ copy[a] # None /\ ~copy[a].cancelled =>
             \/ \E s \in {m[2] : m \in {l \in lost : l[1] = a}} : s >= copy[a].seq
             \/ cancelled[a] > copy[a].seq

\* The organizer can see that the present version did not reach an attendee: the
\* copy shows no delivery for him, unless he has replied since.
FailureShown ==
    org # None /\ ~regressed =>
       \A a \in org.atts : <<a, org.seq>> \in lost => org.stat[a] # "1.2"

\* An event that was deleted and is restored reaches its attendees: nobody to
\* whom its message was not given up keeps the copy that the CANCEL had cancelled.
RestoredEventArrives ==
    Quiet /\ org # None =>
       \A a \in org.atts :
          copy[a] # None /\ copy[a].cancelled => \E l \in lost : l[1] = a

\* The queue gets empty, even when other servers never answer: every message
\* is sent or given up.
QueueDrains == []<>Quiet
=============================================================================
