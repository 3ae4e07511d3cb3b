--------------------- MODULE ImplicitScheduling_proofs ----------------------
(***************************************************************************)
(* Proofs about ImplicitScheduling for any attendees, any number of        *)
(* changes, answers, repeated messages and retries.                        *)
(***************************************************************************)
EXTENDS ImplicitScheduling, TLAPS

-----------------------------------------------------------------------------
\* The inductive invariant

\* Whom an organizer item will have a CANCEL sent to
Gone(i) ==
    IF i.action = "remove" THEN i.old.atts
    ELSE IF i.action = "modify" THEN i.old.atts \ i.new.atts ELSE {}

\* Item i is, or will make, the REQUEST m to a.
Brings(i, a, m) ==
    \/ i.kind = "send" /\ i.att = a /\ i.msg.method = "REQUEST" /\ m = i.msg
    \/ /\ i.kind = "organizer" /\ i.action # "remove" /\ a \in i.new.atts
       /\ m = generateAttendeeRequest(i.new, a)

\* Item i is, or will make, a CANCEL to a with the SEQUENCE q.
Takes(i, a, q) ==
    \/ i.kind = "send" /\ i.att = a /\ i.msg.method = "CANCEL" /\ q = i.msg.seq
    \/ i.kind = "organizer" /\ a \in Gone(i) /\ q = i.old.seq + 1

\* The REQUESTs, and the SEQUENCEs of the CANCELs, that are to come to a
Asked(a) ==
    {i.msg : i \in {j \in items : j.kind = "send" /\ j.att = a /\ j.msg.method = "REQUEST"}}
    \cup {generateAttendeeRequest(i.new, a) :
            i \in {j \in items : j.kind = "organizer" /\ j.action # "remove" /\ a \in j.new.atts}}
Cancelling(a) ==
    {i.msg.seq : i \in {j \in items : j.kind = "send" /\ j.att = a /\ j.msg.method = "CANCEL"}}
    \cup {i.old.seq + 1 : i \in {j \in items : j.kind = "organizer" /\ a \in Gone(j)}}

\* The organizer's copy does not have a.
Out(a) == org = None \/ a \notin org.atts

\* The SEQUENCE of the last version of the event
Last == IF org # None THEN org.seq ELSE IF deleted # None THEN deleted.seq ELSE 0

Live(c) == c # None /\ ~c.cancelled

\* Nothing is asked of an attendee, or known to him, that was not a version.
VersionInv(a) ==
    /\ \A m \in Asked(a) : m.time <= m.seq /\ m.seq <= Last
    /\ Live(copy[a]) => copy[a].seq <= Last /\ copy[a].seq <= heard[a]

\* A CANCEL with a SEQUENCE above v has come, is to come, or was given up.
Told(a, v) ==
    \/ \E q \in Cancelling(a) : q > v
    \/ \E l \in lost : l[1] = a /\ l[2] > v
    \/ cancelled[a] > v

\* Whoever is no longer in the event is told, whatever REQUEST is still to come.
StrayInv(a) ==
    Out(a) => /\ \A m \in Asked(a) : Told(a, m.seq)
              /\ Live(copy[a]) => Told(a, copy[a].seq)

\* As long as no event was restored without a new SEQUENCE, what is older than
\* the present version has a lower SEQUENCE.
Below(a, q) ==
    IF org = None THEN deleted # None /\ q <= deleted.seq + 2
    ELSE q <= org.seq /\ (a \in org.atts => q < org.seq)
OrderInv(a) ==
    ~regressed =>
      /\ \A q \in Cancelling(a) : Below(a, q)
      /\ copy[a] # None /\ copy[a].cancelled => Below(a, copy[a].seq)
      /\ ~Out(a) => \A m \in Asked(a) : m.seq = org.seq => m.time = org.time
LostInv ==
    ~regressed => \A l \in lost :
        IF org = None THEN deleted # None /\ l[2] <= deleted.seq + 2 ELSE l[2] <= org.seq

\* An item of the present version was made for the resource there is.
IdInv ==
    ~regressed /\ org # None =>
      \A i \in items :
         /\ i.kind = "send" /\ i.att \in org.atts /\ i.msg.seq = org.seq => i.id = org.id
         /\ i.kind = "organizer" /\ i.action = "modify" /\ i.new.seq = org.seq =>
               i.new.id = org.id

\* A modification is from one version to the next, and replies are numbered.
ItemInv ==
    \A i \in items :
       /\ i.kind = "organizer" /\ i.action = "modify" =>
             i.new.seq = i.old.seq + 1 /\ i.new.seq <= Last
       /\ i.kind = "reply" => i.n <= answers

\* Before the event is first created there is nothing.
BlankInv ==
    /\ org = None /\ deleted = None =>
         /\ items = {} /\ lost = {} /\ erased = {}
         /\ \A a \in Attendees : copy[a] = None /\ dropped[a] = -1
    /\ deleted # None => deleted.atts \subseteq erased

\* An attendee whose event was never deleted: as long as he is out of it nothing is
\* younger than the last version, so that he is asked anew when he is invited
\* again; while he is in it, CANCELs are from before he was asked last, and whatever
\* has a SEQUENCE from then on is for the present time.
Era(a, x) == x.seq <= org.seq /\ (x.seq >= org.reset[a] => x.time = org.time)
FreshInv(a) ==
    a \notin erased =>
      /\ Out(a) =>
            /\ \A q \in Cancelling(a) : q <= Last
            /\ copy[a] # None => copy[a].seq <= Last
            /\ dropped[a] <= Last
            /\ \A i \in Replies(a) : i.seq <= Last
      /\ ~Out(a) =>
            /\ \A q \in Cancelling(a) : q < org.reset[a]
            /\ copy[a] # None => /\ Era(a, copy[a])
                                 /\ copy[a].cancelled => copy[a].seq < org.reset[a]
            /\ dropped[a] <= org.seq
            /\ \A m \in Asked(a) : Era(a, m) /\ (m.seq >= org.reset[a] => m.reset = org.reset[a])
            /\ \A i \in Replies(a) : Era(a, i)
            /\ org.ps[a] # "NEEDS-ACTION" => answered[a] >= org.time

\* A copy is younger than the one that was deleted before it.
DroppedInv(a) == a \notin revived /\ copy[a] # None => dropped[a] < copy[a].seq

\* He has not been asked since.
NotYet(a) == (IF copy[a] = None THEN dropped[a] ELSE copy[a].seq) < org.reset[a]

\* When all replies have arrived, the organizer will have p.
WillBe(a, p) ==
    IF \A i \in Replies(a) : i.seq < org.reset[a] THEN org.ps[a] = p
    ELSE \E i \in Replies(a) :
           i.seq >= org.reset[a] /\ i.ps = p /\ \A j \in Replies(a) : j.n <= i.n

AgreeInv(a) ==
    ~Out(a) /\ a \notin erased \cup unsure \cup revived =>
      IF NotYet(a)
      THEN /\ org.ps[a] = "NEEDS-ACTION"
           /\ \A i \in Replies(a) : i.seq < org.reset[a]
           /\ \A m \in Asked(a) : m.seq >= org.reset[a] => m.ps = "NEEDS-ACTION"
      ELSE a \notin autoReply =>
             WillBe(a, IF copy[a] = None THEN "DECLINED" ELSE copy[a].ps)

\* The present version is to come to him, or has come, or he declined it by
\* deleting his copy, or it was given up.
UpToDate(a) == Live(copy[a]) /\ copy[a].seq = org.seq /\ copy[a].time = org.time
TurnedDown(a) ==
    /\ copy[a] = None /\ heard[a] >= org.seq
    /\ a \in unsure \cup erased \/ dropped[a] >= org.reset[a]
ArriveInv(a) ==
    ~regressed /\ ~Out(a) =>
      \/ \E m \in Asked(a) : m.seq = org.seq
      \/ UpToDate(a) \/ TurnedDown(a)
      \/ <<a, org.seq>> \in lost
      \/ a \in revived

AttInv(a) ==
    /\ VersionInv(a) /\ StrayInv(a) /\ OrderInv(a)
    /\ FreshInv(a) /\ DroppedInv(a) /\ AgreeInv(a) /\ ArriveInv(a)

Inv ==
    /\ TypeOK /\ BlankInv /\ LostInv /\ IdInv /\ ItemInv /\ FailureShown
    /\ \A a \in Attendees : AttInv(a)

-----------------------------------------------------------------------------
\* Items and messages

\* An item in the queue is one of the three kinds, with the fields of its kind.
LEMMA ItemTypes ==
    ASSUME TypeOK, NEW i \in items
    PROVE  /\ i.kind = "send" => i \in SendItems
           /\ i.kind = "reply" => i \in ReplyItems
           /\ i.kind = "organizer" => i \in OrganizerItems
           /\ i.kind \in {"send", "reply", "organizer"}
BY DEF TypeOK, SendItems, ReplyItems, OrganizerItems

\* The fields of a send item and of its message
LEMMA SendTypes ==
    ASSUME NEW i \in SendItems
    PROVE  /\ i.kind = "send" /\ i.att \in Attendees /\ i.failed \in Nat /\ i.msg.seq \in Nat
           /\ i.id \in Nat \cup {None} /\ i.msg.method \in {"CANCEL", "REQUEST"}
           /\ i.msg.method = "REQUEST" => i.msg \in RequestMsgs
           /\ i.msg.method = "CANCEL" => i.msg \in CancelMsgs
BY DEF SendItems, CancelMsgs, RequestMsgs

\* The fields of an organizer item
LEMMA OrganizerTypes ==
    ASSUME NEW i \in OrganizerItems
    PROVE  /\ i.kind = "organizer" /\ i.action \in {"create", "modify", "remove"}
           /\ i.action = "create" => i.old = None /\ i.new \in Events
           /\ i.action = "modify" => i.old \in Events /\ i.new \in Events
           /\ i.action = "remove" => i.old \in Events /\ i.new = None
BY DEF OrganizerItems

\* The fields of a reply item
LEMMA ReplyTypes ==
    ASSUME NEW i \in ReplyItems
    PROVE  /\ i.kind = "reply" /\ i.att \in Attendees /\ i.seq \in Nat /\ i.time \in Nat
           /\ i.ps \in PartStats /\ i.n \in Nat /\ i.resource \in BOOLEAN /\ i.failed \in Nat
BY DEF ReplyItems

\* The fields of an event
LEMMA EventTypes ==
    ASSUME NEW e \in Events
    PROVE  /\ e.id \in Nat /\ e.seq \in Nat /\ e.time \in Nat /\ e.atts \subseteq Attendees
           /\ e.ps \in [Attendees -> PartStats] /\ e.reset \in [Attendees -> Nat]
           /\ e.stat \in [Attendees -> {"1.2", "2.0", "5.1"}] /\ e # None
BY SchedulingAssumption DEF Events

\* The fields of an attendee's copy
LEMMA CopyTypes ==
    ASSUME NEW c \in Copies
    PROVE  /\ c.seq \in Nat /\ c.time \in Nat /\ c.cancelled \in BOOLEAN /\ c.ps \in PartStats
           /\ c # None
BY SchedulingAssumption DEF Copies

\* The REQUEST an event has sent to an attendee
LEMMA RequestTypes ==
    ASSUME NEW e \in Events, NEW a \in Attendees
    PROVE  /\ generateAttendeeRequest(e, a) \in RequestMsgs
           /\ generateAttendeeRequest(e, a).method = "REQUEST"
           /\ generateAttendeeRequest(e, a).seq = e.seq
           /\ generateAttendeeRequest(e, a).time = e.time
           /\ generateAttendeeRequest(e, a).ps = e.ps[a]
           /\ generateAttendeeRequest(e, a).reset = e.reset[a]
BY EventTypes DEF generateAttendeeRequest, RequestMsgs

\* Asked and Cancelling in terms of the items
LEMMA Members ==
    ASSUME NEW a, NEW m
    PROVE  /\ m \in Asked(a) <=> \E i \in items : Brings(i, a, m)
           /\ m \in Cancelling(a) <=> \E i \in items : Takes(i, a, m)
           /\ m \in Asked(a)' <=> \E i \in items' : Brings(i, a, m)
           /\ m \in Cancelling(a)' <=> \E i \in items' : Takes(i, a, m)
<1>1. m \in Asked(a) <=> \E i \in items : Brings(i, a, m)
  BY DEF Asked, Brings
<1>2. m \in Cancelling(a) <=> \E i \in items : Takes(i, a, m)
  BY DEF Cancelling, Takes
<1>3. m \in Asked(a)' <=> \E i \in items' : Brings(i, a, m)
  BY DEF Asked, Brings
<1>4. m \in Cancelling(a)' <=> \E i \in items' : Takes(i, a, m)
  BY DEF Cancelling, Takes
<1> QED BY <1>1, <1>2, <1>3, <1>4

\* What is asked is a REQUEST.
LEMMA AskedTypes ==
    ASSUME TypeOK, NEW a \in Attendees
    PROVE  \A m \in Asked(a) : /\ m \in RequestMsgs /\ m.method = "REQUEST" /\ m.seq \in Nat
                               /\ m.time \in Nat /\ m.ps \in PartStats /\ m.reset \in Nat
<1> SUFFICES ASSUME NEW m \in Asked(a) PROVE m \in RequestMsgs
  BY DEF RequestMsgs
<1>1. PICK i \in items : Brings(i, a, m)
  BY Members
<1>2. CASE i.kind = "send"
  BY <1>1, <1>2, ItemTypes, SendTypes DEF Brings
<1>3. CASE i.kind = "organizer"
  BY <1>1, <1>3, ItemTypes, OrganizerTypes, RequestTypes DEF Brings
<1> QED BY <1>1, <1>2, <1>3 DEF Brings

\* The SEQUENCE of a CANCEL is a natural number.
LEMMA CancellingTypes ==
    ASSUME TypeOK, NEW a \in Attendees
    PROVE  Cancelling(a) \subseteq Nat
<1> SUFFICES ASSUME NEW q \in Cancelling(a) PROVE q \in Nat
  OBVIOUS
<1>1. PICK i \in items : Takes(i, a, q)
  BY Members
<1>2. CASE i.kind = "send"
  BY <1>1, <1>2, ItemTypes, SendTypes DEF Takes
<1>3. CASE i.kind = "organizer"
  <2>1. i \in OrganizerItems /\ a \in Gone(i) /\ q = i.old.seq + 1
    BY <1>1, <1>3, ItemTypes DEF Takes
  <2>2. i.old \in Events
    BY <2>1, OrganizerTypes DEF Gone
  <2> QED BY <2>1, <2>2, EventTypes
<1> QED BY <1>1, <1>2, <1>3 DEF Takes

-----------------------------------------------------------------------------
\* What the changes of the queue do to the messages that are to come

\* A new item of the organizer
LEMMA PutDelta ==
    ASSUME NEW a, NEW action \in {"create", "modify", "remove"}, NEW old, NEW new,
           items' = items \cup {OrganizerWork(action, old, new)}
    PROVE  /\ \A m : m \in Asked(a)' <=>
                 \/ m \in Asked(a)
                 \/ action # "remove" /\ a \in new.atts /\ m = generateAttendeeRequest(new, a)
           /\ \A q : q \in Cancelling(a)' <=>
                 \/ q \in Cancelling(a)
                 \/ action = "remove" /\ a \in old.atts /\ q = old.seq + 1
                 \/ action = "modify" /\ a \in old.atts \ new.atts /\ q = old.seq + 1
           /\ Replies(a)' = Replies(a)
<1> DEFINE it == OrganizerWork(action, old, new)
<1>1. it.kind = "organizer" /\ it.action = action /\ it.old = old /\ it.new = new
  BY DEF OrganizerWork
<1>2. \A i : i \in items' <=> i \in items \/ i = it
  OBVIOUS
<1> HIDE DEF it
<1>3. \A m : Brings(it, a, m) <=> /\ m = generateAttendeeRequest(new, a)
                                  /\ action # "remove" /\ a \in new.atts
  BY <1>1 DEF Brings
<1>4. \A q : Takes(it, a, q) <=> /\ q = old.seq + 1
                                 /\ \/ action = "remove" /\ a \in old.atts
                                    \/ action = "modify" /\ a \in old.atts \ new.atts
  BY <1>1 DEF Takes, Gone
<1>5. \A m : m \in Asked(a)' <=> m \in Asked(a) \/ Brings(it, a, m)
  BY <1>2, Members
<1>6. \A q : q \in Cancelling(a)' <=> q \in Cancelling(a) \/ Takes(it, a, q)
  BY <1>2, Members
<1>7. Replies(a)' = Replies(a)
  BY <1>1, <1>2 DEF Replies
<1> QED BY <1>3, <1>4, <1>5, <1>6, <1>7

\* The item of a created event
LEMMA CreateDelta ==
    ASSUME NEW a, NEW e, items' = items \cup {OrganizerWork("create", None, e)}
    PROVE  /\ Asked(a)' = Asked(a) \cup {m \in {generateAttendeeRequest(e, a)} : a \in e.atts}
           /\ Cancelling(a)' = Cancelling(a) /\ Replies(a)' = Replies(a)
<1>1. "create" \in {"create", "modify", "remove"}
  OBVIOUS
<1>2. /\ \A m : m \in Asked(a)' <=>
           m \in Asked(a) \/ (a \in e.atts /\ m = generateAttendeeRequest(e, a))
      /\ \A q : q \in Cancelling(a)' <=> q \in Cancelling(a)
      /\ Replies(a)' = Replies(a)
  BY <1>1, PutDelta
<1> QED BY <1>2

\* The item of a modified event
LEMMA ModifyDelta ==
    ASSUME NEW a, NEW d, NEW e, items' = items \cup {OrganizerWork("modify", d, e)}
    PROVE  /\ Asked(a)' = Asked(a) \cup {m \in {generateAttendeeRequest(e, a)} : a \in e.atts}
           /\ Cancelling(a)' = Cancelling(a) \cup {q \in {d.seq + 1} : a \in d.atts \ e.atts}
           /\ Replies(a)' = Replies(a)
<1>1. "modify" \in {"create", "modify", "remove"}
  OBVIOUS
<1> QED BY <1>1, PutDelta

\* The item of a deleted event
LEMMA RemoveDelta ==
    ASSUME NEW a, NEW d, items' = items \cup {OrganizerWork("remove", d, None)}
    PROVE  /\ Asked(a)' = Asked(a)
           /\ Cancelling(a)' = Cancelling(a) \cup {q \in {d.seq + 1} : a \in d.atts}
           /\ Replies(a)' = Replies(a)
<1>1. "remove" \in {"create", "modify", "remove"}
  OBVIOUS
<1>2. /\ \A m : m \in Asked(a)' <=> m \in Asked(a)
      /\ \A q : q \in Cancelling(a)' <=>
           q \in Cancelling(a) \/ (a \in d.atts /\ q = d.seq + 1)
      /\ Replies(a)' = Replies(a)
  BY <1>1, PutDelta
<1> QED BY <1>2

\* A send item is done.
LEMMA SendDelta ==
    ASSUME NEW a, NEW i \in items, i.kind = "send", items' = items \ {i}
    PROVE  /\ Asked(a)' \subseteq Asked(a) /\ Cancelling(a)' \subseteq Cancelling(a)
           /\ Replies(a)' = Replies(a)
           /\ \A m \in Asked(a) : \/ m \in Asked(a)'
                                  \/ i.att = a /\ i.msg.method = "REQUEST" /\ m = i.msg
           /\ \A q \in Cancelling(a) :
                 \/ q \in Cancelling(a)'
                 \/ i.att = a /\ i.msg.method = "CANCEL" /\ q = i.msg.seq
<1>1. Asked(a)' \subseteq Asked(a)
  BY Members
<1>2. Cancelling(a)' \subseteq Cancelling(a)
  BY Members
<1>3. ASSUME NEW m \in Asked(a), m \notin Asked(a)'
      PROVE  i.att = a /\ i.msg.method = "REQUEST" /\ m = i.msg
  <2>1. Brings(i, a, m)
    BY <1>3, Members
  <2> QED BY <2>1 DEF Brings
<1>4. ASSUME NEW q \in Cancelling(a), q \notin Cancelling(a)'
      PROVE  i.att = a /\ i.msg.method = "CANCEL" /\ q = i.msg.seq
  <2>1. Takes(i, a, q)
    BY <1>4, Members
  <2> QED BY <2>1 DEF Takes
<1>5. Replies(a)' = Replies(a)
  BY DEF Replies
<1> QED BY <1>1, <1>2, <1>3, <1>4, <1>5

\* The message of a send item is to come.
LEMMA SendBrings ==
    ASSUME TypeOK, NEW i \in items, i.kind = "send"
    PROVE  /\ i.msg.method = "REQUEST" => i.msg \in Asked(i.att)
           /\ i.msg.method = "CANCEL" => i.msg.seq \in Cancelling(i.att)
<1>1. i.msg.method = "REQUEST" => Brings(i, i.att, i.msg)
  BY DEF Brings
<1>2. i.msg.method = "CANCEL" => Takes(i, i.att, i.msg.seq)
  BY DEF Takes
<1> QED BY <1>1, <1>2, Members

\* A send item is tried again.
LEMMA RetryDelta ==
    ASSUME NEW a, NEW i \in items, i \in SendItems, NEW f \in Nat,
           items' = (items \ {i}) \cup {[i EXCEPT !.failed = f]}
    PROVE  Asked(a)' = Asked(a) /\ Cancelling(a)' = Cancelling(a) /\ Replies(a)' = Replies(a)
<1> DEFINE j == [i EXCEPT !.failed = f]
<1>1. j.kind = i.kind /\ i.kind = "send" /\ j.att = i.att /\ j.msg = i.msg
  BY DEF SendItems
<1>2. j \in items' /\ \A k : k \in items' <=> k = j \/ (k \in items /\ k # i)
  OBVIOUS
<1> HIDE DEF j
<1>3. \A m : Brings(j, a, m) <=> Brings(i, a, m)
  BY <1>1 DEF Brings
<1>4. \A q : Takes(j, a, q) <=> Takes(i, a, q)
  BY <1>1 DEF Takes
<1>5. \A m : m \in Asked(a)' <=> m \in Asked(a)
  BY <1>2, <1>3, Members
<1>6. \A q : q \in Cancelling(a)' <=> q \in Cancelling(a)
  BY <1>2, <1>4, Members
<1>7. Replies(a)' = Replies(a)
  BY <1>1, <1>2 DEF Replies
<1> QED BY <1>5, <1>6, <1>7

\* Reply items come and go.
LEMMA ReplyDelta ==
    ASSUME NEW a, NEW S, NEW T, items' = (items \ S) \cup T,
           \A i \in S \cup T : i.kind = "reply"
    PROVE  /\ Asked(a)' = Asked(a) /\ Cancelling(a)' = Cancelling(a)
           /\ Replies(a)' = (Replies(a) \ S) \cup {i \in T : i.att = a}
<1>1. \A k : k \in items' <=> (k \in items /\ k \notin S) \/ k \in T
  OBVIOUS
<1>2. \A k \in S \cup T : \A m : ~Brings(k, a, m) /\ ~Takes(k, a, m)
  BY DEF Brings, Takes
<1>3. \A m : m \in Asked(a)' <=> m \in Asked(a)
  BY <1>1, <1>2, Members
<1>4. \A q : q \in Cancelling(a)' <=> q \in Cancelling(a)
  BY <1>1, <1>2, Members
<1>5. Replies(a)' = (Replies(a) \ S) \cup {i \in T : i.att = a}
  BY <1>1 DEF Replies
<1> QED BY <1>3, <1>4, <1>5

\* The fields of the send items that an organizer item makes
LEMMA SendWorkFields ==
    ASSUME NEW id, NEW a, NEW msg
    PROVE  /\ SendWork(id, a, msg).kind = "send" /\ SendWork(id, a, msg).id = id
           /\ SendWork(id, a, msg).att = a /\ SendWork(id, a, msg).msg = msg
           /\ SendWork(id, a, msg).failed = 0
BY DEF SendWork

\* The CANCELs made for an event
LEMMA CancelsAre ==
    ASSUME NEW id, NEW e, NEW A, NEW k \in Cancels(id, e, A)
    PROVE  /\ k.kind = "send" /\ k.id = id /\ k.att \in A /\ k.msg = generateCancel(e)
           /\ k.msg.method = "CANCEL" /\ k.msg.seq = e.seq + 1 /\ k.failed = 0
BY SendWorkFields DEF Cancels, generateCancel

\* The REQUESTs made for an event
LEMMA RequestsAre ==
    ASSUME NEW id, NEW e, NEW k \in Requests(id, e)
    PROVE  /\ k.kind = "send" /\ k.id = id /\ k.att \in e.atts
           /\ k.msg = generateAttendeeRequest(e, k.att)
           /\ k.msg.method = "REQUEST" /\ k.msg.seq = e.seq /\ k.failed = 0
<1>1. PICK b \in e.atts : k = SendWork(id, b, generateAttendeeRequest(e, b))
  BY DEF Requests
<1>2. k.kind = "send" /\ k.id = id /\ k.att = b /\ k.msg = generateAttendeeRequest(e, b)
      /\ k.failed = 0
  BY <1>1, SendWorkFields
<1> QED BY <1>1, <1>2 DEF generateAttendeeRequest

\* An organizer item makes no message but those it stands for.
LEMMA ScheduledOnly ==
    ASSUME NEW a, NEW i \in OrganizerItems, NEW k \in scheduleWithAttendees(i)
    PROVE  /\ k.kind = "send"
           /\ \A m : Brings(k, a, m) => Brings(i, a, m)
           /\ \A q : Takes(k, a, q) => Takes(i, a, q)
<1>1. \/ i.action = "remove" /\ k \in Cancels(None, i.old, i.old.atts)
      \/ i.action \in {"create", "modify"} /\ k \in Requests(org.id, i.new)
      \/ i.action = "modify" /\ k \in Cancels(org.id, i.old, i.old.atts \ i.new.atts)
  BY OrganizerTypes DEF scheduleWithAttendees
<1>2. i.kind = "organizer"
  BY OrganizerTypes
<1>3. CASE i.action = "remove" /\ k \in Cancels(None, i.old, i.old.atts)
  BY <1>2, <1>3, CancelsAre DEF Brings, Takes, Gone
<1>4. CASE i.action \in {"create", "modify"} /\ k \in Requests(org.id, i.new)
  BY <1>2, <1>4, RequestsAre DEF Brings, Takes
<1>5. CASE i.action = "modify" /\ k \in Cancels(org.id, i.old, i.old.atts \ i.new.atts)
  BY <1>2, <1>5, CancelsAre DEF Brings, Takes, Gone
<1> QED BY <1>1, <1>3, <1>4, <1>5

\* An organizer item makes every REQUEST it stands for, if its resource is there.
LEMMA ScheduledRequest ==
    ASSUME NEW a, NEW i \in OrganizerItems, NEW m, Brings(i, a, m), org # None,
           i.action = "modify" => i.new.id = org.id
    PROVE  \E k \in scheduleWithAttendees(i) : Brings(k, a, m)
<1>1. /\ i.action # "remove" /\ a \in i.new.atts
      /\ m = generateAttendeeRequest(i.new, a)
  BY OrganizerTypes DEF Brings
<1> DEFINE k == SendWork(org.id, a, m)
<1>2. k \in Requests(org.id, i.new)
  BY <1>1 DEF Requests
<1>3. k \in scheduleWithAttendees(i)
  BY <1>1, <1>2, OrganizerTypes DEF scheduleWithAttendees, Exists
<1>4. Brings(k, a, m)
  BY <1>1, SendWorkFields DEF Brings, generateAttendeeRequest
<1> QED BY <1>3, <1>4

\* An organizer item makes every CANCEL it stands for, or it is recorded as lost.
LEMMA ScheduledCancel ==
    ASSUME NEW a, NEW i \in OrganizerItems, NEW q, Takes(i, a, q),
           i.action = "modify" => i.new.seq = i.old.seq + 1
    PROVE  (\E k \in scheduleWithAttendees(i) : Takes(k, a, q)) \/ <<a, q>> \in NotTold(i)
<1>1. a \in Gone(i) /\ q = i.old.seq + 1 /\ i.action \in {"create", "modify", "remove"}
  BY OrganizerTypes DEF Takes
<1> DEFINE k(id) == SendWork(id, a, generateCancel(i.old))
<1>2. \A id : Takes(k(id), a, q)
  <2> TAKE id
  <2>1. k(id).kind = "send" /\ k(id).att = a /\ k(id).msg = generateCancel(i.old)
    BY SendWorkFields
  <2> QED BY <1>1, <2>1 DEF Takes, generateCancel
<1>3. \A id : \A A : a \in A => k(id) \in Cancels(id, i.old, A)
  BY DEF Cancels
<1> HIDE DEF k
<1>4. CASE i.action = "remove"
  <2>1. k(None) \in scheduleWithAttendees(i)
    BY <1>1, <1>3, <1>4 DEF scheduleWithAttendees, Gone
  <2> QED BY <1>2, <2>1
<1>5. CASE i.action = "modify" /\ Exists(i.new.id)
  <2>1. k(org.id) \in scheduleWithAttendees(i)
    BY <1>1, <1>3, <1>5 DEF scheduleWithAttendees, Gone
  <2> QED BY <1>2, <2>1
<1>6. CASE i.action = "modify" /\ ~Exists(i.new.id)
  BY <1>1, <1>6 DEF NotTold, Gone
<1> QED BY <1>1, <1>4, <1>5, <1>6 DEF Gone

\* Whatever an organizer item records as lost was to come.
LEMMA NotToldTypes ==
    ASSUME NEW i \in OrganizerItems, i.action = "modify" => i.new.seq = i.old.seq + 1,
           NEW l \in NotTold(i)
    PROVE  /\ i.action = "modify" /\ ~Exists(i.new.id) /\ l = <<l[1], i.new.seq>>
           /\ l[1] \in Attendees /\ l[2] = i.new.seq /\ l[2] \in Nat
           /\ Takes(i, l[1], l[2])
<1>1. i.action = "modify" /\ ~Exists(i.new.id)
  BY DEF NotTold
<1>2. PICK b \in i.old.atts \ i.new.atts : l = <<b, i.new.seq>>
  BY <1>1 DEF NotTold
<1>3. i.kind = "organizer" /\ i.old \in Events /\ i.new \in Events
  BY <1>1, OrganizerTypes
<1>4. b \in Attendees /\ i.new.seq \in Nat
  BY <1>2, <1>3, EventTypes
<1>5. Takes(i, b, i.new.seq)
  BY <1>1, <1>2, <1>3 DEF Takes, Gone
<1> QED BY <1>1, <1>2, <1>4, <1>5

\* An organizer item is done.
LEMMA QueueDelta ==
    ASSUME TypeOK, ItemInv, NEW a \in Attendees, NEW i \in items, i.kind = "organizer",
           items' = (items \ {i}) \cup scheduleWithAttendees(i),
           lost' = lost \cup NotTold(i)
    PROVE  /\ Asked(a)' \subseteq Asked(a) /\ Cancelling(a)' \subseteq Cancelling(a)
           /\ Replies(a)' = Replies(a)
           /\ \A q \in Cancelling(a) : q \in Cancelling(a)' \/ <<a, q>> \in lost'
           /\ \A m \in Asked(a) : \/ m \in Asked(a)'
                                  \/ org = None
                                  \/ i.action = "modify" /\ i.new.id # org.id /\ m.seq = i.new.seq
<1>1. i \in OrganizerItems /\ (i.action = "modify" => i.new.seq = i.old.seq + 1)
  BY ItemTypes DEF ItemInv
<1>2. \A k : k \in items' <=> (k \in items /\ k # i) \/ k \in scheduleWithAttendees(i)
  OBVIOUS
<1>3. Asked(a)' \subseteq Asked(a)
  BY <1>1, <1>2, Members, ScheduledOnly
<1>4. Cancelling(a)' \subseteq Cancelling(a)
  BY <1>1, <1>2, Members, ScheduledOnly
<1>5. Replies(a)' = Replies(a)
  BY <1>1, <1>2, ScheduledOnly DEF Replies
<1>6. ASSUME NEW q \in Cancelling(a), q \notin Cancelling(a)' PROVE <<a, q>> \in lost'
  <2>1. Takes(i, a, q)
    BY <1>2, <1>6, Members
  <2>2. \A k \in scheduleWithAttendees(i) : ~Takes(k, a, q)
    BY <1>2, <1>6, Members
  <2>3. <<a, q>> \in NotTold(i)
    BY <1>1, <2>1, <2>2, ScheduledCancel
  <2> QED BY <2>3
<1>7. ASSUME NEW m \in Asked(a), m \notin Asked(a)', org # None
      PROVE  i.action = "modify" /\ i.new.id # org.id /\ m.seq = i.new.seq
  <2>1. Brings(i, a, m)
    BY <1>2, <1>7, Members
  <2>2. \A k \in scheduleWithAttendees(i) : ~Brings(k, a, m)
    BY <1>2, <1>7, Members
  <2>3. i.action = "modify" /\ i.new.id # org.id
    BY <1>1, <1>7, <2>1, <2>2, ScheduledRequest
  <2> QED BY <2>1, <2>3 DEF Brings, generateAttendeeRequest
<1> QED BY <1>3, <1>4, <1>5, <1>6, <1>7

-----------------------------------------------------------------------------
\* Steps that change nothing for an attendee, or only let messages to him go

\* The organizer's copy stays as it is, but for answers and delivery.
SameEvent ==
    /\ deleted' = deleted /\ regressed' = regressed /\ erased' = erased
    /\ (org' = None) = (org = None)
    /\ org # None => /\ org'.id = org.id /\ org'.seq = org.seq /\ org'.time = org.time
                     /\ org'.atts = org.atts /\ org'.reset = org.reset

\* What he knows stays as it is.
SameState(a) ==
    /\ copy'[a] = copy[a] /\ dropped'[a] = dropped[a] /\ answered'[a] = answered[a]
    /\ (a \in autoReply') = (a \in autoReply) /\ (a \in unsure') = (a \in unsure)
    /\ (a \in revived') = (a \in revived)
    /\ heard'[a] >= heard[a] /\ cancelled'[a] >= cancelled[a] /\ lost \subseteq lost'
    /\ org # None => org'.ps[a] = org.ps[a]
    /\ Replies(a)' = Replies(a)

\* A CANCEL that is no longer to come has come or was given up.
CancelsGo(a) ==
    /\ Cancelling(a)' \subseteq Cancelling(a)
    /\ \A q \in Cancelling(a) :
          q \in Cancelling(a)' \/ <<a, q>> \in lost' \/ cancelled'[a] >= q

\* He is told as before.
LEMMA StillTold ==
    ASSUME TypeOK, TypeOK', NEW a \in Attendees, NEW v \in Int,
           CancelsGo(a), cancelled'[a] >= cancelled[a], lost \subseteq lost', Told(a, v)
    PROVE  Told(a, v)'
<1> USE DEF CancelsGo
<1>1. /\ cancelled[a] \in Nat /\ cancelled'[a] \in Nat
  BY DEF TypeOK
<1>2. CASE \E q \in Cancelling(a) : q > v
  <2>1. PICK q \in Cancelling(a) : q > v
    BY <1>2
  <2>2. q \in Nat
    BY CancellingTypes
  <2>3. CASE q \in Cancelling(a)'
    BY <2>1, <2>3 DEF Told
  <2>4. CASE <<a, q>> \in lost'
    BY <2>1, <2>4 DEF Told
  <2>5. CASE cancelled'[a] >= q
    BY <1>1, <2>1, <2>2, <2>5 DEF Told
  <2> QED BY <2>3, <2>4, <2>5
<1>3. CASE \E l \in lost : l[1] = a /\ l[2] > v
  BY <1>3 DEF Told
<1>4. CASE cancelled[a] > v
  BY <1>1, <1>4 DEF Told
<1> QED BY <1>2, <1>3, <1>4 DEF Told

\* The first three invariants, as the messages to come get fewer
LEMMA ShrinkFirst ==
    ASSUME TypeOK, TypeOK', SameEvent, NEW a \in Attendees,
           VersionInv(a), StrayInv(a), OrderInv(a),
           Asked(a)' \subseteq Asked(a), CancelsGo(a), copy'[a] = copy[a],
           heard'[a] >= heard[a], cancelled'[a] >= cancelled[a], lost \subseteq lost'
    PROVE  VersionInv(a)' /\ StrayInv(a)' /\ OrderInv(a)'
<1>1. Last' = Last /\ Out(a)' = Out(a)
  BY DEF Last, Out, SameEvent
<1>2. copy[a] \in Copies \cup {None} /\ heard[a] \in Int /\ heard'[a] \in Int
  BY DEF TypeOK
<1>3. Live(copy[a]) => copy[a].seq \in Nat
  BY <1>2, CopyTypes DEF Live
<1>4. VersionInv(a)'
  BY <1>1, <1>2, <1>3 DEF VersionInv, Live
<1>5. StrayInv(a)'
  <2>1. ASSUME Out(a), NEW m \in Asked(a)' PROVE Told(a, m.seq)'
    <3>1. m \in Asked(a) /\ m.seq \in Int
      BY <2>1, AskedTypes
    <3>2. Told(a, m.seq)
      BY <2>1, <3>1 DEF StrayInv
    <3> QED BY <3>1, <3>2, StillTold
  <2>2. ASSUME Out(a), Live(copy[a]) PROVE Told(a, copy[a].seq)'
    <3>1. PICK v \in Int : v = copy[a].seq
      BY <1>3, <2>2
    <3>2. Told(a, v)
      BY <2>2, <3>1 DEF StrayInv
    <3>3. Told(a, v)'
      BY <3>2, StillTold
    <3> QED BY <3>1, <3>3 DEF Told
  <2>3. Live(copy[a])' = Live(copy[a])
    BY DEF Live
  <2> QED BY <1>1, <2>1, <2>2, <2>3 DEF StrayInv
<1>6. OrderInv(a)'
  <2>1. \A q : Below(a, q)' = Below(a, q)
    BY DEF Below, SameEvent
  <2> QED BY <1>1, <2>1 DEF OrderInv, SameEvent, CancelsGo, Out
<1> QED BY <1>4, <1>5, <1>6

\* What he has answered, as the messages to come get fewer
LEMMA ShrinkAnswers ==
    ASSUME TypeOK, TypeOK', SameEvent, NEW a \in Attendees, SameState(a),
           FreshInv(a), DroppedInv(a), AgreeInv(a),
           Asked(a)' \subseteq Asked(a), Cancelling(a)' \subseteq Cancelling(a)
    PROVE  FreshInv(a)' /\ DroppedInv(a)' /\ AgreeInv(a)'
<1>1. Out(a)' = Out(a)
  BY DEF Out, SameEvent
<1>2. \A x : ~Out(a) => Era(a, x)' = Era(a, x)
  BY DEF Era, SameEvent, Out
<1>3. FreshInv(a)'
  <2> SUFFICES ASSUME a \notin erased
               PROVE  FreshInv(a)'
    BY DEF SameEvent, FreshInv
  <2>1. CASE Out(a)
    <3>1. Last' = Last
      BY DEF Last, SameEvent
    <3> QED BY <1>1, <2>1, <3>1 DEF FreshInv, SameState
  <2>2. CASE ~Out(a)
    <3>1. /\ \A q \in Cancelling(a) : q < org.reset[a]
          /\ copy[a] # None => Era(a, copy[a]) /\ (copy[a].cancelled => copy[a].seq < org.reset[a])
          /\ dropped[a] <= org.seq
          /\ \A m \in Asked(a) : Era(a, m) /\ (m.seq >= org.reset[a] => m.reset = org.reset[a])
          /\ \A i \in Replies(a) : Era(a, i)
          /\ org.ps[a] # "NEEDS-ACTION" => answered[a] >= org.time
      BY <2>2 DEF FreshInv
    <3>2. org # None
      BY <2>2 DEF Out
    <3>3. (copy[a] # None => Era(a, copy[a]) /\ (copy[a].cancelled => copy[a].seq < org.reset[a]))'
      BY <3>1, <3>2 DEF Era, SameEvent, SameState
    <3>4. \A m \in Asked(a)' : Era(a, m)' /\ (m.seq >= org'.reset[a] => m.reset = org'.reset[a])
      BY <1>2, <2>2, <3>1, <3>2 DEF SameEvent
    <3>5. \A i \in Replies(a)' : Era(a, i)'
      BY <1>2, <2>2, <3>1 DEF SameState
    <3>6. dropped'[a] <= org'.seq /\ (org'.ps[a] # "NEEDS-ACTION" => answered'[a] >= org'.time)
      BY <3>1, <3>2 DEF SameState, SameEvent
    <3>7. \A q \in Cancelling(a)' : q < org'.reset[a]
      BY <3>1, <3>2 DEF SameEvent
    <3> QED BY <1>1, <2>2, <3>3, <3>4, <3>5, <3>6, <3>7 DEF FreshInv
  <2> QED BY <2>1, <2>2
<1>4. AgreeInv(a)'
  <2> SUFFICES ASSUME ~Out(a), a \notin erased \cup unsure \cup revived
               PROVE  AgreeInv(a)'
    BY <1>1 DEF SameEvent, SameState, AgreeInv
  <2>1. org # None
    BY DEF Out
  <2>2. NotYet(a)' = NotYet(a)
    BY <2>1 DEF NotYet, SameEvent, SameState
  <2>3. \A p : WillBe(a, p)' = WillBe(a, p)
    BY <2>1 DEF WillBe, SameEvent, SameState
  <2>4. CASE NotYet(a)
    BY <2>1, <2>2, <2>4 DEF AgreeInv, SameEvent, SameState
  <2>5. CASE ~NotYet(a) /\ a \notin autoReply
    <3> DEFINE p == IF copy[a] = None THEN "DECLINED" ELSE copy[a].ps
    <3>1. WillBe(a, p)
      BY <2>5 DEF AgreeInv
    <3>2. PICK r : r = p
      OBVIOUS
    <3>3. WillBe(a, r)'
      BY <2>3, <3>1, <3>2
    <3>4. p' = p
      BY DEF SameState
    <3>5. WillBe(a, p)'
      BY <3>2, <3>3, <3>4 DEF WillBe
    <3> QED BY <2>2, <2>5, <3>5 DEF AgreeInv
  <2>6. CASE ~NotYet(a) /\ a \in autoReply
    BY <2>2, <2>6 DEF AgreeInv, SameState
  <2> QED BY <2>4, <2>5, <2>6
<1>5. DroppedInv(a)'
  BY DEF DroppedInv, SameState
<1> QED BY <1>3, <1>4, <1>5

\* The present version still arrives, unless the message that brings it goes.
LEMMA ShrinkArrive ==
    ASSUME TypeOK, TypeOK', SameEvent, NEW a \in Attendees, SameState(a), ArriveInv(a),
           ~regressed /\ ~Out(a) => \A m \in Asked(a) : m.seq = org.seq =>
               m \in Asked(a)' \/ UpToDate(a)' \/ TurnedDown(a)' \/ <<a, org.seq>> \in lost'
                 \/ a \in revived'
    PROVE  ArriveInv(a)'
<1>1. Out(a)' = Out(a)
  BY DEF Out, SameEvent
<1> SUFFICES ASSUME ~regressed, ~Out(a) PROVE ArriveInv(a)'
  BY <1>1 DEF ArriveInv, SameEvent
<1>2. org # None
  BY DEF Out
<1>3. /\ heard[a] \in Int /\ heard'[a] \in Int /\ org \in Events /\ org.seq \in Nat
  BY <1>2, EventTypes DEF TypeOK
<1>4. UpToDate(a)' = UpToDate(a)
  BY <1>2 DEF UpToDate, SameEvent, SameState, Live
<1>5. TurnedDown(a) => TurnedDown(a)'
  BY <1>2, <1>3 DEF TurnedDown, SameEvent, SameState
<1>6. lost \subseteq lost' /\ (a \in revived => a \in revived') /\ org'.seq = org.seq
  BY <1>2 DEF SameState, SameEvent
<1>7. CASE \E m \in Asked(a) : m.seq = org.seq
  <2>1. PICK m \in Asked(a) : m.seq = org.seq
    BY <1>7
  <2> QED BY <1>6, <2>1 DEF ArriveInv
<1> QED BY <1>4, <1>5, <1>6, <1>7 DEF ArriveInv

\* A step after which fewer messages to him are to come
LEMMA Shrink ==
    ASSUME TypeOK, TypeOK', SameEvent, NEW a \in Attendees, SameState(a), AttInv(a),
           Asked(a)' \subseteq Asked(a), CancelsGo(a),
           ~regressed /\ ~Out(a) => \A m \in Asked(a) : m.seq = org.seq =>
               m \in Asked(a)' \/ UpToDate(a)' \/ TurnedDown(a)' \/ <<a, org.seq>> \in lost'
                 \/ a \in revived'
    PROVE  AttInv(a)'
<1>1. VersionInv(a)' /\ StrayInv(a)' /\ OrderInv(a)'
  BY ShrinkFirst DEF AttInv, SameState
<1>2. FreshInv(a)' /\ DroppedInv(a)' /\ AgreeInv(a)'
  BY ShrinkAnswers DEF AttInv, CancelsGo
<1>3. ArriveInv(a)'
  BY ShrinkArrive DEF AttInv
<1> QED BY <1>1, <1>2, <1>3 DEF AttInv

\* A step that leaves him alone
LEMMA Frame ==
    ASSUME TypeOK, TypeOK', SameEvent, NEW a \in Attendees, SameState(a), AttInv(a),
           Asked(a)' = Asked(a), Cancelling(a)' = Cancelling(a)
    PROVE  AttInv(a)'
<1>1. CancelsGo(a)
  BY DEF CancelsGo
<1> QED BY <1>1, Shrink

-----------------------------------------------------------------------------
\* Types

\* The facts about the types of the state that the steps use
LEMMA Types ==
    ASSUME TypeOK
    PROVE  /\ org # None => org \in Events /\ org.time <= org.seq
                            /\ \A a \in Attendees : org.reset[a] <= org.seq
           /\ deleted # None => deleted \in Events /\ deleted.time <= deleted.seq
                                /\ \A a \in Attendees : deleted.reset[a] <= deleted.seq
           /\ \A a \in Attendees : copy[a] # None => copy[a] \in Copies /\ copy[a].time <= copy[a].seq
           /\ \A a \in Attendees : /\ heard[a] \in Int /\ dropped[a] \in Int
                                   /\ answered[a] \in Nat /\ cancelled[a] \in Nat
           /\ answers \in Nat /\ autoReply \subseteq Automatic /\ Automatic \subseteq Attendees
BY SchedulingAssumption DEF TypeOK

\* The type invariant of the initial states
LEMMA TypeInit ==
    Init => TypeOK
<1> SUFFICES ASSUME Init PROVE TypeOK
  OBVIOUS
<1> USE SchedulingAssumption
<1>1. \A s \in Nat : Created(Attendees, s) \in Events
  BY DEF Created, Events, PartStats
<1>2. \A s \in Nat : /\ Created(Attendees, s).time <= Created(Attendees, s).seq
                     /\ \A a \in Attendees : Created(Attendees, s).reset[a] <= Created(Attendees, s).seq
  BY DEF Created
<1>3. deleted = None /\ (org = None \/ \E s \in StandingAt : org = Created(Attendees, s))
  BY DEF Init, Idle
<1>4. /\ org \in Events \cup {None} /\ deleted \in Events \cup {None}
      /\ \A e \in {org, deleted} \ {None} :
            e.time <= e.seq /\ \A a \in Attendees : e.reset[a] <= e.seq
  BY <1>1, <1>2, <1>3
<1>5. /\ copy \in [Attendees -> Copies \cup {None}]
      /\ \A a \in Attendees : copy[a] # None => copy[a].time <= copy[a].seq
  <2>1. CASE copy = [a \in Attendees |-> None]
    BY <2>1
  <2>2. ASSUME NEW s \in StandingAt,
               copy = [a \in Attendees |-> [seq |-> s, time |-> 0, cancelled |-> FALSE,
                                            ps |-> "NEEDS-ACTION"]]
        PROVE  <1>5!1 /\ <1>5!2
    <3>1. [seq |-> s, time |-> 0, cancelled |-> FALSE, ps |-> "NEEDS-ACTION"] \in Copies
      BY DEF Copies, PartStats
    <3> QED BY <2>2, <3>1, CopyTypes
  <2> QED BY <2>1, <2>2 DEF Init
<1>6. /\ cancelled \in [Attendees -> Nat] /\ heard \in [Attendees -> Int]
  BY DEF Init, Idle
<1>7. /\ items = {} /\ autoReply = {} /\ refresh = {} /\ puts = 0 /\ answers = 0
      /\ dups \in {0, MaxDuplicates}
      /\ answered = [a \in Attendees |-> 0] /\ dropped = [a \in Attendees |-> -1]
      /\ lost = {} /\ regressed \in BOOLEAN
  BY DEF Init, Idle
<1>8. /\ answered \in [Attendees -> Nat] /\ dropped \in [Attendees -> Int]
      /\ puts \in 0..MaxPuts /\ answers \in 0..MaxAnswers /\ dups \in 0..MaxDuplicates
  BY <1>7
<1> QED BY <1>3, <1>4, <1>5, <1>6, <1>7, <1>8 DEF TypeOK

\* The change of an event that is restored
LEMMA RestoreExcept ==
    ASSUME NEW e \in Events, NEW i \in Nat, NEW s \in Nat, NEW p \in [Attendees -> PartStats]
    PROVE  [e EXCEPT !.id = i, !.seq = s, !.ps = p] \in Events
BY DEF Events

\* The change of an event that is modified
LEMMA ModifyExcept ==
    ASSUME NEW e \in Events, NEW s \in Nat, NEW t \in Nat, NEW A \in SUBSET Attendees,
           NEW p \in [Attendees -> PartStats], NEW r \in [Attendees -> Nat]
    PROVE  [e EXCEPT !.seq = s, !.atts = A, !.time = t, !.ps = p, !.reset = r] \in Events
BY DEF Events

\* The change of the delivery status
LEMMA StatExcept ==
    ASSUME NEW e \in Events, NEW st \in [Attendees -> {"1.2", "2.0", "5.1"}]
    PROVE  [e EXCEPT !.stat = st] \in Events
BY DEF Events

\* An event as it is restored
LEMMA RestoredIs ==
    ASSUME NEW e \in Events, e.time <= e.seq, \A a \in Attendees : e.reset[a] <= e.seq
    PROVE  /\ restored(e) \in Events
           /\ restored(e).seq = IF e.seq = 0 THEN 0 ELSE e.seq + RestoreGap
           /\ restored(e).time = e.time /\ restored(e).atts = e.atts /\ restored(e).reset = e.reset
           /\ \A a \in Attendees : /\ restored(e).ps[a] = "NEEDS-ACTION"
                                   /\ restored(e).reset[a] <= restored(e).seq
           /\ restored(e).time <= restored(e).seq
<1>1. restored(e) \in Events
  <2> DEFINE s == IF e.seq = 0 THEN 0 ELSE e.seq + RestoreGap
             p == [a \in Attendees |-> "NEEDS-ACTION"]
             g == [e EXCEPT !.id = e.id + 1, !.seq = s, !.ps = p]
             st == [a \in Attendees |-> "1.2"]
  <2>1. s \in Nat /\ p \in [Attendees -> PartStats] /\ e.id + 1 \in Nat
        /\ st \in [Attendees -> {"1.2", "2.0", "5.1"}]
    BY EventTypes, SchedulingAssumption DEF PartStats
  <2>2. restored(e) = [g EXCEPT !.stat = st]
    BY DEF restored, Delivered
  <2> HIDE DEF s, p, st
  <2>3. g \in Events
    BY <2>1, RestoreExcept
  <2> HIDE DEF g
  <2> QED BY <2>1, <2>2, <2>3, StatExcept
<1>2. /\ restored(e).seq = IF e.seq = 0 THEN 0 ELSE e.seq + RestoreGap
      /\ restored(e).time = e.time /\ restored(e).atts = e.atts /\ restored(e).reset = e.reset
  BY DEF restored, Delivered, Events
<1>3. \A a \in Attendees : restored(e).ps[a] = "NEEDS-ACTION"
  BY DEF restored, Delivered, Events
<1>4. /\ \A a \in Attendees : restored(e).reset[a] <= restored(e).seq
      /\ restored(e).time <= restored(e).seq
  BY <1>2, EventTypes, SchedulingAssumption
<1> QED BY <1>1, <1>2, <1>3, <1>4

\* Who is asked again when an event is modified
Again(e, A, moved, N) == IF moved THEN A ELSE N \cup (A \ e.atts)

\* An event as it is modified
LEMMA ModifiedIs ==
    ASSUME NEW e \in Events, e.time <= e.seq, \A a \in Attendees : e.reset[a] <= e.seq,
           NEW A \in SUBSET Attendees, NEW moved \in BOOLEAN, NEW N \in SUBSET A
    PROVE  /\ modified(e, A, moved, N) \in Events
           /\ modified(e, A, moved, N).seq = e.seq + 1 /\ modified(e, A, moved, N).atts = A
           /\ modified(e, A, moved, N).id = e.id
           /\ modified(e, A, moved, N).time = IF moved THEN e.seq + 1 ELSE e.time
           /\ modified(e, A, moved, N).time <= modified(e, A, moved, N).seq
           /\ \A a \in Attendees :
                 /\ modified(e, A, moved, N).ps[a] =
                      IF a \in A \ Again(e, A, moved, N) THEN e.ps[a] ELSE "NEEDS-ACTION"
                 /\ modified(e, A, moved, N).reset[a] =
                      IF a \in Again(e, A, moved, N) THEN e.seq + 1
                      ELSE IF a \in A THEN e.reset[a] ELSE 0
                 /\ modified(e, A, moved, N).reset[a] <= modified(e, A, moved, N).seq
<1> DEFINE f == modified(e, A, moved, N)
<1>1. f.seq = e.seq + 1 /\ f.atts = A /\ f.id = e.id
      /\ f.time = IF moved THEN e.seq + 1 ELSE e.time
  BY DEF modified, Delivered, Events
<1>2. f.ps = [a \in Attendees |-> IF a \in A \ Again(e, A, moved, N) THEN e.ps[a]
                                  ELSE "NEEDS-ACTION"]
  BY DEF Again, modified, Delivered, Events
<1>3. f.reset = [a \in Attendees |-> IF a \in Again(e, A, moved, N) THEN e.seq + 1
                                     ELSE IF a \in A THEN e.reset[a] ELSE 0]
  BY DEF Again, modified, Delivered, Events
<1>4. f.stat = [a \in Attendees |-> "1.2"]
  BY DEF modified, Delivered, Events
<1> DEFINE t == IF moved THEN e.seq + 1 ELSE e.time
           g == [e EXCEPT !.seq = e.seq + 1, !.atts = A, !.time = t, !.ps = f.ps, !.reset = f.reset]
<1>5. f = [g EXCEPT !.stat = f.stat]
  BY <1>2, <1>3, <1>4 DEF modified, Delivered
<1> HIDE DEF f
<1>6. f.ps \in [Attendees -> PartStats] /\ f.reset \in [Attendees -> Nat]
      /\ f.stat \in [Attendees -> {"1.2", "2.0", "5.1"}]
  BY <1>2, <1>3, <1>4, EventTypes DEF PartStats
<1>7. t \in Nat /\ e.seq + 1 \in Nat
  BY EventTypes
<1> HIDE DEF t
<1>8. f \in Events
  <2>1. g \in Events
    BY <1>6, <1>7, ModifyExcept
  <2> HIDE DEF g
  <2> QED BY <1>5, <1>6, <2>1, StatExcept
<1>9. \A a \in Attendees :
         /\ f.ps[a] = IF a \in A \ Again(e, A, moved, N) THEN e.ps[a] ELSE "NEEDS-ACTION"
         /\ f.reset[a] = IF a \in Again(e, A, moved, N) THEN e.seq + 1
                         ELSE IF a \in A THEN e.reset[a] ELSE 0
  BY <1>2, <1>3
<1>10. f.time <= f.seq /\ \A a \in Attendees : f.reset[a] <= f.seq
  BY <1>1, <1>9, EventTypes
<1> QED BY <1>1, <1>8, <1>9, <1>10 DEF f

-----------------------------------------------------------------------------
\* What a message does to the attendee who receives it, and to nobody else

\* The marks of a message
LEMMA ReceiveMarks ==
    ASSUME TypeOK, NEW a \in Attendees, NEW msg \in CancelMsgs \cup RequestMsgs, NEW f,
           Receive(a, msg, f)
    PROVE  /\ cancelled' \in [Attendees -> Nat] /\ heard' \in [Attendees -> Int]
           /\ \A b \in Attendees : cancelled'[b] >= cancelled[b] /\ heard'[b] >= heard[b]
           /\ \A b \in Attendees \ {a} : cancelled'[b] = cancelled[b] /\ heard'[b] = heard[b]
           /\ msg.method = "REQUEST" => heard'[a] >= msg.seq
           /\ msg.method = "CANCEL" => cancelled'[a] >= msg.seq
<1>1. msg.seq \in Nat /\ cancelled \in [Attendees -> Nat] /\ heard \in [Attendees -> Int]
  BY DEF CancelMsgs, RequestMsgs, TypeOK
<1>2. /\ cancelled' \in [Attendees -> Nat]
      /\ \A b \in Attendees : cancelled'[b] >= cancelled[b]
      /\ \A b \in Attendees \ {a} : cancelled'[b] = cancelled[b]
      /\ msg.method = "CANCEL" => cancelled'[a] >= msg.seq
  <2>1. CASE msg.method = "CANCEL" /\ msg.seq > cancelled[a]
    BY <1>1, <2>1 DEF Receive
  <2>2. CASE ~(msg.method = "CANCEL" /\ msg.seq > cancelled[a])
    BY <1>1, <2>2 DEF Receive
  <2> QED BY <2>1, <2>2
<1>3. /\ heard' \in [Attendees -> Int]
      /\ \A b \in Attendees : heard'[b] >= heard[b]
      /\ \A b \in Attendees \ {a} : heard'[b] = heard[b]
      /\ msg.method = "REQUEST" => heard'[a] >= msg.seq
  <2>1. CASE msg.method = "REQUEST" /\ msg.seq > heard[a]
    BY <1>1, <2>1 DEF Receive
  <2>2. CASE ~(msg.method = "REQUEST" /\ msg.seq > heard[a])
    BY <1>1, <2>2 DEF Receive
  <2> QED BY <2>1, <2>2
<1> QED BY <1>2, <1>3

\* A message that is merged
LEMMA MergedIs ==
    ASSUME NEW msg \in RequestMsgs, NEW c \in Copies \cup {None}
    PROVE  /\ Merged(msg, c) \in Copies
           /\ Merged(msg, c).seq = msg.seq /\ Merged(msg, c).time = msg.time
           /\ ~Merged(msg, c).cancelled
           /\ Merged(msg, c).ps = IF c # None /\ msg.time = c.time /\ c.seq >= msg.reset
                                  THEN c.ps ELSE msg.ps
<1>1. (IF c # None /\ transferPartstat(msg, c) THEN c.ps ELSE msg.ps) \in PartStats
  BY CopyTypes DEF RequestMsgs
<1>2. msg.seq \in Nat /\ msg.time \in Nat
  BY DEF RequestMsgs
<1> QED BY <1>1, <1>2 DEF Merged, Copies, transferPartstat

\* A REQUEST that is not ignored
LEMMA AcceptRequest ==
    ASSUME TypeOK, NEW a \in Attendees, NEW msg \in RequestMsgs, NEW f,
           msg.method = "REQUEST", Receive(a, msg, f), ~Ignored(a, msg)
    PROVE  /\ copy[a] = None => msg.ps # "DECLINED"
           /\ copy[a] # None => msg.seq >= copy[a].seq
           /\ unsure' = unsure
           /\ revived' = revived \cup {b \in {a} : copy[a] = None /\ Outdated(a, msg)}
           /\ \E c \in Copies :
                 /\ copy' = [copy EXCEPT ![a] = c]
                 /\ c.seq = msg.seq /\ c.time = msg.time /\ ~c.cancelled
                 /\ \/ autoReply' = autoReply /\ c.ps = Merged(msg, copy[a]).ps
                    \/ a \in Automatic /\ autoReply' = autoReply \cup {a}
<1>1. copy[a] \in Copies \cup {None}
  BY DEF TypeOK
<1>2. doImplicitAttendeeRequest(a, msg, f)
  BY DEF Receive
<1> DEFINE g == Merged(msg, copy[a])
<1>3. PICK c \in AutoAnswer(a, g, f) :
         /\ copy' = [copy EXCEPT ![a] = c]
         /\ autoReply' = IF c # g THEN autoReply \cup {a} ELSE autoReply
         /\ revived' = revived \cup {b \in {a} : copy[a] = None /\ Outdated(a, msg)}
         /\ UNCHANGED unsure
  BY <1>2 DEF doImplicitAttendeeRequest
<1>4. /\ g \in Copies /\ g.seq = msg.seq /\ g.time = msg.time /\ ~g.cancelled
  BY <1>1, MergedIs
<1> HIDE DEF g
<1>5. /\ c \in Copies /\ c.seq = g.seq /\ c.time = g.time /\ c.cancelled = g.cancelled
      /\ c # g => a \in Automatic
  BY <1>3, <1>4 DEF AutoAnswer, Copies, PartStats
<1>6. /\ copy[a] = None => msg.ps # "DECLINED"
      /\ copy[a] # None => msg.seq >= copy[a].seq
  BY DEF Ignored, sequenceComparison
<1> QED BY <1>3, <1>4, <1>5, <1>6 DEF g

\* A CANCEL that is not ignored
LEMMA AcceptCancel ==
    ASSUME TypeOK, NEW a \in Attendees, NEW msg \in CancelMsgs, NEW f,
           msg.method = "CANCEL", Receive(a, msg, f), ~Ignored(a, msg)
    PROVE  /\ copy[a] # None /\ msg.seq >= copy[a].seq /\ revived' = revived
           /\ \/ /\ a \in Automatic /\ copy' = [copy EXCEPT ![a] = None]
                 /\ autoReply' = autoReply \ {a} /\ unsure' = unsure \cup (autoReply \cap {a})
              \/ /\ a \notin Automatic /\ autoReply' = autoReply /\ unsure' = unsure
                 /\ \E c \in Copies :
                      /\ copy' = [copy EXCEPT ![a] = c] /\ c.seq = msg.seq
                      /\ c.time = copy[a].time /\ c.cancelled
<1>1. copy[a] # None /\ msg.seq >= copy[a].seq
  BY DEF Ignored, sequenceComparison
<1>2. copy[a] \in Copies
  BY <1>1 DEF TypeOK
<1>3. doImplicitAttendeeCancel(a, msg)
  BY DEF Receive
<1>4. CASE a \in Automatic
  BY <1>1, <1>3, <1>4 DEF doImplicitAttendeeCancel, Cascade
<1>5. CASE a \notin Automatic
  <2> DEFINE c == [copy[a] EXCEPT !.cancelled = TRUE, !.seq = msg.seq]
  <2>1. copy' = [copy EXCEPT ![a] = c] /\ autoReply' = autoReply /\ revived' = revived
    BY <1>3, <1>5 DEF doImplicitAttendeeCancel
  <2>2. unsure' = unsure
    BY <1>3, <1>5, <2>1 DEF doImplicitAttendeeCancel
  <2>3. c \in Copies /\ c.seq = msg.seq /\ c.time = copy[a].time /\ c.cancelled
    BY <1>2 DEF Copies, CancelMsgs
  <2> QED BY <1>1, <1>5, <2>1, <2>2, <2>3
<1> QED BY <1>4, <1>5

\* The types after a message, and the others, who are left alone
LEMMA ReceiveTypes ==
    ASSUME TypeOK, NEW a \in Attendees, NEW msg \in CancelMsgs \cup RequestMsgs, NEW f,
           msg.method = "REQUEST" => msg.time <= msg.seq, Receive(a, msg, f)
    PROVE  /\ copy' \in [Attendees -> Copies \cup {None}]
           /\ \A b \in Attendees : copy'[b] # None => copy'[b].time <= copy'[b].seq
           /\ autoReply' \subseteq {b \in Automatic : copy'[b] # None}
           /\ \A b \in Attendees \ {a} :
                 /\ copy'[b] = copy[b] /\ (b \in autoReply') = (b \in autoReply)
                 /\ (b \in unsure') = (b \in unsure) /\ (b \in revived') = (b \in revived)
<1>1. /\ copy \in [Attendees -> Copies \cup {None}]
      /\ \A b \in Attendees : copy[b] # None => copy[b].time <= copy[b].seq
      /\ autoReply \subseteq {b \in Automatic : copy[b] # None}
  BY DEF TypeOK
<1>2. \/ msg.method = "REQUEST" /\ msg \in RequestMsgs
      \/ msg.method = "CANCEL" /\ msg \in CancelMsgs
  BY DEF CancelMsgs, RequestMsgs
<1>3. CASE Ignored(a, msg)
  BY <1>1, <1>3 DEF Receive, Keep
<1>4. CASE ~Ignored(a, msg) /\ msg.method = "REQUEST"
  <2>1. PICK c \in Copies :
           /\ copy' = [copy EXCEPT ![a] = c]
           /\ c.seq = msg.seq /\ c.time = msg.time
           /\ \/ autoReply' = autoReply
              \/ a \in Automatic /\ autoReply' = autoReply \cup {a}
    BY <1>2, <1>4, AcceptRequest
  <2>2. unsure' = unsure /\ revived' \subseteq revived \cup {a} /\ revived \subseteq revived'
    BY <1>2, <1>4, AcceptRequest
  <2>3. c # None
    BY CopyTypes
  <2> QED BY <1>1, <1>4, <2>1, <2>2, <2>3
<1>5. CASE ~Ignored(a, msg) /\ msg.method = "CANCEL"
  <2>1. copy[a] # None /\ msg.seq >= copy[a].seq /\ revived' = revived
    BY <1>2, <1>5, AcceptCancel
  <2>2. CASE a \in Automatic
    <3>1. /\ copy' = [copy EXCEPT ![a] = None]
          /\ autoReply' = autoReply \ {a} /\ unsure' = unsure \cup (autoReply \cap {a})
      BY <1>2, <1>5, <2>2, AcceptCancel
    <3> QED BY <1>1, <2>1, <3>1
  <2>3. CASE a \notin Automatic
    <3>1. PICK c \in Copies : /\ copy' = [copy EXCEPT ![a] = c] /\ c.seq = msg.seq
                              /\ c.time = copy[a].time
      BY <1>2, <1>5, <2>3, AcceptCancel
    <3>2. autoReply' = autoReply /\ unsure' = unsure
      BY <1>2, <1>5, <2>3, AcceptCancel
    <3>3. c # None /\ c.time <= c.seq
      <4>1. copy[a] \in Copies /\ copy[a].time <= copy[a].seq
        BY <1>1, <2>1
      <4> QED BY <2>1, <3>1, <4>1, CopyTypes
    <3> QED BY <1>1, <2>1, <3>1, <3>2, <3>3
  <2> QED BY <2>2, <2>3
<1> QED BY <1>2, <1>3, <1>4, <1>5

-----------------------------------------------------------------------------
\* Every step keeps the types.

\* A PUT or DELETE of the organizer
LEMMA TypePut ==
    ASSUME TypeOK, NEW e \in Events \cup {None}, NEW it \in OrganizerItems, Put(e, it),
           e # None => e.time <= e.seq /\ \A a \in Attendees : e.reset[a] <= e.seq,
           deleted' \in {deleted, None, org}, regressed' \in BOOLEAN,
           refresh' \subseteq refresh, e = None => refresh' = {}, org = None => refresh' = refresh
    PROVE  TypeOK'
<1>1. /\ org' = e /\ items' = items \cup {it} /\ puts' = puts + 1 /\ puts < MaxPuts
      /\ UNCHANGED <<down, copy, autoReply, answers, dups, answered, cancelled,
                     dropped, heard, lost, unsure, revived>>
  BY DEF Put
<1>2. puts' \in 0..MaxPuts
  BY <1>1, SchedulingAssumption DEF TypeOK
<1>3. /\ org' \in Events \cup {None} /\ deleted' \in Events \cup {None}
      /\ \A d \in {org', deleted'} \ {None} :
            d.time <= d.seq /\ \A a \in Attendees : d.reset[a] <= d.seq
  BY <1>1 DEF TypeOK
<1>4. items' \subseteq OrganizerItems \cup SendItems \cup ReplyItems
  BY <1>1 DEF TypeOK
<1>5. refresh' \subseteq Attendees /\ (org' = None => refresh' = {})
  BY <1>1 DEF TypeOK
<1>6. /\ copy' \in [Attendees -> Copies \cup {None}]
      /\ \A a \in Attendees : copy'[a] # None => copy'[a].time <= copy'[a].seq
      /\ autoReply' \subseteq {a \in Automatic : copy'[a] # None}
  BY <1>1 DEF TypeOK
<1>7. /\ answers' \in 0..MaxAnswers /\ dups' \in 0..MaxDuplicates
      /\ answered' \in [Attendees -> Nat] /\ cancelled' \in [Attendees -> Nat]
      /\ dropped' \in [Attendees -> Int] /\ heard' \in [Attendees -> Int]
      /\ lost' \subseteq Attendees \X Nat
  BY <1>1 DEF TypeOK
<1> QED BY <1>2, <1>3, <1>4, <1>5, <1>6, <1>7 DEF TypeOK

\* An event as it is created
LEMMA CreatedIs ==
    ASSUME NEW A \in SUBSET Attendees
    PROVE  /\ Created(A, 0) \in Events
           /\ Created(A, 0).seq = 0 /\ Created(A, 0).time = 0 /\ Created(A, 0).atts = A
           /\ \A a \in Attendees : /\ Created(A, 0).reset[a] = 0
                                   /\ Created(A, 0).ps[a] = "NEEDS-ACTION"
BY DEF Created, Events, PartStats

\* The items the organizer's changes make
LEMMA OrganizerWorkIs ==
    ASSUME NEW e \in Events, NEW d \in Events
    PROVE  /\ OrganizerWork("create", None, e) \in OrganizerItems
           /\ OrganizerWork("modify", d, e) \in OrganizerItems
           /\ OrganizerWork("remove", e, None) \in OrganizerItems
BY DEF OrganizerWork, OrganizerItems

\* The event as its deletion records it
LEMMA BumpedIs ==
    ASSUME NEW e \in Events
    PROVE  /\ [e EXCEPT !.seq = e.seq + 1] \in Events
           /\ [e EXCEPT !.seq = e.seq + 1].seq = e.seq + 1
           /\ [e EXCEPT !.seq = e.seq + 1].atts = e.atts
BY DEF Events

\* The changes of the organizer keep the types.
LEMMA TypeOrganizer ==
    ASSUME TypeOK, OrganizerStep
    PROVE  TypeOK'
<1>1. ASSUME NEW A \in SUBSET Attendees, OrganizerCreate(A) PROVE TypeOK'
  <2>1. Created(A, 0) \in Events /\ OrganizerWork("create", None, Created(A, 0)) \in OrganizerItems
    BY CreatedIs, OrganizerWorkIs
  <2>2. \A a \in Attendees : Created(A, 0).reset[a] <= Created(A, 0).seq
    BY CreatedIs
  <2>3. Created(A, 0).time <= Created(A, 0).seq /\ Created(A, 0) # None
    BY CreatedIs, EventTypes
  <2>4. /\ Put(Created(A, 0), OrganizerWork("create", None, Created(A, 0)))
        /\ deleted' = deleted /\ refresh' = refresh /\ regressed' = regressed
    BY <1>1 DEF OrganizerCreate
  <2>5. regressed' \in BOOLEAN
    BY <2>4 DEF TypeOK
  <2> QED BY <2>1, <2>2, <2>3, <2>4, <2>5, TypePut
<1>2. ASSUME NEW A \in SUBSET Attendees, NEW moved \in BOOLEAN, NEW N \in SUBSET A,
             OrganizerModify(A, moved, N) PROVE TypeOK'
  <2> DEFINE e == modified(org, A, moved, N)
  <2>1. org \in Events /\ org.time <= org.seq /\ \A a \in Attendees : org.reset[a] <= org.seq
    BY <1>2, Types DEF OrganizerModify
  <2>2. e \in Events /\ e.time <= e.seq /\ \A a \in Attendees : e.reset[a] <= e.seq
    BY <2>1, ModifiedIs
  <2>3. /\ Put(e, OrganizerWork("modify", org, e))
        /\ deleted' = deleted /\ refresh' = refresh /\ regressed' = regressed
    BY <1>2 DEF OrganizerModify
  <2>4. regressed' \in BOOLEAN
    BY <2>3 DEF TypeOK
  <2> HIDE DEF e
  <2>5. e # None /\ OrganizerWork("modify", org, e) \in OrganizerItems
    BY <2>1, <2>2, OrganizerWorkIs, EventTypes
  <2> QED BY <2>2, <2>3, <2>4, <2>5, TypePut
<1>3. ASSUME OrganizerRestore PROVE TypeOK'
  <2> DEFINE e == restored(deleted)
  <2>1. /\ deleted \in Events /\ deleted.time <= deleted.seq
        /\ \A a \in Attendees : deleted.reset[a] <= deleted.seq
    BY <1>3, Types DEF OrganizerRestore
  <2>2. e \in Events /\ e.time <= e.seq /\ \A a \in Attendees : e.reset[a] <= e.seq
    BY <2>1, RestoredIs
  <2>3. /\ Put(e, OrganizerWork("create", None, e))
        /\ deleted' = None /\ refresh' = refresh /\ regressed' \in BOOLEAN
    BY <1>3 DEF OrganizerRestore
  <2> HIDE DEF e
  <2>4. e # None /\ OrganizerWork("create", None, e) \in OrganizerItems
    BY <2>2, OrganizerWorkIs, EventTypes
  <2> QED BY <2>2, <2>3, <2>4, TypePut
<1>4. ASSUME OrganizerDelete PROVE TypeOK'
  <2> DEFINE e == [org EXCEPT !.seq = org.seq + 1]
  <2>1. org \in Events /\ org # None
    BY <1>4, Types DEF OrganizerDelete
  <2>2. /\ Put(None, OrganizerWork("remove", e, None))
        /\ deleted' = org /\ refresh' = {} /\ regressed' = regressed
    BY <1>4 DEF OrganizerDelete
  <2>3. e \in Events
    BY <2>1, BumpedIs
  <2> HIDE DEF e
  <2>4. regressed' \in BOOLEAN
    BY <2>2 DEF TypeOK
  <2>5. OrganizerWork("remove", e, None) \in OrganizerItems
    BY <2>3, OrganizerWorkIs
  <2> QED BY <2>1, <2>2, <2>4, <2>5, TypePut
<1> QED BY <1>1, <1>2, <1>3, <1>4 DEF OrganizerStep

\* The items that an organizer item makes are send items.
LEMMA ScheduledTypes ==
    ASSUME TypeOK, NEW i \in OrganizerItems
    PROVE  scheduleWithAttendees(i) \subseteq SendItems
<1> SUFFICES ASSUME NEW k \in scheduleWithAttendees(i) PROVE k \in SendItems
  OBVIOUS
<1>1. \A id \in Nat \cup {None} : \A e \in Events : \A a \in Attendees :
         SendWork(id, a, generateCancel(e)) \in SendItems
  BY EventTypes DEF SendWork, generateCancel, SendItems, CancelMsgs
<1>2. \A id \in Nat \cup {None} : \A e \in Events : \A a \in Attendees :
         SendWork(id, a, generateAttendeeRequest(e, a)) \in SendItems
  BY RequestTypes DEF SendWork, SendItems
<1>3. \A id \in Nat \cup {None} : \A e \in Events : \A A \in SUBSET Attendees :
         Cancels(id, e, A) \subseteq SendItems /\ Requests(id, e) \subseteq SendItems
  BY <1>1, <1>2, EventTypes DEF Cancels, Requests
<1>4. org # None => org.id \in Nat
  BY Types, EventTypes
<1>5. CASE i.action = "remove"
  <2>1. i.old \in Events /\ i.old.atts \in SUBSET Attendees
    BY <1>5, OrganizerTypes, EventTypes
  <2>2. k \in Cancels(None, i.old, i.old.atts)
    BY <1>5 DEF scheduleWithAttendees
  <2> QED BY <1>3, <2>1, <2>2
<1>6. CASE i.action = "create"
  <2>1. i.new \in Events /\ org # None /\ k \in Requests(org.id, i.new)
    BY <1>6, OrganizerTypes DEF scheduleWithAttendees
  <2> QED BY <1>3, <1>4, <2>1, EventTypes
<1>7. CASE i.action = "modify"
  <2>1. /\ i.new \in Events /\ i.old \in Events /\ org # None
        /\ k \in Cancels(org.id, i.old, i.old.atts \ i.new.atts) \cup Requests(org.id, i.new)
    BY <1>7, OrganizerTypes DEF scheduleWithAttendees, Exists
  <2>2. i.old.atts \ i.new.atts \in SUBSET Attendees
    BY <2>1, EventTypes
  <2> QED BY <1>3, <1>4, <2>1, <2>2
<1> QED BY <1>5, <1>6, <1>7, OrganizerTypes

\* A failure that is recorded
LEMMA FailedIs ==
    ASSUME NEW e \in Events, NEW a \in Attendees
    PROVE  /\ [e EXCEPT !.stat[a] = "5.1"] \in Events
           /\ [e EXCEPT !.stat[a] = "5.1"].id = e.id /\ [e EXCEPT !.stat[a] = "5.1"].seq = e.seq
           /\ [e EXCEPT !.stat[a] = "5.1"].time = e.time /\ [e EXCEPT !.stat[a] = "5.1"].atts = e.atts
           /\ [e EXCEPT !.stat[a] = "5.1"].ps = e.ps /\ [e EXCEPT !.stat[a] = "5.1"].reset = e.reset
           /\ \A b \in Attendees :
                 [e EXCEPT !.stat[a] = "5.1"].stat[b] = IF b = a THEN "5.1" ELSE e.stat[b]
BY DEF Events

\* A reply that is processed
LEMMA UpdatedIs ==
    ASSUME NEW e \in Events, NEW i \in ReplyItems
    PROVE  LET f == updateAttendeeDataFromReply(e, i) IN
           /\ f \in Events /\ f.id = e.id /\ f.seq = e.seq /\ f.time = e.time
           /\ f.atts = e.atts /\ f.reset = e.reset
           /\ \A b \in Attendees :
                 /\ f.ps[b] = IF b = i.att /\ replyCounts(e, i) THEN i.ps ELSE e.ps[b]
                 /\ f.stat[b] = IF b = i.att /\ replyCounts(e, i) THEN "2.0" ELSE e.stat[b]
<1>1. i.att \in Attendees /\ i.ps \in PartStats
  BY ReplyTypes
<1>2. CASE replyCounts(e, i)
  <2> DEFINE f == [e EXCEPT !.ps[i.att] = i.ps, !.stat[i.att] = "2.0"]
  <2>1. f \in Events
    BY <1>1 DEF Events
  <2>2. f.id = e.id /\ f.seq = e.seq /\ f.time = e.time /\ f.atts = e.atts /\ f.reset = e.reset
    BY <1>1 DEF Events
  <2>3. \A b \in Attendees : /\ f.ps[b] = IF b = i.att THEN i.ps ELSE e.ps[b]
                             /\ f.stat[b] = IF b = i.att THEN "2.0" ELSE e.stat[b]
    BY <1>1 DEF Events
  <2> HIDE DEF f
  <2>4. updateAttendeeDataFromReply(e, i) = f
    BY <1>2 DEF updateAttendeeDataFromReply, f
  <2> QED BY <1>2, <2>1, <2>2, <2>3, <2>4
<1>3. CASE ~replyCounts(e, i)
  BY <1>3 DEF updateAttendeeDataFromReply
<1> QED BY <1>2, <1>3

\* What the rest of the steps leave to show
LEMMA TypeRest ==
    ASSUME TypeOK, deleted' = deleted, puts' = puts, regressed' = regressed,
           org' \in Events \cup {None}, (org' = None) = (org = None),
           org # None => org'.time = org.time /\ org'.seq = org.seq /\ org'.reset = org.reset,
           items' \subseteq items \cup OrganizerItems \cup SendItems \cup ReplyItems,
           copy' \in [Attendees -> Copies \cup {None}],
           \A a \in Attendees : copy'[a] # None => copy'[a].time <= copy'[a].seq,
           autoReply' \subseteq {a \in Automatic : copy'[a] # None},
           refresh' \subseteq Attendees, org = None => refresh' \subseteq refresh,
           answers' \in 0..MaxAnswers, dups' \in 0..MaxDuplicates,
           answered' \in [Attendees -> Nat], cancelled' \in [Attendees -> Nat],
           dropped' \in [Attendees -> Int], heard' \in [Attendees -> Int],
           lost' \subseteq Attendees \X Nat
    PROVE  TypeOK'
<1>1. /\ \A e \in {org', deleted'} \ {None} :
            e.time <= e.seq /\ \A a \in Attendees : e.reset[a] <= e.seq
      /\ deleted' \in Events \cup {None}
  BY DEF TypeOK
<1>2. items' \subseteq OrganizerItems \cup SendItems \cup ReplyItems
  BY DEF TypeOK
<1>3. org' = None => refresh' = {}
  BY DEF TypeOK
<1>4. puts' \in 0..MaxPuts /\ regressed' \in BOOLEAN
  BY DEF TypeOK
<1> QED BY <1>1, <1>2, <1>3, <1>4 DEF TypeOK

\* A message arrives, and nothing else happens but in the queue.
Arrives(a, msg, f) ==
    /\ Receive(a, msg, f)
    /\ UNCHANGED <<org, deleted, answers, puts, answered, erased, regressed, dropped, lost>>
    /\ items' \subseteq items /\ refresh' \subseteq refresh /\ dups' \in 0..MaxDuplicates

\* An arrival keeps the types.
LEMMA TypeArrives ==
    ASSUME TypeOK, NEW a \in Attendees, NEW msg \in CancelMsgs \cup RequestMsgs, NEW f,
           msg.method = "REQUEST" => msg.time <= msg.seq, Arrives(a, msg, f)
    PROVE  TypeOK'
<1>1. /\ copy' \in [Attendees -> Copies \cup {None}]
      /\ \A b \in Attendees : copy'[b] # None => copy'[b].time <= copy'[b].seq
      /\ autoReply' \subseteq {b \in Automatic : copy'[b] # None}
  BY ReceiveTypes DEF Arrives
<1>2. cancelled' \in [Attendees -> Nat] /\ heard' \in [Attendees -> Int]
  BY ReceiveMarks DEF Arrives
<1>3. /\ answered' \in [Attendees -> Nat] /\ dropped' \in [Attendees -> Int]
      /\ lost' \subseteq Attendees \X Nat /\ answers' \in 0..MaxAnswers
      /\ org' \in Events \cup {None} /\ refresh' \subseteq Attendees
  BY DEF TypeOK, Arrives
<1> QED BY <1>1, <1>2, <1>3, TypeRest DEF Arrives

\* The message of a send item, and the one a refresh sends
LEMMA MessageTypes ==
    ASSUME TypeOK, \A a \in Attendees : VersionInv(a)
    PROVE  /\ \A i \in items : i.kind = "send" =>
                 /\ i.att \in Attendees /\ i.msg \in CancelMsgs \cup RequestMsgs
                 /\ i.msg.method = "REQUEST" => i.msg.time <= i.msg.seq
           /\ \A a \in Attendees : org # None =>
                 /\ generateAttendeeRequest(org, a) \in RequestMsgs
                 /\ generateAttendeeRequest(org, a).time <= generateAttendeeRequest(org, a).seq
<1>1. ASSUME NEW i \in items, i.kind = "send"
      PROVE  /\ i.att \in Attendees /\ i.msg \in CancelMsgs \cup RequestMsgs
             /\ i.msg.method = "REQUEST" => i.msg.time <= i.msg.seq
  <2>1. i.att \in Attendees /\ i.msg \in CancelMsgs \cup RequestMsgs
    BY <1>1, ItemTypes, SendTypes
  <2>2. i.msg.method = "REQUEST" => i.msg \in Asked(i.att)
    BY <1>1, SendBrings
  <2> QED BY <2>1, <2>2 DEF VersionInv
<1>2. ASSUME NEW a \in Attendees, org # None
      PROVE  /\ generateAttendeeRequest(org, a) \in RequestMsgs
             /\ generateAttendeeRequest(org, a).time <= generateAttendeeRequest(org, a).seq
  BY <1>2, Types, RequestTypes
<1> QED BY <1>1, <1>2

\* A send item that arrives
LEMMA SendArrives ==
    ASSUME TypeOK, NEW i \in items, Send(i) \/ SendAgain(i)
    PROVE  Arrives(i.att, i.msg, FALSE) /\ i.kind = "send" /\ items' \in {items, items \ {i}}
<1>1. dups \in 0..MaxDuplicates /\ MaxDuplicates \in Nat
  BY SchedulingAssumption DEF TypeOK
<1>2. /\ i.kind = "send" /\ Receive(i.att, i.msg, FALSE) /\ items' \in {items, items \ {i}}
      /\ UNCHANGED <<org, deleted, answers, puts, answered, erased, regressed, dropped, lost>>
      /\ items' \subseteq items /\ refresh' \subseteq refresh
      /\ dups' = dups \/ (dups < MaxDuplicates /\ dups' = dups + 1)
  BY Zenon DEF Send, SendAgain, boundVars
<1>3. dups' \in 0..MaxDuplicates
  BY <1>1, <1>2
<1> QED BY <1>2, <1>3, Zenon DEF Arrives

\* A refresh that arrives, or does not
LEMMA RefreshArrives ==
    ASSUME TypeOK, NEW a \in Attendees, Refresh(a)
    PROVE  /\ org # None /\ items' = items
           /\ \/ a \in org.atts /\ Arrives(a, generateAttendeeRequest(org, a), TRUE)
              \/ /\ UNCHANGED <<org, deleted, down, copy, items, autoReply, boundVars, histVars>>
                 /\ refresh' \subseteq refresh
<1>1. dups \in 0..MaxDuplicates /\ (org = None => refresh = {})
  BY DEF TypeOK
<1>2. org # None
  BY <1>1 DEF Refresh
<1> QED BY <1>1, <1>2 DEF Refresh, Arrives, boundVars, histVars

\* The steps of the organizer's work items keep the types.
LEMMA TypeSend ==
    ASSUME TypeOK, \A a \in Attendees : VersionInv(a), NEW i \in items,
           Send(i) \/ SendAgain(i) \/ SendRetry(i) \/ SendGiveUp(i)
    PROVE  TypeOK'
<1>1. CASE Send(i) \/ SendAgain(i)
  BY <1>1, SendArrives, MessageTypes, TypeArrives
<1>2. CASE SendRetry(i)
  <2>1. i \in SendItems
    BY <1>2, ItemTypes DEF SendRetry
  <2>2. [i EXCEPT !.failed = IF i.failed < MaxTemporaryFailures THEN i.failed + 1 ELSE i.failed]
           \in SendItems
    BY <2>1, SchedulingAssumption DEF SendItems
  <2>3. items' \subseteq items \cup SendItems
    BY <1>2, <2>2 DEF SendRetry
  <2>4. UNCHANGED <<org, deleted, down, copy, autoReply, refresh, boundVars, histVars>>
    BY <1>2 DEF SendRetry
  <2> QED BY <2>3, <2>4 DEF TypeOK, boundVars, histVars
<1>3. CASE SendGiveUp(i)
  <2>1. i.att \in Attendees /\ i.msg.seq \in Nat
    BY <1>3, ItemTypes, SendTypes DEF SendGiveUp
  <2>2. /\ org' \in Events \cup {None} /\ (org' = None) = (org = None)
        /\ org # None => org'.time = org.time /\ org'.seq = org.seq /\ org'.reset = org.reset
    <3>1. CASE Exists(i.id) /\ i.att \in org.atts
      <4>1. org \in Events /\ org # None /\ org' = [org EXCEPT !.stat[i.att] = "5.1"]
        BY <1>3, <3>1, Types DEF SendGiveUp, handleSchedulingResponse, Exists
      <4> QED BY <2>1, <4>1, FailedIs, EventTypes
    <3>2. CASE ~(Exists(i.id) /\ i.att \in org.atts)
      BY <1>3, <3>2 DEF SendGiveUp, handleSchedulingResponse, TypeOK
    <3> QED BY <3>1, <3>2
  <2>3. lost' \subseteq Attendees \X Nat
    BY <1>3, <2>1 DEF SendGiveUp, TypeOK
  <2>4. /\ items' \subseteq items
        /\ UNCHANGED <<deleted, down, copy, autoReply, refresh, boundVars, answered,
                       erased, regressed, cancelled, dropped, heard, unsure, revived>>
    BY <1>3 DEF SendGiveUp
  <2> QED BY <2>2, <2>3, <2>4, TypeRest DEF TypeOK, boundVars
<1> QED BY <1>1, <1>2, <1>3

\* Processing an organizer item keeps the types.
LEMMA TypeQueue ==
    ASSUME TypeOK, ItemInv, NEW i \in items, queuedOrganizerProcessing(i)
    PROVE  TypeOK'
<1>1. i \in OrganizerItems /\ (i.action = "modify" => i.new.seq = i.old.seq + 1)
  BY ItemTypes DEF queuedOrganizerProcessing, ItemInv
<1>2. items' \subseteq items \cup SendItems
  BY <1>1, ScheduledTypes DEF queuedOrganizerProcessing
<1>3. lost' \subseteq Attendees \X Nat
  <2>1. NotTold(i) \subseteq Attendees \X Nat
    BY <1>1, NotToldTypes
  <2> QED BY <2>1 DEF queuedOrganizerProcessing, TypeOK
<1>4. UNCHANGED <<org, deleted, down, copy, autoReply, refresh, boundVars, answered,
                  erased, regressed, cancelled, dropped, heard, unsure, revived>>
  BY DEF queuedOrganizerProcessing
<1> QED BY <1>2, <1>3, <1>4, TypeRest DEF TypeOK, boundVars

\* A copy with another answer
LEMMA AnsweredIs ==
    ASSUME NEW c \in Copies, NEW p \in PartStats
    PROVE  /\ [c EXCEPT !.ps = p] \in Copies /\ [c EXCEPT !.ps = p].seq = c.seq
           /\ [c EXCEPT !.ps = p].time = c.time /\ [c EXCEPT !.ps = p].ps = p
           /\ [c EXCEPT !.ps = p].cancelled = c.cancelled
BY DEF Copies

\* The three things that an attendee does: he answers, he answers an event that is
\* gone, and his copy is deleted.
Answers(a, p) ==
    /\ copy[a] # None /\ p \in PartStats
    /\ \E c \in Copies : /\ copy' = [copy EXCEPT ![a] = c] /\ c.seq = copy[a].seq
                         /\ c.time = copy[a].time /\ c.ps = p /\ c.cancelled = copy[a].cancelled
    /\ autoReply' = autoReply /\ dropped' = dropped
    /\ unsure' = unsure
Deletes(a) ==
    /\ copy[a] # None /\ copy' = [copy EXCEPT ![a] = None]
    /\ autoReply' = autoReply \ {a}
    /\ dropped' = [dropped EXCEPT ![a] = copy[a].seq]
    /\ unsure' = unsure \cup (autoReply \cap {a})

\* The reply that is queued is the latest.
Replied(a, p) ==
    \E r \in ReplyItems :
       /\ items' = items \cup {r} /\ r.att = a /\ r.seq = copy[a].seq /\ r.time = copy[a].time
       /\ r.ps = p /\ r.n = answers'

\* What an attendee's step leaves alone
AttendeeKeeps ==
    UNCHANGED <<org, deleted, refresh, puts, dups, answered, erased, regressed, cancelled,
                heard, lost, revived>>

\* The steps of an attendee in these terms
LEMMA AttendeeIs ==
    ASSUME TypeOK, NEW a \in Attendees, AttendeeStep(a)
    PROVE  /\ answers' = answers + 1 /\ answers' \in 0..MaxAnswers /\ answers \in Nat
           /\ AttendeeKeeps
           /\ \/ \E p \in PartStats : Answers(a, p) /\ Replied(a, p)
              \/ \E p \in PartStats : Answers(a, p) /\ items' = items /\ org = None
              \/ Deletes(a) /\ items' = items /\ org = None
              \/ Deletes(a) /\ items' = items /\ (copy[a].cancelled \/ copy[a].ps = "DECLINED")
              \/ Deletes(a) /\ Replied(a, "DECLINED") /\ ~copy[a].cancelled
<1>1. copy[a] # None /\ answers' = answers + 1 /\ answers < MaxAnswers /\ AttendeeKeeps
  BY DEF AttendeeStep, AttendeePut, AttendeeDelete, AttendeeKeeps
<1>2. answers' \in 0..MaxAnswers /\ answers \in Nat /\ answers' \in Nat
  BY <1>1, SchedulingAssumption DEF TypeOK
<1>3. copy[a] \in Copies /\ copy \in [Attendees -> Copies \cup {None}]
  BY <1>1 DEF TypeOK
<1>4. ASSUME AttendeeDelete(a)
      PROVE  /\ Deletes(a)
             /\ \/ items' = items /\ (copy[a].cancelled \/ copy[a].ps = "DECLINED")
                \/ Replied(a, "DECLINED") /\ ~copy[a].cancelled
  <2>1. copy' = [copy EXCEPT ![a] = None] /\ autoReply' = autoReply \ {a}
    BY <1>4 DEF AttendeeDelete, Cascade
  <2>2. copy'[a] = None
    BY <1>3, <2>1
  <2>3. dropped' = [dropped EXCEPT ![a] = copy[a].seq] /\ unsure' = unsure \cup (autoReply \cap {a})
    BY <1>4, <2>1, <2>2 DEF AttendeeDelete
  <2>4. Deletes(a)
    BY <1>1, <2>1, <2>3 DEF Deletes
  <2>5. CASE copy[a].cancelled \/ copy[a].ps = "DECLINED"
    BY <1>4, <2>4, <2>5 DEF AttendeeDelete
  <2>6. CASE ~(copy[a].cancelled \/ copy[a].ps = "DECLINED")
    <3> DEFINE r == ReplyWork(a, copy[a], "DECLINED", FALSE)
    <3>1. items' = items \cup {r}
      BY <1>4, <2>6 DEF AttendeeDelete
    <3>2. r \in ReplyItems /\ r.att = a /\ r.seq = copy[a].seq /\ r.time = copy[a].time
          /\ r.ps = "DECLINED" /\ r.n = answers'
      BY <1>2, <1>3, CopyTypes DEF ReplyWork, ReplyItems, PartStats
    <3> HIDE DEF r
    <3>3. Replied(a, "DECLINED")
      BY <3>1, <3>2 DEF Replied
    <3> QED BY <2>4, <2>6, <3>3
  <2> QED BY <2>4, <2>5, <2>6
<1>5. ASSUME NEW p \in {"ACCEPTED", "DECLINED"}, AttendeePut(a, p)
      PROVE  \/ Answers(a, p) /\ Replied(a, p)
             \/ Answers(a, p) /\ items' = items /\ org = None
             \/ Deletes(a) /\ items' = items /\ org = None
  <2>1. p \in PartStats
    BY DEF PartStats
  <2> DEFINE c == [copy[a] EXCEPT !.ps = p]
  <2>2. c \in Copies /\ c.seq = copy[a].seq /\ c.time = copy[a].time /\ c.ps = p
        /\ c.cancelled = copy[a].cancelled /\ c # None
    BY <1>3, <2>1, AnsweredIs, CopyTypes
  <2>3. /\ dropped' = IF copy'[a] = None THEN [dropped EXCEPT ![a] = copy[a].seq] ELSE dropped
        /\ unsure' = unsure \cup (autoReply \ autoReply')
    BY <1>5 DEF AttendeePut
  <2>4. ASSUME copy' = [copy EXCEPT ![a].ps = p], autoReply' = autoReply PROVE Answers(a, p)
    <3>1. copy' = [copy EXCEPT ![a] = c]
      BY <2>4
    <3> HIDE DEF c
    <3>2. copy'[a] = c
      BY <1>3, <3>1
    <3>3. dropped' = dropped /\ unsure' = unsure
      BY <2>2, <2>3, <2>4, <3>2
    <3> QED BY <1>1, <2>1, <2>2, <2>4, <3>1, <3>3 DEF Answers
  <2> HIDE DEF c
  <2>5. CASE /\ a \in Remote \/ org # None
             /\ copy' = [copy EXCEPT ![a].ps = p]
             /\ items' = items \cup {ReplyWork(a, copy[a], p, TRUE)}
             /\ UNCHANGED autoReply
    <3> DEFINE r == ReplyWork(a, copy[a], p, TRUE)
    <3>1. r \in ReplyItems /\ r.att = a /\ r.seq = copy[a].seq /\ r.time = copy[a].time
          /\ r.ps = p /\ r.n = answers'
      BY <1>2, <1>3, <2>1, CopyTypes DEF ReplyWork, ReplyItems
    <3>2. items' = items \cup {r}
      BY <2>5
    <3> HIDE DEF r
    <3>3. Replied(a, p)
      BY <3>1, <3>2 DEF Replied
    <3> QED BY <2>4, <2>5, <3>3
  <2>6. CASE /\ a \notin Remote /\ org = None /\ copy[a].cancelled
             /\ copy' = [copy EXCEPT ![a].ps = p]
             /\ UNCHANGED <<items, autoReply>>
    BY <2>4, <2>6
  <2>7. CASE /\ a \notin Remote /\ org = None /\ ~copy[a].cancelled
             /\ copy' = [copy EXCEPT ![a] = None]
             /\ autoReply' = Cascade(a)
             /\ UNCHANGED items
    <3>1. copy'[a] = None /\ autoReply' = autoReply \ {a}
      BY <1>3, <2>7 DEF Cascade
    <3>2. dropped' = [dropped EXCEPT ![a] = copy[a].seq] /\ unsure' = unsure \cup (autoReply \cap {a})
      BY <2>3, <3>1
    <3> QED BY <1>1, <2>7, <3>1, <3>2 DEF Deletes
  <2> QED BY <1>5, <2>5, <2>6, <2>7 DEF AttendeePut
<1>6. {"ACCEPTED", "DECLINED"} \subseteq PartStats
  BY DEF PartStats
<1> QED BY <1>1, <1>2, <1>4, <1>5, <1>6 DEF AttendeeStep

\* A deleted copy
LEMMA DeletesTypes ==
    ASSUME TypeOK, NEW a \in Attendees, Deletes(a)
    PROVE  /\ copy' \in [Attendees -> Copies \cup {None}]
           /\ \A b \in Attendees : copy'[b] # None => copy'[b].time <= copy'[b].seq
           /\ autoReply' \subseteq {b \in Automatic : copy'[b] # None}
           /\ dropped' \in [Attendees -> Int] /\ copy'[a] = None /\ dropped'[a] = copy[a].seq
           /\ copy[a] \in Copies
           /\ \A b \in Attendees \ {a} : copy'[b] = copy[b] /\ dropped'[b] = dropped[b]
<1>1. copy[a] \in Copies /\ copy[a].seq \in Nat /\ dropped \in [Attendees -> Int]
  BY CopyTypes DEF Deletes, TypeOK
<1>2. dropped' = [dropped EXCEPT ![a] = copy[a].seq] /\ copy' = [copy EXCEPT ![a] = None]
      /\ autoReply' = autoReply \ {a}
  BY DEF Deletes
<1>3. /\ copy \in [Attendees -> Copies \cup {None}]
      /\ \A b \in Attendees : copy[b] # None => copy[b].time <= copy[b].seq
      /\ autoReply \subseteq {b \in Automatic : copy[b] # None}
  BY DEF TypeOK
<1> QED BY <1>1, <1>2, <1>3

\* An answer
LEMMA AnswersTypes ==
    ASSUME TypeOK, NEW a \in Attendees, NEW p, Answers(a, p)
    PROVE  /\ copy' \in [Attendees -> Copies \cup {None}]
           /\ \A b \in Attendees : copy'[b] # None => copy'[b].time <= copy'[b].seq
           /\ autoReply' \subseteq {b \in Automatic : copy'[b] # None}
           /\ copy[a] \in Copies /\ copy'[a] \in Copies /\ copy'[a] # None
           /\ copy'[a].seq = copy[a].seq /\ copy'[a].time = copy[a].time /\ copy'[a].ps = p
           /\ copy'[a].cancelled = copy[a].cancelled
           /\ \A b \in Attendees \ {a} : copy'[b] = copy[b]
<1>1. PICK c \in Copies : /\ copy' = [copy EXCEPT ![a] = c] /\ c.seq = copy[a].seq
                          /\ c.time = copy[a].time /\ c.ps = p /\ c.cancelled = copy[a].cancelled
  BY DEF Answers
<1>2. c # None /\ copy[a] # None /\ autoReply' = autoReply
  BY CopyTypes DEF Answers
<1>3. /\ copy \in [Attendees -> Copies \cup {None}]
      /\ \A b \in Attendees : copy[b] # None => copy[b].time <= copy[b].seq
      /\ autoReply \subseteq {b \in Automatic : copy[b] # None}
  BY DEF TypeOK
<1> QED BY <1>1, <1>2, <1>3

\* The attendees' steps keep the types.
LEMMA TypeAttendee ==
    ASSUME TypeOK, NEW a \in Attendees, AttendeeStep(a)
    PROVE  TypeOK'
<1>1. answers' \in 0..MaxAnswers /\ AttendeeKeeps
  BY AttendeeIs
<1>2. /\ dups' \in 0..MaxDuplicates /\ lost' \subseteq Attendees \X Nat /\ refresh' = refresh
      /\ answered' \in [Attendees -> Nat] /\ cancelled' \in [Attendees -> Nat]
      /\ heard' \in [Attendees -> Int] /\ org' = org /\ org \in Events \cup {None}
      /\ refresh' \subseteq Attendees /\ deleted' = deleted /\ puts' = puts
      /\ regressed' = regressed /\ dropped \in [Attendees -> Int]
  BY <1>1 DEF AttendeeKeeps, TypeOK
<1>3. items' \subseteq items \cup ReplyItems
  <2>1. \/ items' = items \/ \E p : Replied(a, p)
    BY AttendeeIs
  <2> QED BY <2>1 DEF Replied
<1>4. Deletes(a) \/ \E p \in PartStats : Answers(a, p)
  BY AttendeeIs
<1>5. CASE Deletes(a)
  <2>1. /\ copy' \in [Attendees -> Copies \cup {None}]
        /\ \A b \in Attendees : copy'[b] # None => copy'[b].time <= copy'[b].seq
        /\ autoReply' \subseteq {b \in Automatic : copy'[b] # None}
        /\ dropped' \in [Attendees -> Int]
    BY <1>5, DeletesTypes
  <2> QED BY <1>1, <1>2, <1>3, <2>1, TypeRest
<1>6. ASSUME NEW p \in PartStats, Answers(a, p) PROVE TypeOK'
  <2>1. /\ copy' \in [Attendees -> Copies \cup {None}]
        /\ \A b \in Attendees : copy'[b] # None => copy'[b].time <= copy'[b].seq
        /\ autoReply' \subseteq {b \in Automatic : copy'[b] # None}
    BY <1>6, AnswersTypes
  <2>2. dropped' \in [Attendees -> Int]
    BY <1>2, <1>6 DEF Answers
  <2> QED BY <1>1, <1>2, <1>3, <2>1, <2>2, TypeRest
<1> QED BY <1>4, <1>5, <1>6

\* An auto-reply item queues a reply with what the copy says.
LEMMA AutoReplyIs ==
    ASSUME TypeOK, NEW a \in Attendees, SendAutoReply(a)
    PROVE  /\ UNCHANGED <<org, deleted, down, copy, refresh, boundVars, histVars>>
           /\ a \in autoReply /\ autoReply' = autoReply \ {a}
           /\ copy[a] # None /\ copy[a] \in Copies
           /\ Replied(a, copy[a].ps)
<1>1. /\ UNCHANGED <<org, deleted, down, copy, refresh, boundVars, histVars>>
      /\ a \in autoReply /\ autoReply' = autoReply \ {a}
  BY DEF SendAutoReply
<1>2. copy[a] # None /\ copy[a] \in Copies /\ answers' \in Nat
  BY <1>1, SchedulingAssumption DEF TypeOK, boundVars
<1> DEFINE r == ReplyWork(a, copy[a], copy[a].ps, TRUE)
<1>3. items' = items \cup {r}
  BY <1>2 DEF SendAutoReply
<1>4. r \in ReplyItems /\ r.att = a /\ r.seq = copy[a].seq /\ r.time = copy[a].time
      /\ r.ps = copy[a].ps /\ r.n = answers'
  BY <1>2, CopyTypes DEF ReplyWork, ReplyItems
<1> HIDE DEF r
<1>5. Replied(a, copy[a].ps)
  BY <1>3, <1>4 DEF Replied
<1> QED BY <1>1, <1>2, <1>5

\* The work of replies keeps the types.
LEMMA TypeReply ==
    ASSUME TypeOK, NEW i \in items,
           doImplicitOrganizerUpdate(i) \/ ReplyRetry(i) \/ ReplyGiveUp(i)
    PROVE  TypeOK'
<1>1. i \in ReplyItems
  BY ItemTypes DEF doImplicitOrganizerUpdate, ReplyRetry, ReplyGiveUp
<1>2. CASE doImplicitOrganizerUpdate(i)
  <2>1. /\ items' \subseteq items
        /\ UNCHANGED <<deleted, down, copy, autoReply, boundVars, erased, regressed,
                       cancelled, dropped, heard, lost, revived>>
    BY <1>2 DEF doImplicitOrganizerUpdate
  <2>2. CASE org = None
    <3>1. UNCHANGED <<org, refresh, answered>>
      BY <1>2, <2>2 DEF doImplicitOrganizerUpdate
    <3> QED BY <2>1, <2>2, <3>1, TypeRest DEF TypeOK, boundVars
  <2>3. CASE org # None
    <3>1. org \in Events /\ org' = updateAttendeeDataFromReply(org, i)
      BY <1>2, <2>3, Types DEF doImplicitOrganizerUpdate
    <3>2. /\ org' \in Events \cup {None} /\ (org' = None) = (org = None)
          /\ org'.time = org.time /\ org'.seq = org.seq /\ org'.reset = org.reset
      <4> HIDE DEF updateAttendeeDataFromReply
      <4> QED BY <1>1, <2>3, <3>1, UpdatedIs, EventTypes
    <3>3. answered' \in [Attendees -> Nat]
      <4>1. answered' = answered \/ answered' = [answered EXCEPT ![i.att] = i.time]
        BY <1>2, <2>3 DEF doImplicitOrganizerUpdate
      <4>2. i.time \in Nat /\ answered \in [Attendees -> Nat]
        BY <1>1, ReplyTypes DEF TypeOK
      <4> QED BY <4>1, <4>2
    <3>4. refresh' \subseteq Attendees
      <4>1. refresh' \subseteq refresh \cup org.atts
        BY <1>2, <2>3 DEF doImplicitOrganizerUpdate
      <4> QED BY <3>1, <4>1, EventTypes DEF TypeOK
    <3> QED BY <2>1, <2>3, <3>2, <3>3, <3>4, TypeRest DEF TypeOK, boundVars
  <2> QED BY <2>2, <2>3
<1>3. CASE ReplyRetry(i)
  <2>1. [i EXCEPT !.failed = IF i.failed < MaxTemporaryFailures THEN i.failed + 1 ELSE i.failed]
           \in ReplyItems
    BY <1>1, SchedulingAssumption DEF ReplyItems
  <2>2. items' \subseteq items \cup ReplyItems
    BY <1>3, <2>1 DEF ReplyRetry
  <2>3. UNCHANGED <<org, deleted, down, copy, autoReply, refresh, boundVars, histVars>>
    BY <1>3 DEF ReplyRetry
  <2> QED BY <2>2, <2>3 DEF TypeOK, boundVars, histVars
<1>4. CASE ReplyGiveUp(i)
  <2>1. /\ items' \subseteq items
        /\ UNCHANGED <<org, deleted, down, copy, autoReply, refresh, boundVars, answered,
                       erased, regressed, cancelled, dropped, heard, lost, revived>>
    BY <1>4 DEF ReplyGiveUp
  <2> QED BY <2>1 DEF TypeOK, boundVars
<1> QED BY <1>2, <1>3, <1>4

\* Every step keeps the types.
LEMMA TypeStep ==
    ASSUME TypeOK, ItemInv, \A a \in Attendees : VersionInv(a), [Next]_vars
    PROVE  TypeOK'
<1>1. ASSUME NEW a \in Attendees, SendAutoReply(a) PROVE TypeOK'
  <2>1. /\ UNCHANGED <<org, deleted, down, copy, refresh, boundVars, histVars>>
        /\ autoReply' \subseteq autoReply
    BY <1>1, AutoReplyIs
  <2>2. items' \subseteq items \cup ReplyItems
    BY <1>1, AutoReplyIs DEF Replied
  <2> QED BY <2>1, <2>2 DEF TypeOK, boundVars, histVars
<1>2. ASSUME NEW a \in Attendees, Refresh(a) PROVE TypeOK'
  <2>1. CASE a \in org.atts /\ Arrives(a, generateAttendeeRequest(org, a), TRUE)
    <3>1. org # None
      BY <1>2, RefreshArrives
    <3> QED BY <2>1, <3>1, MessageTypes, TypeArrives
  <2>2. CASE /\ UNCHANGED <<org, deleted, down, copy, items, autoReply, boundVars, histVars>>
             /\ refresh' \subseteq refresh
    BY <2>2 DEF TypeOK, boundVars, histVars
  <2> QED BY <1>2, <2>1, <2>2, RefreshArrives
<1>3. ASSUME UNCHANGED vars PROVE TypeOK'
  BY <1>3 DEF vars, workVars, boundVars, histVars, TypeOK
<1>4. ASSUME NEW i \in items, Fault(i) PROVE TypeOK'
  BY <1>4, TypeSend, TypeReply DEF Fault
<1>5. ASSUME RunItem PROVE TypeOK'
  BY <1>1, <1>2, <1>4, <1>5, TypeSend, TypeReply, TypeQueue DEF RunItem
<1> QED BY <1>3, <1>5, TypeOrganizer, TypeAttendee DEF Next

-----------------------------------------------------------------------------
\* The changes of the organizer

\* What a change leaves alone
PutKeeps ==
    UNCHANGED <<copy, autoReply, answers, answered, cancelled, dropped, heard, lost,
                unsure, revived>>

\* The first creation
LEMMA CreateInv ==
    ASSUME Inv, TypeOK', NEW A \in SUBSET Attendees, OrganizerCreate(A)
    PROVE  Inv'
<1> DEFINE e == Created(A, 0)
           it == OrganizerWork("create", None, e)
<1>1. /\ org' = e /\ items' = items \cup {it} /\ PutKeeps
      /\ org = None /\ deleted = None /\ UNCHANGED <<deleted, refresh, erased, regressed>>
  BY DEF OrganizerCreate, Put, PutKeeps
<1>2. /\ items = {} /\ lost = {} /\ erased = {}
      /\ \A a \in Attendees : copy[a] = None /\ dropped[a] = -1
  BY <1>1 DEF Inv, BlankInv
<1>3. /\ e \in Events /\ e # None /\ e.seq = 0 /\ e.time = 0 /\ e.atts = A
      /\ \A a \in Attendees : e.reset[a] = 0 /\ e.ps[a] = "NEEDS-ACTION"
  BY CreatedIs, EventTypes
<1>4. it.kind = "organizer" /\ it.action = "create" /\ it.new = e
  BY DEF OrganizerWork
<1>5. \A a : /\ Asked(a)' = {m \in {generateAttendeeRequest(e, a)} : a \in e.atts}
             /\ Cancelling(a)' = {} /\ Replies(a)' = {}
  <2> TAKE a
  <2>1. Asked(a) = {} /\ Cancelling(a) = {} /\ Replies(a) = {}
    BY <1>2 DEF Asked, Cancelling, Replies
  <2> QED BY <1>1, <2>1, CreateDelta
<1> HIDE DEF e, it
<1>6. BlankInv' /\ LostInv' /\ FailureShown'
  BY <1>1, <1>2, <1>3 DEF BlankInv, LostInv, FailureShown, PutKeeps
<1>7. IdInv' /\ ItemInv'
  BY <1>1, <1>2, <1>4 DEF IdInv, ItemInv
<1>8. ASSUME NEW a \in Attendees PROVE AttInv(a)'
  <2>1. /\ copy[a] = None /\ copy'[a] = None /\ erased' = {} /\ dropped'[a] = dropped[a]
        /\ Out(a)
    BY <1>1, <1>2 DEF PutKeeps, Out
  <2>2. dropped'[a] = -1 /\ -1 <= 0
    BY <1>2, <2>1
  <2>3. org' = e /\ Last' = 0 /\ (Out(a)' <=> a \notin A)
    BY <1>1, <1>3 DEF Last, Out
  <2>4. /\ a \in A => Asked(a)' = {generateAttendeeRequest(e, a)}
        /\ a \notin A => Asked(a)' = {}
    BY <1>3, <1>5
  <2>5. /\ generateAttendeeRequest(e, a).seq = 0 /\ generateAttendeeRequest(e, a).time = 0
        /\ generateAttendeeRequest(e, a).reset = 0
        /\ generateAttendeeRequest(e, a).ps = "NEEDS-ACTION"
    BY <1>3, RequestTypes
  <2>6. VersionInv(a)' /\ StrayInv(a)' /\ OrderInv(a)'
    BY <1>3, <1>5, <2>1, <2>3, <2>4, <2>5 DEF VersionInv, StrayInv, OrderInv, Live
  <2>7. FreshInv(a)'
    BY <1>3, <1>5, <2>1, <2>2, <2>3, <2>4, <2>5 DEF FreshInv, Era
  <2>8. AgreeInv(a)'
    <3>1. NotYet(a)'
      BY <1>3, <2>1, <2>2, <2>3 DEF NotYet
    <3> QED BY <1>3, <1>5, <2>3, <2>4, <2>5, <3>1 DEF AgreeInv
  <2>9. ArriveInv(a)'
    BY <1>3, <2>3, <2>4, <2>5 DEF ArriveInv
  <2>10. DroppedInv(a)'
    BY <2>1 DEF DroppedInv
  <2> QED BY <2>6, <2>7, <2>8, <2>9, <2>10 DEF AttInv
<1> QED BY <1>6, <1>7, <1>8 DEF Inv

\* A deleted event is restored.
LEMMA RestoreInv ==
    ASSUME Inv, TypeOK', OrganizerRestore
    PROVE  Inv'
<1> DEFINE e == restored(deleted)
           it == OrganizerWork("create", None, e)
<1>1. /\ org' = e /\ items' = items \cup {it} /\ PutKeeps /\ erased' = erased
      /\ org = None /\ deleted # None /\ deleted' = None
      /\ regressed' = (regressed \/ deleted.seq = 0)
  BY DEF OrganizerRestore, Put, PutKeeps
<1>2. TypeOK
  BY DEF Inv
<1>3. /\ deleted \in Events /\ deleted.time <= deleted.seq
      /\ \A a \in Attendees : deleted.reset[a] <= deleted.seq
      /\ deleted.seq \in Nat /\ deleted.time \in Nat
  BY <1>1, <1>2, Types, EventTypes
<1>4. /\ e \in Events /\ e # None /\ e.time = deleted.time /\ e.seq \in Nat
      /\ e.time <= e.seq /\ deleted.seq <= e.seq /\ e.atts \subseteq erased
      /\ ~regressed' => ~regressed /\ e.seq > deleted.seq + 2
      /\ \A a \in Attendees : /\ e.ps[a] = "NEEDS-ACTION" /\ e.reset[a] \in Nat
                              /\ e.reset[a] <= e.seq
  <2>1. /\ e \in Events /\ e.seq = IF deleted.seq = 0 THEN 0 ELSE deleted.seq + RestoreGap
        /\ e.time = deleted.time /\ e.time <= e.seq /\ e.atts = deleted.atts
        /\ \A a \in Attendees : e.ps[a] = "NEEDS-ACTION" /\ e.reset[a] <= e.seq
    BY <1>3, RestoredIs
  <2> HIDE DEF e
  <2>2. e # None /\ e.seq \in Nat /\ \A a \in Attendees : e.reset[a] \in Nat
    BY <2>1, EventTypes
  <2>3. ~regressed' => ~regressed /\ deleted.seq # 0
    BY <1>1, Zenon
  <2>4. deleted.seq <= e.seq /\ (deleted.seq # 0 => e.seq > deleted.seq + 2)
    BY <1>3, <2>1, SchedulingAssumption
  <2>5. deleted.seq <= e.seq /\ (~regressed' => ~regressed /\ e.seq > deleted.seq + 2)
    BY <2>3, <2>4
  <2>6. e.atts \subseteq erased
    BY <1>1, <2>1 DEF Inv, BlankInv
  <2> QED BY <2>1, <2>2, <2>5, <2>6
<1>5. it.kind = "organizer" /\ it.action = "create" /\ it.new = e
  BY DEF OrganizerWork
<1>6. \A a : /\ Asked(a)' = Asked(a) \cup {m \in {generateAttendeeRequest(e, a)} : a \in e.atts}
             /\ Cancelling(a)' = Cancelling(a) /\ Replies(a)' = Replies(a)
  BY <1>1, CreateDelta
<1> HIDE DEF e, it
<1>7. Last = deleted.seq /\ Last' = e.seq
  BY <1>1, <1>4 DEF Last
<1>8. BlankInv'
  BY <1>1, <1>4 DEF BlankInv
<1>9. ASSUME ~regressed' PROVE \A l \in lost : l[2] \in Nat /\ l[2] < e.seq
  <2>1. \A l \in lost : l[2] \in Nat /\ l[2] <= deleted.seq + 2
    BY <1>1, <1>2, <1>4, <1>9 DEF Inv, LostInv, TypeOK
  <2> QED BY <1>3, <1>4, <1>9, <2>1
<1>10. LostInv' /\ FailureShown'
  <2>1. LostInv'
    BY <1>1, <1>4, <1>9 DEF LostInv, PutKeeps
  <2>2. ASSUME ~regressed', NEW a \in Attendees PROVE <<a, e.seq>> \notin lost
    BY <1>4, <1>9, <2>2
  <2>3. FailureShown'
    BY <1>1, <1>4, <2>2, EventTypes DEF FailureShown, PutKeeps
  <2> QED BY <2>1, <2>3
<1>11. ItemInv'
  <2>1. ItemInv
    BY DEF Inv
  <2>2. \A i \in items : i.kind = "organizer" /\ i.action = "modify" => i.new.seq \in Nat
    BY <1>2, ItemTypes, OrganizerTypes, EventTypes
  <2> QED BY <1>1, <1>3, <1>4, <1>5, <1>7, <2>1, <2>2 DEF ItemInv, PutKeeps
<1>12. IdInv'
  <2> SUFFICES ASSUME ~regressed'
               PROVE  \A i \in items :
                         /\ i.kind = "send" => i.msg.seq # e.seq
                         /\ i.kind = "organizer" /\ i.action = "modify" => i.new.seq # e.seq
    BY <1>1, <1>5 DEF IdInv
  <2> TAKE i \in items
  <2>1. ASSUME i.kind = "send" PROVE i.msg.seq # e.seq
    <3>1. i.att \in Attendees /\ i.msg.seq \in Nat /\ i.msg.method \in {"CANCEL", "REQUEST"}
      BY <1>2, <2>1, ItemTypes, SendTypes
    <3>2. i.msg.method = "REQUEST" => i.msg.seq <= deleted.seq
      BY <1>2, <1>7, <2>1, <3>1, SendBrings DEF Inv, AttInv, VersionInv
    <3>3. i.msg.method = "CANCEL" => i.msg.seq <= deleted.seq + 2
      BY <1>1, <1>2, <1>4, <2>1, <3>1, SendBrings DEF Inv, AttInv, OrderInv, Below
    <3> QED BY <1>3, <1>4, <3>1, <3>2, <3>3
  <2>2. ASSUME i.kind = "organizer", i.action = "modify" PROVE i.new.seq # e.seq
    <3>1. i.new.seq \in Nat /\ i.new.seq <= deleted.seq
      BY <1>2, <1>7, <2>2, ItemTypes, OrganizerTypes, EventTypes DEF Inv, ItemInv
    <3> QED BY <1>3, <1>4, <3>1
  <2> QED BY <2>1, <2>2
<1>13. ASSUME NEW a \in Attendees PROVE AttInv(a)'
  <2> DEFINE m0 == generateAttendeeRequest(e, a)
  <2>1. m0.seq = e.seq /\ m0.time = e.time /\ m0.ps = "NEEDS-ACTION" /\ m0.reset = e.reset[a]
    BY <1>4, RequestTypes
  <2> HIDE DEF m0
  <2>2. /\ AttInv(a) /\ Out(a) /\ (Out(a)' <=> a \notin e.atts)
        /\ copy'[a] = copy[a] /\ heard'[a] = heard[a] /\ cancelled'[a] = cancelled[a]
        /\ dropped'[a] = dropped[a] /\ lost' = lost
    BY <1>1, <1>4 DEF Inv, Out, PutKeeps
  <2>3. /\ Asked(a)' = Asked(a) \cup {m \in {m0} : a \in e.atts}
        /\ Cancelling(a)' = Cancelling(a) /\ Replies(a)' = Replies(a)
    BY <1>6 DEF m0
  <2>4. \A m \in Asked(a) : m.time \in Nat /\ m.seq \in Nat /\ m.time <= m.seq /\ m.seq <= deleted.seq
    BY <1>2, <1>7, <2>2, AskedTypes DEF AttInv, VersionInv
  <2>5. Live(copy[a]) => /\ copy[a].seq \in Nat /\ copy[a].seq <= deleted.seq
                         /\ copy[a].seq <= heard[a]
    BY <1>2, <1>7, <2>2, Types, CopyTypes DEF AttInv, VersionInv, Live
  <2>6. VersionInv(a)'
    <3>1. \A m \in Asked(a)' : m.time <= m.seq /\ m.seq <= e.seq
      BY <1>3, <1>4, <2>1, <2>3, <2>4
    <3>2. Live(copy[a])' => copy'[a].seq <= e.seq /\ copy'[a].seq <= heard'[a]
      BY <1>3, <1>4, <2>2, <2>5 DEF Live
    <3> QED BY <1>7, <3>1, <3>2 DEF VersionInv
  <2>7. StrayInv(a)'
    <3>1. ASSUME a \notin e.atts PROVE Asked(a)' = Asked(a)
      BY <2>3, <3>1
    <3>2. \A v : Told(a, v)' = Told(a, v)
      BY <2>2, <2>3 DEF Told
    <3>3. ASSUME a \notin e.atts, Live(copy[a]) PROVE Told(a, copy[a].seq)'
      <4>1. Told(a, copy[a].seq)
        BY <2>2, <3>3 DEF AttInv, StrayInv
      <4> QED BY <2>2, <2>3, <4>1 DEF Told
    <3>4. Live(copy[a])' = Live(copy[a])
      BY <2>2 DEF Live
    <3> QED BY <2>2, <3>1, <3>2, <3>3, <3>4 DEF AttInv, StrayInv
  <2>8. OrderInv(a)'
    <3> SUFFICES ASSUME ~regressed' PROVE OrderInv(a)'
      BY DEF OrderInv
    <3>1. \A q \in Cancelling(a) : q \in Nat /\ q <= deleted.seq + 2
      BY <1>1, <1>2, <1>4, <2>2, CancellingTypes DEF AttInv, OrderInv, Below
    <3>2. copy[a] # None /\ copy[a].cancelled => copy[a].seq \in Nat /\ copy[a].seq <= deleted.seq + 2
      BY <1>1, <1>2, <1>4, <2>2, Types, CopyTypes DEF AttInv, OrderInv, Below
    <3>3. \A q \in Nat : q <= deleted.seq + 2 => q < e.seq
      BY <1>3, <1>4
    <3>4. \A q \in Nat : q < e.seq => Below(a, q)'
      BY <1>1, <1>4 DEF Below
    <3>5. (copy[a] # None /\ copy[a].cancelled => Below(a, copy[a].seq))'
      BY <1>1, <1>4, <2>2, <3>2, <3>3 DEF Below
    <3>6. \A m \in Asked(a)' : m.seq = e.seq => m.time = e.time
      BY <1>3, <1>4, <2>1, <2>3, <2>4
    <3> QED BY <1>1, <2>3, <3>1, <3>3, <3>4, <3>5, <3>6 DEF OrderInv
  <2>9. a \notin erased => Out(a)'
    BY <1>4, <2>2
  <2>10. FreshInv(a)'
    <3> SUFFICES ASSUME a \notin erased PROVE FreshInv(a)'
      BY <1>1 DEF FreshInv
    <3>1. /\ \A q \in Cancelling(a) : q \in Nat /\ q <= deleted.seq
          /\ copy[a] # None => copy[a].seq \in Nat /\ copy[a].seq <= deleted.seq
          /\ dropped[a] \in Int /\ dropped[a] <= deleted.seq
          /\ \A i \in Replies(a) : i.seq \in Nat /\ i.seq <= deleted.seq
      <4>1. \A i \in Replies(a) : i.seq \in Nat
        BY <1>2, ItemTypes, ReplyTypes DEF Replies
      <4> QED BY <1>2, <1>7, <2>2, <4>1, CancellingTypes, Types, CopyTypes DEF AttInv, FreshInv
    <3> QED BY <1>3, <1>4, <1>7, <2>2, <2>3, <2>9, <3>1 DEF FreshInv
  <2>11. AgreeInv(a)' /\ DroppedInv(a)'
    BY <1>1, <2>2, <2>9 DEF AgreeInv, AttInv, DroppedInv, PutKeeps
  <2>12. ArriveInv(a)'
    BY <1>1, <2>1, <2>2, <2>3 DEF ArriveInv
  <2> QED BY <2>6, <2>7, <2>8, <2>10, <2>11, <2>12 DEF AttInv
<1> QED BY <1>8, <1>10, <1>11, <1>12, <1>13 DEF Inv

\* A change
LEMMA ModifyInv ==
    ASSUME Inv, TypeOK', NEW A \in SUBSET Attendees, NEW moved \in BOOLEAN, NEW N \in SUBSET A,
           OrganizerModify(A, moved, N)
    PROVE  Inv'
<1> DEFINE e == modified(org, A, moved, N)
           it == OrganizerWork("modify", org, e)
           again == Again(org, A, moved, N)
<1>1. /\ org' = e /\ items' = items \cup {it} /\ PutKeeps /\ org # None
      /\ erased' = erased /\ deleted' = deleted /\ regressed' = regressed
      /\ again \subseteq A /\ A \ again \subseteq org.atts /\ (moved => again = A)
  BY DEF OrganizerModify, Put, PutKeeps, Again
<1>2. TypeOK
  BY DEF Inv
<1>3. /\ org \in Events /\ org.time <= org.seq /\ \A a \in Attendees : org.reset[a] <= org.seq
      /\ org.seq \in Nat /\ org.time \in Nat /\ org.id \in Nat
      /\ \A a \in Attendees : org.reset[a] \in Nat
  BY <1>1, <1>2, Types, EventTypes
<1>4. /\ e \in Events /\ e.seq = org.seq + 1 /\ e.atts = A /\ e.id = org.id
      /\ e.time = (IF moved THEN org.seq + 1 ELSE org.time) /\ e.time <= e.seq
      /\ \A a \in Attendees :
            /\ e.ps[a] = IF a \in A \ again THEN org.ps[a] ELSE "NEEDS-ACTION"
            /\ e.reset[a] = IF a \in again THEN org.seq + 1
                            ELSE IF a \in A THEN org.reset[a] ELSE 0
  BY <1>3, ModifiedIs
<1>5. it.kind = "organizer" /\ it.action = "modify" /\ it.new = e /\ it.old = org
  BY DEF OrganizerWork
<1>6. \A a : /\ Asked(a)' = Asked(a) \cup {m \in {generateAttendeeRequest(e, a)} : a \in e.atts}
             /\ Cancelling(a)' = Cancelling(a) \cup {q \in {org.seq + 1} : a \in org.atts \ e.atts}
             /\ Replies(a)' = Replies(a)
  BY <1>1, ModifyDelta
<1> HIDE DEF e, it, again
<1>7. e # None /\ e.seq \in Nat /\ e.time \in Nat /\ \A a \in Attendees : e.reset[a] \in Nat
  BY <1>4, EventTypes
<1>8. Last = org.seq /\ Last' = e.seq
  BY <1>1, <1>7 DEF Last
<1>9. BlankInv'
  BY <1>1, <1>7 DEF Inv, BlankInv
<1>10. ~regressed => \A l \in lost : l[2] \in Nat /\ l[2] <= org.seq
  BY <1>1, <1>2 DEF Inv, LostInv, TypeOK
<1>11. LostInv' /\ FailureShown'
  <2>1. LostInv'
    BY <1>1, <1>3, <1>4, <1>7, <1>10 DEF LostInv, PutKeeps
  <2>2. ~regressed => \A a \in Attendees : <<a, e.seq>> \notin lost
    BY <1>3, <1>4, <1>10
  <2>3. A \subseteq Attendees
    OBVIOUS
  <2>4. FailureShown'
    BY <1>1, <1>4, <1>7, <2>2, <2>3 DEF FailureShown, PutKeeps
  <2> QED BY <2>1, <2>4
<1>12. ItemInv'
  <2>1. ItemInv
    BY DEF Inv
  <2>2. \A i \in items : i.kind = "organizer" /\ i.action = "modify" => i.new.seq \in Nat
    BY <1>2, ItemTypes, OrganizerTypes, EventTypes
  <2> QED BY <1>1, <1>3, <1>4, <1>5, <1>7, <1>8, <2>1, <2>2 DEF ItemInv, PutKeeps
<1>13. IdInv'
  <2> SUFFICES ASSUME ~regressed
               PROVE  \A i \in items :
                         /\ i.kind = "send" => i.msg.seq # e.seq
                         /\ i.kind = "organizer" /\ i.action = "modify" => i.new.seq # e.seq
    BY <1>1, <1>5 DEF IdInv
  <2> TAKE i \in items
  <2>1. ASSUME i.kind = "send" PROVE i.msg.seq # e.seq
    <3>1. i.att \in Attendees /\ i.msg.seq \in Nat /\ i.msg.method \in {"CANCEL", "REQUEST"}
      BY <1>2, <2>1, ItemTypes, SendTypes
    <3>2. i.msg.method = "REQUEST" => i.msg.seq <= org.seq
      BY <1>2, <1>8, <2>1, <3>1, SendBrings DEF Inv, AttInv, VersionInv
    <3>3. i.msg.method = "CANCEL" => i.msg.seq <= org.seq
      BY <1>1, <1>2, <2>1, <3>1, SendBrings DEF Inv, AttInv, OrderInv, Below
    <3> QED BY <1>3, <1>4, <3>1, <3>2, <3>3
  <2>2. ASSUME i.kind = "organizer", i.action = "modify" PROVE i.new.seq # e.seq
    <3>1. i.new.seq \in Nat /\ i.new.seq <= org.seq
      BY <1>2, <1>8, <2>2, ItemTypes, OrganizerTypes, EventTypes DEF Inv, ItemInv
    <3> QED BY <1>3, <1>4, <3>1
  <2> QED BY <2>1, <2>2
<1>14. ASSUME NEW a \in Attendees PROVE AttInv(a)'
  <2> DEFINE m0 == generateAttendeeRequest(e, a)
  <2>1. m0.seq = e.seq /\ m0.time = e.time /\ m0.ps = e.ps[a] /\ m0.reset = e.reset[a]
    BY <1>4, RequestTypes
  <2> HIDE DEF m0
  <2>2. /\ AttInv(a) /\ (Out(a) <=> a \notin org.atts) /\ (Out(a)' <=> a \notin A)
        /\ copy'[a] = copy[a] /\ heard'[a] = heard[a] /\ cancelled'[a] = cancelled[a]
        /\ dropped'[a] = dropped[a] /\ lost' = lost /\ answered'[a] = answered[a]
        /\ autoReply' = autoReply /\ unsure' = unsure /\ revived' = revived
    BY <1>1, <1>4, <1>7 DEF Inv, Out, PutKeeps
  <2>3. /\ Asked(a)' = Asked(a) \cup {m \in {m0} : a \in A}
        /\ Cancelling(a)' = Cancelling(a) \cup {q \in {org.seq + 1} : a \in org.atts \ A}
        /\ Replies(a)' = Replies(a)
    BY <1>4, <1>6 DEF m0
  <2>4. \A m \in Asked(a) : m.time \in Nat /\ m.seq \in Nat /\ m.time <= m.seq /\ m.seq <= org.seq
    BY <1>2, <1>8, <2>2, AskedTypes DEF AttInv, VersionInv
  <2>5. Live(copy[a]) => /\ copy[a].seq \in Nat /\ copy[a].seq <= org.seq
                         /\ copy[a].seq <= heard[a]
    BY <1>2, <1>8, <2>2, Types, CopyTypes DEF AttInv, VersionInv, Live
  <2>6. VersionInv(a)'
    <3>1. \A m \in Asked(a)' : m.time <= m.seq /\ m.seq <= e.seq
      BY <1>3, <1>4, <1>7, <2>1, <2>3, <2>4
    <3>2. Live(copy[a])' => copy'[a].seq <= e.seq /\ copy'[a].seq <= heard'[a]
      BY <1>3, <1>4, <2>2, <2>5 DEF Live
    <3> QED BY <1>8, <3>1, <3>2 DEF VersionInv
  <2>7. StrayInv(a)'
    <3> SUFFICES ASSUME a \notin A PROVE StrayInv(a)'
      BY <2>2 DEF StrayInv
    <3>1. Asked(a)' = Asked(a) /\ (Live(copy[a])' = Live(copy[a]))
      BY <2>2, <2>3 DEF Live
    <3>2. CASE a \in org.atts
      <4>1. org.seq + 1 \in Cancelling(a)'
        BY <2>3, <3>2
      <4>2. \A m \in Asked(a) : Told(a, m.seq)'
        BY <1>3, <2>4, <4>1 DEF Told
      <4>3. Live(copy[a]) => Told(a, copy[a].seq)'
        BY <1>3, <2>2, <2>5, <4>1 DEF Told
      <4> QED BY <3>1, <4>2, <4>3 DEF StrayInv
    <3>3. CASE a \notin org.atts
      <4>1. Cancelling(a)' = Cancelling(a)
        BY <2>3, <3>3
      <4>2. \A v : Told(a, v)' = Told(a, v)
        BY <2>2, <4>1 DEF Told
      <4>3. Live(copy[a]) => Told(a, copy[a].seq)'
        <5>1. Live(copy[a]) => Told(a, copy[a].seq)
          BY <2>2, <3>3 DEF AttInv, StrayInv
        <5> QED BY <2>2, <4>1, <5>1 DEF Told
      <4> QED BY <2>2, <3>1, <3>3, <4>2, <4>3 DEF AttInv, StrayInv
    <3> QED BY <3>2, <3>3
  <2>8. OrderInv(a)'
    <3> SUFFICES ASSUME ~regressed PROVE OrderInv(a)'
      BY <1>1 DEF OrderInv
    <3>1. \A q \in Cancelling(a) : q \in Nat /\ q <= org.seq
      BY <1>1, <1>2, <2>2, CancellingTypes DEF AttInv, OrderInv, Below
    <3>2. copy[a] # None /\ copy[a].cancelled => copy[a].seq \in Nat /\ copy[a].seq <= org.seq
      BY <1>1, <1>2, <2>2, Types, CopyTypes DEF AttInv, OrderInv, Below
    <3>3. \A q \in Cancelling(a)' : Below(a, q)'
      BY <1>1, <1>3, <1>4, <1>7, <2>3, <3>1 DEF Below
    <3>4. (copy[a] # None /\ copy[a].cancelled => Below(a, copy[a].seq))'
      BY <1>1, <1>3, <1>4, <1>7, <2>2, <3>2 DEF Below
    <3>5. \A m \in Asked(a)' : m.seq = e.seq => m.time = e.time
      BY <1>3, <1>4, <2>1, <2>3, <2>4
    <3> QED BY <1>1, <3>3, <3>4, <3>5 DEF OrderInv
  <2>9. ASSUME a \notin erased
        PROVE  /\ \A q \in Cancelling(a) : q \in Nat /\ q <= org.seq
               /\ copy[a] # None => copy[a].seq \in Nat /\ copy[a].seq <= org.seq
               /\ dropped[a] \in Int /\ dropped[a] <= org.seq
               /\ \A i \in Replies(a) : i.seq \in Nat /\ i.seq <= org.seq
    <3>1. \A i \in Replies(a) : i.seq \in Nat
      BY <1>2, ItemTypes, ReplyTypes DEF Replies
    <3>2. copy[a] # None => copy[a].seq \in Nat
      BY <1>2, Types, CopyTypes
    <3>3. dropped[a] \in Int /\ Cancelling(a) \subseteq Nat
      BY <1>2, Types, CancellingTypes
    <3>4. FreshInv(a)
      BY <2>2 DEF AttInv
    <3>5. CASE Out(a)
      BY <1>8, <2>9, <3>1, <3>2, <3>3, <3>4, <3>5 DEF FreshInv
    <3>6. CASE ~Out(a)
      BY <1>3, <2>9, <3>1, <3>2, <3>3, <3>4, <3>6 DEF FreshInv, Era
    <3> QED BY <3>5, <3>6
  <2>10. FreshInv(a)'
    <3> SUFFICES ASSUME a \notin erased PROVE FreshInv(a)'
      BY <1>1 DEF FreshInv
    <3>1. dropped'[a] <= e.seq
      BY <1>3, <1>4, <2>2, <2>9
    <3>2. CASE a \notin A
      <4>1. \A q \in Cancelling(a)' : q <= e.seq
        BY <1>3, <1>4, <2>3, <2>9
      <4>2. copy'[a] # None => copy'[a].seq <= e.seq
        BY <1>3, <1>4, <2>2, <2>9
      <4>3. \A i \in Replies(a)' : i.seq <= e.seq
        BY <1>3, <1>4, <2>3, <2>9
      <4> QED BY <1>8, <2>2, <3>1, <3>2, <4>1, <4>2, <4>3 DEF FreshInv
    <3>3. CASE a \in again
      <4>1. e.reset[a] = org.seq + 1 /\ e.ps[a] = "NEEDS-ACTION" /\ a \in A
        BY <1>1, <1>4, <3>3
      <4>2. \A x : x.seq \in Nat /\ x.seq <= org.seq => Era(a, x)'
        BY <1>1, <1>3, <1>4, <4>1 DEF Era
      <4>3. \A x : x.seq = e.seq /\ x.time = e.time => Era(a, x)'
        BY <1>1, <1>7 DEF Era
      <4>4. \A m \in Asked(a)' : Era(a, m)' /\ (m.seq >= e.reset[a] => m.reset = e.reset[a])
        BY <1>3, <2>1, <2>3, <2>4, <4>1, <4>2, <4>3
      <4>5. (copy[a] # None => Era(a, copy[a]) /\ (copy[a].cancelled => copy[a].seq < org.reset[a]))'
        BY <1>1, <1>3, <1>4, <2>2, <2>9, <4>1 DEF Era
      <4>6. \A i \in Replies(a)' : Era(a, i)'
        BY <2>3, <2>9, <4>2
      <4>7. \A q \in Cancelling(a)' : q < e.reset[a]
        BY <1>3, <2>3, <2>9, <4>1
      <4> QED BY <1>1, <2>2, <3>1, <4>1, <4>4, <4>5, <4>6, <4>7 DEF FreshInv
    <3>4. CASE a \in A /\ a \notin again
      <4>1. /\ e.reset[a] = org.reset[a] /\ e.ps[a] = org.ps[a] /\ e.time = org.time
            /\ a \in org.atts
        BY <1>1, <1>4, <3>4
      <4>2. \A x : x.seq \in Nat /\ Era(a, x) => Era(a, x)'
        BY <1>1, <1>3, <1>4, <4>1 DEF Era
      <4>3. \A x : x.seq = e.seq /\ x.time = e.time => Era(a, x)'
        BY <1>1, <1>7 DEF Era
      <4>4. FreshInv(a) /\ ~Out(a)
        BY <2>2, <4>1 DEF AttInv
      <4>5. \A m \in Asked(a)' : Era(a, m)' /\ (m.seq >= e.reset[a] => m.reset = e.reset[a])
        BY <2>1, <2>3, <2>4, <4>1, <4>2, <4>3, <4>4 DEF FreshInv
      <4>6. (copy[a] # None => Era(a, copy[a]) /\ (copy[a].cancelled => copy[a].seq < org.reset[a]))'
        BY <1>1, <1>3, <1>4, <2>2, <2>9, <4>1, <4>4 DEF Era, FreshInv
      <4>7. \A i \in Replies(a)' : Era(a, i)'
        BY <2>3, <2>9, <4>2, <4>4 DEF FreshInv
      <4>8. \A q \in Cancelling(a)' : q < e.reset[a]
        BY <2>3, <3>4, <4>1, <4>4 DEF FreshInv
      <4>9. e.ps[a] # "NEEDS-ACTION" => answered[a] >= e.time
        BY <4>1, <4>4 DEF FreshInv
      <4> QED BY <1>1, <2>2, <3>1, <3>4, <4>5, <4>6, <4>7, <4>8, <4>9 DEF FreshInv
    <3> QED BY <3>2, <3>3, <3>4
  <2>11. DroppedInv(a)'
    BY <2>2 DEF AttInv, DroppedInv
  <2>12. AgreeInv(a)'
    <3> SUFFICES ASSUME a \notin erased, a \notin unsure \cup revived, a \in A
                 PROVE  AgreeInv(a)'
      BY <1>1, <2>2 DEF AgreeInv
    <3>1. CASE a \in again
      <4>1. e.reset[a] = org.seq + 1 /\ e.ps[a] = "NEEDS-ACTION"
        BY <1>4, <3>1
      <4>2. NotYet(a)'
        BY <1>1, <1>3, <2>2, <2>9, <4>1 DEF NotYet
      <4>3. \A i \in Replies(a)' : i.seq < e.reset[a]
        BY <1>1, <1>3, <2>3, <2>9, <4>1
      <4>4. \A m \in Asked(a)' : m.seq >= e.reset[a] => m.ps = "NEEDS-ACTION"
        BY <1>3, <2>1, <2>3, <2>4, <4>1
      <4> QED BY <1>1, <4>1, <4>2, <4>3, <4>4 DEF AgreeInv
    <3>2. CASE a \notin again
      <4>1. e.reset[a] = org.reset[a] /\ e.ps[a] = org.ps[a]
        BY <1>4, <3>2
      <4>2. NotYet(a)' = NotYet(a)
        BY <1>1, <2>2, <4>1 DEF NotYet
      <4>3. AgreeInv(a) /\ ~Out(a) /\ a \notin erased \cup unsure \cup revived
        BY <1>1, <2>2, <3>2 DEF AttInv
      <4>4. CASE NotYet(a)
        BY <1>1, <2>1, <2>3, <4>1, <4>2, <4>3, <4>4 DEF AgreeInv
      <4>5. CASE ~NotYet(a)
        <5>1. a \notin autoReply => WillBe(a, IF copy[a] = None THEN "DECLINED" ELSE copy[a].ps)
          BY <4>3, <4>5 DEF AgreeInv
        <5>2. a \notin autoReply => WillBe(a, IF copy[a] = None THEN "DECLINED" ELSE copy[a].ps)'
          BY <1>1, <2>2, <2>3, <4>1, <5>1 DEF WillBe
        <5> QED BY <2>2, <4>2, <4>5, <5>2 DEF AgreeInv
      <4> QED BY <4>4, <4>5
    <3> QED BY <3>1, <3>2
  <2>13. ArriveInv(a)'
    BY <1>1, <2>1, <2>2, <2>3 DEF ArriveInv
  <2> QED BY <2>6, <2>7, <2>8, <2>10, <2>11, <2>12, <2>13 DEF AttInv
<1> QED BY <1>9, <1>11, <1>12, <1>13, <1>14 DEF Inv

\* The event is deleted.
LEMMA DeleteInv ==
    ASSUME Inv, TypeOK', OrganizerDelete
    PROVE  Inv'
<1> DEFINE e == [org EXCEPT !.seq = org.seq + 1]
           it == OrganizerWork("remove", e, None)
<1>1. /\ org' = None /\ items' = items \cup {it} /\ PutKeeps /\ org # None
      /\ erased' = erased \cup org.atts /\ deleted' = org /\ regressed' = regressed
  BY DEF OrganizerDelete, Put, PutKeeps
<1>2. TypeOK
  BY DEF Inv
<1>3. org \in Events /\ org.seq \in Nat
  BY <1>1, <1>2, Types, EventTypes
<1>4. e.seq = org.seq + 1 /\ e.atts = org.atts
  BY <1>3, BumpedIs
<1>5. it.kind = "organizer" /\ it.action = "remove"
  BY DEF OrganizerWork
<1>6. \A a : /\ Asked(a)' = Asked(a) /\ Replies(a)' = Replies(a)
             /\ Cancelling(a)' = Cancelling(a) \cup {q \in {e.seq + 1} : a \in e.atts}
  BY <1>1, RemoveDelta
<1> HIDE DEF e, it
<1>7. Last = org.seq /\ Last' = org.seq
  BY <1>1 DEF Last
<1>8. BlankInv' /\ FailureShown' /\ IdInv'
  BY <1>1 DEF BlankInv, FailureShown, IdInv
<1>9. LostInv'
  <2>1. ~regressed => \A l \in lost : l[2] \in Nat /\ l[2] <= org.seq
    BY <1>1, <1>2 DEF Inv, LostInv, TypeOK
  <2> QED BY <1>1, <1>3, <2>1 DEF LostInv, PutKeeps
<1>10. ItemInv'
  BY <1>1, <1>5, <1>7 DEF Inv, ItemInv, PutKeeps
<1>11. ASSUME NEW a \in Attendees PROVE AttInv(a)'
  <2>1. /\ AttInv(a) /\ (Out(a) <=> a \notin org.atts) /\ Out(a)'
        /\ copy'[a] = copy[a] /\ heard'[a] = heard[a] /\ cancelled'[a] = cancelled[a]
        /\ dropped'[a] = dropped[a] /\ lost' = lost
    BY <1>1 DEF Inv, Out, PutKeeps
  <2>2. /\ Asked(a)' = Asked(a) /\ Replies(a)' = Replies(a)
        /\ Cancelling(a)' = Cancelling(a) \cup {q \in {org.seq + 2} : a \in org.atts}
    BY <1>3, <1>4, <1>6
  <2>3. \A m \in Asked(a) : m.seq \in Nat /\ m.seq <= org.seq
    BY <1>2, <1>7, <2>1, AskedTypes DEF AttInv, VersionInv
  <2>4. Live(copy[a]) => copy[a].seq \in Nat /\ copy[a].seq <= org.seq
    BY <1>2, <1>7, <2>1, Types, CopyTypes DEF AttInv, VersionInv, Live
  <2>5. VersionInv(a)'
    BY <1>7, <2>1, <2>2 DEF AttInv, VersionInv, Live
  <2>6. StrayInv(a)'
    <3>1. Live(copy[a])' = Live(copy[a])
      BY <2>1 DEF Live
    <3>2. CASE a \in org.atts
      <4>1. org.seq + 2 \in Cancelling(a)'
        BY <2>2, <3>2
      <4>2. \A m \in Asked(a) : Told(a, m.seq)'
        BY <1>3, <2>3, <4>1 DEF Told
      <4>3. Live(copy[a]) => Told(a, copy[a].seq)'
        BY <1>3, <2>1, <2>4, <4>1 DEF Told
      <4> QED BY <2>2, <3>1, <4>2, <4>3 DEF StrayInv
    <3>3. CASE a \notin org.atts
      <4>1. Cancelling(a)' = Cancelling(a)
        BY <2>2, <3>3
      <4>2. \A v : Told(a, v)' = Told(a, v)
        BY <2>1, <4>1 DEF Told
      <4>3. Live(copy[a]) => Told(a, copy[a].seq)'
        <5>1. Live(copy[a]) => Told(a, copy[a].seq)
          BY <2>1, <3>3 DEF AttInv, StrayInv
        <5> QED BY <2>1, <4>1, <5>1 DEF Told
      <4> QED BY <2>1, <2>2, <3>1, <3>3, <4>2, <4>3 DEF AttInv, StrayInv
    <3> QED BY <3>2, <3>3
  <2>7. OrderInv(a)'
    <3> SUFFICES ASSUME ~regressed PROVE OrderInv(a)'
      BY <1>1 DEF OrderInv
    <3>1. \A q \in Cancelling(a) : q \in Nat /\ q <= org.seq
      BY <1>1, <1>2, <2>1, CancellingTypes DEF AttInv, OrderInv, Below
    <3>2. copy[a] # None /\ copy[a].cancelled => copy[a].seq \in Nat /\ copy[a].seq <= org.seq
      BY <1>1, <1>2, <2>1, Types, CopyTypes DEF AttInv, OrderInv, Below
    <3>3. \A q \in Cancelling(a)' : Below(a, q)'
      BY <1>1, <1>3, <2>2, <3>1 DEF Below
    <3>4. (copy[a] # None /\ copy[a].cancelled => Below(a, copy[a].seq))'
      BY <1>1, <1>3, <2>1, <3>2 DEF Below
    <3> QED BY <2>1, <3>3, <3>4 DEF OrderInv
  <2>8. FreshInv(a)'
    <3> SUFFICES ASSUME a \notin erased, a \notin org.atts PROVE FreshInv(a)'
      BY <1>1 DEF FreshInv
    <3>1. Cancelling(a)' = Cancelling(a)
      BY <2>2
    <3> QED BY <1>7, <2>1, <2>2, <3>1 DEF AttInv, FreshInv
  <2>9. AgreeInv(a)' /\ ArriveInv(a)' /\ DroppedInv(a)'
    BY <1>1, <2>1 DEF AgreeInv, ArriveInv, AttInv, DroppedInv, PutKeeps
  <2> QED BY <2>5, <2>6, <2>7, <2>8, <2>9 DEF AttInv
<1> QED BY <1>8, <1>9, <1>10, <1>11 DEF Inv

-----------------------------------------------------------------------------
\* The organizer's work items

\* An organizer item makes its messages.
LEMMA QueueInv ==
    ASSUME Inv, TypeOK', NEW i \in items, queuedOrganizerProcessing(i)
    PROVE  Inv'
<1>1. /\ i.kind = "organizer" /\ items' = (items \ {i}) \cup scheduleWithAttendees(i)
      /\ lost' = lost \cup NotTold(i)
      /\ UNCHANGED <<org, deleted, down, copy, autoReply, refresh, boundVars, answered,
                     erased, regressed, cancelled, dropped, heard, unsure, revived>>
  BY DEF queuedOrganizerProcessing
<1>2. TypeOK /\ ItemInv /\ IdInv
  BY DEF Inv
<1>3. i \in OrganizerItems /\ (i.action = "modify" => i.new.seq = i.old.seq + 1)
  BY <1>1, <1>2, ItemTypes DEF ItemInv
<1>4. SameEvent
  BY <1>1 DEF SameEvent
<1>5. \A l \in NotTold(i) :
         /\ i.action = "modify" /\ ~Exists(i.new.id) /\ l[1] \in Attendees /\ l[2] = i.new.seq
         /\ l[2] \in Nat /\ l[2] \in Cancelling(l[1])
  BY <1>3, NotToldTypes, Members
<1>6. BlankInv'
  BY <1>1 DEF Inv, BlankInv
<1>7. LostInv'
  <2> SUFFICES ASSUME ~regressed, NEW l \in NotTold(i)
               PROVE  IF org = None THEN deleted # None /\ l[2] <= deleted.seq + 2
                      ELSE l[2] <= org.seq
    BY <1>1 DEF Inv, LostInv
  <2>1. Below(l[1], l[2])
    BY <1>5 DEF Inv, AttInv, OrderInv
  <2> QED BY <2>1 DEF Below
<1>8. FailureShown'
  <2> SUFFICES ASSUME org # None, ~regressed, NEW a \in org.atts, <<a, org.seq>> \in NotTold(i)
               PROVE  FALSE
    BY <1>1 DEF Inv, FailureShown
  <2>1. i.new.seq = org.seq /\ i.action = "modify" /\ ~Exists(i.new.id)
    BY <1>5
  <2> QED BY <1>1, <1>2, <2>1 DEF IdInv, Exists
<1>9. ItemInv'
  <2>1. \A k \in scheduleWithAttendees(i) : k.kind = "send"
    BY <1>3, ScheduledOnly
  <2>2. Last' = Last /\ answers' = answers
    BY <1>1 DEF Last, boundVars
  <2> QED BY <1>1, <1>2, <2>1, <2>2 DEF ItemInv
<1>10. IdInv'
  <2> SUFFICES ASSUME org # None, ~regressed, NEW k \in scheduleWithAttendees(i),
                      k.att \in org.atts, k.msg.seq = org.seq
               PROVE  k.id = org.id
    <3>1. \A k \in scheduleWithAttendees(i) : k.kind = "send"
      BY <1>3, ScheduledOnly
    <3> QED BY <1>1, <1>2, <3>1 DEF IdInv
  <2>1. CASE i.action = "remove"
    <3>1. k \in Cancels(None, i.old, i.old.atts)
      BY <2>1 DEF scheduleWithAttendees
    <3>2. k.att \in i.old.atts /\ k.msg.seq = i.old.seq + 1
      BY <3>1, CancelsAre
    <3>3. Takes(i, k.att, k.msg.seq)
      BY <1>1, <2>1, <3>2 DEF Takes, Gone
    <3>4. k.msg.seq \in Cancelling(k.att) /\ k.att \in Attendees
      BY <1>2, <3>3, Members, Types, EventTypes
    <3>5. Below(k.att, k.msg.seq)
      BY <3>4 DEF Inv, AttInv, OrderInv
    <3>6. org.seq \in Nat
      BY <1>2, Types, EventTypes
    <3> QED BY <3>5, <3>6 DEF Below
  <2>2. CASE i.action # "remove"
    <3>1. k \in Cancels(org.id, i.old, i.old.atts \ i.new.atts) \/ k \in Requests(org.id, i.new)
      BY <1>3, <2>2, OrganizerTypes DEF scheduleWithAttendees
    <3> QED BY <3>1, CancelsAre, RequestsAre
  <2> QED BY <2>1, <2>2
<1>11. ASSUME NEW a \in Attendees PROVE AttInv(a)'
  <2>1. /\ Asked(a)' \subseteq Asked(a) /\ Cancelling(a)' \subseteq Cancelling(a)
        /\ Replies(a)' = Replies(a)
        /\ \A q \in Cancelling(a) : q \in Cancelling(a)' \/ <<a, q>> \in lost'
        /\ \A m \in Asked(a) : \/ m \in Asked(a)'
                               \/ org = None
                               \/ i.action = "modify" /\ i.new.id # org.id /\ m.seq = i.new.seq
    BY <1>1, <1>2, QueueDelta
  <2>2. SameState(a)
    <3>1. heard[a] \in Int /\ cancelled[a] \in Nat
      BY <1>2, Types
    <3> QED BY <1>1, <2>1, <3>1 DEF SameState
  <2>3. CancelsGo(a)
    BY <2>1 DEF CancelsGo
  <2>4. ASSUME ~regressed, ~Out(a), NEW m \in Asked(a), m.seq = org.seq PROVE m \in Asked(a)'
    <3>1. org # None
      BY <2>4 DEF Out
    <3>2. i.action = "modify" /\ i.new.seq = org.seq => i.new.id = org.id
      BY <1>1, <1>2, <2>4, <3>1 DEF IdInv
    <3> QED BY <2>1, <2>4, <3>1, <3>2
  <2>5. AttInv(a)
    BY DEF Inv
  <2> QED BY <1>2, <1>4, <2>1, <2>2, <2>3, <2>4, <2>5, Shrink
<1> QED BY <1>6, <1>7, <1>8, <1>9, <1>10, <1>11 DEF Inv


-----------------------------------------------------------------------------
\* A message arrives.

\* Steps that make no items keep what is said of them.
LEMMA ItemsKept ==
    ASSUME Inv, items' \subseteq items, UNCHANGED <<org, deleted, lost, regressed, answers, erased>>,
           org # None \/ deleted # None
    PROVE  BlankInv' /\ LostInv' /\ IdInv' /\ ItemInv' /\ FailureShown'
<1>1. Last' = Last
  BY DEF Last
<1>2. BlankInv' /\ LostInv'
  BY DEF Inv, BlankInv, LostInv
<1>3. IdInv'
  BY DEF Inv, IdInv
<1>4. ItemInv'
  BY <1>1 DEF Inv, ItemInv
<1>5. FailureShown'
  BY DEF Inv, FailureShown
<1> QED BY <1>2, <1>3, <1>4, <1>5

\* At most the message itself goes from what is to come.
Goes(a, msg) ==
    \A b \in Attendees :
       /\ Asked(b)' \subseteq Asked(b) /\ Cancelling(b)' \subseteq Cancelling(b)
       /\ Replies(b)' = Replies(b)
       /\ \A m \in Asked(b) : m \in Asked(b)' \/ (b = a /\ msg.method = "REQUEST" /\ m = msg)
       /\ \A q \in Cancelling(b) :
             q \in Cancelling(b)' \/ (b = a /\ msg.method = "CANCEL" /\ q = msg.seq)

\* Where a message comes from
Incoming(a, msg) ==
    \/ msg \in RequestMsgs /\ msg \in Asked(a)
    \/ msg \in RequestMsgs /\ ~Out(a) /\ msg = generateAttendeeRequest(org, a)
    \/ msg \in CancelMsgs /\ msg.seq \in Cancelling(a)

\* The others are left alone.
LEMMA OthersArrive ==
    ASSUME Inv, TypeOK', NEW a \in Attendees, NEW msg \in CancelMsgs \cup RequestMsgs, NEW f,
           msg.method = "REQUEST" => msg.time <= msg.seq,
           Arrives(a, msg, f), Goes(a, msg), NEW b \in Attendees \ {a}
    PROVE  AttInv(b)'
<1>1. TypeOK /\ AttInv(b)
  BY DEF Inv
<1>2. SameEvent /\ Receive(a, msg, f)
  BY DEF Arrives, SameEvent
<1>3. Asked(b)' = Asked(b) /\ Cancelling(b)' = Cancelling(b) /\ Replies(b)' = Replies(b)
  BY DEF Goes
<1>4. /\ copy'[b] = copy[b] /\ (b \in autoReply') = (b \in autoReply)
      /\ (b \in unsure') = (b \in unsure) /\ (b \in revived') = (b \in revived)
  BY <1>1, <1>2, ReceiveTypes
<1>5. cancelled'[b] >= cancelled[b] /\ heard'[b] >= heard[b]
  BY <1>1, <1>2, ReceiveMarks
<1>6. SameState(b)
  BY <1>3, <1>4, <1>5 DEF SameState, Arrives
<1> QED BY <1>1, <1>2, <1>3, <1>6, Frame

\* The REQUESTs that come are versions of the event.
LEMMA IncomingRequest ==
    ASSUME Inv, NEW a \in Attendees, NEW msg \in RequestMsgs, Incoming(a, msg)
    PROVE  /\ msg.method = "REQUEST" /\ msg.seq \in Nat /\ msg.time \in Nat /\ msg.reset \in Nat
           /\ msg.time <= msg.seq /\ msg.seq <= Last
           /\ msg \in Asked(a) \/ (~Out(a) /\ msg = generateAttendeeRequest(org, a))
           /\ ~Out(a) /\ msg \notin Asked(a) =>
                 msg.seq = org.seq /\ msg.time = org.time /\ msg.ps = org.ps[a]
                   /\ msg.reset = org.reset[a]
<1>1. TypeOK /\ AttInv(a)
  BY DEF Inv
<1>2. msg.method = "REQUEST" /\ msg.seq \in Nat /\ msg.time \in Nat /\ msg.reset \in Nat
  BY DEF RequestMsgs
<1>3. msg \in Asked(a) \/ (~Out(a) /\ msg = generateAttendeeRequest(org, a))
  BY <1>2 DEF Incoming, CancelMsgs
<1>4. ASSUME ~Out(a), msg = generateAttendeeRequest(org, a)
      PROVE  /\ msg.seq = org.seq /\ msg.time = org.time /\ msg.ps = org.ps[a]
             /\ msg.reset = org.reset[a] /\ msg.time <= msg.seq /\ msg.seq <= Last
  <2>1. org # None /\ org \in Events /\ org.time <= org.seq /\ org.seq \in Nat
    BY <1>1, <1>4, Types, EventTypes DEF Out
  <2> QED BY <1>4, <2>1, RequestTypes DEF Last
<1>5. msg \in Asked(a) => msg.time <= msg.seq /\ msg.seq <= Last
  BY <1>1 DEF AttInv, VersionInv
<1> QED BY <1>2, <1>3, <1>4, <1>5

\* A message that the attendee ignores
LEMMA IgnoredInv ==
    ASSUME Inv, TypeOK', NEW a \in Attendees, NEW msg \in CancelMsgs \cup RequestMsgs, NEW f,
           Arrives(a, msg, f), Goes(a, msg), Incoming(a, msg), Ignored(a, msg)
    PROVE  AttInv(a)'
<1>1. TypeOK /\ AttInv(a)
  BY DEF Inv
<1>2. SameEvent /\ Receive(a, msg, f) /\ Keep
  BY DEF Arrives, SameEvent, Receive
<1>3. /\ Asked(a)' \subseteq Asked(a) /\ Cancelling(a)' \subseteq Cancelling(a)
      /\ Replies(a)' = Replies(a)
      /\ \A m \in Asked(a) : m \in Asked(a)' \/ (msg.method = "REQUEST" /\ m = msg)
      /\ \A q \in Cancelling(a) : q \in Cancelling(a)' \/ (msg.method = "CANCEL" /\ q = msg.seq)
  BY DEF Goes
<1>4. /\ cancelled'[a] >= cancelled[a] /\ heard'[a] >= heard[a]
      /\ msg.method = "REQUEST" => heard'[a] >= msg.seq
      /\ msg.method = "CANCEL" => cancelled'[a] >= msg.seq
  BY <1>1, <1>2, ReceiveMarks
<1>5. SameState(a)
  BY <1>2, <1>3, <1>4 DEF SameState, Arrives, Keep
<1>6. CancelsGo(a)
  BY <1>3, <1>4 DEF CancelsGo
<1>7. ASSUME ~regressed, ~Out(a), NEW m \in Asked(a), m.seq = org.seq, m \notin Asked(a)'
      PROVE  TurnedDown(a)' \/ a \in revived'
  <2>1. m = msg /\ msg.method = "REQUEST" /\ heard'[a] >= org.seq
    BY <1>3, <1>4, <1>7
  <2>2. org # None /\ org \in Events /\ org.seq \in Nat /\ org.reset[a] \in Nat
        /\ org.reset[a] <= org.seq
    BY <1>1, <1>7, Types, EventTypes DEF Out
  <2>3. copy[a] = None
    <3> SUFFICES ASSUME copy[a] # None PROVE FALSE
      OBVIOUS
    <3>1. org.seq < copy[a].seq
      <4>1. ~(msg.seq >= copy[a].seq)
        BY DEF Ignored, sequenceComparison
      <4>2. copy[a].seq \in Nat
        BY <1>1, Types, CopyTypes
      <4> QED BY <1>7, <2>1, <2>2, <4>1, <4>2
    <3>2. copy[a] \in Copies /\ copy[a].seq \in Nat /\ copy[a].cancelled \in BOOLEAN
      BY <1>1, Types, CopyTypes
    <3>3. ~copy[a].cancelled => copy[a].seq <= org.seq
      BY <1>1, <2>2 DEF AttInv, VersionInv, Live, Last
    <3>4. copy[a].cancelled => copy[a].seq <= org.seq
      BY <1>1, <1>7, <2>2 DEF AttInv, OrderInv, Below
    <3> QED BY <2>2, <3>1, <3>2, <3>3, <3>4
  <2>4. msg.ps = "DECLINED"
    BY <2>1, <2>3 DEF Ignored
  <2>5. ASSUME a \notin unsure \cup erased \cup revived PROVE dropped[a] >= org.reset[a]
    <3>1. dropped[a] \in Int
      BY <1>1, Types
    <3>2. ASSUME dropped[a] < org.reset[a] PROVE FALSE
      <4>1. NotYet(a)
        BY <2>3, <3>2 DEF NotYet
      <4>2. m.ps = "NEEDS-ACTION"
        BY <1>1, <1>7, <2>2, <2>5, <4>1 DEF AttInv, AgreeInv
      <4> QED BY <2>1, <2>4, <4>2
    <3> QED BY <2>2, <3>1, <3>2
  <2> QED BY <1>2, <2>1, <2>2, <2>3, <2>5 DEF TurnedDown, Keep, Arrives
<1> QED BY <1>1, <1>2, <1>3, <1>5, <1>6, <1>7, Shrink

\* A CANCEL that the attendee does not ignore
LEMMA CancelInv ==
    ASSUME Inv, TypeOK', NEW a \in Attendees, NEW msg \in CancelMsgs, NEW f,
           Arrives(a, msg, f), Goes(a, msg), msg.seq \in Cancelling(a), ~Ignored(a, msg)
    PROVE  AttInv(a)'
<1>1. TypeOK /\ AttInv(a)
  BY DEF Inv
<1>2. /\ SameEvent /\ Receive(a, msg, f) /\ msg.method = "CANCEL" /\ msg.seq \in Nat
      /\ lost' = lost /\ erased' = erased
  BY DEF Arrives, SameEvent, CancelMsgs
<1>3. /\ Asked(a)' = Asked(a) /\ Cancelling(a)' \subseteq Cancelling(a)
      /\ \A q \in Cancelling(a) : q \in Cancelling(a)' \/ q = msg.seq
  BY <1>2 DEF Goes
<1>4. /\ cancelled'[a] >= cancelled[a] /\ heard'[a] >= heard[a]
      /\ cancelled'[a] >= msg.seq
  BY <1>1, <1>2, ReceiveMarks
<1>5. copy[a] # None /\ msg.seq >= copy[a].seq /\ revived' = revived
  BY <1>1, <1>2, AcceptCancel
<1>6. \/ copy'[a] = None
      \/ copy'[a] # None /\ copy'[a].cancelled /\ copy'[a].seq = msg.seq
  <2>1. copy \in [Attendees -> Copies \cup {None}]
    BY <1>1 DEF TypeOK
  <2>2. \/ copy' = [copy EXCEPT ![a] = None]
        \/ \E c \in Copies : copy' = [copy EXCEPT ![a] = c] /\ c.seq = msg.seq /\ c.cancelled
    BY <1>1, <1>2, AcceptCancel
  <2> QED BY <2>1, <2>2, CopyTypes
<1>7. ~Live(copy[a])'
  BY <1>6 DEF Live
<1>8. Last' = Last /\ Out(a)' = Out(a)
  BY <1>2 DEF Last, Out, SameEvent
<1>9. CancelsGo(a)
  BY <1>3, <1>4 DEF CancelsGo
<1>10. VersionInv(a)'
  BY <1>1, <1>3, <1>7, <1>8 DEF AttInv, VersionInv
<1>11. StrayInv(a)'
  <2>1. ASSUME Out(a), NEW m \in Asked(a) PROVE Told(a, m.seq)'
    <3>1. Told(a, m.seq) /\ m.seq \in Int
      BY <1>1, <2>1, AskedTypes DEF AttInv, StrayInv
    <3> QED BY <1>1, <1>2, <1>4, <1>9, <3>1, StillTold
  <2> QED BY <1>3, <1>7, <1>8, <2>1 DEF StrayInv
<1>12. OrderInv(a)'
  <2>1. \A q : Below(a, q)' = Below(a, q)
    BY <1>2 DEF Below, SameEvent
  <2>2. ~regressed => Below(a, msg.seq)
    BY <1>1 DEF AttInv, OrderInv
  <2>3. ~regressed => (copy[a] # None /\ copy[a].cancelled => Below(a, copy[a].seq))'
    BY <1>2, <1>6, <2>2 DEF Below, SameEvent
  <2> QED BY <1>1, <1>2, <1>3, <1>8, <2>1, <2>3 DEF AttInv, OrderInv, SameEvent, Out
<1>13. copy[a].seq \in Nat /\ dropped[a] \in Int /\ dropped' = dropped /\ unsure \subseteq unsure'
       /\ Replies(a)' = Replies(a) /\ org' = org /\ answered' = answered
  <2>1. unsure \subseteq unsure'
    BY <1>1, <1>2, AcceptCancel
  <2> QED BY <1>1, <1>5, <2>1, Types, CopyTypes DEF Arrives, Goes
<1>14. DroppedInv(a)'
  BY <1>1, <1>2, <1>5, <1>6, <1>13 DEF AttInv, DroppedInv
<1>15. ASSUME a \notin erased, ~Out(a)
       PROVE  /\ msg.seq < org.reset[a] /\ org.reset[a] \in Nat /\ org.reset[a] <= org.seq
              /\ org.seq \in Nat
  <2>1. msg.seq < org.reset[a]
    BY <1>1, <1>15 DEF AttInv, FreshInv
  <2> QED BY <1>1, <1>15, <2>1, Types, EventTypes DEF Out
<1>16. FreshInv(a)'
  <2> SUFFICES ASSUME a \notin erased PROVE FreshInv(a)'
    BY <1>2 DEF FreshInv
  <2>1. FreshInv(a)
    BY <1>1 DEF AttInv
  <2>2. CASE Out(a)
    <3>1. msg.seq <= Last
      BY <2>1, <2>2 DEF FreshInv
    <3>2. copy'[a] # None => copy'[a].seq <= Last
      BY <1>6, <3>1
    <3> QED BY <1>3, <1>8, <1>13, <2>1, <2>2, <3>2 DEF FreshInv
  <2>3. CASE ~Out(a)
    <3>1. (copy[a] # None => Era(a, copy[a]) /\ (copy[a].cancelled => copy[a].seq < org.reset[a]))'
      BY <1>2, <1>6, <1>13, <1>15, <2>3 DEF Era
    <3>2. \A x : Era(a, x)' = Era(a, x)
      BY <1>13 DEF Era
    <3> QED BY <1>3, <1>8, <1>13, <2>1, <2>3, <3>1, <3>2 DEF FreshInv
  <2> QED BY <2>2, <2>3
<1>17. AgreeInv(a)'
  <2> SUFFICES ASSUME ~Out(a), a \notin erased \cup unsure \cup revived PROVE AgreeInv(a)'
    BY <1>2, <1>5, <1>8, <1>13 DEF AgreeInv
  <2>1. NotYet(a)
    BY <1>2, <1>5, <1>13, <1>15 DEF NotYet
  <2>2. dropped[a] < copy[a].seq
    BY <1>1, <1>5 DEF AttInv, DroppedInv
  <2>3. NotYet(a)'
    BY <1>2, <1>5, <1>6, <1>13, <1>15, <2>2 DEF NotYet
  <2> QED BY <1>1, <1>3, <1>13, <2>1, <2>3 DEF AttInv, AgreeInv
<1>18. ArriveInv(a)'
  <2> SUFFICES ASSUME ~regressed, ~Out(a) PROVE ArriveInv(a)'
    BY <1>2, <1>8 DEF ArriveInv, SameEvent
  <2>1. org # None /\ a \in org.atts /\ org.seq \in Nat /\ org'.seq = org.seq
    BY <1>1, <1>2, Types, EventTypes DEF Out, SameEvent
  <2>2. msg.seq < org.seq
    BY <1>1, <2>1 DEF AttInv, OrderInv, Below
  <2>3. ~UpToDate(a) /\ ~TurnedDown(a)
    <3>1. copy[a].seq \in Nat
      BY <1>1, <1>5, Types, CopyTypes
    <3> QED BY <1>2, <1>5, <2>1, <2>2, <3>1 DEF UpToDate, TurnedDown
  <2> QED BY <1>1, <1>2, <1>3, <1>5, <2>1, <2>3 DEF AttInv, ArriveInv
<1> QED BY <1>10, <1>11, <1>12, <1>14, <1>16, <1>17, <1>18 DEF AttInv

\* A REQUEST that the attendee does not ignore
LEMMA RequestInv ==
    ASSUME Inv, TypeOK', NEW a \in Attendees, NEW msg \in RequestMsgs, NEW f,
           Arrives(a, msg, f), Goes(a, msg), Incoming(a, msg), ~Ignored(a, msg)
    PROVE  AttInv(a)'
<1>1. TypeOK /\ AttInv(a)
  BY DEF Inv
<1>2. /\ msg.method = "REQUEST" /\ msg.seq \in Nat /\ msg.time \in Nat /\ msg.reset \in Nat
      /\ msg.time <= msg.seq /\ msg.seq <= Last
      /\ msg \in Asked(a) \/ ~Out(a)
      /\ ~Out(a) /\ msg \notin Asked(a) =>
            msg.seq = org.seq /\ msg.time = org.time /\ msg.ps = org.ps[a]
              /\ msg.reset = org.reset[a]
  BY IncomingRequest
<1>3. /\ SameEvent /\ Receive(a, msg, f) /\ org' = org /\ deleted' = deleted
      /\ lost' = lost /\ erased' = erased /\ regressed' = regressed
      /\ dropped' = dropped /\ answered' = answered
  BY DEF Arrives, SameEvent
<1>4. /\ Asked(a)' \subseteq Asked(a) /\ Cancelling(a)' = Cancelling(a) /\ Replies(a)' = Replies(a)
      /\ \A m \in Asked(a) : m \in Asked(a)' \/ m = msg
  BY <1>2 DEF Goes
<1>5. cancelled'[a] >= cancelled[a] /\ heard'[a] >= heard[a] /\ heard'[a] >= msg.seq
  BY <1>1, <1>2, <1>3, ReceiveMarks
<1>6. /\ copy[a] # None => msg.seq >= copy[a].seq
      /\ unsure' = unsure
      /\ revived' = revived \cup {b \in {a} : copy[a] = None /\ Outdated(a, msg)}
  BY <1>1, <1>2, <1>3, AcceptRequest
<1>7. /\ copy'[a] \in Copies /\ copy'[a] # None /\ copy'[a].seq = msg.seq
      /\ copy'[a].time = msg.time /\ ~copy'[a].cancelled
      /\ a \notin autoReply' => a \notin autoReply /\ copy'[a].ps = Merged(msg, copy[a]).ps
  <2>1. PICK c \in Copies :
           /\ copy' = [copy EXCEPT ![a] = c]
           /\ c.seq = msg.seq /\ c.time = msg.time /\ ~c.cancelled
           /\ \/ autoReply' = autoReply /\ c.ps = Merged(msg, copy[a]).ps
              \/ a \in Automatic /\ autoReply' = autoReply \cup {a}
    BY <1>1, <1>2, <1>3, AcceptRequest
  <2>2. copy'[a] = c /\ c # None
    BY <1>1, <2>1, CopyTypes DEF TypeOK
  <2> QED BY <2>1, <2>2
<1>8. Last' = Last /\ Out(a)' = Out(a)
  BY <1>3 DEF Last, Out
<1>9. VersionInv(a)'
  BY <1>1, <1>2, <1>4, <1>5, <1>7, <1>8 DEF AttInv, VersionInv
<1>10. StrayInv(a)'
  <2>1. CancelsGo(a)
    BY <1>4 DEF CancelsGo
  <2>2. ASSUME Out(a), NEW m \in Asked(a) PROVE Told(a, m.seq)'
    <3>1. Told(a, m.seq) /\ m.seq \in Int
      BY <1>1, <2>2, AskedTypes DEF AttInv, StrayInv
    <3> QED BY <1>1, <1>3, <1>5, <2>1, <3>1, StillTold
  <2>3. Out(a) => Told(a, msg.seq)'
    BY <1>2, <2>2
  <2>4. Out(a) => Told(a, copy[a].seq)'
    BY <1>7, <2>3 DEF Told
  <2> QED BY <1>4, <1>8, <2>2, <2>4 DEF StrayInv
<1>11. OrderInv(a)'
  <2>1. \A q : Below(a, q)' = Below(a, q)
    BY <1>3 DEF Below
  <2> QED BY <1>1, <1>3, <1>4, <1>7, <1>8, <2>1 DEF AttInv, OrderInv
<1>12. ASSUME a \notin erased, ~Out(a)
       PROVE  /\ org # None /\ org \in Events
              /\ org.seq \in Nat /\ org.reset[a] \in Nat /\ org.reset[a] <= org.seq
              /\ Era(a, msg) /\ (msg.seq >= org.reset[a] => msg.reset = org.reset[a])
  <2>1. FreshInv(a)
    BY <1>1 DEF AttInv
  <2>2. /\ org # None /\ org \in Events /\ org.seq \in Nat /\ org.reset[a] \in Nat
        /\ org.reset[a] <= org.seq
    BY <1>1, <1>12, Types, EventTypes DEF Out
  <2>3. CASE msg \in Asked(a)
    BY <1>12, <2>1, <2>2, <2>3 DEF FreshInv
  <2>4. CASE msg \notin Asked(a)
    BY <1>2, <1>12, <2>2, <2>4 DEF Era
  <2> QED BY <2>2, <2>3, <2>4
<1>13. FreshInv(a)'
  <2> SUFFICES ASSUME a \notin erased PROVE FreshInv(a)'
    BY <1>3 DEF FreshInv
  <2>1. FreshInv(a)
    BY <1>1 DEF AttInv
  <2>2. CASE Out(a)
    BY <1>2, <1>3, <1>4, <1>7, <1>8, <2>1, <2>2 DEF FreshInv
  <2>3. CASE ~Out(a)
    <3>1. org # None /\ Era(a, copy[a])'
      BY <1>3, <1>7, <1>12, <2>3 DEF Era
    <3>2. \A x : Era(a, x)' = Era(a, x)
      BY <1>3 DEF Era
    <3> QED BY <1>3, <1>4, <1>7, <1>8, <2>1, <2>3, <3>1, <3>2 DEF FreshInv
  <2> QED BY <2>2, <2>3
<1>14. AgreeInv(a)'
  <2> SUFFICES ASSUME a \notin erased \cup unsure, a \notin revived', ~Out(a) PROVE AgreeInv(a)'
    BY <1>3, <1>6, <1>8 DEF AgreeInv
  <2>1. a \notin revived /\ (copy[a] = None => ~Outdated(a, msg))
    BY <1>6
  <2>2. /\ ~Out(a) /\ org # None /\ org \in Events
        /\ org.seq \in Nat /\ org.reset[a] \in Nat /\ org.reset[a] <= org.seq
        /\ Era(a, msg) /\ (msg.seq >= org.reset[a] => msg.reset = org.reset[a])
    BY <1>12
  <2>3. /\ dropped[a] \in Int /\ (copy[a] # None => copy[a].seq \in Nat /\ copy[a] \in Copies)
    BY <1>1, Types, CopyTypes
  <2>4. copy[a] = None => /\ dropped[a] < msg.seq /\ org.ps[a] = msg.ps /\ Replies(a) = {}
                          /\ a \notin autoReply
    BY <1>2, <2>1, <2>2, <2>3 DEF Outdated, Replies
  <2>5. AgreeInv(a)
    BY <1>1 DEF AttInv
  <2>6. CASE msg.seq < org.reset[a]
    <3>1. NotYet(a) /\ NotYet(a)'
      BY <1>2, <1>3, <1>6, <1>7, <2>2, <2>3, <2>4, <2>6 DEF NotYet
    <3> QED BY <1>3, <1>4, <1>8, <2>1, <2>2, <2>5, <3>1 DEF AgreeInv
  <2>7. CASE ~(msg.seq < org.reset[a])
    <3>1. msg.seq >= org.reset[a]
      BY <1>2, <2>2, <2>7
    <3>2. ~NotYet(a)' /\ msg.time = org.time /\ msg.reset = org.reset[a]
      BY <1>2, <1>3, <1>7, <2>2, <2>7, <3>1 DEF NotYet, Era
    <3> SUFFICES ASSUME a \notin autoReply' PROVE WillBe(a, copy[a].ps)'
      BY <1>7, <3>2 DEF AgreeInv
    <3>3. /\ copy'[a].ps = IF copy[a] # None /\ msg.time = copy[a].time /\ copy[a].seq >= msg.reset
                           THEN copy[a].ps ELSE msg.ps
          /\ a \notin autoReply
      <4>1. copy[a] \in Copies \cup {None}
        BY <1>1 DEF TypeOK
      <4> QED BY <1>7, <4>1, MergedIs
    <3>5. CASE copy[a] = None
      <4>1. org.ps[a] = copy'[a].ps /\ Replies(a)' = {}
        BY <1>4, <2>4, <3>3, <3>5
      <4> QED BY <1>3, <4>1 DEF WillBe
    <3>6. CASE copy[a] # None /\ NotYet(a)
      <4>1. copy[a].seq < org.reset[a] /\ copy'[a].ps = msg.ps
        BY <2>2, <2>3, <3>2, <3>3, <3>6 DEF NotYet
      <4>2. /\ org.ps[a] = "NEEDS-ACTION" /\ \A i \in Replies(a) : i.seq < org.reset[a]
            /\ \A m \in Asked(a) : m.seq >= org.reset[a] => m.ps = "NEEDS-ACTION"
        BY <2>1, <2>2, <2>5, <3>6 DEF AgreeInv
      <4>3. msg.ps = "NEEDS-ACTION"
        BY <1>2, <2>2, <3>1, <4>2
      <4> QED BY <1>3, <1>4, <4>1, <4>2, <4>3 DEF WillBe
    <3>7. CASE copy[a] # None /\ ~NotYet(a)
      <4>1. copy[a].seq >= org.reset[a]
        BY <2>2, <2>3, <3>7 DEF NotYet
      <4>2. copy[a].time = org.time
        BY <1>1, <2>2, <3>7, <4>1 DEF AttInv, FreshInv, Era
      <4>3. copy'[a].ps = copy[a].ps
        BY <3>2, <3>3, <3>7, <4>1, <4>2
      <4>4. WillBe(a, copy[a].ps)
        BY <2>1, <2>2, <2>5, <3>3, <3>7 DEF AgreeInv
      <4> QED BY <1>3, <1>4, <4>3, <4>4 DEF WillBe
    <3> QED BY <3>5, <3>6, <3>7
  <2> QED BY <2>6, <2>7
<1>15. ArriveInv(a)'
  <2> SUFFICES ASSUME ~regressed, ~Out(a) PROVE ArriveInv(a)'
    BY <1>3, <1>8 DEF ArriveInv
  <2>1. org # None /\ org.seq \in Nat /\ org' = org /\ Last = org.seq
    BY <1>1, <1>3, Types, EventTypes DEF Out, Last
  <2>2. ASSUME msg.seq = org.seq PROVE UpToDate(a)'
    <3>1. msg.time = org.time
      BY <1>1, <1>2, <2>2 DEF AttInv, OrderInv
    <3> QED BY <1>3, <1>7, <2>1, <2>2, <3>1 DEF UpToDate, Live
  <2>3. CASE \E m \in Asked(a) : m.seq = org.seq
    <3>1. PICK m \in Asked(a) : m.seq = org.seq
      BY <2>3
    <3>2. m \in Asked(a)' \/ m = msg
      BY <1>4
    <3> QED BY <2>1, <2>2, <3>1, <3>2 DEF ArriveInv
  <2>4. CASE UpToDate(a)
    <3>1. copy[a] # None /\ copy[a].seq = org.seq
      BY <2>4 DEF UpToDate, Live
    <3>2. msg.seq = org.seq
      BY <1>2, <1>6, <2>1, <3>1
    <3> QED BY <2>2, <3>2 DEF ArriveInv
  <2>5. CASE TurnedDown(a) /\ msg.seq # org.seq
    <3>1. copy[a] = None /\ heard[a] >= org.seq /\ heard[a] \in Int
      BY <1>1, <2>5, Types DEF TurnedDown
    <3>2. msg.seq < heard[a]
      BY <1>2, <2>1, <2>5, <3>1
    <3>3. a \in revived'
      BY <1>6, <3>1, <3>2 DEF Outdated
    <3> QED BY <3>3 DEF ArriveInv
  <2>6. CASE <<a, org.seq>> \in lost \/ a \in revived
    BY <1>3, <1>6, <2>6 DEF ArriveInv
  <2>7. CASE msg.seq = org.seq
    BY <2>2, <2>7 DEF ArriveInv
  <2> QED BY <1>1, <2>3, <2>4, <2>5, <2>6, <2>7 DEF AttInv, ArriveInv
<1>16. DroppedInv(a)'
  <2> SUFFICES ASSUME a \notin revived' PROVE dropped[a] < msg.seq
    BY <1>3, <1>7 DEF DroppedInv
  <2>1. dropped[a] \in Int /\ (copy[a] # None => copy[a].seq \in Nat)
    BY <1>1, Types, CopyTypes
  <2>2. CASE copy[a] = None
    BY <1>2, <1>6, <2>1, <2>2 DEF Outdated
  <2>3. CASE copy[a] # None
    BY <1>1, <1>2, <1>6, <2>1, <2>3 DEF AttInv, DroppedInv
  <2> QED BY <2>2, <2>3
<1> QED BY <1>9, <1>10, <1>11, <1>13, <1>14, <1>15, <1>16 DEF AttInv

\* Any message that arrives
LEMMA ArrivesInv ==
    ASSUME Inv, TypeOK', NEW a \in Attendees, NEW msg \in CancelMsgs \cup RequestMsgs, NEW f,
           Arrives(a, msg, f), Goes(a, msg), Incoming(a, msg), org # None \/ deleted # None
    PROVE  Inv'
<1>1. BlankInv' /\ LostInv' /\ IdInv' /\ ItemInv' /\ FailureShown'
  BY ItemsKept DEF Arrives
<1>2. msg.method = "REQUEST" => msg \in RequestMsgs /\ msg.time <= msg.seq
  <2>1. msg.method = "REQUEST" => msg \in RequestMsgs
    BY DEF CancelMsgs
  <2> QED BY <2>1, IncomingRequest
<1>3. \A b \in Attendees \ {a} : AttInv(b)'
  BY <1>2, OthersArrive
<1>4. AttInv(a)'
  <2>1. CASE Ignored(a, msg)
    BY <2>1, IgnoredInv
  <2>2. CASE ~Ignored(a, msg) /\ msg \in RequestMsgs
    BY <2>2, RequestInv
  <2>3. CASE ~Ignored(a, msg) /\ msg \in CancelMsgs
    <3>1. msg.seq \in Cancelling(a)
      BY <2>3 DEF Incoming, CancelMsgs, RequestMsgs
    <3> QED BY <2>3, <3>1, CancelInv
  <2> QED BY <2>1, <2>2, <2>3
<1> QED BY <1>1, <1>3, <1>4 DEF Inv

\* A send item that arrives
LEMMA SendInv ==
    ASSUME Inv, TypeOK', NEW i \in items, Send(i) \/ SendAgain(i)
    PROVE  Inv'
<1>1. TypeOK
  BY DEF Inv
<1>2. i.kind = "send" /\ items' \in {items, items \ {i}}
  BY <1>1, SendArrives
<1>3. Arrives(i.att, i.msg, FALSE)
  BY <1>1, SendArrives
<1>4. /\ i.att \in Attendees /\ i.msg \in CancelMsgs \cup RequestMsgs
      /\ i.msg.method \in {"CANCEL", "REQUEST"}
      /\ i.msg.method = "REQUEST" => i.msg \in RequestMsgs
      /\ i.msg.method = "CANCEL" => i.msg \in CancelMsgs
  BY <1>1, <1>2, ItemTypes, SendTypes
<1>5. Goes(i.att, i.msg)
  <2>1. CASE items' = items
    <3>1. \A b : Asked(b)' = Asked(b) /\ Cancelling(b)' = Cancelling(b) /\ Replies(b)' = Replies(b)
      BY <2>1 DEF Asked, Cancelling, Replies
    <3> QED BY <3>1 DEF Goes
  <2>2. CASE items' = items \ {i}
    BY <1>2, <2>2, SendDelta DEF Goes
  <2> QED BY <1>2, <2>1, <2>2
<1>6. Incoming(i.att, i.msg)
  BY <1>1, <1>2, <1>4, SendBrings DEF Incoming
<1>7. org # None \/ deleted # None
  BY DEF Inv, BlankInv
<1> QED BY <1>3, <1>4, <1>5, <1>6, <1>7, ArrivesInv

\* A step that changes nothing of what the invariant speaks of
LEMMA StutterInv ==
    ASSUME Inv, TypeOK', items' = items,
           UNCHANGED <<org, deleted, copy, autoReply, answers, histVars>>
    PROVE  Inv'
<1>1. TypeOK
  BY DEF Inv
<1>2. UNCHANGED <<answered, erased, regressed, cancelled, dropped, heard, lost, unsure, revived>>
  BY DEF histVars
<1>3. BlankInv' /\ LostInv' /\ IdInv' /\ ItemInv' /\ FailureShown'
  <2>1. Last' = Last
    BY DEF Last
  <2> QED BY <1>2, <2>1 DEF Inv, BlankInv, LostInv, IdInv, ItemInv, FailureShown
<1>4. ASSUME NEW a \in Attendees PROVE AttInv(a)'
  <2>1. Asked(a)' = Asked(a) /\ Cancelling(a)' = Cancelling(a) /\ Replies(a)' = Replies(a)
    BY DEF Asked, Cancelling, Replies
  <2>2. heard[a] \in Int /\ cancelled[a] \in Nat
    BY <1>1, Types
  <2>3. SameEvent /\ SameState(a)
    BY <1>2, <2>1, <2>2 DEF SameEvent, SameState
  <2>4. AttInv(a)
    BY DEF Inv
  <2> QED BY <1>1, <2>1, <2>3, <2>4, Frame
<1> QED BY <1>3, <1>4 DEF Inv

\* A refresh
LEMMA RefreshInv ==
    ASSUME Inv, TypeOK', NEW a \in Attendees, Refresh(a)
    PROVE  Inv'
<1>1. TypeOK
  BY DEF Inv
<1>2. org # None /\ items' = items
  BY <1>1, RefreshArrives
<1>3. CASE a \in org.atts /\ Arrives(a, generateAttendeeRequest(org, a), TRUE)
  <2>1. Goes(a, generateAttendeeRequest(org, a))
    <3>1. \A b : Asked(b)' = Asked(b) /\ Cancelling(b)' = Cancelling(b) /\ Replies(b)' = Replies(b)
      BY <1>2 DEF Asked, Cancelling, Replies
    <3> QED BY <3>1 DEF Goes
  <2>2. generateAttendeeRequest(org, a) \in RequestMsgs
    BY <1>1, <1>2, Types, RequestTypes
  <2>3. Incoming(a, generateAttendeeRequest(org, a))
    BY <1>2, <1>3, <2>2 DEF Incoming, Out
  <2> QED BY <1>2, <1>3, <2>1, <2>2, <2>3, ArrivesInv
<1>4. CASE UNCHANGED <<org, deleted, down, copy, items, autoReply, boundVars, histVars>>
  BY <1>4, StutterInv DEF boundVars
<1> QED BY <1>1, <1>3, <1>4, RefreshArrives

\* A message is to be sent again.
LEMMA SendRetryInv ==
    ASSUME Inv, TypeOK', NEW i \in items, SendRetry(i)
    PROVE  Inv'
<1> DEFINE n == IF i.failed < MaxTemporaryFailures THEN i.failed + 1 ELSE i.failed
           j == [i EXCEPT !.failed = n]
<1>1. TypeOK
  BY DEF Inv
<1>2. /\ i.kind = "send" /\ items' = (items \ {i}) \cup {j}
      /\ UNCHANGED <<org, deleted, down, copy, autoReply, refresh, boundVars, histVars>>
  BY DEF SendRetry
<1>3. i \in SendItems /\ n \in Nat
  BY <1>1, <1>2, ItemTypes, SendTypes, SchedulingAssumption
<1> HIDE DEF n
<1>4. \A a : Asked(a)' = Asked(a) /\ Cancelling(a)' = Cancelling(a) /\ Replies(a)' = Replies(a)
  BY <1>2, <1>3, RetryDelta
<1>5. j.kind = i.kind /\ j.id = i.id /\ j.att = i.att /\ j.msg = i.msg
  BY <1>3 DEF SendItems
<1> HIDE DEF j
<1>6. /\ UNCHANGED <<answered, erased, regressed, cancelled, dropped, heard, lost, unsure, revived>>
      /\ answers' = answers
  BY <1>2 DEF histVars, boundVars
<1>7. BlankInv' /\ LostInv' /\ FailureShown'
  BY <1>2, <1>6 DEF Inv, BlankInv, LostInv, FailureShown
<1>8. IdInv' /\ ItemInv'
  <2>1. Last' = Last
    BY <1>2 DEF Last
  <2>2. IdInv'
    BY <1>2, <1>5, <1>6 DEF Inv, IdInv
  <2>3. ItemInv'
    BY <1>2, <1>5, <1>6, <2>1 DEF Inv, ItemInv
  <2> QED BY <2>2, <2>3
<1>9. ASSUME NEW a \in Attendees PROVE AttInv(a)'
  <2>1. heard[a] \in Int /\ cancelled[a] \in Nat
    BY <1>1, Types
  <2>2. SameEvent /\ SameState(a)
    BY <1>2, <1>4, <1>6, <2>1 DEF SameEvent, SameState
  <2>3. AttInv(a)
    BY DEF Inv
  <2> QED BY <1>1, <1>4, <2>2, <2>3, Frame
<1> QED BY <1>7, <1>8, <1>9 DEF Inv

\* A message is given up.
LEMMA SendGiveUpInv ==
    ASSUME Inv, TypeOK', NEW i \in items, SendGiveUp(i)
    PROVE  Inv'
<1>1. TypeOK /\ (org # None \/ deleted # None)
  BY DEF Inv, BlankInv
<1>2. /\ i.kind = "send" /\ items' = items \ {i} /\ org' = handleSchedulingResponse(i)
      /\ lost' = lost \cup {<<i.att, i.msg.seq>>}
      /\ UNCHANGED <<deleted, down, copy, autoReply, refresh, boundVars, answered,
                     erased, regressed, cancelled, dropped, heard, unsure, revived>>
  BY DEF SendGiveUp
<1>3. i.att \in Attendees /\ i.msg.seq \in Nat /\ i.msg.method \in {"CANCEL", "REQUEST"}
  BY <1>1, <1>2, ItemTypes, SendTypes
<1>4. /\ (org' = None) = (org = None)
      /\ org # None => /\ org'.id = org.id /\ org'.seq = org.seq /\ org'.time = org.time
                       /\ org'.atts = org.atts /\ org'.reset = org.reset /\ org'.ps = org.ps
                       /\ \A b \in Attendees : org'.stat[b] =
                             IF b = i.att /\ org.id = i.id /\ b \in org.atts THEN "5.1"
                             ELSE org.stat[b]
  <2>1. CASE Exists(i.id) /\ i.att \in org.atts
    <3>1. org \in Events /\ org # None /\ org.id = i.id /\ org' = [org EXCEPT !.stat[i.att] = "5.1"]
      BY <1>1, <1>2, <2>1, Types DEF handleSchedulingResponse, Exists
    <3> QED BY <1>3, <2>1, <3>1, FailedIs, EventTypes
  <2>2. CASE ~(Exists(i.id) /\ i.att \in org.atts)
    BY <1>2, <2>2 DEF handleSchedulingResponse, Exists
  <2> QED BY <2>1, <2>2
<1>5. SameEvent /\ Last' = Last
  BY <1>2, <1>4 DEF SameEvent, Last
<1>6. ~regressed => IF org = None THEN deleted # None /\ i.msg.seq <= deleted.seq + 2
                    ELSE i.msg.seq <= org.seq
  <2>1. CASE i.msg.method = "CANCEL"
    BY <1>1, <1>2, <1>3, <2>1, SendBrings DEF Inv, AttInv, OrderInv, Below
  <2>2. CASE i.msg.method = "REQUEST"
    <3>1. i.msg.seq <= Last
      BY <1>1, <1>2, <1>3, <2>2, SendBrings DEF Inv, AttInv, VersionInv
    <3>2. deleted # None => deleted.seq \in Nat
      BY <1>1, Types, EventTypes
    <3> QED BY <1>1, <1>3, <3>1, <3>2 DEF Last
  <2> QED BY <1>3, <2>1, <2>2
<1>7. BlankInv' /\ LostInv'
  <2>1. BlankInv'
    BY <1>1, <1>2, <1>4 DEF Inv, BlankInv
  <2>2. LostInv'
    BY <1>2, <1>4, <1>6 DEF Inv, LostInv
  <2> QED BY <2>1, <2>2
<1>8. IdInv' /\ ItemInv'
  <2>1. IdInv'
    BY <1>2, <1>4 DEF Inv, IdInv
  <2>2. ItemInv'
    BY <1>2, <1>5 DEF Inv, ItemInv, boundVars
  <2> QED BY <2>1, <2>2
<1>9. FailureShown'
  <2> SUFFICES ASSUME org # None, ~regressed, NEW a \in org.atts, <<a, org.seq>> \in lost'
               PROVE  org'.stat[a] # "1.2"
    BY <1>2, <1>4 DEF FailureShown
  <2>1. a \in Attendees
    BY <1>1, Types, EventTypes
  <2>2. CASE <<a, org.seq>> \in lost
    <3>1. org.stat[a] # "1.2"
      BY <2>2 DEF Inv, FailureShown
    <3> QED BY <1>4, <2>1, <3>1
  <2>3. CASE a = i.att /\ i.msg.seq = org.seq
    <3>1. i.id = org.id
      BY <1>2, <2>3 DEF Inv, IdInv
    <3> QED BY <1>4, <2>1, <2>3, <3>1
  <2> QED BY <1>2, <2>2, <2>3
<1>10. ASSUME NEW a \in Attendees PROVE AttInv(a)'
  <2>1. /\ Asked(a)' \subseteq Asked(a) /\ Cancelling(a)' \subseteq Cancelling(a)
        /\ Replies(a)' = Replies(a)
        /\ \A m \in Asked(a) : m \in Asked(a)' \/ (i.att = a /\ m = i.msg)
        /\ \A q \in Cancelling(a) : q \in Cancelling(a)' \/ (i.att = a /\ q = i.msg.seq)
    BY <1>2, SendDelta
  <2>2. heard[a] \in Int /\ cancelled[a] \in Nat
    BY <1>1, Types
  <2>3. SameState(a)
    BY <1>2, <1>4, <2>1, <2>2 DEF SameState
  <2>4. CancelsGo(a)
    BY <1>2, <2>1 DEF CancelsGo
  <2>5. \A m \in Asked(a) : m.seq = org.seq => m \in Asked(a)' \/ <<a, org.seq>> \in lost'
    BY <1>2, <2>1
  <2>6. AttInv(a)
    BY DEF Inv
  <2> QED BY <1>1, <1>5, <2>1, <2>3, <2>4, <2>5, <2>6, Shrink
<1> QED BY <1>7, <1>8, <1>9, <1>10 DEF Inv

-----------------------------------------------------------------------------
\* The attendees

\* What the messages to come depend on stays, and his copy is the same version.
LEMMA SameVersion ==
    ASSUME TypeOK, NEW a \in Attendees, SameEvent, VersionInv(a), StrayInv(a), OrderInv(a),
           Asked(a)' = Asked(a), Cancelling(a)' = Cancelling(a),
           cancelled' = cancelled, heard' = heard, lost' = lost,
           \/ copy'[a] = None
           \/ /\ copy[a] # None /\ copy'[a] # None /\ copy'[a].seq = copy[a].seq
              /\ copy'[a].cancelled = copy[a].cancelled
    PROVE  VersionInv(a)' /\ StrayInv(a)' /\ OrderInv(a)'
<1>1. Last' = Last /\ Out(a)' = Out(a)
  BY DEF Last, Out, SameEvent
<1>2. Live(copy[a])' => Live(copy[a]) /\ copy'[a].seq = copy[a].seq
  BY DEF Live
<1>3. VersionInv(a)'
  BY <1>1, <1>2 DEF VersionInv
<1>4. StrayInv(a)'
  <2>1. \A v : Told(a, v)' = Told(a, v)
    BY DEF Told
  <2>2. Out(a) /\ Live(copy[a])' => Told(a, copy[a].seq)'
    <3>1. Out(a) /\ Live(copy[a])' => Told(a, copy[a].seq)
      BY <1>2 DEF StrayInv
    <3> QED BY <1>2, <3>1 DEF Told
  <2> QED BY <1>1, <2>1, <2>2 DEF StrayInv
<1>5. OrderInv(a)'
  <2>1. \A q : Below(a, q)' = Below(a, q)
    BY DEF Below, SameEvent
  <2>2. ~regressed => (copy[a] # None /\ copy[a].cancelled => Below(a, copy[a].seq))'
    <3>1. (copy[a] # None /\ copy[a].cancelled)' =>
             copy[a] # None /\ copy[a].cancelled /\ copy'[a].seq = copy[a].seq
      OBVIOUS
    <3> QED BY <3>1 DEF OrderInv, Below, SameEvent
  <2> QED BY <1>1, <2>1, <2>2 DEF OrderInv, SameEvent, Out
<1> QED BY <1>3, <1>4, <1>5

\* The reply that is queued, as the latest
LEMMA RepliedIs ==
    ASSUME Inv, NEW a \in Attendees, NEW p, Replied(a, p), answers' \in Nat, answers' >= answers
    PROVE  /\ \A b \in Attendees : Asked(b)' = Asked(b) /\ Cancelling(b)' = Cancelling(b)
           /\ \A b \in Attendees \ {a} : Replies(b)' = Replies(b)
           /\ \E r \in ReplyItems :
                 /\ Replies(a)' = Replies(a) \cup {r} /\ r.ps = p
                 /\ r.seq = copy[a].seq /\ r.time = copy[a].time
                 /\ \A j \in Replies(a)' : j.n <= r.n
           /\ \A i \in items' : i \in items \/ (i.kind = "reply" /\ i.n <= answers')
<1>1. PICK r \in ReplyItems :
         /\ items' = items \cup {r} /\ r.att = a /\ r.seq = copy[a].seq /\ r.time = copy[a].time
         /\ r.ps = p /\ r.n = answers'
  BY DEF Replied
<1>2. r.kind = "reply"
  BY ReplyTypes
<1>3. items' = (items \ {}) \cup {r}
  BY <1>1
<1>4. \A b : /\ Asked(b)' = Asked(b) /\ Cancelling(b)' = Cancelling(b)
             /\ Replies(b)' = (Replies(b) \ {}) \cup {i \in {r} : i.att = b}
  BY <1>2, <1>3, ReplyDelta
<1>5. \A j \in Replies(a) : j.n <= answers'
  <2>1. \A j \in Replies(a) : j.n \in Nat /\ j.n <= answers
    BY ItemTypes, ReplyTypes DEF Inv, ItemInv, Replies
  <2>2. answers \in Nat
    BY Types DEF Inv
  <2> QED BY <2>1, <2>2
<1>6. Replies(a)' = Replies(a) \cup {r}
  BY <1>1, <1>4
<1>7. \A b \in Attendees \ {a} : Replies(b)' = Replies(b)
  BY <1>1, <1>4
<1> QED BY <1>1, <1>2, <1>4, <1>5, <1>6, <1>7

\* An answer with its reply: what he says now is what the organizer will have.
LEMMA LatestReply ==
    ASSUME TypeOK, NEW a \in Attendees, ~Out(a), NEW p, NEW r \in ReplyItems, org' = org,
           Replies(a)' = Replies(a) \cup {r}, r.ps = p, r.seq >= org.reset[a],
           \A j \in Replies(a)' : j.n <= r.n
    PROVE  WillBe(a, p)'
<1>1. org # None /\ org.reset[a] \in Nat /\ r.seq \in Nat /\ r \in Replies(a)'
  BY Types, EventTypes, ReplyTypes DEF Out
<1> QED BY <1>1 DEF WillBe

\* An attendee's answer, or the reply of his auto-reply item
LEMMA AnswersInv ==
    ASSUME Inv, TypeOK', NEW a \in Attendees, SameEvent, org' = org, copy[a] # None,
           copy'[a] # None, copy'[a].seq = copy[a].seq, copy'[a].time = copy[a].time,
           copy'[a].cancelled = copy[a].cancelled,
           Replied(a, copy'[a].ps), answers' \in Nat, answers' >= answers,
           UNCHANGED <<dropped, unsure, cancelled, heard, lost, answered, revived>>
    PROVE  AttInv(a)'
<1>1. TypeOK /\ AttInv(a)
  BY DEF Inv
<1>2. Asked(a)' = Asked(a) /\ Cancelling(a)' = Cancelling(a)
  BY RepliedIs
<1>3. PICK r \in ReplyItems :
         /\ Replies(a)' = Replies(a) \cup {r} /\ r.ps = copy'[a].ps
         /\ r.seq = copy[a].seq /\ r.time = copy[a].time
         /\ \A j \in Replies(a)' : j.n <= r.n
  BY RepliedIs
<1>4. VersionInv(a)' /\ StrayInv(a)' /\ OrderInv(a)'
  BY <1>1, <1>2, SameVersion DEF AttInv
<1>5. Out(a)' = Out(a) /\ \A x : Era(a, x)' = Era(a, x)
  BY DEF Out, Era
<1>6. FreshInv(a)'
  <2> SUFFICES ASSUME a \notin erased PROVE FreshInv(a)'
    BY DEF FreshInv, SameEvent
  <2>1. FreshInv(a) /\ Last' = Last
    BY <1>1 DEF AttInv, Last, SameEvent
  <2>2. CASE Out(a)
    <3>1. copy[a].seq <= Last
      BY <2>1, <2>2 DEF FreshInv
    <3>2. \A i \in Replies(a)' : i.seq <= Last
      BY <1>3, <2>1, <2>2, <3>1 DEF FreshInv
    <3> QED BY <1>2, <1>5, <2>1, <2>2, <3>1, <3>2 DEF FreshInv
  <2>3. CASE ~Out(a)
    <3>1. Era(a, copy[a]) /\ (copy[a].cancelled => copy[a].seq < org.reset[a])
      BY <2>1, <2>3 DEF FreshInv
    <3>2. (Era(a, copy[a]) /\ (copy[a].cancelled => copy[a].seq < org.reset[a]))'
      BY <3>1 DEF Era
    <3>3. Era(a, r)
      BY <1>3, <3>1 DEF Era
    <3>4. \A i \in Replies(a)' : Era(a, i)'
      BY <1>3, <1>5, <2>1, <2>3, <3>3 DEF FreshInv
    <3> QED BY <1>2, <1>5, <2>1, <2>3, <3>2, <3>4 DEF FreshInv
  <2> QED BY <2>2, <2>3
<1>7. AgreeInv(a)'
  <2> SUFFICES ASSUME ~Out(a), a \notin erased \cup unsure \cup revived PROVE AgreeInv(a)'
    BY <1>5 DEF AgreeInv, SameEvent
  <2>1. NotYet(a)' = NotYet(a)
    BY DEF NotYet
  <2>2. CASE NotYet(a)
    <3>1. r.seq < org.reset[a]
      BY <1>3, <2>2 DEF NotYet
    <3> QED BY <1>1, <1>2, <1>3, <2>1, <2>2, <3>1 DEF AttInv, AgreeInv
  <2>3. CASE ~NotYet(a)
    <3>1. copy[a].seq \in Nat /\ org.reset[a] \in Nat
      BY <1>1, Types, EventTypes, CopyTypes DEF Out
    <3>2. r.seq >= org.reset[a]
      BY <1>3, <2>3, <3>1 DEF NotYet
    <3>3. PICK p : p = copy'[a].ps
      OBVIOUS
    <3>4. WillBe(a, p)'
      BY <1>1, <1>3, <3>2, <3>3, LatestReply
    <3>5. WillBe(a, copy[a].ps)'
      BY <3>3, <3>4 DEF WillBe
    <3> QED BY <2>1, <2>3, <3>5 DEF AgreeInv
  <2> QED BY <2>2, <2>3
<1>8. ArriveInv(a)'
  <2>1. UpToDate(a)' = UpToDate(a) /\ ~TurnedDown(a)
    BY DEF UpToDate, TurnedDown, Live
  <2> QED BY <1>1, <1>2, <1>5, <2>1 DEF AttInv, ArriveInv, SameEvent
<1>9. DroppedInv(a)'
  BY <1>1 DEF AttInv, DroppedInv
<1> QED BY <1>4, <1>6, <1>7, <1>8, <1>9 DEF AttInv

\* A copy is deleted.
LEMMA DeletesInv ==
    ASSUME Inv, TypeOK', NEW a \in Attendees, SameEvent, org' = org, Deletes(a),
           Asked(a)' = Asked(a), Cancelling(a)' = Cancelling(a),
           UNCHANGED <<cancelled, heard, lost, answered, revived>>,
           \/ Replies(a)' = Replies(a) /\ (copy[a].cancelled \/ copy[a].ps = "DECLINED" \/ org = None)
           \/ \E r \in ReplyItems :
                 /\ Replies(a)' = Replies(a) \cup {r} /\ r.ps = "DECLINED"
                 /\ r.seq = copy[a].seq /\ r.time = copy[a].time
                 /\ \A j \in Replies(a)' : j.n <= r.n
    PROVE  AttInv(a)'
<1>1. TypeOK /\ AttInv(a)
  BY DEF Inv
<1>2. /\ copy'[a] = None /\ dropped'[a] = copy[a].seq /\ copy[a] \in Copies /\ copy[a] # None
      /\ copy[a].seq \in Nat /\ copy[a].cancelled \in BOOLEAN
      /\ unsure' = unsure \cup (autoReply \cap {a}) /\ a \notin autoReply'
  BY <1>1, DeletesTypes, CopyTypes DEF Deletes
<1>3. VersionInv(a)' /\ StrayInv(a)' /\ OrderInv(a)'
  BY <1>1, <1>2, SameVersion DEF AttInv
<1>4. Out(a)' = Out(a) /\ \A x : Era(a, x)' = Era(a, x)
  BY DEF Out, Era
<1>5. ASSUME a \notin erased, ~Out(a)
      PROVE  /\ Era(a, copy[a]) /\ (copy[a].cancelled => copy[a].seq < org.reset[a])
             /\ org # None /\ org.seq \in Nat /\ org.reset[a] \in Nat
  <2>1. Era(a, copy[a]) /\ (copy[a].cancelled => copy[a].seq < org.reset[a])
    BY <1>1, <1>2, <1>5 DEF AttInv, FreshInv
  <2> QED BY <1>1, <1>5, <2>1, Types, EventTypes DEF Out
<1>6. FreshInv(a)'
  <2> SUFFICES ASSUME a \notin erased PROVE FreshInv(a)'
    BY DEF FreshInv, SameEvent
  <2>1. FreshInv(a) /\ Last' = Last
    BY <1>1 DEF AttInv, Last, SameEvent
  <2>2. CASE Out(a)
    <3>1. copy[a].seq <= Last
      BY <1>2, <2>1, <2>2 DEF FreshInv
    <3>2. \A i \in Replies(a)' : i.seq <= Last
      BY <2>1, <2>2, <3>1 DEF FreshInv
    <3> QED BY <1>2, <1>4, <2>1, <2>2, <3>1, <3>2 DEF FreshInv
  <2>3. CASE ~Out(a)
    <3>1. /\ \A m \in Asked(a) : Era(a, m) /\ (m.seq >= org.reset[a] => m.reset = org.reset[a])
          /\ \A i \in Replies(a) : Era(a, i)
          /\ org.ps[a] # "NEEDS-ACTION" => answered[a] >= org.time
          /\ \A q \in Cancelling(a) : q < org.reset[a]
      BY <2>1, <2>3 DEF FreshInv
    <3>2. \A i \in Replies(a)' : Era(a, i)'
      BY <1>4, <1>5, <2>3, <3>1 DEF Era
    <3>3. dropped'[a] <= org'.seq
      BY <1>2, <1>5, <2>3 DEF Era
    <3> QED BY <1>2, <1>4, <2>3, <3>1, <3>2, <3>3 DEF FreshInv
  <2> QED BY <2>2, <2>3
<1>7. AgreeInv(a)'
  <2> SUFFICES ASSUME a \notin erased \cup unsure' \cup revived, ~Out(a) PROVE AgreeInv(a)'
    BY <1>4 DEF AgreeInv, SameEvent
  <2>1. a \notin unsure /\ a \notin autoReply /\ org # None /\ org.reset[a] \in Nat
    BY <1>2, <1>5
  <2>2. NotYet(a)' = NotYet(a) /\ AgreeInv(a)
    BY <1>1, <1>2 DEF NotYet, AttInv
  <2>3. CASE NotYet(a)
    <3>1. copy[a].seq < org.reset[a]
      BY <1>2, <2>3 DEF NotYet
    <3>2. \A i \in Replies(a)' : i.seq < org.reset[a]
      BY <2>1, <2>2, <2>3, <3>1 DEF AgreeInv
    <3> QED BY <2>1, <2>2, <2>3, <3>2 DEF AgreeInv
  <2>4. CASE ~NotYet(a)
    <3>1. copy[a].seq >= org.reset[a]
      BY <1>2, <2>1, <2>4 DEF NotYet
    <3>2. ~copy[a].cancelled
      BY <1>2, <1>5, <2>1, <3>1
    <3>3. CASE Replies(a)' = Replies(a) /\ copy[a].ps = "DECLINED"
      <4>1. WillBe(a, "DECLINED")
        BY <1>2, <2>1, <2>2, <2>4, <3>3 DEF AgreeInv
      <4>2. WillBe(a, "DECLINED")'
        BY <3>3, <4>1 DEF WillBe
      <4> QED BY <1>2, <2>2, <2>4, <4>2 DEF AgreeInv
    <3>4. ASSUME NEW r \in ReplyItems, Replies(a)' = Replies(a) \cup {r}, r.ps = "DECLINED",
                 r.seq = copy[a].seq, \A j \in Replies(a)' : j.n <= r.n
          PROVE  AgreeInv(a)'
      <4>1. WillBe(a, "DECLINED")'
        BY <1>1, <2>1, <3>1, <3>4, LatestReply
      <4> QED BY <1>2, <2>2, <2>4, <4>1 DEF AgreeInv
    <3> QED BY <2>1, <3>2, <3>3, <3>4
  <2> QED BY <2>3, <2>4
<1>8. ArriveInv(a)'
  <2> SUFFICES ASSUME ~regressed, ~Out(a) PROVE ArriveInv(a)'
    BY <1>4 DEF ArriveInv, SameEvent
  <2>1. org # None /\ org.seq \in Nat /\ org.reset[a] \in Nat /\ org.reset[a] <= org.seq
        /\ heard[a] \in Int
    BY <1>1, Types, EventTypes DEF Out
  <2>2. ~TurnedDown(a)
    BY <1>2 DEF TurnedDown
  <2>3. ASSUME UpToDate(a) PROVE TurnedDown(a)'
    <3>1. copy[a].seq = org.seq /\ heard[a] >= org.seq
      BY <1>1, <1>2, <2>1, <2>3 DEF UpToDate, AttInv, VersionInv
    <3> QED BY <1>2, <2>1, <3>1 DEF TurnedDown
  <2> QED BY <1>1, <2>2, <2>3 DEF AttInv, ArriveInv
<1>9. DroppedInv(a)'
  BY <1>2 DEF DroppedInv
<1> QED BY <1>3, <1>6, <1>7, <1>8, <1>9 DEF AttInv

\* Reply items that come or go leave the invariants of the event alone.
LEMMA RepliesKeep ==
    ASSUME Inv, org # None \/ deleted # None, UNCHANGED <<deleted, erased, regressed, lost>>,
           (org' = None) = (org = None),
           org # None => /\ org'.id = org.id /\ org'.seq = org.seq /\ org'.atts = org.atts
                         /\ \A b \in org.atts : org'.stat[b] = org.stat[b] \/ org'.stat[b] # "1.2",
           \A i \in items' : i \in items \/ (i.kind = "reply" /\ i.n <= answers'),
           \A i \in items : i.kind = "reply" => i.n <= answers'
    PROVE  BlankInv' /\ LostInv' /\ IdInv' /\ ItemInv' /\ FailureShown'
<1>1. Last' = Last
  BY DEF Last
<1>2. BlankInv'
  BY DEF Inv, BlankInv
<1>3. LostInv'
  BY DEF Inv, LostInv
<1>4. IdInv'
  BY DEF Inv, IdInv
<1>5. ItemInv'
  BY <1>1 DEF Inv, ItemInv
<1>6. FailureShown'
  BY DEF Inv, FailureShown
<1> QED BY <1>2, <1>3, <1>4, <1>5, <1>6

\* An answer to an event that is gone
LEMMA GoneInv ==
    ASSUME Inv, TypeOK', NEW a \in Attendees, SameEvent, org' = org, org = None, copy[a] # None,
           copy'[a] # None, copy'[a].seq = copy[a].seq, copy'[a].cancelled = copy[a].cancelled,
           items' = items, UNCHANGED <<cancelled, heard, lost, dropped, revived>>
    PROVE  AttInv(a)'
<1>1. TypeOK /\ AttInv(a)
  BY DEF Inv
<1>2. Asked(a)' = Asked(a) /\ Cancelling(a)' = Cancelling(a) /\ Replies(a)' = Replies(a)
  BY DEF Asked, Cancelling, Replies
<1>3. VersionInv(a)' /\ StrayInv(a)' /\ OrderInv(a)'
  BY <1>1, <1>2, SameVersion DEF AttInv
<1>4. Out(a) /\ Out(a)'
  BY DEF Out
<1>5. FreshInv(a)'
  <2>1. FreshInv(a) /\ Last' = Last /\ erased' = erased
    BY <1>1 DEF AttInv, Last, SameEvent
  <2> QED BY <1>2, <1>4, <2>1 DEF FreshInv
<1>6. DroppedInv(a)' /\ AgreeInv(a)' /\ ArriveInv(a)'
  BY <1>1, <1>4 DEF AttInv, DroppedInv, AgreeInv, ArriveInv
<1> QED BY <1>3, <1>5, <1>6 DEF AttInv

\* The steps of an attendee
LEMMA AttendeeInv ==
    ASSUME Inv, TypeOK', NEW a \in Attendees, AttendeeStep(a)
    PROVE  Inv'
<1>1. TypeOK
  BY DEF Inv
<1>2. answers' = answers + 1 /\ answers \in Nat /\ answers' \in Nat /\ answers' >= answers
  BY <1>1, AttendeeIs
<1>3. /\ org' = org /\ SameEvent
      /\ UNCHANGED <<deleted, erased, regressed, cancelled, heard, lost, answered, revived>>
  BY <1>1, AttendeeIs DEF AttendeeKeeps, SameEvent
<1>4. \/ \E p \in PartStats : Answers(a, p) /\ Replied(a, p)
      \/ \E p \in PartStats : Answers(a, p) /\ items' = items /\ org = None
      \/ Deletes(a) /\ items' = items /\ (copy[a].cancelled \/ copy[a].ps = "DECLINED" \/ org = None)
      \/ Deletes(a) /\ Replied(a, "DECLINED")
  BY <1>1, AttendeeIs
<1>5. /\ items' = items \/ \E p : Replied(a, p)
      /\ Deletes(a) \/ \E p : Answers(a, p)
  BY <1>4
<1>6. /\ \A b \in Attendees : Asked(b)' = Asked(b) /\ Cancelling(b)' = Cancelling(b)
      /\ \A b \in Attendees \ {a} : Replies(b)' = Replies(b)
      /\ items' = items => Replies(a)' = Replies(a)
      /\ \A i \in items' : i \in items \/ (i.kind = "reply" /\ i.n <= answers')
  <2>1. CASE items' = items
    BY <2>1 DEF Asked, Cancelling, Replies
  <2>2. CASE \E p : Replied(a, p)
    <3>1. /\ \A b \in Attendees : Asked(b)' = Asked(b) /\ Cancelling(b)' = Cancelling(b)
          /\ \A b \in Attendees \ {a} : Replies(b)' = Replies(b)
          /\ \A i \in items' : i \in items \/ (i.kind = "reply" /\ i.n <= answers')
      BY <1>2, <2>2, RepliedIs
    <3> QED BY <3>1 DEF Replies
  <2> QED BY <1>5, <2>1, <2>2
<1>7. BlankInv' /\ LostInv' /\ IdInv' /\ ItemInv' /\ FailureShown'
  <2>1. copy[a] # None
    BY <1>5 DEF Deletes, Answers
  <2>2. org # None \/ deleted # None
    BY <2>1 DEF Inv, BlankInv
  <2>3. \A i \in items : i.kind = "reply" => i.n <= answers'
    <3>1. \A i \in items : i.kind = "reply" => i.n \in Nat /\ i.n <= answers
      BY <1>1, ItemTypes, ReplyTypes DEF Inv, ItemInv
    <3> QED BY <1>2, <3>1
  <2> QED BY <1>3, <1>6, <2>2, <2>3, RepliesKeep
<1>8. ASSUME NEW b \in Attendees \ {a} PROVE AttInv(b)'
  <2>1. copy'[b] = copy[b] /\ dropped'[b] = dropped[b] /\ (b \in autoReply') = (b \in autoReply)
        /\ (b \in unsure') = (b \in unsure)
    <3>1. CASE Deletes(a)
      BY <1>1, <3>1, DeletesTypes DEF Deletes
    <3>2. ASSUME NEW p, Answers(a, p)
          PROVE  /\ copy'[b] = copy[b] /\ dropped' = dropped /\ autoReply' = autoReply
                 /\ unsure' = unsure
      BY <1>1, <3>2, AnswersTypes DEF Answers
    <3> QED BY <1>5, <3>1, <3>2
  <2>2. heard[b] \in Int /\ cancelled[b] \in Nat
    BY <1>1, Types
  <2>3. SameState(b)
    BY <1>3, <1>6, <2>1, <2>2 DEF SameState
  <2>4. AttInv(b)
    BY DEF Inv
  <2> QED BY <1>1, <1>3, <1>6, <2>3, <2>4, Frame
<1>9. AttInv(a)'
  <2>1. ASSUME NEW p \in PartStats, Answers(a, p), Replied(a, p) PROVE AttInv(a)'
    <3>1. /\ copy[a] # None /\ copy'[a] # None /\ copy'[a].seq = copy[a].seq
          /\ copy'[a].time = copy[a].time /\ copy'[a].ps = p
          /\ copy'[a].cancelled = copy[a].cancelled /\ dropped' = dropped /\ unsure' = unsure
      BY <1>1, <2>1, AnswersTypes DEF Answers
    <3>2. Replied(a, copy'[a].ps)
      BY <2>1, <3>1
    <3> QED BY <1>2, <1>3, <3>1, <3>2, AnswersInv
  <2>2. ASSUME NEW p \in PartStats, Answers(a, p), items' = items, org = None PROVE AttInv(a)'
    <3>1. /\ copy[a] # None /\ copy'[a] # None /\ copy'[a].seq = copy[a].seq
          /\ copy'[a].cancelled = copy[a].cancelled /\ dropped' = dropped
      BY <1>1, <2>2, AnswersTypes DEF Answers
    <3> QED BY <1>3, <2>2, <3>1, GoneInv
  <2>3. CASE Deletes(a) /\ items' = items
             /\ (copy[a].cancelled \/ copy[a].ps = "DECLINED" \/ org = None)
    BY <1>3, <1>6, <2>3, DeletesInv
  <2>4. CASE Deletes(a) /\ Replied(a, "DECLINED")
    <3>1. \E r \in ReplyItems :
             /\ Replies(a)' = Replies(a) \cup {r} /\ r.ps = "DECLINED"
             /\ r.seq = copy[a].seq /\ r.time = copy[a].time
             /\ \A j \in Replies(a)' : j.n <= r.n
      BY <1>2, <2>4, RepliedIs
    <3> QED BY <1>3, <1>6, <2>4, <3>1, DeletesInv
  <2> QED BY <1>4, <2>1, <2>2, <2>3, <2>4
<1> QED BY <1>7, <1>8, <1>9 DEF Inv

\* An auto-reply item
LEMMA AutoReplyInv ==
    ASSUME Inv, TypeOK', NEW a \in Attendees, SendAutoReply(a)
    PROVE  Inv'
<1>1. TypeOK
  BY DEF Inv
<1>2. /\ UNCHANGED <<org, deleted, copy, answers>> /\ SameEvent
      /\ UNCHANGED <<answered, erased, regressed, cancelled, dropped, heard, lost, unsure, revived>>
      /\ autoReply' = autoReply \ {a} /\ copy[a] # None /\ Replied(a, copy[a].ps)
  BY <1>1, AutoReplyIs DEF boundVars, histVars, SameEvent
<1>3. answers \in Nat /\ answers' \in Nat /\ answers' >= answers
  BY <1>1, <1>2, Types
<1>4. /\ \A b \in Attendees : Asked(b)' = Asked(b) /\ Cancelling(b)' = Cancelling(b)
      /\ \A b \in Attendees \ {a} : Replies(b)' = Replies(b)
      /\ \A i \in items' : i \in items \/ (i.kind = "reply" /\ i.n <= answers')
  BY <1>2, <1>3, RepliedIs
<1>5. BlankInv' /\ LostInv' /\ IdInv' /\ ItemInv' /\ FailureShown'
  <2>1. org # None \/ deleted # None
    BY <1>2 DEF Inv, BlankInv
  <2>2. \A i \in items : i.kind = "reply" => i.n <= answers'
    BY <1>2 DEF Inv, ItemInv
  <2> QED BY <1>2, <1>4, <2>1, <2>2, RepliesKeep
<1>6. ASSUME NEW b \in Attendees \ {a} PROVE AttInv(b)'
  <2>1. heard[b] \in Int /\ cancelled[b] \in Nat
    BY <1>1, Types
  <2>2. SameState(b)
    BY <1>2, <1>4, <2>1 DEF SameState
  <2>3. AttInv(b)
    BY DEF Inv
  <2> QED BY <1>1, <1>2, <1>4, <2>2, <2>3, Frame
<1>7. AttInv(a)'
  BY <1>2, <1>3, AnswersInv
<1> QED BY <1>5, <1>6, <1>7 DEF Inv

-----------------------------------------------------------------------------
\* The replies

\* A reply of his is processed, or given up.
LEMMA ReplyGoes ==
    ASSUME Inv, TypeOK', NEW a \in Attendees, NEW i \in Replies(a), SameEvent,
           Replies(a)' = Replies(a) \ {i}, Asked(a)' = Asked(a), Cancelling(a)' = Cancelling(a),
           UNCHANGED <<copy, autoReply, dropped, cancelled, heard, lost, revived>>,
           unsure \subseteq unsure',
           org # None => \/ org'.ps[a] = org.ps[a] /\ answered'[a] = answered[a]
                         \/ replyCounts(org, i) /\ org'.ps[a] = i.ps /\ answered'[a] = i.time,
           a \notin unsure' => /\ \A j \in Replies(a) \ {i} : ~(j.n <= i.n)
                               /\ org # None /\ replyCounts(org, i) => org'.ps[a] = i.ps
    PROVE  AttInv(a)'
<1>1. TypeOK /\ AttInv(a) /\ i \in ReplyItems /\ i.att = a
  BY ItemTypes DEF Inv, Replies
<1>2. i.seq \in Nat /\ i.time \in Nat /\ i.n \in Nat
  BY <1>1, ReplyTypes
<1>3. VersionInv(a)' /\ StrayInv(a)' /\ OrderInv(a)'
  BY <1>1, SameVersion DEF AttInv
<1>4. Out(a)' = Out(a)
  BY DEF Out, SameEvent
<1>5. ASSUME a \notin erased, ~Out(a)
      PROVE  /\ org # None /\ a \in org.atts /\ org.time \in Nat
             /\ org.reset[a] \in Nat /\ Era(a, i)
  <2>1. Era(a, i)
    BY <1>1, <1>5 DEF AttInv, FreshInv
  <2> QED BY <1>1, <1>5, <2>1, Types, EventTypes DEF Out
<1>6. ~Out(a) => /\ org # None /\ org' # None /\ org'.seq = org.seq /\ org'.time = org.time
                 /\ org'.reset = org.reset /\ org'.atts = org.atts
  BY DEF Out, SameEvent
<1>7. FreshInv(a)'
  <2> SUFFICES ASSUME a \notin erased PROVE FreshInv(a)'
    BY DEF FreshInv, SameEvent
  <2>1. FreshInv(a) /\ Last' = Last
    BY <1>1 DEF AttInv, Last, SameEvent
  <2>2. CASE Out(a)
    BY <1>4, <2>1, <2>2 DEF FreshInv
  <2>3. CASE ~Out(a)
    <3>1. \A x : Era(a, x)' = Era(a, x)
      BY <1>6, <2>3 DEF Era
    <3>2. (copy[a] # None => Era(a, copy[a]) /\ (copy[a].cancelled => copy[a].seq < org.reset[a]))'
      BY <1>6, <2>1, <2>3 DEF FreshInv, Era
    <3>3. org'.ps[a] # "NEEDS-ACTION" => answered'[a] >= org'.time
      <4>1. CASE org'.ps[a] = org.ps[a] /\ answered'[a] = answered[a]
        BY <1>6, <2>1, <2>3, <4>1 DEF FreshInv
      <4>2. CASE replyCounts(org, i) /\ answered'[a] = i.time
        BY <1>1, <1>2, <1>5, <1>6, <2>3, <4>2 DEF replyCounts, Era
      <4> QED BY <1>6, <2>3, <4>1, <4>2
    <3> QED BY <1>4, <1>6, <2>1, <2>3, <3>1, <3>2, <3>3 DEF FreshInv
  <2> QED BY <2>2, <2>3
<1>8. AgreeInv(a)'
  <2> SUFFICES ASSUME a \notin erased \cup unsure' \cup revived, ~Out(a) PROVE AgreeInv(a)'
    BY <1>4 DEF AgreeInv, SameEvent
  <2>1. /\ ~Out(a) /\ org # None /\ a \in org.atts /\ org.reset[a] \in Nat
        /\ org'.reset = org.reset /\ AgreeInv(a) /\ a \notin unsure
    BY <1>1, <1>5, <1>6 DEF AttInv
  <2>2. NotYet(a)' = NotYet(a)
    BY <2>1 DEF NotYet
  <2>3. ASSUME i.seq < org.reset[a] PROVE org'.ps[a] = org.ps[a]
    <3>1. ~replyCounts(org, i)
      BY <1>1, <1>2, <2>1, <2>3 DEF replyCounts
    <3> QED BY <2>1, <3>1
  <2>4. CASE NotYet(a)
    <3>1. org'.ps[a] = org.ps[a]
      BY <2>1, <2>3, <2>4 DEF AgreeInv
    <3> QED BY <2>1, <2>2, <2>4, <3>1 DEF AgreeInv
  <2>5. ASSUME ~NotYet(a), NEW p, WillBe(a, p) PROVE WillBe(a, p)'
    <3>1. CASE \A k \in Replies(a) : k.seq < org.reset[a]
      <4>1. org'.ps[a] = org.ps[a] /\ org.ps[a] = p
        BY <2>3, <2>5, <3>1 DEF WillBe
      <4> QED BY <2>1, <3>1, <4>1 DEF WillBe
    <3>2. CASE ~\A k \in Replies(a) : k.seq < org.reset[a]
      <4>1. PICK k \in Replies(a) :
               k.seq >= org.reset[a] /\ k.ps = p /\ \A j \in Replies(a) : j.n <= k.n
        BY <2>5, <3>2 DEF WillBe
      <4>2. k.seq \in Nat
        BY <1>1, ItemTypes, ReplyTypes DEF Replies
      <4>3. CASE k = i
        <5>1. Replies(a)' = {}
          BY <4>1, <4>3
        <5>2. org'.ps[a] = p
          BY <1>1, <2>1, <4>1, <4>3 DEF replyCounts
        <5> QED BY <5>1, <5>2 DEF WillBe
      <4>4. CASE k # i
        <5>1. k \in Replies(a)' /\ ~(k.seq < org'.reset[a]) /\ k.seq >= org'.reset[a]
              /\ \A j \in Replies(a)' : j.n <= k.n
          BY <2>1, <4>1, <4>2, <4>4
        <5> QED BY <4>1, <5>1 DEF WillBe
      <4> QED BY <4>3, <4>4
    <3> QED BY <3>1, <3>2
  <2>6. CASE ~NotYet(a) /\ a \notin autoReply
    <3> DEFINE p == IF copy[a] = None THEN "DECLINED" ELSE copy[a].ps
    <3>1. PICK q : q = p
      OBVIOUS
    <3>2. WillBe(a, q)
      BY <2>1, <2>6, <3>1 DEF AgreeInv
    <3>3. WillBe(a, q)'
      BY <2>5, <2>6, <3>2
    <3>4. WillBe(a, p)'
      BY <3>1, <3>3 DEF WillBe
    <3> QED BY <2>2, <2>6, <3>4 DEF AgreeInv
  <2>7. CASE ~NotYet(a) /\ a \in autoReply
    BY <2>2, <2>7 DEF AgreeInv
  <2> QED BY <2>4, <2>6, <2>7
<1>9. ArriveInv(a)'
  <2> SUFFICES ASSUME ~regressed, ~Out(a) PROVE ArriveInv(a)'
    BY <1>4 DEF ArriveInv, SameEvent
  <2>1. UpToDate(a)' = UpToDate(a) /\ (TurnedDown(a) => TurnedDown(a)')
    BY <1>6 DEF UpToDate, TurnedDown, Live, SameEvent
  <2> QED BY <1>1, <1>6, <2>1 DEF AttInv, ArriveInv
<1>10. DroppedInv(a)'
  BY <1>1 DEF AttInv, DroppedInv
<1> QED BY <1>3, <1>7, <1>8, <1>9, <1>10 DEF AttInv

\* A reply is processed by the organizer.
LEMMA UpdateInv ==
    ASSUME Inv, TypeOK', NEW i \in items, doImplicitOrganizerUpdate(i)
    PROVE  Inv'
<1>1. TypeOK
  BY DEF Inv
<1>2. /\ i.kind = "reply" /\ items' = items \ {i}
      /\ org = None => org' = org /\ answered' = answered
      /\ org # None => /\ org' = updateAttendeeDataFromReply(org, i)
                       /\ answered' = IF replyCounts(org, i)
                                      THEN [answered EXCEPT ![i.att] = i.time] ELSE answered
      /\ unsure' = IF \E j \in Replies(i.att) \ {i} : j.n <= i.n THEN unsure \cup {i.att}
                   ELSE unsure
      /\ UNCHANGED <<deleted, copy, autoReply, answers, erased, regressed, cancelled, dropped,
                     heard, lost, revived>>
  BY DEF doImplicitOrganizerUpdate, boundVars
<1>3. i \in ReplyItems /\ i.att \in Attendees /\ i.time \in Nat /\ i \in Replies(i.att)
  BY <1>1, <1>2, ItemTypes, ReplyTypes DEF Replies
<1>4. \A b : /\ Asked(b)' = Asked(b) /\ Cancelling(b)' = Cancelling(b)
             /\ Replies(b)' = Replies(b) \ {i}
  <2>1. items' = (items \ {i}) \cup {} /\ \A k \in {i} \cup {} : k.kind = "reply"
    BY <1>2
  <2>2. \A b : /\ Asked(b)' = Asked(b) /\ Cancelling(b)' = Cancelling(b)
               /\ Replies(b)' = (Replies(b) \ {i}) \cup {k \in {} : k.att = b}
    BY <2>1, ReplyDelta
  <2> QED BY <2>2
<1>5. org # None => /\ org' # None /\ org'.id = org.id /\ org'.seq = org.seq
                    /\ org'.time = org.time /\ org'.atts = org.atts /\ org'.reset = org.reset
                    /\ \A b \in Attendees :
                         /\ org'.ps[b] = IF b = i.att /\ replyCounts(org, i) THEN i.ps ELSE org.ps[b]
                         /\ org'.stat[b] = IF b = i.att /\ replyCounts(org, i) THEN "2.0"
                                           ELSE org.stat[b]
  <2> SUFFICES ASSUME org # None PROVE <1>5!2
    OBVIOUS
  <2>1. org \in Events /\ org' = updateAttendeeDataFromReply(org, i)
    BY <1>1, <1>2, Types
  <2> QED BY <1>3, <2>1, UpdatedIs, EventTypes
<1>6. SameEvent
  BY <1>2, <1>5 DEF SameEvent
<1>7. BlankInv' /\ LostInv' /\ IdInv' /\ ItemInv' /\ FailureShown'
  <2>1. org # None \/ deleted # None
    BY DEF Inv, BlankInv
  <2>2. \A j \in items : j.kind = "reply" => j.n <= answers'
    BY <1>2 DEF Inv, ItemInv
  <2>3. org # None => \A b \in org.atts : org'.stat[b] = org.stat[b] \/ org'.stat[b] # "1.2"
    BY <1>1, <1>5, Types, EventTypes
  <2>4. /\ \A j \in items' : j \in items \/ (j.kind = "reply" /\ j.n <= answers')
        /\ (org' = None) = (org = None)
    BY <1>2, <1>5
  <2> QED BY <1>2, <1>5, <2>1, <2>2, <2>3, <2>4, RepliesKeep
<1>8. ASSUME NEW b \in Attendees \ {i.att} PROVE AttInv(b)'
  <2>1. heard[b] \in Int /\ cancelled[b] \in Nat
    BY <1>1, Types
  <2>2. Replies(b)' = Replies(b)
    BY <1>4 DEF Replies
  <2>3. answered'[b] = answered[b] /\ (b \in unsure') = (b \in unsure)
    BY <1>1, <1>2 DEF TypeOK
  <2>4. SameState(b)
    BY <1>2, <1>5, <2>1, <2>2, <2>3 DEF SameState
  <2>5. AttInv(b)
    BY DEF Inv
  <2> QED BY <1>1, <1>4, <1>6, <2>4, <2>5, Frame
<1>9. AttInv(i.att)'
  <2>1. PICK a \in Attendees : a = i.att
    BY <1>3
  <2>2. unsure \subseteq unsure'
    BY <1>2
  <2>3. a \notin unsure' => \A j \in Replies(a) \ {i} : ~(j.n <= i.n)
    BY <1>2, <2>1
  <2>4. org # None => \/ org'.ps[a] = org.ps[a] /\ answered'[a] = answered[a]
                      \/ replyCounts(org, i) /\ org'.ps[a] = i.ps /\ answered'[a] = i.time
    <3>1. answered \in [Attendees -> Nat]
      BY <1>1 DEF TypeOK
    <3> QED BY <1>2, <1>5, <2>1, <3>1
  <2>5. org # None /\ replyCounts(org, i) => org'.ps[a] = i.ps
    BY <1>5, <2>1
  <2>6. i \in Replies(a) /\ Replies(a)' = Replies(a) \ {i}
    BY <1>3, <1>4, <2>1
  <2>7. AttInv(a)'
    BY <1>2, <1>4, <1>6, <2>2, <2>3, <2>4, <2>5, <2>6, ReplyGoes
  <2> QED BY <1>2, <2>1, <2>7
<1> QED BY <1>3, <1>7, <1>8, <1>9 DEF Inv

\* A reply is given up.
LEMMA ReplyGiveUpInv ==
    ASSUME Inv, TypeOK', NEW i \in items, ReplyGiveUp(i)
    PROVE  Inv'
<1>1. TypeOK
  BY DEF Inv
<1>2. /\ i.kind = "reply" /\ items' = items \ {i} /\ unsure' = unsure \cup {i.att}
      /\ UNCHANGED <<org, deleted, copy, autoReply, answers, answered, erased, regressed,
                     cancelled, dropped, heard, lost, revived>>
  BY DEF ReplyGiveUp, boundVars
<1>3. i \in ReplyItems /\ i.att \in Attendees /\ i \in Replies(i.att)
  BY <1>1, <1>2, ItemTypes, ReplyTypes DEF Replies
<1>4. \A b : /\ Asked(b)' = Asked(b) /\ Cancelling(b)' = Cancelling(b)
             /\ Replies(b)' = Replies(b) \ {i}
  <2>1. items' = (items \ {i}) \cup {} /\ \A k \in {i} \cup {} : k.kind = "reply"
    BY <1>2
  <2>2. \A b : /\ Asked(b)' = Asked(b) /\ Cancelling(b)' = Cancelling(b)
               /\ Replies(b)' = (Replies(b) \ {i}) \cup {k \in {} : k.att = b}
    BY <2>1, ReplyDelta
  <2> QED BY <2>2
<1>5. SameEvent
  BY <1>2 DEF SameEvent
<1>6. BlankInv' /\ LostInv' /\ IdInv' /\ ItemInv' /\ FailureShown'
  <2>1. org # None \/ deleted # None
    BY DEF Inv, BlankInv
  <2>2. \A j \in items : j.kind = "reply" => j.n <= answers'
    BY <1>2 DEF Inv, ItemInv
  <2> QED BY <1>2, <2>1, <2>2, RepliesKeep
<1>7. ASSUME NEW b \in Attendees \ {i.att} PROVE AttInv(b)'
  <2>1. heard[b] \in Int /\ cancelled[b] \in Nat
    BY <1>1, Types
  <2>2. Replies(b)' = Replies(b)
    BY <1>4 DEF Replies
  <2>3. SameState(b)
    BY <1>2, <2>1, <2>2 DEF SameState
  <2>4. AttInv(b)
    BY DEF Inv
  <2> QED BY <1>1, <1>4, <1>5, <2>3, <2>4, Frame
<1>8. ASSUME NEW a \in Attendees, a = i.att PROVE AttInv(a)'
  <2>1. a \in unsure' /\ unsure \subseteq unsure'
    BY <1>2, <1>8
  <2>2. i \in Replies(a) /\ Replies(a)' = Replies(a) \ {i}
    BY <1>3, <1>4, <1>8
  <2> QED BY <1>2, <1>4, <1>5, <2>1, <2>2, ReplyGoes
<1> QED BY <1>6, <1>7, <1>8 DEF Inv

\* A reply is to be sent again: the reply stays what it is.
LEMMA ReplyRetryInv ==
    ASSUME Inv, TypeOK', NEW i \in items, ReplyRetry(i)
    PROVE  Inv'
<1> DEFINE n == IF i.failed < MaxTemporaryFailures THEN i.failed + 1 ELSE i.failed
           j == [i EXCEPT !.failed = n]
<1>1. TypeOK
  BY DEF Inv
<1>2. /\ i.kind = "reply" /\ items' = (items \ {i}) \cup {j}
      /\ UNCHANGED <<org, deleted, copy, autoReply, answers>>
      /\ UNCHANGED <<answered, erased, regressed, cancelled, dropped, heard, lost, unsure, revived>>
  BY DEF ReplyRetry, boundVars, histVars
<1>3. i \in ReplyItems /\ i.att \in Attendees
  BY <1>1, <1>2, ItemTypes, ReplyTypes
<1>4. /\ j.kind = "reply" /\ j.att = i.att /\ j.seq = i.seq /\ j.time = i.time /\ j.ps = i.ps
      /\ j.n = i.n
  BY <1>3 DEF ReplyItems
<1> HIDE DEF n, j
<1>5. \A b : /\ Asked(b)' = Asked(b) /\ Cancelling(b)' = Cancelling(b)
             /\ Replies(b)' = (Replies(b) \ {i}) \cup {k \in {j} : k.att = b}
  <2>1. \A k \in {i} \cup {j} : k.kind = "reply"
    BY <1>2, <1>4
  <2> QED BY <1>2, <2>1, ReplyDelta
<1>6. \A b : /\ \A k \in Replies(b) : \E l \in Replies(b)' :
                   l.seq = k.seq /\ l.time = k.time /\ l.ps = k.ps /\ l.n = k.n
             /\ \A l \in Replies(b)' : \E k \in Replies(b) :
                   l.seq = k.seq /\ l.time = k.time /\ l.ps = k.ps /\ l.n = k.n
  <2>1. \A b : i \in Replies(b) <=> b = i.att
    BY <1>2 DEF Replies
  <2>2. \A b : Replies(b)' = (Replies(b) \ {i}) \cup {k \in {j} : b = i.att}
    BY <1>4, <1>5
  <2> QED BY <1>4, <2>1, <2>2
<1>7. BlankInv' /\ LostInv' /\ IdInv' /\ ItemInv' /\ FailureShown'
  <2>1. org # None \/ deleted # None
    BY DEF Inv, BlankInv
  <2>2. \A k \in items : k.kind = "reply" => k.n <= answers'
    BY <1>2 DEF Inv, ItemInv
  <2>3. \A k \in items' : k \in items \/ (k.kind = "reply" /\ k.n <= answers')
    BY <1>2, <1>4, <2>2
  <2> QED BY <1>2, <2>1, <2>2, <2>3, RepliesKeep
<1>8. ASSUME NEW a \in Attendees PROVE AttInv(a)'
  <2>1. AttInv(a) /\ SameEvent /\ Asked(a)' = Asked(a) /\ Cancelling(a)' = Cancelling(a)
    BY <1>2, <1>5 DEF Inv, SameEvent
  <2>2. VersionInv(a)' /\ StrayInv(a)' /\ OrderInv(a)'
    BY <1>1, <1>2, <2>1, SameVersion DEF AttInv
  <2>3. Out(a)' = Out(a) /\ NotYet(a)' = NotYet(a) /\ \A x : Era(a, x)' = Era(a, x)
    BY <1>2 DEF Out, NotYet, Era
  <2>4. FreshInv(a)'
    <3> SUFFICES ASSUME a \notin erased PROVE FreshInv(a)'
      BY <1>2 DEF FreshInv
    <3>1. FreshInv(a) /\ Last' = Last
      BY <1>2, <2>1 DEF AttInv, Last
    <3>2. Out(a) => \A l \in Replies(a)' : l.seq <= Last
      BY <1>6, <3>1 DEF FreshInv
    <3>3. ~Out(a) => \A l \in Replies(a)' : Era(a, l)'
      <4>1. ASSUME ~Out(a), NEW l \in Replies(a)' PROVE Era(a, l)
        <5>1. PICK k \in Replies(a) : l.seq = k.seq /\ l.time = k.time
          BY <1>6, <4>1
        <5>2. Era(a, k)
          BY <3>1, <4>1, <5>1 DEF FreshInv
        <5> QED BY <5>1, <5>2 DEF Era
      <4> QED BY <2>3, <4>1
    <3>4. ~Out(a) /\ copy[a] # None => Era(a, copy[a])'
      BY <1>2, <3>1 DEF FreshInv, Era
    <3> QED BY <1>2, <2>1, <2>3, <3>1, <3>2, <3>3, <3>4 DEF FreshInv
  <2>5. \A p : WillBe(a, p) => WillBe(a, p)'
    <3> SUFFICES ASSUME NEW p, WillBe(a, p) PROVE WillBe(a, p)'
      OBVIOUS
    <3>1. CASE \A k \in Replies(a) : k.seq < org.reset[a]
      <4>1. \A l \in Replies(a)' : l.seq < org'.reset[a]
        BY <1>2, <1>6, <3>1
      <4> QED BY <1>2, <3>1, <4>1 DEF WillBe
    <3>2. CASE ~\A k \in Replies(a) : k.seq < org.reset[a]
      <4>1. PICK k \in Replies(a) :
               k.seq >= org.reset[a] /\ k.ps = p /\ \A m \in Replies(a) : m.n <= k.n
        BY <3>2 DEF WillBe
      <4>2. PICK l \in Replies(a)' : l.seq = k.seq /\ l.ps = k.ps /\ l.n = k.n
        BY <1>6
      <4>3. \A m \in Replies(a)' : m.n <= l.n
        BY <1>6, <4>1, <4>2
      <4>4. ~\A m \in Replies(a)' : m.seq < org'.reset[a]
        <5>1. PICK m \in Replies(a) : ~(m.seq < org.reset[a])
          BY <3>2
        <5> QED BY <1>2, <1>6, <5>1
      <4> QED BY <1>2, <4>1, <4>2, <4>3, <4>4 DEF WillBe
    <3> QED BY <3>1, <3>2
  <2>6. AgreeInv(a)'
    <3> SUFFICES ASSUME ~Out(a), a \notin erased \cup unsure \cup revived PROVE AgreeInv(a)'
      BY <1>2, <2>3 DEF AgreeInv
    <3>1. AgreeInv(a)
      BY <2>1 DEF AttInv
    <3>2. CASE NotYet(a)
      <4>1. /\ org.ps[a] = "NEEDS-ACTION" /\ \A k \in Replies(a) : k.seq < org.reset[a]
            /\ \A m \in Asked(a) : m.seq >= org.reset[a] => m.ps = "NEEDS-ACTION"
        BY <3>1, <3>2 DEF AgreeInv
      <4>2. \A l \in Replies(a)' : l.seq < org'.reset[a]
        BY <1>2, <1>6, <4>1
      <4> QED BY <1>2, <2>1, <2>3, <3>2, <4>1, <4>2 DEF AgreeInv
    <3>3. CASE ~NotYet(a) /\ a \notin autoReply
      <4> DEFINE p == IF copy[a] = None THEN "DECLINED" ELSE copy[a].ps
      <4>1. PICK q : q = p
        OBVIOUS
      <4>2. WillBe(a, q)'
        BY <2>5, <3>1, <3>3, <4>1 DEF AgreeInv
      <4>3. WillBe(a, p)'
        BY <1>2, <4>1, <4>2 DEF WillBe
      <4> QED BY <1>2, <2>3, <3>3, <4>3 DEF AgreeInv
    <3>4. CASE ~NotYet(a) /\ a \in autoReply
      BY <1>2, <2>3, <3>4 DEF AgreeInv
    <3> QED BY <3>2, <3>3, <3>4
  <2>7. ArriveInv(a)'
    <3>1. UpToDate(a)' = UpToDate(a) /\ TurnedDown(a)' = TurnedDown(a)
      BY <1>2 DEF UpToDate, TurnedDown, Live
    <3> QED BY <1>2, <2>1, <2>3, <3>1 DEF AttInv, ArriveInv
  <2>8. DroppedInv(a)'
    BY <1>2, <2>1 DEF AttInv, DroppedInv
  <2> QED BY <2>2, <2>4, <2>6, <2>7, <2>8 DEF AttInv
<1> QED BY <1>7, <1>8 DEF Inv

-----------------------------------------------------------------------------
\* The invariant

\* With no items, nothing is to come and no reply is on its way.
LEMMA NoItems ==
    ASSUME items = {}, NEW a
    PROVE  Asked(a) = {} /\ Cancelling(a) = {} /\ Replies(a) = {}
<1>1. \A m : m \notin Asked(a) /\ m \notin Cancelling(a)
  BY Members
<1> QED BY <1>1 DEF Replies

\* The invariant of the initial states
LEMMA InitInv ==
    Init => Inv
<1> SUFFICES ASSUME Init PROVE Inv
  OBVIOUS
<1>1. TypeOK
  BY TypeInit
<1>2. /\ deleted = None /\ items = {} /\ lost = {} /\ regressed = FALSE /\ erased = {}
      /\ dropped = [a \in Attendees |-> -1]
  BY DEF Init, Idle
<1>3. LostInv /\ IdInv /\ ItemInv /\ FailureShown
  BY <1>2 DEF LostInv, IdInv, ItemInv, FailureShown
<1>4. \A a : Asked(a) = {} /\ Cancelling(a) = {} /\ Replies(a) = {}
  BY <1>2, NoItems
<1>5. CASE org = None /\ copy = [a \in Attendees |-> None]
  <2>1. BlankInv
    BY <1>2, <1>5 DEF BlankInv
  <2>2. ASSUME NEW a \in Attendees PROVE AttInv(a)
    <3>1. copy[a] = None /\ dropped[a] = -1 /\ ~Live(copy[a]) /\ Out(a)
      BY <1>2, <1>5 DEF Live, Out
    <3>2. VersionInv(a) /\ StrayInv(a) /\ OrderInv(a)
      BY <1>4, <3>1 DEF VersionInv, StrayInv, OrderInv
    <3>3. AgreeInv(a) /\ ArriveInv(a) /\ DroppedInv(a)
      BY <1>4, <3>1 DEF AgreeInv, ArriveInv, DroppedInv
    <3>4. Last = 0
      BY <1>2, <1>5 DEF Last
    <3>5. FreshInv(a)
      BY <1>4, <3>1, <3>4 DEF FreshInv
    <3> QED BY <3>2, <3>3, <3>5 DEF AttInv
  <2> QED BY <1>1, <1>3, <2>1, <2>2 DEF Inv
<1>6. ASSUME NEW s \in StandingAt, org = Created(Attendees, s),
             heard = [a \in Attendees |-> s],
             copy = [a \in Attendees |-> [seq |-> s, time |-> 0, cancelled |-> FALSE,
                                          ps |-> "NEEDS-ACTION"]]
      PROVE  Inv
  <2>1. s \in Nat
    BY SchedulingAssumption
  <2>2. /\ org # None /\ org.seq = s /\ org.time = 0 /\ org.atts = Attendees
        /\ \A a \in Attendees : org.reset[a] = 0 /\ org.ps[a] = "NEEDS-ACTION"
    <3>1. Created(Attendees, s) \in Events
      BY <2>1, SchedulingAssumption DEF Created, Events, PartStats
    <3> QED BY <1>6, <3>1, EventTypes DEF Created
  <2>3. BlankInv
    BY <1>2, <2>2 DEF BlankInv
  <2>4. ASSUME NEW a \in Attendees PROVE AttInv(a)
    <3>1. /\ copy[a] # None /\ copy[a].seq = s /\ copy[a].time = 0 /\ ~copy[a].cancelled
          /\ copy[a].ps = "NEEDS-ACTION" /\ dropped[a] = -1 /\ heard[a] = s
      <4>1. copy[a] = [seq |-> s, time |-> 0, cancelled |-> FALSE, ps |-> "NEEDS-ACTION"]
        BY <1>6
      <4>2. [seq |-> s, time |-> 0, cancelled |-> FALSE, ps |-> "NEEDS-ACTION"] \in Copies
        BY <2>1 DEF Copies, PartStats
      <4> QED BY <1>2, <1>6, <4>1, <4>2, CopyTypes
    <3>2. ~Out(a) /\ Last = s /\ -1 <= s /\ -1 < s
      BY <2>1, <2>2 DEF Out, Last
    <3>3. VersionInv(a) /\ StrayInv(a) /\ OrderInv(a)
      BY <1>4, <2>1, <3>1, <3>2 DEF VersionInv, StrayInv, OrderInv
    <3>4. FreshInv(a) /\ DroppedInv(a)
      BY <1>4, <2>1, <2>2, <3>1, <3>2 DEF FreshInv, DroppedInv, Era
    <3>5. AgreeInv(a)
      <4>1. ~NotYet(a)
        BY <2>1, <2>2, <3>1 DEF NotYet
      <4>2. WillBe(a, "NEEDS-ACTION")
        BY <1>4, <2>2 DEF WillBe
      <4> QED BY <3>1, <4>1, <4>2 DEF AgreeInv
    <3>6. ArriveInv(a)
      BY <2>2, <3>1 DEF ArriveInv, UpToDate, Live
    <3> QED BY <3>3, <3>4, <3>5, <3>6 DEF AttInv
  <2> QED BY <1>1, <1>3, <2>3, <2>4 DEF Inv
<1> QED BY <1>5, <1>6 DEF Init

\* The invariant is kept by every step.
LEMMA NextInv ==
    Inv /\ [Next]_vars => Inv'
<1> SUFFICES ASSUME Inv, [Next]_vars PROVE Inv'
  OBVIOUS
<1>1. TypeOK'
  <2>1. TypeOK /\ ItemInv /\ \A a \in Attendees : VersionInv(a)
    BY DEF Inv, AttInv
  <2> QED BY <2>1, TypeStep
<1>2. CASE OrganizerStep
  <2>1. ASSUME NEW A \in SUBSET Attendees, OrganizerCreate(A) PROVE Inv'
    BY <1>1, <2>1, CreateInv
  <2>2. ASSUME NEW A \in SUBSET Attendees, NEW moved \in BOOLEAN, NEW N \in SUBSET A,
               OrganizerModify(A, moved, N)
        PROVE  Inv'
    BY <1>1, <2>2, ModifyInv
  <2>3. CASE OrganizerRestore
    BY <1>1, <2>3, RestoreInv
  <2>4. CASE OrganizerDelete
    BY <1>1, <2>4, DeleteInv
  <2> QED BY <1>2, <2>1, <2>2, <2>3, <2>4 DEF OrganizerStep
<1>3. ASSUME NEW a \in Attendees, AttendeeStep(a) PROVE Inv'
  BY <1>1, <1>3, AttendeeInv
<1>4. ASSUME NEW i \in items, Fault(i) PROVE Inv'
  <2>1. CASE SendAgain(i)
    BY <1>1, <2>1, SendInv
  <2>2. CASE SendRetry(i)
    BY <1>1, <2>2, SendRetryInv
  <2>3. CASE SendGiveUp(i)
    BY <1>1, <2>3, SendGiveUpInv
  <2>4. CASE ReplyRetry(i)
    BY <1>1, <2>4, ReplyRetryInv
  <2>5. CASE ReplyGiveUp(i)
    BY <1>1, <2>5, ReplyGiveUpInv
  <2> QED BY <1>4, <2>1, <2>2, <2>3, <2>4, <2>5 DEF Fault
<1>5. ASSUME NEW i \in items,
             queuedOrganizerProcessing(i) \/ Send(i) \/ doImplicitOrganizerUpdate(i)
      PROVE  Inv'
  BY <1>1, <1>5, QueueInv, SendInv, UpdateInv
<1>6. ASSUME NEW a \in Attendees, SendAutoReply(a) \/ Refresh(a) PROVE Inv'
  BY <1>1, <1>6, AutoReplyInv, RefreshInv
<1>7. CASE RunItem
  BY <1>4, <1>5, <1>6, <1>7 DEF RunItem
<1>8. CASE UNCHANGED vars
  BY <1>1, <1>8, StutterInv DEF vars, workVars, boundVars
<1> QED BY <1>2, <1>3, <1>7, <1>8 DEF Next

\* Inv holds in every reachable state.
LEMMA Invariant ==
    Spec => []Inv
BY InitInv, NextInv, PTL DEF Spec

-----------------------------------------------------------------------------
\* The theorems

\* Every variable keeps its type: in particular an auto-reply item has a copy to
\* answer for, and a copy of an event a time no later than its SEQUENCE.
THEOREM TypeCorrect ==
    Spec => []TypeOK
<1>1. Inv => TypeOK
  BY DEF Inv
<1> QED BY <1>1, Invariant, PTL

\* The organizer sees that the present version did not reach an attendee: every
\* message given up (checkTemporaryFailure, handleSchedulingResponse) that carries
\* the present SEQUENCE was made for the resource there is, and is recorded in it.
THEOREM FailuresAreShown ==
    Spec => []FailureShown
<1>1. Inv => FailureShown
  BY DEF Inv
<1> QED BY <1>1, Invariant, PTL

\* Whoever is not in the event has no live copy once the queue is empty, whatever
\* the order in which scheduleWithAttendees's CANCELs and REQUESTs arrive, unless a
\* CANCEL above his version was given up or had come before the REQUEST.
THEOREM NobodyIsLeftBehind ==
    Spec => []NoStrayCopies
<1>1. ASSUME Inv, Quiet, NEW a \in Attendees, org = None \/ a \notin org.atts,
             copy[a] # None, ~copy[a].cancelled
      PROVE  \/ \E s \in {m[2] : m \in {l \in lost : l[1] = a}} : s >= copy[a].seq
             \/ cancelled[a] > copy[a].seq
  <2>1. TypeOK /\ StrayInv(a) /\ Out(a) /\ Live(copy[a]) /\ Cancelling(a) = {}
    BY <1>1, NoItems DEF Inv, AttInv, Out, Live, Quiet
  <2>2. Told(a, copy[a].seq) /\ copy[a].seq \in Nat
    BY <1>1, <2>1, Types, CopyTypes DEF StrayInv
  <2>3. CASE \E l \in lost : l[1] = a /\ l[2] > copy[a].seq
    <3>1. PICK l \in lost : l[1] = a /\ l[2] > copy[a].seq
      BY <2>3
    <3>2. l[2] \in Nat
      BY <2>1, <3>1 DEF TypeOK
    <3> QED BY <2>2, <3>1, <3>2
  <2> QED BY <2>1, <2>2, <2>3 DEF Told
<1>2. Inv => NoStrayCopies
  BY <1>1 DEF NoStrayCopies
<1> QED BY <1>2, Invariant, PTL

\* As long as the event is not deleted, an answer counts only for the time it was
\* given for, also when its attendee was removed and invited again: modified gives
\* whoever is new to the event a reset above all that he or anybody sent before, and
\* replyCounts turns down whatever is older than the reset.
THEOREM AnswersAreForThisTime ==
    Spec => []AnswerIsForThisTime
<1>1. ASSUME Inv, org # None, NEW a \in org.atts \ erased, org.ps[a] # "NEEDS-ACTION"
      PROVE  answered[a] >= org.time
  <2>1. a \in Attendees
    BY <1>1, Types, EventTypes DEF Inv
  <2> QED BY <1>1, <2>1 DEF Inv, AttInv, FreshInv, Out
<1>2. Inv => AnswerIsForThisTime
  BY <1>1 DEF AnswerIsForThisTime
<1> QED BY <1>2, Invariant, PTL

\* The organizer and an attendee who has the present version agree on his answer
\* once the queue is empty, although transferPartstat and replyCounts decide it
\* separately, from a REQUEST and from replies that cross.  It holds through any
\* number of removals and new invitations, with CANCELs that arrive late, as long
\* as the event was not deleted.
THEOREM BothSidesAgree ==
    Spec => []AnswersAgree
<1>1. ASSUME Inv, Quiet, org # None, NEW a \in org.atts \ (unsure \cup revived \cup erased),
             copy[a] # None, copy[a].seq = org.seq
      PROVE  copy[a].ps = org.ps[a]
  <2>1. a \in Attendees /\ org.seq \in Nat /\ org.reset[a] \in Nat /\ org.reset[a] <= org.seq
    BY <1>1, Types, EventTypes DEF Inv
  <2>2. Replies(a) = {} /\ ~Out(a) /\ a \notin autoReply
    BY <1>1, NoItems DEF Quiet, Out
  <2>3. ~NotYet(a)
    BY <1>1, <2>1 DEF NotYet
  <2>4. WillBe(a, copy[a].ps)
    BY <1>1, <2>1, <2>2, <2>3 DEF Inv, AttInv, AgreeInv
  <2> QED BY <2>2, <2>4 DEF WillBe
<1>2. Inv => AnswersAgree
  BY <1>1 DEF AnswersAgree
<1> QED BY <1>2, Invariant, PTL

\* Everyone has the present version once the queue is empty, in whatever order the
\* items ran: sequenceComparison never lets an older message win.  The exceptions
\* are those of the definition.
THEOREM EveryoneIsUpToDate ==
    Spec => []EveryoneUpToDate
<1>1. ASSUME Inv, Quiet, org # None, ~regressed, NEW a \in org.atts,
             <<a, org.seq>> \notin lost, a \notin revived
      PROVE  \/ copy[a] # None /\ copy[a].seq = org.seq /\ copy[a].time = org.time
                /\ ~copy[a].cancelled
             \/ copy[a] = None /\ (org.ps[a] = "DECLINED" \/ a \in unsure \cup erased)
  <2>1. a \in Attendees /\ org.reset[a] \in Nat /\ dropped[a] \in Int
    BY <1>1, Types, EventTypes DEF Inv
  <2>2. Replies(a) = {} /\ Asked(a) = {} /\ ~Out(a) /\ a \notin autoReply
    BY <1>1, NoItems DEF Quiet, Out
  <2>3. UpToDate(a) \/ TurnedDown(a)
    BY <1>1, <2>1, <2>2 DEF Inv, AttInv, ArriveInv
  <2>4. CASE UpToDate(a)
    BY <2>4 DEF UpToDate, Live
  <2>5. CASE TurnedDown(a) /\ a \notin unsure \cup erased
    <3>1. copy[a] = None /\ dropped[a] >= org.reset[a]
      BY <2>5 DEF TurnedDown
    <3>2. ~NotYet(a)
      BY <2>1, <3>1 DEF NotYet
    <3>3. WillBe(a, "DECLINED")
      BY <1>1, <2>1, <2>2, <2>5, <3>1, <3>2 DEF Inv, AttInv, AgreeInv
    <3> QED BY <2>2, <3>1, <3>3 DEF WillBe
  <2>6. CASE TurnedDown(a) /\ a \in unsure \cup erased
    BY <2>6 DEF TurnedDown
  <2> QED BY <2>3, <2>4, <2>5, <2>6
<1>2. Inv => EveryoneUpToDate
  BY <1>1 DEF EveryoneUpToDate
<1> QED BY <1>2, Invariant, PTL

\* What RestoredEventArrives says, of every event but those that were restored
\* with the SEQUENCE they had and of attendees no older message came back to.
RestoredWithNewSequence ==
    Quiet /\ org # None /\ ~regressed =>
       \A a \in org.atts \ revived :
          copy[a] # None /\ copy[a].cancelled => \E l \in lost : l[1] = a

\* A restored event fails to reach its attendees only because doImplicitOrganizer
\* leaves a SEQUENCE of 0 as it is: with RestoreGap added, nobody keeps the copy
\* that the CANCEL had cancelled.
THEOREM RestoredEventsArrive ==
    Spec => []RestoredWithNewSequence
<1>1. ASSUME EveryoneUpToDate, Quiet, org # None, ~regressed, NEW a \in org.atts \ revived,
             copy[a] # None, copy[a].cancelled
      PROVE  \E l \in lost : l[1] = a
  <2>1. <<a, org.seq>> \in lost
    BY <1>1 DEF EveryoneUpToDate
  <2> QED BY <2>1
<1>2. EveryoneUpToDate => RestoredWithNewSequence
  BY <1>1 DEF RestoredWithNewSequence
<1> QED BY <1>2, EveryoneIsUpToDate, PTL

=============================================================================
