----------------------------- MODULE PushPromise -----------------------------
(***************************************************************************)
(* What push notifications promise the devices that subscribe to push ids, *)
(* whatever queues, connections and processes they pass through: once a    *)
(* change is committed every subscribed device is owed a push, and is owed *)
(* it until a push is sent that is later than the change.  Pushes can be   *)
(* sent more than once, one push can stand for many changes, and a push    *)
(* can be lost only where the server admits it.                            *)
(*                                                                         *)
(* PushNotifications is shown to implement this module.                    *)
(***************************************************************************)
EXTENDS Integers

CONSTANTS Keys,        \* push ids
          Pairs        \* devices and push ids they subscribe to, <<token, key>>

VARIABLES
    ver,         \* changes committed for each push id
    subscribed,  \* pairs of a device and a push id
    told,        \* the version of the push id when the last push was sent
    owed,        \* pairs that have a push coming
    lost         \* pairs whose push was lost by the server

vars == <<ver, subscribed, told, owed, lost>>


Init ==
    /\ ver = [k \in Keys |-> 0]
    /\ subscribed \in SUBSET Pairs
    /\ told = [p \in Pairs |-> 0]
    /\ owed = {}
    /\ lost = {}

\* A transaction commits that changed what the push ids in K stand for.
Change(K) ==
    LET new == {p \in subscribed : p[2] \in K} IN
    /\ ver' = [k \in Keys |-> IF k \in K THEN ver[k] + 1 ELSE ver[k]]
    /\ owed' = owed \cup new
    /\ lost' = lost \ new
    /\ UNCHANGED <<subscribed, told>>

\* Pushes are sent to the pairs in S.
Tell(S) ==
    /\ told' = [p \in Pairs |-> IF p \in S THEN ver[p[2]] ELSE told[p]]
    /\ lost' = lost \ S
    /\ owed' \in SUBSET owed
    /\ \A p \in owed \ owed' : told'[p] = ver[p[2]]
    /\ UNCHANGED <<ver, subscribed>>

\* Nothing more will be sent to the pairs in D: the pushes for those in L are
\* lost, the others are up to date or have left.
Drop(D, L) ==
    /\ \A p \in D \ L : told[p] = ver[p[2]] \/ p \notin subscribed
    /\ owed' = owed \ D
    /\ lost' = lost \cup L
    /\ UNCHANGED <<ver, subscribed, told>>

\* A device that subscribes reads the data, and may get a push on top.
Subscribe(p) ==
    /\ subscribed' = subscribed \cup {p}
    /\ told' = [told EXCEPT ![p] = ver[p[2]]]
    /\ owed' \in {owed, owed \cup {p}}
    /\ lost' = lost \ {p}
    /\ UNCHANGED ver

Unsubscribe(S) ==
    /\ subscribed' = subscribed \ S
    /\ owed' \in SUBSET owed /\ owed \ S \subseteq owed'
    /\ UNCHANGED <<ver, told, lost>>

Next ==
    \/ \E K \in SUBSET Keys : Change(K)
    \/ \E S \in SUBSET Pairs : Tell(S)
    \/ \E D \in SUBSET owed : \E L \in SUBSET D : Drop(D, L)
    \/ \E S \in SUBSET subscribed : Unsubscribe(S)
    \/ \E p \in Pairs : Subscribe(p)

\* What is owed is not owed for ever.
Paid == \A p \in Pairs : (p \in owed) ~> (p \notin owed)

Spec == Init /\ [][Next]_vars /\ Paid
=============================================================================
