---------------------- MODULE PushNotifications_proofs ----------------------
(***************************************************************************)
(* Proofs about PushNotifications for any devices, push ids and workers,   *)
(* any size of the token history and any number of changes and faults.     *)
(***************************************************************************)
EXTENDS PushNotifications, FiniteSetTheorems, TLAPS

-----------------------------------------------------------------------------
\* The inductive invariant

Entries == Nat \X Tokens

\* A history and the errors that are still to come on its connection: an
\* identifier stands for one token, and the next one has not been used.
HistoryOK(h, rej) ==
    /\ h \in [last : Nat, kept : SUBSET Entries] /\ rej \subseteq Entries
    /\ IsFiniteSet(h.kept) /\ Cardinality(h.kept) <= maxSize
    /\ \A x \in h.kept \cup rej : x[1] <= h.last
    /\ \A x, y \in h.kept \cup rej : x[1] = y[1] => x = y

Feedbacks == [token : Tokens \cup {None}, time : Int, rows : SUBSET (Pairs \X Int)]

TypeInv ==
    /\ ver \in [Keys -> Nat]
    /\ work \subseteq Keys \X Nat
    /\ run \in [Workers -> {"idle", "selected", "pushed"}]
    /\ item \in [Workers -> {None} \cup (Keys \X Nat)]
    /\ taken \in [Workers -> SUBSET (Keys \X Nat)]
    /\ staggering \in BOOLEAN
    /\ conn \in [Workers -> {"down", "up", "stopped"}]
    /\ queue \in [Workers -> SUBSET Pairs]
    /\ outstanding \in [Workers -> SUBSET Pairs]
    /\ history \in [Workers -> [last : Nat, kept : SUBSET Entries]]
    /\ rejects \in [Workers -> SUBSET Entries]
    /\ modified \in [Pairs -> Int]
    /\ now \in Nat
    /\ dead \subseteq Tokens
    /\ reports \subseteq Tokens \X Int
    /\ feedback \in Feedbacks
    /\ told \in [Pairs -> Nat]
    /\ lost \subseteq Pairs
    /\ events \in Nat

\* Every change counts for the home, and every row has the number of a change.
CountInv ==
    /\ \A k \in Keys : ver[k] <= ver[Home]
    /\ \A r \in work : 1 <= r[2] /\ r[2] <= ver[r[1]]
    /\ \A p \in Pairs : told[p] <= ver[p[2]]
    /\ ver[Home] <= MaxChanges
    /\ events + ver[Home] <= MaxEvents

ClockInv ==
    /\ now <= events
    /\ \A p \in Pairs : -1 <= modified[p] /\ modified[p] <= now

\* The rows of a job are there, and belong to no other job.
JobInv ==
    /\ \A w \in Workers :
          IF run[w] = "idle" THEN item[w] = None
          ELSE item[w] \in work /\ taken[w] \subseteq SameKey(item[w])
    /\ \A v, w \in Workers :
          v # w /\ run[v] # "idle" /\ run[w] # "idle" => item[v][1] # item[w][1]

\* Without a connection nothing was written; with one nothing waits for it.
NetInv ==
    \A w \in Workers :
        /\ HistoryOK(history[w], rejects[w])
        /\ IF conn[w] = "up" THEN queue[w] = {}
           ELSE history[w] = NewHistory /\ rejects[w] = {}

\* A job that has made its push: unless there was a change since it read its
\* rows, a device has been told of everything, or its worker keeps the push.
HandedInv ==
    \A w \in Workers : \A p \in subscribed :
        /\ run[w] = "pushed" /\ p[2] = item[w][1]
        /\ SameKey(item[w]) \subseteq {item[w]} \cup taken[w]
        => told[p] = ver[p[2]] \/ p \in queue[w] \cup outstanding[w]

Inv == TypeInv /\ CountInv /\ ClockInv /\ JobInv /\ NetInv /\ HandedInv

-----------------------------------------------------------------------------
\* Histories

\* A set of entries that is not empty has an oldest one.
LEMMA Oldest ==
  ASSUME NEW S, IsFiniteSet(S), S \subseteq Entries, NEW T \in SUBSET S, T # {}
  PROVE  \E x \in T : \A y \in T : y[1] >= x[1]
<1> DEFINE Below(x) == {y \in S : y[1] < x[1]}
           R == StrictSubsetOrdering(S)
           B == {Below(x) : x \in T}
<1>1. IsWellFoundedOn(R, FiniteSubsetsOf(S))
  BY FS_StrictSubsetOrderingWellFounded
<1>2. B \subseteq FiniteSubsetsOf(S) /\ B # {}
  <2>1. FiniteSubsetsOf(S) = SUBSET S
    BY FS_FiniteSubsetsOfFinite
  <2>2. B \subseteq SUBSET S /\ B # {}
    OBVIOUS
  <2> QED BY <2>1, <2>2
<1>3. PICK b \in B : \A c \in B : ~(<<c, b>> \in R)
  <2> HIDE DEF R, B
  <2> QED BY <1>1, <1>2, WFMin
<1>4. PICK x \in T : b = Below(x)
  BY <1>3
<1>5. ASSUME NEW y \in T, ~(y[1] >= x[1]) PROVE FALSE
  <2>1. x[1] \in Nat /\ y[1] \in Nat /\ y[1] < x[1]
    BY <1>5 DEF Entries
  <2>2. \A z \in S : z[1] \in Nat
    BY DEF Entries
  <2>3. Below(y) \subseteq Below(x)
    BY <2>1, <2>2
  <2>4. y \in Below(x) /\ y \notin Below(y)
    BY <2>1
  <2>5. Below(y) \in SUBSET S /\ Below(x) \in SUBSET S /\ Below(y) # Below(x)
    BY <2>4
  <2> HIDE DEF Below
  <2>6. <<Below(y), Below(x)>> \in R
    BY <2>3, <2>5 DEF StrictSubsetOrdering
  <2> QED BY <1>3, <1>4, <2>6
<1> QED BY <1>5

\* A history has no more entries than it may have.
LEMMA NewestBounded ==
  ASSUME NEW S, IsFiniteSet(S), S \subseteq Entries,
         \A x, y \in S : x[1] = y[1] => x = y
  PROVE  /\ Newest(S) \subseteq S /\ IsFiniteSet(Newest(S))
         /\ Cardinality(Newest(S)) <= maxSize
<1>0. Newest(S) \subseteq S
  BY DEF Newest
<1>1. IsFiniteSet(Newest(S)) /\ maxSize \in Nat
  BY <1>0, FS_Subset, PushAssumption
<1>2. CASE Newest(S) = {}
  BY <1>1, <1>2, FS_EmptySet
<1>3. CASE Newest(S) # {}
  <2>1. PICK x \in Newest(S) : \A y \in Newest(S) : y[1] >= x[1]
    BY <1>0, <1>3, Oldest
  <2> DEFINE above == {y \in S : y[1] > x[1]}
  <2>2. Cardinality(above) < maxSize
    BY DEF Newest
  <2>3. IsFiniteSet(above) /\ Cardinality(above) \in Nat
    <3>1. above \in SUBSET S
      OBVIOUS
    <3> HIDE DEF above
    <3> QED BY <3>1, FS_Subset, FS_CardinalityType
  <2>4. Newest(S) \subseteq above \cup {x}
    <3>1. ASSUME NEW y \in Newest(S), y # x PROVE y \in above
      <4>1. y \in S /\ x \in S /\ y[1] \in Nat /\ x[1] \in Nat
        BY <1>0 DEF Entries
      <4>2. y[1] # x[1]
        BY <3>1, <4>1
      <4> QED BY <2>1, <4>1, <4>2
    <3> QED BY <3>1
  <2> HIDE DEF above
  <2>5. /\ IsFiniteSet(above \cup {x})
        /\ Cardinality(above \cup {x}) =
             IF x \in above THEN Cardinality(above) ELSE Cardinality(above) + 1
    BY <2>3, FS_AddElement
  <2>6. Cardinality(Newest(S)) <= Cardinality(above \cup {x})
    BY <2>4, <2>5, FS_Subset
  <2>7. Cardinality(above \cup {x}) \in Nat /\ Cardinality(Newest(S)) \in Nat
    BY <1>1, <2>5, FS_CardinalityType
  <2> DEFINE a == Cardinality(above)
             b == Cardinality(above \cup {x})
             c == Cardinality(Newest(S))
  <2>8. /\ a \in Nat /\ b \in Nat /\ c \in Nat
        /\ a < maxSize /\ c <= b /\ (b = a \/ b = a + 1)
    BY <2>2, <2>3, <2>5, <2>6, <2>7
  <2> HIDE DEF a, b, c
  <2>9. c <= maxSize
    BY <1>1, <2>8
  <2> QED BY <1>0, <1>1, <2>9 DEF c
<1> QED BY <1>2, <1>3

\* The pushes of s get identifiers of their own that come after those before.
LEMMA NumberedNew ==
  ASSUME NEW h, h.last \in Nat, NEW s \in Seq(Pairs)
  PROVE  /\ Numbered(h, s) \subseteq Entries /\ IsFiniteSet(Numbered(h, s))
         /\ \A x \in Numbered(h, s) : x[1] > h.last /\ x[1] <= h.last + Len(s)
         /\ \A x, y \in Numbered(h, s) : x[1] = y[1] => x = y
<1>0. Len(s) \in Nat
  OBVIOUS
<1>1. \A n \in 1..Len(s) : s[n] \in Pairs /\ s[n][1] \in Tokens
  BY PushAssumption
<1>2. ASSUME NEW x \in Numbered(h, s)
      PROVE  \E n \in 1..Len(s) : x = <<h.last + n, s[n][1]>>
  BY DEF Numbered
<1>3. ASSUME NEW x \in Numbered(h, s)
      PROVE  x \in Entries /\ x[1] > h.last /\ x[1] <= h.last + Len(s)
  <2>1. PICK n \in 1..Len(s) : x = <<h.last + n, s[n][1]>>
    BY <1>2
  <2>2. h.last + n \in Nat /\ h.last + n > h.last /\ h.last + n <= h.last + Len(s)
    BY <1>0
  <2> QED BY <1>1, <2>1, <2>2 DEF Entries
<1>4. ASSUME NEW x \in Numbered(h, s), NEW y \in Numbered(h, s), x[1] = y[1]
      PROVE  x = y
  <2>1. PICK n \in 1..Len(s) : x = <<h.last + n, s[n][1]>>
    BY <1>2
  <2>2. PICK m \in 1..Len(s) : y = <<h.last + m, s[m][1]>>
    BY <1>2
  <2>3. h.last + n = h.last + m
    BY <1>4, <2>1, <2>2
  <2>4. n = m
    BY <2>3
  <2> QED BY <2>1, <2>2, <2>4
<1>5. IsFiniteSet(Numbered(h, s))
  <2> DEFINE f == [n \in 1..Len(s) |-> <<h.last + n, s[n][1]>>]
  <2>1. f \in Surjection(1..Len(s), Numbered(h, s))
    BY DEF Numbered, Surjection
  <2> HIDE DEF f
  <2>2. IsFiniteSet(1..Len(s))
    BY <1>0, FS_Interval
  <2> QED BY <2>1, <2>2, FS_Surjection
<1> QED BY <1>3, <1>4, <1>5

\* A history stays as it should be when pushes are written.
LEMMA AddOK ==
  ASSUME NEW h, NEW rej, HistoryOK(h, rej), NEW s \in Seq(Pairs),
         NEW B \in SUBSET Numbered(h, s)
  PROVE  HistoryOK(add(h, s), rej \cup B)
<1> DEFINE N == Numbered(h, s)
           new == add(h, s)
           more == rej \cup B
<1>0. Len(s) \in Nat /\ h.last \in Nat /\ h.kept \subseteq Entries /\ rej \subseteq Entries
  BY DEF HistoryOK
<1>1. /\ N \subseteq Entries /\ IsFiniteSet(N)
      /\ \A x \in N : x[1] > h.last /\ x[1] <= h.last + Len(s)
      /\ \A x, y \in N : x[1] = y[1] => x = y
      /\ B \subseteq N
  BY <1>0, NumberedNew
<1>2. new.last = h.last + Len(s) /\ new.kept = Newest(h.kept \cup N)
      /\ new = [last |-> h.last + Len(s), kept |-> Newest(h.kept \cup N)]
  BY DEF add
<1> HIDE DEF N, new
<1>3. \A x \in h.kept \cup rej : x[1] <= h.last
  BY DEF HistoryOK
<1>4. \A x \in Entries : x[1] \in Nat
  BY DEF Entries
<1>5. ASSUME NEW x \in h.kept \cup rej \cup N, NEW y \in h.kept \cup rej \cup N, x[1] = y[1]
      PROVE  x = y
  <2>1. x[1] \in Nat /\ y[1] \in Nat
    BY <1>0, <1>1, <1>4
  <2>2. CASE x \in N /\ y \in N
    BY <1>1, <1>5, <2>2
  <2>3. CASE x \notin N /\ y \notin N
    BY <1>5, <2>3 DEF HistoryOK
  <2>4. CASE x \in N /\ y \notin N
    BY <1>0, <1>1, <1>3, <1>5, <2>1, <2>4
  <2>5. CASE x \notin N /\ y \in N
    BY <1>0, <1>1, <1>3, <1>5, <2>1, <2>5
  <2> QED BY <2>2, <2>3, <2>4, <2>5
<1>6. IsFiniteSet(h.kept \cup N) /\ h.kept \cup N \subseteq Entries
  BY <1>0, <1>1, FS_Union DEF HistoryOK
<1>7. /\ new.kept \subseteq h.kept \cup N /\ IsFiniteSet(new.kept)
      /\ Cardinality(new.kept) <= maxSize
  BY <1>2, <1>5, <1>6, NewestBounded
<1>8. new.kept \cup more \subseteq h.kept \cup rej \cup N
  BY <1>1, <1>7
<1>9. ASSUME NEW x \in new.kept \cup more PROVE x[1] <= new.last
  <2>1. CASE x \in N
    BY <1>1, <1>2, <2>1
  <2>2. CASE x \notin N
    <3>1. x[1] <= h.last /\ x[1] \in Nat
      BY <1>0, <1>3, <1>4, <1>8, <2>2
    <3> QED BY <1>0, <1>2, <3>1
  <2> QED BY <2>1, <2>2
<1>10. new \in [last : Nat, kept : SUBSET Entries] /\ more \subseteq Entries
  <2>1. h.last + Len(s) \in Nat /\ new.kept \subseteq Entries /\ more \subseteq Entries
    BY <1>0, <1>1, <1>6, <1>7
  <2> QED BY <1>2, <2>1
<1>11. \A x, y \in new.kept \cup more : x[1] = y[1] => x = y
  BY <1>5, <1>8
<1> HIDE DEF more
<1>12. HistoryOK(new, more)
  BY <1>7, <1>9, <1>10, <1>11 DEF HistoryOK
<1> QED BY <1>12 DEF new, more, N

\* A new connection has nothing to look up.
LEMMA NewOK == HistoryOK(NewHistory, {})
<1>1. IsFiniteSet({}) /\ Cardinality({}) = 0 /\ maxSize \in Nat
  BY FS_EmptySet, PushAssumption
<1> QED BY <1>1 DEF HistoryOK, NewHistory

\* An order of a set of pairs has them all.
LEMMA Ordered ==
  ASSUME NEW S \in SUBSET Pairs, NEW s \in SetToSeqs(S)
  PROVE  s \in Seq(Pairs) /\ Range(s) = S
<1> DEFINE D == 1..Cardinality(S)
<1>1. IsFiniteSet(S) /\ Cardinality(S) \in Nat
  BY PushAssumption, FS_Subset, FS_CardinalityType
<1>2. s \in [D -> S] /\ \A i, j \in D : i # j => s[i] # s[j]
  BY DEF SetToSeqs
<1>3. s \in Seq(Pairs)
  BY <1>1, <1>2
<1>4. IsFiniteSet(D) /\ Cardinality(D) = Cardinality(S)
  <2>1. IsFiniteSet(1..Cardinality(S))
        /\ Cardinality(1..Cardinality(S)) = IF 1 > Cardinality(S) THEN 0 ELSE Cardinality(S) - 1 + 1
    BY <1>1, FS_Interval
  <2> QED BY <1>1, <2>1
<1> HIDE DEF D
<1>5. s \in Injection(D, S)
  BY <1>2 DEF Injection, IsInjective
<1>6. s \in Surjection(D, S)
  BY <1>1, <1>4, <1>5, FS_Injection
<1>7. Range(s) = S
  BY <1>2, <1>6 DEF Surjection, Range
<1> QED BY <1>3, <1>7

-----------------------------------------------------------------------------
\* What the parts of the invariant and the promise depend on

\* A pair is a device and a push id.
LEMMA PairFacts ==
  /\ \A p \in Pairs : p[1] \in Tokens /\ p[2] \in Keys
  /\ Home \in Keys
  /\ subscribed \subseteq Pairs
BY PushAssumption DEF subscribed

\* A step of PushNotifications as PushPromise sees it.
Kept == Promise!Next \/ UNCHANGED <<ver, subscribed, told, Owed, lost>>

\* The pushes that the providers will make
Held(c, q, o, p) == \E w \in Workers : c[w] # "stopped" /\ p \in q[w] \cup o[w]

\* A push is coming from a work item or from a provider.
LEMMA OwedMember ==
  ASSUME NEW rows, NEW subs, NEW c, NEW q, NEW o, NEW p
  PROVE  p \in OwedIf(rows, subs, c, q, o)
           <=> (p \in subs /\ \E r \in rows : r[1] = p[2]) \/ Held(c, q, o, p)
BY DEF OwedIf, Held

\* What is owed now and after a step.
LEMMA OwedMembers ==
  ASSUME NEW p
  PROVE  /\ p \in Owed <=> \/ p \in subscribed /\ \E r \in work : r[1] = p[2]
                           \/ Held(conn, queue, outstanding, p)
         /\ p \in Owed' <=> \/ p \in subscribed' /\ \E r \in work' : r[1] = p[2]
                            \/ Held(conn', queue', outstanding', p)
<1>1. p \in OwedIf(work, subscribed, conn, queue, outstanding)
        <=> \/ p \in subscribed /\ \E r \in work : r[1] = p[2]
            \/ Held(conn, queue, outstanding, p)
  BY OwedMember
<1>2. p \in OwedIf(work', subscribed', conn', queue', outstanding')
        <=> \/ p \in subscribed' /\ \E r \in work' : r[1] = p[2]
            \/ Held(conn', queue', outstanding', p)
  BY OwedMember
<1>3. Owed' = OwedIf(work', subscribed', conn', queue', outstanding')
  BY DEF Owed, OwedIf
<1> QED BY <1>1, <1>2, <1>3 DEF Owed

\* Only pairs are owed a push.
LEMMA OwedPairs ==
  ASSUME TypeInv
  PROVE  Owed \subseteq Pairs
<1> SUFFICES ASSUME NEW p \in Owed PROVE p \in Pairs
  OBVIOUS
<1>1. p \in subscribed \/ Held(conn, queue, outstanding, p)
  BY OwedMembers
<1> QED BY <1>1, PairFacts DEF Held, TypeInv

\* Subscriptions are changed by the rows only.
LEMMA Frames ==
  /\ modified' = modified => subscribed' = subscribed
  /\ UNCHANGED <<work, run, item, taken>> /\ JobInv => JobInv'
  /\ UNCHANGED <<history, rejects, conn, queue>> /\ NetInv => NetInv'
  /\ UNCHANGED <<run, item, taken, work, ver, told, queue, outstanding>>
       /\ subscribed' \subseteq subscribed /\ HandedInv => HandedInv'
<1>1. modified' = modified => subscribed' = subscribed
  BY DEF subscribed
<1>2. UNCHANGED <<work, run, item, taken>> /\ JobInv => JobInv'
  BY DEF JobInv, SameKey
<1>3. UNCHANGED <<history, rejects, conn, queue>> /\ NetInv => NetInv'
  BY DEF NetInv, NewHistory, HistoryOK, Entries
<1>4. UNCHANGED <<run, item, taken, work, ver, told, queue, outstanding>>
       /\ subscribed' \subseteq subscribed /\ HandedInv => HandedInv'
  BY DEF HandedInv, SameKey
<1> QED BY <1>1, <1>2, <1>3, <1>4

\* A step that changes neither subscriptions nor pushes keeps the promise.
LEMMA Quiet ==
  ASSUME UNCHANGED <<ver, work, conn, queue, outstanding, modified, told, lost>>
  PROVE  Kept
<1>1. subscribed' = subscribed
  BY Frames
<1>2. Owed' = Owed
  BY <1>1 DEF Owed, OwedIf
<1> QED BY <1>1, <1>2 DEF Kept

\* Faults and what devices do are counted.
LEMMA Counted ==
  ASSUME Inv, Event, ver' = ver
  PROVE  /\ events' \in Nat /\ events' = events + 1 /\ events' + ver'[Home] <= MaxEvents
         /\ now <= events'
<1>1. events \in Nat /\ ver[Home] \in Nat /\ now \in Nat /\ MaxEvents \in Nat
  BY PushAssumption DEF Inv, TypeInv
<1> QED BY <1>1 DEF Inv, CountInv, ClockInv, Event

-----------------------------------------------------------------------------
\* Changes and jobs

\* A change has rows of its own: a job that read its rows before does not count
\* as having pushed it.
LEMMA NotifyStep ==
  ASSUME Inv, NEW k \in Keys, notify(k)
  PROVE  Inv' /\ Kept
<1> DEFINE K == notifierIDs(k)
<1>0. /\ ver[Home] < MaxChanges /\ events + ver[Home] < MaxEvents
      /\ ver' = [j \in Keys |-> IF j \in K THEN ver[j] + 1 ELSE ver[j]]
      /\ work' = work \cup {<<j, ver[j] + 1>> : j \in K}
      /\ lost' = lost \ {p \in subscribed : p[2] \in K}
      /\ UNCHANGED <<run, item, taken, staggering, conn, queue, outstanding, history, rejects>>
      /\ UNCHANGED <<modified, now, dead, reports, feedback, told, events>>
  BY DEF notify, jobVars, netVars, subVars
<1>1. K \subseteq Keys /\ Home \in K /\ Home \in Keys
  BY PushAssumption DEF notifierIDs
<1> HIDE DEF K
<1>2. /\ ver \in [Keys -> Nat] /\ MaxChanges \in Nat /\ MaxEvents \in Nat /\ events \in Nat
      /\ work \subseteq Keys \X Nat
  BY PushAssumption DEF Inv, TypeInv
<1>3. /\ ver' \in [Keys -> Nat]
      /\ \A j \in Keys : ver[j] \in Nat /\ ver'[j] \in Nat /\ ver[j] <= ver'[j]
      /\ \A j \in Keys : ver'[j] = IF j \in K THEN ver[j] + 1 ELSE ver[j]
  BY <1>0, <1>2
<1>4. ASSUME NEW r \in work' PROVE r \in work \/ \E j \in K : r = <<j, ver[j] + 1>>
  BY <1>0
<1>5. work' \subseteq Keys \X Nat
  BY <1>0, <1>1, <1>2
<1>6. subscribed' = subscribed
  BY <1>0, Frames
<1>7. TypeInv'
  BY <1>0, <1>3, <1>5 DEF Inv, TypeInv
<1>8. CountInv'
  <2>1. \A j \in Keys : ver'[j] <= ver'[Home]
    <3> SUFFICES ASSUME NEW j \in Keys PROVE ver'[j] <= ver'[Home]
      OBVIOUS
    <3>1. ver[j] <= ver[Home]
      BY DEF Inv, CountInv
    <3> QED BY <1>1, <1>3, <3>1
  <2>2. ASSUME NEW r \in work' PROVE 1 <= r[2] /\ r[2] <= ver'[r[1]]
    <3>1. CASE r \in work
      <4>1. r[1] \in Keys /\ r[2] \in Nat /\ 1 <= r[2] /\ r[2] <= ver[r[1]]
        BY <1>2, <3>1 DEF Inv, CountInv
      <4> QED BY <1>3, <4>1
    <3>2. ASSUME NEW j \in K, r = <<j, ver[j] + 1>> PROVE 1 <= r[2] /\ r[2] <= ver'[r[1]]
      <4>1. ver'[j] = ver[j] + 1 /\ ver[j] \in Nat
        BY <1>1, <1>3
      <4> QED BY <3>2, <4>1
    <3> QED BY <1>4, <3>1, <3>2
  <2>3. \A p \in Pairs : told'[p] <= ver'[p[2]]
    <3> SUFFICES ASSUME NEW p \in Pairs PROVE told[p] <= ver'[p[2]]
      BY <1>0
    <3>1. p[2] \in Keys /\ told[p] \in Nat /\ told[p] <= ver[p[2]]
      BY PairFacts DEF Inv, TypeInv, CountInv
    <3> QED BY <1>3, <3>1
  <2>4. ver'[Home] <= MaxChanges /\ events' + ver'[Home] <= MaxEvents
    BY <1>0, <1>1, <1>2, <1>3
  <2> QED BY <2>1, <2>2, <2>3, <2>4 DEF CountInv
<1>9. ClockInv' /\ NetInv'
  BY <1>0, Frames DEF Inv, ClockInv
<1>10. JobInv'
  <2>1. \A r : SameKey(r) \subseteq SameKey(r)'
    BY <1>0 DEF SameKey
  <2>2. ASSUME NEW w \in Workers, run[w] # "idle"
        PROVE  item[w] \in work' /\ taken[w] \subseteq SameKey(item[w])'
    BY <1>0, <2>1, <2>2 DEF Inv, JobInv
  <2> QED BY <1>0, <2>2 DEF Inv, JobInv
<1>11. HandedInv'
  <2> SUFFICES ASSUME NEW w \in Workers, NEW p \in subscribed, run[w] = "pushed",
                      p[2] = item[w][1], SameKey(item[w])' \subseteq {item[w]} \cup taken[w]
               PROVE  told[p] = ver'[p[2]] \/ p \in queue[w] \cup outstanding[w]
    BY <1>0, <1>6 DEF HandedInv
  <2>1. item[w] \in work /\ taken[w] \subseteq work /\ p[2] \in Keys
    BY PairFacts DEF Inv, JobInv, SameKey
  <2>2. SameKey(item[w])' = {s \in work' : s[1] = item[w][1]}
    BY <1>0 DEF SameKey
  <2>3. CASE p[2] \in K
    <3>1. <<p[2], ver[p[2]] + 1>> \in work'
      BY <1>0, <2>3
    <3>2. <<p[2], ver[p[2]] + 1>> \in work
      BY <2>1, <2>2, <3>1
    <3>3. ver[p[2]] + 1 <= ver[p[2]]
      BY <3>2 DEF Inv, CountInv
    <3> QED BY <1>3, <2>1, <3>3
  <2>4. CASE p[2] \notin K
    <3>1. ver'[p[2]] = ver[p[2]]
      BY <1>3, <2>1, <2>4
    <3>2. SameKey(item[w]) \subseteq {item[w]} \cup taken[w]
      BY <1>0, <2>2 DEF SameKey
    <3> QED BY <3>1, <3>2 DEF Inv, HandedInv
  <2> QED BY <2>3, <2>4
<1>12. Kept
  <2> DEFINE new == {p \in subscribed : p[2] \in K}
  <2>1. ASSUME NEW p PROVE p \in Owed' <=> p \in Owed \cup new
    <3>1. Held(conn', queue', outstanding', p) <=> Held(conn, queue, outstanding, p)
      BY <1>0
    <3>2. (\E r \in work' : r[1] = p[2]) <=> (\E r \in work : r[1] = p[2]) \/ p[2] \in K
      <4>1. ASSUME NEW r \in work', r[1] = p[2], r \notin work PROVE p[2] \in K
        <5>1. PICK j \in K : r = <<j, ver[j] + 1>>
          BY <1>4, <4>1
        <5> QED BY <4>1, <5>1
      <4>2. ASSUME p[2] \in K PROVE \E r \in work' : r[1] = p[2]
        <5>1. <<p[2], ver[p[2]] + 1>> \in work'
          BY <1>0, <4>2
        <5>2. <<p[2], ver[p[2]] + 1>>[1] = p[2]
          OBVIOUS
        <5> QED BY <5>1, <5>2
      <4>3. work \subseteq work'
        BY <1>0
      <4> QED BY <4>1, <4>2, <4>3
    <3> QED BY <1>6, <3>1, <3>2, OwedMembers
  <2>2. Owed' = Owed \cup new
    BY <2>1
  <2>3. Promise!Change(K)
    BY <1>0, <1>6, <2>2 DEF Promise!Change
  <2> QED BY <1>1, <2>3 DEF Kept, Promise!Next
<1> QED BY <1>7, <1>8, <1>9, <1>10, <1>11, <1>12 DEF Inv

\* A job starts: no other job has rows of the same push id.
LEMMA DoWorkStep ==
  ASSUME Inv, NEW w \in Workers, NEW r \in work, doWork(w, r)
  PROVE  Inv' /\ Kept
<1>0. /\ run[w] = "idle" /\ \A v \in Workers : run[v] # "idle" => item[v][1] # r[1]
      /\ run' = [run EXCEPT ![w] = "selected"]
      /\ item' = [item EXCEPT ![w] = r]
      /\ taken' = [taken EXCEPT ![w] = SameKey(r) \ {r}]
      /\ UNCHANGED <<ver, work, staggering, conn, queue, outstanding, history, rejects>>
      /\ UNCHANGED <<modified, now, dead, reports, feedback, told, lost, events>>
  BY DEF doWork, netVars, subVars, ghosts
<1>1. TypeInv
  BY DEF Inv
<1>2. r \in Keys \X Nat /\ SameKey(r) \subseteq Keys \X Nat
  BY <1>1 DEF TypeInv, SameKey
<1>3. TypeInv'
  BY <1>0, <1>1, <1>2 DEF TypeInv
<1>4. CountInv' /\ ClockInv' /\ NetInv'
  BY <1>0, Frames DEF Inv, CountInv, ClockInv
<1>5. \A v \in Workers : /\ run'[v] = IF v = w THEN "selected" ELSE run[v]
                         /\ item'[v] = IF v = w THEN r ELSE item[v]
                         /\ taken'[v] = IF v = w THEN SameKey(r) \ {r} ELSE taken[v]
  BY <1>0, <1>1 DEF TypeInv
<1>6. \A s : SameKey(s)' = SameKey(s)
  BY <1>0 DEF SameKey
<1>7. JobInv'
  <2>1. ASSUME NEW v \in Workers
        PROVE  IF run'[v] = "idle" THEN item'[v] = None
               ELSE item'[v] \in work /\ taken'[v] \subseteq SameKey(item'[v])
    <3>1. CASE v = w
      BY <1>5, <3>1
    <3>2. CASE v # w
      BY <1>5, <3>2 DEF Inv, JobInv
    <3> QED BY <3>1, <3>2
  <2>2. ASSUME NEW v \in Workers, NEW u \in Workers, v # u, run'[v] # "idle", run'[u] # "idle"
        PROVE  item'[v][1] # item'[u][1]
    BY <1>0, <1>5, <2>2 DEF Inv, JobInv
  <2>3. ASSUME NEW v \in Workers, run'[v] # "idle"
        PROVE  item'[v] \in work' /\ taken'[v] \subseteq SameKey(item[v])'
    BY <1>0, <1>6, <2>1, <2>3 DEF SameKey
  <2> QED BY <2>1, <2>2, <2>3 DEF JobInv
<1>8. HandedInv'
  <2> SUFFICES ASSUME NEW v \in Workers, NEW p \in subscribed, run'[v] = "pushed",
                      p[2] = item'[v][1], SameKey(item[v])' \subseteq {item'[v]} \cup taken'[v]
               PROVE  told[p] = ver[p[2]] \/ p \in queue[v] \cup outstanding[v]
    BY <1>0, Frames DEF HandedInv
  <2>1. v # w /\ run[v] = "pushed" /\ item'[v] = item[v] /\ taken'[v] = taken[v]
    BY <1>5
  <2>2. SameKey(item[v])' = SameKey(item[v])
    BY <1>0, <2>1 DEF SameKey
  <2> QED BY <2>1, <2>2 DEF Inv, HandedInv
<1>9. Kept
  BY <1>0, Quiet
<1> QED BY <1>3, <1>4, <1>7, <1>8, <1>9 DEF Inv

\* A job is over, and has taken no rows but its own.
LEMMA JobEnds ==
  ASSUME Inv, NEW w \in Workers,
         run' = [run EXCEPT ![w] = "idle"], item' = [item EXCEPT ![w] = None],
         taken' = [taken EXCEPT ![w] = {}],
         work' = work \/ (run[w] # "idle" /\ work' = work \ ({item[w]} \cup taken[w]))
  PROVE  /\ JobInv' /\ work' \subseteq work
         /\ run' \in [Workers -> {"idle", "selected", "pushed"}]
         /\ item' \in [Workers -> {None} \cup (Keys \X Nat)]
         /\ taken' \in [Workers -> SUBSET (Keys \X Nat)]
         /\ \A v \in Workers : run'[v] # "idle" =>
               /\ v # w /\ run'[v] = run[v] /\ item'[v] = item[v] /\ taken'[v] = taken[v]
               /\ SameKey(item[v])' = SameKey(item[v])
<1>0. TypeInv
  BY DEF Inv
<1>1. /\ run' \in [Workers -> {"idle", "selected", "pushed"}]
      /\ item' \in [Workers -> {None} \cup (Keys \X Nat)]
      /\ taken' \in [Workers -> SUBSET (Keys \X Nat)]
      /\ work' \subseteq work
  BY <1>0 DEF TypeInv
<1>2. \A v \in Workers : /\ run'[v] = IF v = w THEN "idle" ELSE run[v]
                         /\ item'[v] = IF v = w THEN None ELSE item[v]
                         /\ taken'[v] = IF v = w THEN {} ELSE taken[v]
  BY <1>0 DEF TypeInv
<1>3. ASSUME NEW v \in Workers, run'[v] # "idle"
      PROVE  /\ v # w /\ run'[v] = run[v] /\ item'[v] = item[v] /\ taken'[v] = taken[v]
             /\ SameKey(item[v])' = SameKey(item[v])
             /\ item[v] \in work' /\ taken[v] \subseteq SameKey(item[v])
  <2>1. v # w /\ run'[v] = run[v] /\ item'[v] = item[v] /\ taken'[v] = taken[v]
    BY <1>2, <1>3
  <2>2. item[v] \in work /\ taken[v] \subseteq SameKey(item[v])
    BY <1>3, <2>1 DEF Inv, JobInv
  <2>3. ASSUME NEW s \in work, s[1] = item[v][1] PROVE s \in work'
    <3>1. ASSUME run[w] # "idle", s \in {item[w]} \cup taken[w] PROVE FALSE
      <4>1. s[1] = item[w][1]
        BY <3>1 DEF Inv, JobInv, SameKey
      <4>2. item[v][1] # item[w][1]
        BY <1>3, <2>1, <3>1 DEF Inv, JobInv
      <4> QED BY <2>3, <4>1, <4>2
    <3> QED BY <3>1
  <2>4. SameKey(item[v])' = SameKey(item[v])
    BY <1>1, <2>1, <2>3 DEF SameKey
  <2> QED BY <2>1, <2>2, <2>3, <2>4
<1>4. JobInv'
  <2>1. ASSUME NEW v \in Workers
        PROVE  IF run'[v] = "idle" THEN item'[v] = None
               ELSE item'[v] \in work' /\ taken'[v] \subseteq SameKey(item[v])'
    <3>1. CASE run'[v] = "idle"
      BY <1>2, <3>1 DEF Inv, JobInv
    <3>2. CASE run'[v] # "idle"
      BY <1>3, <3>2
    <3> QED BY <3>1, <3>2
  <2>2. ASSUME NEW v \in Workers, NEW u \in Workers, v # u, run'[v] # "idle", run'[u] # "idle"
        PROVE  item'[v][1] # item'[u][1]
    BY <1>3, <2>2 DEF Inv, JobInv
  <2> QED BY <2>1, <2>2 DEF JobInv
<1> QED BY <1>1, <1>3, <1>4

\* What the other jobs have handed over stays handed over.
LEMMA HandedStays ==
  ASSUME HandedInv, ver' = ver,
         \A p \in subscribed' : \/ p \in subscribed /\ told'[p] = told[p]
                                \/ told'[p] = ver[p[2]],
         \A v \in Workers : run'[v] = "pushed" =>
            /\ run[v] = "pushed" /\ item'[v] = item[v] /\ taken'[v] = taken[v]
            /\ SameKey(item[v])' = SameKey(item[v])
            /\ \A p \in subscribed' : p \in queue[v] \cup outstanding[v] =>
                  p \in queue'[v] \cup outstanding'[v] \/ told'[p] = ver[p[2]]
  PROVE  HandedInv'
<1> SUFFICES ASSUME NEW v \in Workers, NEW p \in subscribed', run'[v] = "pushed",
                    p[2] = item'[v][1], SameKey(item[v])' \subseteq {item'[v]} \cup taken'[v]
             PROVE  told'[p] = ver'[p[2]] \/ p \in queue'[v] \cup outstanding'[v]
  BY DEF HandedInv
<1> QED BY DEF HandedInv

\* A job commits: the rows it has read are gone, and nothing is forgotten with
\* them that is not lost because the provider of the worker has given up.
LEMMA CommitJobStep ==
  ASSUME Inv, NEW w \in Workers, CommitJob(w)
  PROVE  Inv' /\ Kept
<1> DEFINE S == IF conn[w] = "stopped" THEN queue[w] \cup outstanding[w] ELSE {}
<1>0. /\ run[w] = "pushed"
      /\ work' = work \ ({item[w]} \cup taken[w])
      /\ run' = [run EXCEPT ![w] = "idle"]
      /\ item' = [item EXCEPT ![w] = None]
      /\ taken' = [taken EXCEPT ![w] = {}]
      /\ lost' = lost \cup ((S \cap Owed) \ OwedIf(work', subscribed, conn, queue, outstanding))
      /\ UNCHANGED <<ver, staggering, conn, queue, outstanding, history, rejects>>
      /\ UNCHANGED <<modified, now, dead, reports, feedback, told, events>>
  BY DEF CommitJob, Gone, netVars, subVars
<1> HIDE DEF S
<1>1. TypeInv /\ run[w] # "idle"
  BY <1>0 DEF Inv
<1>2. /\ JobInv' /\ work' \subseteq work
      /\ run' \in [Workers -> {"idle", "selected", "pushed"}]
      /\ item' \in [Workers -> {None} \cup (Keys \X Nat)]
      /\ taken' \in [Workers -> SUBSET (Keys \X Nat)]
      /\ \A v \in Workers : run'[v] # "idle" =>
            /\ v # w /\ run'[v] = run[v] /\ item'[v] = item[v] /\ taken'[v] = taken[v]
            /\ SameKey(item[v])' = SameKey(item[v])
  BY <1>0, <1>1, JobEnds
<1>3. subscribed' = subscribed
  BY <1>0, Frames
<1>4. Owed' = OwedIf(work', subscribed, conn, queue, outstanding) /\ Owed \subseteq Pairs
  BY <1>0, <1>1, <1>3, OwedPairs DEF Owed, OwedIf
<1>5. TypeInv'
  <2>1. lost' \subseteq Pairs /\ work' \subseteq Keys \X Nat
    BY <1>0, <1>1, <1>2, <1>4 DEF TypeInv
  <2> QED BY <1>0, <1>1, <1>2, <2>1 DEF TypeInv
<1>6. CountInv' /\ ClockInv' /\ NetInv'
  BY <1>0, <1>2, Frames DEF Inv, CountInv, ClockInv
<1>7. HandedInv'
  BY <1>0, <1>2, <1>3, HandedStays DEF Inv
<1>8. Kept
  <2> DEFINE D == Owed \ Owed'
             L == (S \cap Owed) \ Owed'
  <2>1. ASSUME NEW p PROVE p \in Owed' => p \in Owed
    BY <1>0, <1>2, <1>3, OwedMembers DEF Held
  <2>2. Owed' = Owed \ D /\ L \subseteq D
    BY <2>1
  <2>3. ASSUME NEW p \in D \ L PROVE told[p] = ver[p[2]] \/ p \notin subscribed
    <3>1. /\ p \notin S /\ ~Held(conn, queue, outstanding, p)
          /\ p \in subscribed => \A r \in work' : r[1] # p[2]
          /\ p \in subscribed /\ \E r \in work : r[1] = p[2]
      BY <1>0, <1>3, <2>3, OwedMembers
    <3>2. p \notin queue[w] \cup outstanding[w]
      BY <3>1 DEF Held, S
    <3>3. SameKey(item[w]) \subseteq {item[w]} \cup taken[w] /\ p[2] = item[w][1]
      <4>1. PICK r \in work : r[1] = p[2]
        BY <3>1
      <4>2. r \in {item[w]} \cup taken[w]
        BY <1>0, <3>1, <4>1
      <4>3. p[2] = item[w][1]
        BY <1>1, <4>1, <4>2 DEF Inv, JobInv, SameKey
      <4>4. SameKey(item[w]) \subseteq {item[w]} \cup taken[w]
        BY <1>0, <3>1, <4>3 DEF SameKey
      <4> QED BY <4>3, <4>4
    <3> QED BY <1>0, <3>1, <3>2, <3>3 DEF Inv, HandedInv
  <2>4. lost' = lost \cup L
    BY <1>0, <1>4
  <2>5. D \in SUBSET Owed /\ L \in SUBSET D
    BY <2>2
  <2> HIDE DEF D, L
  <2>6. Promise!Drop(D, L)
    BY <1>0, <1>3, <2>2, <2>3, <2>4 DEF Promise!Drop
  <2> QED BY <2>5, <2>6 DEF Kept, Promise!Next
<1> QED BY <1>2, <1>5, <1>6, <1>7, <1>8 DEF Inv

\* A job fails: it will be run again.
LEMMA FailJobStep ==
  ASSUME Inv, NEW w \in Workers, FailJob(w)
  PROVE  Inv' /\ Kept
<1>0. /\ Event
      /\ run' = [run EXCEPT ![w] = "idle"]
      /\ item' = [item EXCEPT ![w] = None]
      /\ taken' = [taken EXCEPT ![w] = {}]
      /\ UNCHANGED <<ver, work, staggering, conn, queue, outstanding, history, rejects>>
      /\ UNCHANGED <<modified, now, dead, reports, feedback, told, lost>>
  BY DEF FailJob, netVars, subVars, ghosts
<1>1. TypeInv /\ subscribed' = subscribed
  BY <1>0, Frames DEF Inv
<1>2. /\ JobInv'
      /\ run' \in [Workers -> {"idle", "selected", "pushed"}]
      /\ item' \in [Workers -> {None} \cup (Keys \X Nat)]
      /\ taken' \in [Workers -> SUBSET (Keys \X Nat)]
      /\ \A v \in Workers : run'[v] # "idle" =>
            /\ run'[v] = run[v] /\ item'[v] = item[v] /\ taken'[v] = taken[v]
            /\ SameKey(item[v])' = SameKey(item[v])
  BY <1>0, JobEnds
<1>3. events' \in Nat /\ events' + ver'[Home] <= MaxEvents /\ now <= events'
  BY <1>0, Counted
<1>4. TypeInv'
  BY <1>0, <1>1, <1>2, <1>3 DEF TypeInv
<1>5. CountInv' /\ ClockInv' /\ NetInv'
  BY <1>0, <1>3, Frames DEF Inv, CountInv, ClockInv
<1>6. HandedInv'
  BY <1>0, <1>1, <1>2, HandedStays DEF Inv
<1> QED BY <1>0, <1>2, <1>4, <1>5, <1>6, Quiet DEF Inv

-----------------------------------------------------------------------------
\* The provider

\* The invariant of the connections, after a step.
LEMMA NetNext ==
  ASSUME \A v \in Workers :
            /\ HistoryOK(history'[v], rejects'[v])
            /\ IF conn'[v] = "up" THEN queue'[v] = {}
               ELSE history'[v] = NewHistory /\ rejects'[v] = {}
  PROVE  NetInv'
BY DEF NetInv, HistoryOK, Entries, NewHistory

\* Pushes are written: each has an identifier of its own, and the devices are up
\* to date.
LEMMA Written ==
  ASSUME Inv, NEW w \in Workers, NEW s \in Seq(Pairs), Write(w, history[w], s)
  PROVE  /\ history' \in [Workers -> [last : Nat, kept : SUBSET Entries]]
         /\ rejects' \in [Workers -> SUBSET Entries]
         /\ \A v \in Workers : HistoryOK(history'[v], rejects'[v])
         /\ \A v \in Workers : v # w => history'[v] = history[v] /\ rejects'[v] = rejects[v]
         /\ told' = [p \in Pairs |-> IF p \in Range(s) THEN ver[p[2]] ELSE told[p]]
         /\ told' \in [Pairs -> Nat] /\ \A p \in Pairs : told'[p] <= ver[p[2]]
         /\ \A p \in Pairs : told'[p] = IF p \in Range(s) THEN ver[p[2]] ELSE told[p]
         /\ lost' = lost \ Range(s) /\ lost' \subseteq Pairs
<1> DEFINE hist == add(history[w], s)
           bad == {x \in Numbered(history[w], s) : x[2] \in dead}
           rej == rejects[w] \cup bad
<1>0. TypeInv
  BY DEF Inv
<1>1. /\ history' = [history EXCEPT ![w] = hist]
      /\ rejects' = [rejects EXCEPT ![w] = rej]
      /\ told' = [p \in Pairs |-> IF p \in Range(s) THEN ver[p[2]] ELSE told[p]]
      /\ lost' = lost \ Range(s)
  BY DEF Write
<1>2. HistoryOK(hist, rej)
  <2>1. HistoryOK(history[w], rejects[w])
    BY DEF Inv, NetInv
  <2>2. bad \in SUBSET Numbered(history[w], s)
    OBVIOUS
  <2> HIDE DEF bad
  <2> QED BY <2>1, <2>2, AddOK
<1> HIDE DEF hist, rej
<1>3. hist \in [last : Nat, kept : SUBSET Entries] /\ rej \in SUBSET Entries
  BY <1>2 DEF HistoryOK
<1>4. /\ history' \in [Workers -> [last : Nat, kept : SUBSET Entries]]
      /\ rejects' \in [Workers -> SUBSET Entries]
      /\ history'[w] = hist /\ rejects'[w] = rej
      /\ \A v \in Workers : v # w => history'[v] = history[v] /\ rejects'[v] = rejects[v]
  BY <1>0, <1>1, <1>3 DEF TypeInv
<1>5. \A v \in Workers : HistoryOK(history'[v], rejects'[v])
  BY <1>2, <1>4 DEF Inv, NetInv
<1>6. \A p \in Pairs : ver[p[2]] \in Nat /\ told[p] \in Nat /\ told[p] <= ver[p[2]]
  BY <1>0, PairFacts DEF TypeInv, Inv, CountInv
<1>7. /\ \A p \in Pairs : told'[p] = IF p \in Range(s) THEN ver[p[2]] ELSE told[p]
      /\ told' \in [Pairs -> Nat]
  BY <1>1, <1>6
<1>8. \A p \in Pairs : told'[p] <= ver[p[2]]
  BY SMTT(30), <1>6, <1>7
<1>9. lost' \subseteq Pairs
  BY <1>0, <1>1 DEF TypeInv
<1> QED BY <1>1, <1>4, <1>5, <1>7, <1>8, <1>9

\* Pushes that are made keep the promise.
LEMMA Telling ==
  ASSUME Inv, NEW S \in SUBSET Pairs, UNCHANGED <<ver, modified>>,
         told' = [p \in Pairs |-> IF p \in S THEN ver[p[2]] ELSE told[p]],
         lost' = lost \ S, Owed' \subseteq Owed, Owed \ Owed' \subseteq S
  PROVE  Kept
<1>1. subscribed' = subscribed
  BY Frames
<1>2. \A p \in Owed \ Owed' : told'[p] = ver[p[2]]
  OBVIOUS
<1>3. Promise!Tell(S)
  BY <1>1, <1>2 DEF Promise!Tell
<1> QED BY <1>3 DEF Kept, Promise!Next

\* A job hands its push id over: every subscribed device is told, or its push is
\* in the memory of the worker.
LEMMA EnqueueStep ==
  ASSUME Inv, NEW w \in Workers, enqueue(w)
  PROVE  Inv' /\ Kept
<1> DEFINE S == {p \in subscribed : p[2] = item[w][1]}
<1>0. /\ run[w] = "selected"
      /\ run' = [run EXCEPT ![w] = "pushed"]
      /\ Schedule(w, S)
      /\ UNCHANGED <<ver, work, item, taken, staggering, conn, modified, now, dead, reports>>
      /\ UNCHANGED <<feedback, events>>
  BY DEF enqueue, subVars
<1>1. TypeInv /\ subscribed' = subscribed /\ S \in SUBSET Pairs
  BY <1>0, Frames, PairFacts DEF Inv
<1>2. /\ run' \in [Workers -> {"idle", "selected", "pushed"}]
      /\ \A v \in Workers : run'[v] = IF v = w THEN "pushed" ELSE run[v]
  BY <1>0, <1>1 DEF TypeInv
<1>3. \A v \in Workers : run'[v] = "idle" <=> run[v] = "idle"
  BY <1>0, <1>2
<1>4. JobInv'
  <2>1. \A r : SameKey(r)' = SameKey(r)
    BY <1>0 DEF SameKey
  <2>2. ASSUME NEW v \in Workers, run[v] # "idle"
        PROVE  item[v] \in work /\ taken[v] \subseteq SameKey(item[v])'
    BY <1>0, <2>1, <2>2 DEF Inv, JobInv
  <2> QED BY <1>0, <1>3, <2>2 DEF Inv, JobInv
<1>5. ASSUME NEW p \in S PROVE p \in subscribed /\ \E r \in work : r[1] = p[2]
  BY <1>0 DEF Inv, JobInv
<1>6. ASSUME NEW v \in Workers, NEW p \in subscribed, v # w, run'[v] = "pushed",
             p[2] = item[v][1], SameKey(item[v])' \subseteq {item[v]} \cup taken[v]
      PROVE  told[p] = ver[p[2]] \/ p \in queue[v] \cup outstanding[v]
  <2>1. SameKey(item[v]) = SameKey(item[v])'
    BY <1>0 DEF SameKey
  <2> QED BY <1>2, <1>6, <2>1 DEF Inv, HandedInv
<1>7. ASSUME \A p \in subscribed : told'[p] \in {told[p], ver[p[2]]},
             \A v \in Workers : v # w => queue'[v] = queue[v] /\ outstanding'[v] = outstanding[v],
             \A p \in S : told'[p] = ver[p[2]] \/ p \in queue'[w] \cup outstanding'[w]
      PROVE  HandedInv'
  <2> SUFFICES ASSUME NEW v \in Workers, NEW p \in subscribed, run'[v] = "pushed",
                      p[2] = item[v][1], SameKey(item[v])' \subseteq {item[v]} \cup taken[v]
               PROVE  told'[p] = ver[p[2]] \/ p \in queue'[v] \cup outstanding'[v]
    BY <1>0, <1>1 DEF HandedInv
  <2>1. CASE v = w
    BY <1>7, <2>1
  <2>2. CASE v # w
    BY <1>6, <1>7, <2>2
  <2> QED BY <2>1, <2>2
<1> HIDE DEF S
<1>8. CASE conn[w] # "up"
  <2>1. queue' = [queue EXCEPT ![w] = @ \cup S] /\ UNCHANGED <<outstanding, history, rejects, told, lost>>
    BY <1>0, <1>8 DEF Schedule, ghosts
  <2>2. /\ queue' \in [Workers -> SUBSET Pairs]
        /\ \A v \in Workers : queue'[v] = IF v = w THEN queue[v] \cup S ELSE queue[v]
    BY <1>1, <2>1 DEF TypeInv
  <2>3. TypeInv'
    BY <1>0, <1>1, <1>2, <2>1, <2>2 DEF TypeInv
  <2>4. CountInv' /\ ClockInv'
    BY <1>0, <2>1 DEF Inv, CountInv, ClockInv
  <2>5. NetInv'
    BY <1>0, <1>8, <2>1, <2>2, NetNext DEF Inv, NetInv
  <2>6. HandedInv'
    BY <1>7, <2>1, <2>2
  <2>7. ASSUME NEW p PROVE p \in Owed' <=> p \in Owed
    <3>1. Held(conn', queue', outstanding', p) => p \in S \/ Held(conn, queue, outstanding, p)
      BY <1>0, <2>1, <2>2 DEF Held
    <3>2. Held(conn, queue, outstanding, p) => Held(conn', queue', outstanding', p)
      BY <1>0, <2>1, <2>2 DEF Held
    <3> QED BY <1>0, <1>1, <1>5, <3>1, <3>2, OwedMembers
  <2>8. Owed' = Owed
    BY <2>7
  <2> QED BY <1>0, <1>1, <1>4, <2>1, <2>3, <2>4, <2>5, <2>6, <2>8 DEF Inv, Kept
<1>9. CASE conn[w] = "up" /\ staggering
  <2>1. /\ outstanding' = [outstanding EXCEPT ![w] = @ \cup S]
        /\ UNCHANGED <<queue, history, rejects, told, lost>>
    BY <1>0, <1>9 DEF Schedule, ghosts
  <2>2. /\ outstanding' \in [Workers -> SUBSET Pairs]
        /\ \A v \in Workers : outstanding'[v] = IF v = w THEN outstanding[v] \cup S ELSE outstanding[v]
    BY <1>1, <2>1 DEF TypeInv
  <2>3. TypeInv'
    BY <1>0, <1>1, <1>2, <2>1, <2>2 DEF TypeInv
  <2>4. CountInv' /\ ClockInv' /\ NetInv'
    BY <1>0, <2>1, Frames DEF Inv, CountInv, ClockInv
  <2>6. HandedInv'
    BY <1>7, <2>1, <2>2
  <2>7. ASSUME NEW p PROVE p \in Owed' <=> p \in Owed
    <3>1. Held(conn', queue', outstanding', p) => p \in S \/ Held(conn, queue, outstanding, p)
      BY <1>0, <2>1, <2>2 DEF Held
    <3>2. Held(conn, queue, outstanding, p) => Held(conn', queue', outstanding', p)
      BY <1>0, <2>1, <2>2 DEF Held
    <3> QED BY <1>0, <1>1, <1>5, <3>1, <3>2, OwedMembers
  <2>8. Owed' = Owed
    BY <2>7
  <2> QED BY <1>0, <1>1, <1>4, <2>1, <2>3, <2>4, <2>6, <2>8 DEF Inv, Kept
<1>10. CASE conn[w] = "up" /\ ~staggering
  <2>1. PICK s \in SetToSeqs(S) : Write(w, history[w], s) /\ UNCHANGED <<queue, outstanding>>
    BY <1>0, <1>10 DEF Schedule
  <2>2. s \in Seq(Pairs) /\ Range(s) = S
    BY <1>1, Ordered
  <2>3. /\ history' \in [Workers -> [last : Nat, kept : SUBSET Entries]]
        /\ rejects' \in [Workers -> SUBSET Entries]
        /\ \A v \in Workers : HistoryOK(history'[v], rejects'[v])
        /\ \A v \in Workers : v # w => history'[v] = history[v] /\ rejects'[v] = rejects[v]
        /\ told' = [p \in Pairs |-> IF p \in S THEN ver[p[2]] ELSE told[p]]
        /\ told' \in [Pairs -> Nat] /\ \A p \in Pairs : told'[p] <= ver[p[2]]
        /\ \A p \in Pairs : told'[p] = IF p \in S THEN ver[p[2]] ELSE told[p]
        /\ lost' = lost \ S /\ lost' \subseteq Pairs
    BY <2>1, <2>2, Written
  <2>4. TypeInv'
    BY <1>0, <1>1, <1>2, <2>1, <2>3 DEF TypeInv
  <2>5. CountInv' /\ ClockInv'
    BY <1>0, <2>1, <2>3 DEF Inv, CountInv, ClockInv
  <2>6. NetInv'
    BY <1>0, <1>10, <2>1, <2>3, NetNext DEF Inv, NetInv
  <2>7. HandedInv'
    BY <1>1, <1>7, <2>1, <2>3, PairFacts
  <2>8. Owed' = Owed
    BY <1>0, <1>1, <2>1 DEF Owed, OwedIf
  <2>9. Kept
    BY <1>0, <1>1, <2>3, <2>8, Telling
  <2> QED BY <1>4, <2>4, <2>5, <2>6, <2>7, <2>9 DEF Inv
<1> QED BY <1>8, <1>9, <1>10 DEF Inv, TypeInv

\* The turn of a push has come: it is made, or saved for a connection.
LEMMA SendStep ==
  ASSUME Inv, NEW w \in Workers, NEW p \in Pairs, send(w, p)
  PROVE  Inv' /\ Kept
<1>0. /\ p \in outstanding[w]
      /\ outstanding' = [outstanding EXCEPT ![w] = @ \ {p}]
      /\ UNCHANGED <<ver, work, run, item, taken, staggering, conn, modified, now, dead>>
      /\ UNCHANGED <<reports, feedback, events>>
  BY DEF send, jobVars, subVars
<1>1. TypeInv /\ subscribed' = subscribed
  BY <1>0, Frames DEF Inv
<1>2. /\ outstanding' \in [Workers -> SUBSET Pairs]
      /\ \A v \in Workers : outstanding'[v] = IF v = w THEN outstanding[v] \ {p} ELSE outstanding[v]
  BY <1>0, <1>1 DEF TypeInv
<1>3. JobInv'
  BY <1>0, Frames DEF Inv
<1>4. \A v \in Workers : /\ run'[v] = run[v] /\ item'[v] = item[v] /\ taken'[v] = taken[v]
                         /\ SameKey(item[v])' = SameKey(item[v])
  BY <1>0 DEF SameKey
<1>5. CASE conn[w] = "up"
  <2>1. Write(w, history[w], <<p>>) /\ queue' = queue
    BY <1>5 DEF send
  <2>2. <<p>> \in Seq(Pairs) /\ Range(<<p>>) = {p}
    BY DEF Range
  <2>3. /\ history' \in [Workers -> [last : Nat, kept : SUBSET Entries]]
        /\ rejects' \in [Workers -> SUBSET Entries]
        /\ \A v \in Workers : HistoryOK(history'[v], rejects'[v])
        /\ \A v \in Workers : v # w => history'[v] = history[v] /\ rejects'[v] = rejects[v]
        /\ told' = [q \in Pairs |-> IF q \in {p} THEN ver[q[2]] ELSE told[q]]
        /\ told' \in [Pairs -> Nat] /\ \A q \in Pairs : told'[q] <= ver[q[2]]
        /\ \A q \in Pairs : told'[q] = IF q \in {p} THEN ver[q[2]] ELSE told[q]
        /\ lost' = lost \ {p} /\ lost' \subseteq Pairs
    <3> DEFINE s == <<p>>
    <3>1. s \in Seq(Pairs) /\ Range(s) = {p} /\ Write(w, history[w], s)
      BY <2>1, <2>2
    <3> HIDE DEF s
    <3> QED BY <3>1, Written
  <2>4. TypeInv'
    BY <1>0, <1>1, <1>2, <2>1, <2>3 DEF TypeInv
  <2>5. CountInv' /\ ClockInv'
    BY <1>0, <2>3 DEF Inv, CountInv, ClockInv
  <2>6. NetInv'
    BY <1>0, <1>5, <2>1, <2>3, NetNext DEF Inv, NetInv
  <2>7. HandedInv'
    <3>1. \A q \in subscribed' : (q \in subscribed /\ told'[q] = told[q]) \/ told'[q] = ver[q[2]]
      BY <1>1, <2>3, PairFacts
    <3>2. \A v \in Workers : \A q \in subscribed' : q \in queue[v] \cup outstanding[v] =>
             q \in queue'[v] \cup outstanding'[v] \/ told'[q] = ver[q[2]]
      BY <1>1, <1>2, <2>1, <2>3, PairFacts
    <3> QED BY <1>0, <1>4, <3>1, <3>2, HandedStays DEF Inv
  <2>8. ASSUME NEW q PROVE (q \in Owed' => q \in Owed) /\ (q \in Owed => q \in Owed' \/ q = p)
    <3>1. Held(conn', queue', outstanding', q) => Held(conn, queue, outstanding, q)
      BY <1>0, <1>2, <2>1 DEF Held
    <3>2. Held(conn, queue, outstanding, q) /\ q # p => Held(conn', queue', outstanding', q)
      BY <1>0, <1>2, <2>1 DEF Held
    <3> QED BY <1>0, <1>1, <3>1, <3>2, OwedMembers
  <2>9. Kept
    <3>1. Owed' \subseteq Owed /\ Owed \ Owed' \subseteq {p} /\ {p} \in SUBSET Pairs
      BY <2>8
    <3> QED BY <1>0, <2>3, <3>1, Telling
  <2> QED BY <1>3, <2>4, <2>5, <2>6, <2>7, <2>9 DEF Inv
<1>6. CASE conn[w] # "up"
  <2>1. queue' = [queue EXCEPT ![w] = @ \cup {p}] /\ UNCHANGED <<history, rejects, told, lost>>
    BY <1>6 DEF send, ghosts
  <2>2. /\ queue' \in [Workers -> SUBSET Pairs]
        /\ \A v \in Workers : queue'[v] = IF v = w THEN queue[v] \cup {p} ELSE queue[v]
    BY <1>1, <2>1 DEF TypeInv
  <2>3. TypeInv'
    BY <1>0, <1>1, <1>2, <2>1, <2>2 DEF TypeInv
  <2>4. CountInv' /\ ClockInv'
    BY <1>0, <2>1 DEF Inv, CountInv, ClockInv
  <2>5. NetInv'
    BY <1>0, <1>6, <2>1, <2>2, NetNext DEF Inv, NetInv
  <2>6. \A v \in Workers : queue'[v] \cup outstanding'[v] = queue[v] \cup outstanding[v]
    BY <1>0, <1>2, <2>2
  <2>7. HandedInv'
    <3>1. \A q \in subscribed' : (q \in subscribed /\ told'[q] = told[q]) \/ told'[q] = ver[q[2]]
      BY <1>1, <2>1
    <3> QED BY <1>0, <1>4, <2>6, <3>1, HandedStays DEF Inv
  <2>8. Owed' = Owed
    <3>1. ASSUME NEW q PROVE q \in Owed' <=> q \in Owed
      <4>1. Held(conn', queue', outstanding', q) <=> Held(conn, queue, outstanding, q)
        BY <1>0, <2>6 DEF Held
      <4> QED BY <1>0, <1>1, <4>1, OwedMembers
    <3> QED BY <3>1
  <2> QED BY <1>0, <1>1, <1>3, <2>1, <2>3, <2>4, <2>5, <2>7, <2>8 DEF Inv, Kept
<1> QED BY <1>5, <1>6

\* A connection is made: everything that waited for it is written to it.
LEMMA ConnectionMadeStep ==
  ASSUME Inv, NEW w \in Workers, connectionMade(w)
  PROVE  Inv' /\ Kept
<1> DEFINE S == queue[w]
<1>0. /\ conn[w] = "down"
      /\ conn' = [conn EXCEPT ![w] = "up"]
      /\ queue' = [queue EXCEPT ![w] = {}]
      /\ UNCHANGED <<ver, work, run, item, taken, staggering, outstanding, modified, now, dead>>
      /\ UNCHANGED <<reports, feedback, events>>
  BY DEF connectionMade, jobVars, subVars
<1>1. TypeInv /\ subscribed' = subscribed /\ S \in SUBSET Pairs /\ history[w] = NewHistory
  BY <1>0, Frames DEF Inv, TypeInv, NetInv
<1>2. /\ conn' \in [Workers -> {"down", "up", "stopped"}]
      /\ queue' \in [Workers -> SUBSET Pairs]
      /\ \A v \in Workers : /\ conn'[v] = IF v = w THEN "up" ELSE conn[v]
                            /\ queue'[v] = IF v = w THEN {} ELSE queue[v]
  BY <1>0, <1>1 DEF TypeInv
<1>3. PICK s \in SetToSeqs(S) : Write(w, history[w], s)
  BY <1>1 DEF connectionMade
<1>4. s \in Seq(Pairs) /\ Range(s) = S
  BY <1>1, Ordered
<1>5. /\ history' \in [Workers -> [last : Nat, kept : SUBSET Entries]]
      /\ rejects' \in [Workers -> SUBSET Entries]
      /\ \A v \in Workers : HistoryOK(history'[v], rejects'[v])
      /\ \A v \in Workers : v # w => history'[v] = history[v] /\ rejects'[v] = rejects[v]
      /\ told' = [p \in Pairs |-> IF p \in S THEN ver[p[2]] ELSE told[p]]
      /\ told' \in [Pairs -> Nat] /\ \A p \in Pairs : told'[p] <= ver[p[2]]
      /\ \A p \in Pairs : told'[p] = IF p \in S THEN ver[p[2]] ELSE told[p]
      /\ lost' = lost \ S /\ lost' \subseteq Pairs
  BY <1>3, <1>4, Written
<1>6. TypeInv'
  BY <1>0, <1>1, <1>2, <1>5 DEF TypeInv
<1>7. CountInv' /\ ClockInv' /\ JobInv'
  BY <1>0, <1>5, Frames DEF Inv, CountInv, ClockInv
<1>8. NetInv'
  BY <1>0, <1>2, <1>5, NetNext DEF Inv, NetInv
<1>9. HandedInv'
  <2>1. \A q \in subscribed' : (q \in subscribed /\ told'[q] = told[q]) \/ told'[q] = ver[q[2]]
    BY <1>1, <1>5, PairFacts
  <2>2. \A v \in Workers : \A q \in subscribed' : q \in queue[v] \cup outstanding[v] =>
           q \in queue'[v] \cup outstanding'[v] \/ told'[q] = ver[q[2]]
    BY <1>0, <1>1, <1>2, <1>5, PairFacts
  <2>3. \A v \in Workers : /\ run'[v] = run[v] /\ item'[v] = item[v] /\ taken'[v] = taken[v]
                           /\ SameKey(item[v])' = SameKey(item[v])
    BY <1>0 DEF SameKey
  <2> QED BY <1>0, <2>1, <2>2, <2>3, HandedStays DEF Inv
<1>10. ASSUME NEW q PROVE (q \in Owed' => q \in Owed) /\ (q \in Owed => q \in Owed' \/ q \in S)
  <2>1. Held(conn', queue', outstanding', q) => Held(conn, queue, outstanding, q)
    BY <1>0, <1>2 DEF Held
  <2>2. Held(conn, queue, outstanding, q) /\ q \notin S => Held(conn', queue', outstanding', q)
    BY <1>0, <1>2 DEF Held
  <2> QED BY <1>0, <1>1, <2>1, <2>2, OwedMembers
<1>11. Kept
  <2>1. Owed' \subseteq Owed /\ Owed \ Owed' \subseteq S
    BY <1>10
  <2> HIDE DEF S
  <2> QED BY <1>0, <1>1, <1>5, <2>1, Telling
<1> QED BY <1>6, <1>7, <1>8, <1>9, <1>11 DEF Inv

\* Pushes that are dropped with a provider are counted as lost.
LEMMA Dropping ==
  ASSUME Inv, NEW S, UNCHANGED <<ver, modified, told>>,
         Owed' \subseteq Owed, Owed \ Owed' \subseteq S,
         lost' = lost \cup ((S \cap Owed) \ Owed')
  PROVE  Kept /\ lost' \subseteq Pairs
<1> DEFINE D == Owed \ Owed'
<1>1. subscribed' = subscribed /\ Owed \subseteq Pairs
  BY Frames, OwedPairs DEF Inv
<1>2. lost' = lost \cup D /\ Owed' = Owed \ D /\ D \in SUBSET Owed /\ D \in SUBSET D
  OBVIOUS
<1>3. lost' \subseteq Pairs
  BY <1>1, <1>2 DEF Inv, TypeInv
<1> HIDE DEF D
<1>4. Promise!Drop(D, D)
  BY <1>1, <1>2 DEF Promise!Drop
<1>5. Promise!Next
  BY <1>2, <1>4 DEF Promise!Next
<1> QED BY <1>3, <1>5 DEF Kept

\* A connection is lost, with its history; if it is given up, so are the pushes
\* whose turn has not come.
LEMMA ConnectionLostStep ==
  ASSUME Inv, NEW w \in Workers, NEW how \in {"down", "stopped"}, connectionLost(w, how)
  PROVE  Inv' /\ Kept
<1> DEFINE S == IF how = "stopped" THEN outstanding[w] ELSE {}
<1>0. /\ conn[w] = "up" /\ Event
      /\ conn' = [conn EXCEPT ![w] = how]
      /\ history' = [history EXCEPT ![w] = NewHistory]
      /\ rejects' = [rejects EXCEPT ![w] = {}]
      /\ lost' = lost \cup ((S \cap Owed) \ OwedIf(work, subscribed, conn', queue, outstanding))
      /\ UNCHANGED <<ver, work, run, item, taken, staggering, queue, outstanding, modified, now>>
      /\ UNCHANGED <<dead, reports, feedback, told>>
  BY DEF connectionLost, Gone, jobVars, subVars
<1>1. TypeInv /\ subscribed' = subscribed /\ queue[w] = {}
  BY <1>0, Frames DEF Inv, NetInv
<1>2. /\ conn' \in [Workers -> {"down", "up", "stopped"}]
      /\ \A v \in Workers : conn'[v] = IF v = w THEN how ELSE conn[v]
  BY <1>0, <1>1 DEF TypeInv
<1>3. /\ history' \in [Workers -> [last : Nat, kept : SUBSET Entries]]
      /\ rejects' \in [Workers -> SUBSET Entries]
      /\ \A v \in Workers : /\ history'[v] = IF v = w THEN NewHistory ELSE history[v]
                            /\ rejects'[v] = IF v = w THEN {} ELSE rejects[v]
  <2>1. NewHistory \in [last : Nat, kept : SUBSET Entries]
    BY NewOK DEF HistoryOK
  <2> QED BY <1>0, <1>1, <2>1 DEF TypeInv
<1>4. events' \in Nat /\ events' + ver'[Home] <= MaxEvents /\ now <= events'
  BY <1>0, Counted
<1>5. Owed' = OwedIf(work, subscribed, conn', queue, outstanding)
  BY <1>0, <1>1 DEF Owed, OwedIf
<1>6. ASSUME NEW q PROVE (q \in Owed' => q \in Owed) /\ (q \in Owed => q \in Owed' \/ q \in S)
  <2>1. Held(conn', queue', outstanding', q) => Held(conn, queue, outstanding, q)
    BY <1>0, <1>2 DEF Held
  <2>2. Held(conn, queue, outstanding, q) /\ q \notin S => Held(conn', queue', outstanding', q)
    BY <1>0, <1>1, <1>2 DEF Held
  <2> QED BY <1>0, <1>1, <2>1, <2>2, OwedMembers
<1>7. Kept /\ lost' \subseteq Pairs
  <2>1. Owed' \subseteq Owed /\ Owed \ Owed' \subseteq S
    BY <1>6
  <2> HIDE DEF S
  <2> QED BY <1>0, <1>5, <2>1, Dropping
<1>8. TypeInv'
  BY <1>0, <1>1, <1>2, <1>3, <1>4, <1>7 DEF TypeInv
<1>9. CountInv' /\ ClockInv' /\ JobInv'
  BY <1>0, <1>4, Frames DEF Inv, CountInv, ClockInv
<1>10. NetInv'
  <2>1. \A v \in Workers : HistoryOK(history'[v], rejects'[v])
    BY <1>3, NewOK DEF Inv, NetInv
  <2> QED BY <1>0, <1>2, <1>3, <2>1, NetNext DEF Inv, NetInv
<1>11. HandedInv'
  BY <1>0, <1>1, Frames DEF Inv
<1> QED BY <1>7, <1>8, <1>9, <1>10, <1>11 DEF Inv

\* A worker starts again: what its provider had in memory is lost.
LEMMA RestartStep ==
  ASSUME Inv, NEW w \in Workers, Restart(w)
  PROVE  Inv' /\ Kept
<1> DEFINE S == queue[w] \cup outstanding[w]
<1>0. /\ Event
      /\ run' = [run EXCEPT ![w] = "idle"]
      /\ item' = [item EXCEPT ![w] = None]
      /\ taken' = [taken EXCEPT ![w] = {}]
      /\ conn' = [conn EXCEPT ![w] = "down"]
      /\ queue' = [queue EXCEPT ![w] = {}]
      /\ outstanding' = [outstanding EXCEPT ![w] = {}]
      /\ history' = [history EXCEPT ![w] = NewHistory]
      /\ rejects' = [rejects EXCEPT ![w] = {}]
      /\ lost' = lost \cup ((S \cap Owed) \ OwedIf(work, subscribed, conn', queue', outstanding'))
      /\ UNCHANGED <<ver, work, staggering, modified, now, dead, reports, feedback, told>>
  BY DEF Restart, Gone, subVars
<1>1. TypeInv /\ subscribed' = subscribed
  BY <1>0, Frames DEF Inv
<1>2. /\ conn' \in [Workers -> {"down", "up", "stopped"}]
      /\ queue' \in [Workers -> SUBSET Pairs] /\ outstanding' \in [Workers -> SUBSET Pairs]
      /\ \A v \in Workers : /\ conn'[v] = IF v = w THEN "down" ELSE conn[v]
                            /\ queue'[v] = IF v = w THEN {} ELSE queue[v]
                            /\ outstanding'[v] = IF v = w THEN {} ELSE outstanding[v]
  BY <1>0, <1>1 DEF TypeInv
<1>3. /\ history' \in [Workers -> [last : Nat, kept : SUBSET Entries]]
      /\ rejects' \in [Workers -> SUBSET Entries]
      /\ \A v \in Workers : /\ history'[v] = IF v = w THEN NewHistory ELSE history[v]
                            /\ rejects'[v] = IF v = w THEN {} ELSE rejects[v]
  <2>1. NewHistory \in [last : Nat, kept : SUBSET Entries]
    BY NewOK DEF HistoryOK
  <2> QED BY <1>0, <1>1, <2>1 DEF TypeInv
<1>4. events' \in Nat /\ events' + ver'[Home] <= MaxEvents /\ now <= events'
  BY <1>0, Counted
<1>5. /\ JobInv'
      /\ run' \in [Workers -> {"idle", "selected", "pushed"}]
      /\ item' \in [Workers -> {None} \cup (Keys \X Nat)]
      /\ taken' \in [Workers -> SUBSET (Keys \X Nat)]
      /\ \A v \in Workers : run'[v] # "idle" =>
            /\ v # w /\ run'[v] = run[v] /\ item'[v] = item[v] /\ taken'[v] = taken[v]
            /\ SameKey(item[v])' = SameKey(item[v])
  BY <1>0, JobEnds
<1>6. Owed' = OwedIf(work, subscribed, conn', queue', outstanding')
  BY <1>0, <1>1 DEF Owed, OwedIf
<1>7. ASSUME NEW q PROVE (q \in Owed' => q \in Owed) /\ (q \in Owed => q \in Owed' \/ q \in S)
  <2>1. Held(conn', queue', outstanding', q) => Held(conn, queue, outstanding, q)
    BY <1>2 DEF Held
  <2>2. Held(conn, queue, outstanding, q) /\ q \notin S => Held(conn', queue', outstanding', q)
    BY <1>2 DEF Held
  <2> QED BY <1>0, <1>1, <2>1, <2>2, OwedMembers
<1>8. Kept /\ lost' \subseteq Pairs
  <2>1. Owed' \subseteq Owed /\ Owed \ Owed' \subseteq S
    BY <1>7
  <2> HIDE DEF S
  <2> QED BY <1>0, <1>6, <2>1, Dropping
<1>9. TypeInv'
  BY <1>0, <1>1, <1>2, <1>3, <1>4, <1>5, <1>8 DEF TypeInv
<1>10. CountInv' /\ ClockInv'
  BY <1>0, <1>4 DEF Inv, CountInv, ClockInv
<1>11. NetInv'
  <2>1. \A v \in Workers : HistoryOK(history'[v], rejects'[v])
    BY <1>3, NewOK DEF Inv, NetInv
  <2> QED BY <1>2, <1>3, <2>1, NetNext DEF Inv, NetInv
<1>12. HandedInv'
  BY <1>0, <1>1, <1>2, <1>5, HandedStays DEF Inv
<1> QED BY <1>5, <1>8, <1>9, <1>10, <1>11, <1>12 DEF Inv

-----------------------------------------------------------------------------
\* Subscriptions

\* What a step of a device or of the clock leaves alone.
LEMMA Aside ==
  ASSUME Inv, TypeInv', ClockInv', Kept,
         UNCHANGED <<ver, work, run, item, taken, conn, queue, outstanding, history, rejects>>,
         told' = told, subscribed' \subseteq subscribed,
         events' + ver'[Home] <= MaxEvents
  PROVE  Inv' /\ Kept
<1>1. CountInv'
  BY DEF Inv, CountInv
<1>2. JobInv' /\ NetInv' /\ HandedInv'
  BY Frames DEF Inv
<1> QED BY <1>1, <1>2 DEF Inv

\* The clock moves, a device leaves, feedback is read.
LEMMA AsideSteps ==
  ASSUME Inv, Tick \/ (\E t \in Tokens : Die(t)) \/ (\E r \in reports : readFeedback(r))
  PROVE  Inv' /\ Kept
<1>0. /\ UNCHANGED <<ver, work, run, item, taken, conn, queue, outstanding, history, rejects>>
      /\ UNCHANGED <<staggering, modified, told, lost>>
  BY DEF Tick, Die, readFeedback, jobVars, netVars, ghosts
<1>1. TypeInv /\ subscribed' = subscribed /\ Kept
  BY <1>0, Frames, Quiet DEF Inv
<1>2. events + ver[Home] <= MaxEvents /\ now <= events /\ now \in Nat /\ events \in Nat
  BY DEF Inv, TypeInv, CountInv, ClockInv
<1>3. \A p \in Pairs : -1 <= modified[p] /\ modified[p] <= now /\ modified[p] \in Int
  BY DEF Inv, TypeInv, ClockInv
<1>4. CASE Tick
  <2>1. now' = now + 1 /\ UNCHANGED <<dead, reports, feedback>> /\ Event
    BY <1>4 DEF Tick
  <2>2. events' \in Nat /\ events' = events + 1 /\ events' + ver'[Home] <= MaxEvents
    BY <1>0, <2>1, Counted
  <2>3. TypeInv'
    BY <1>0, <1>1, <1>2, <2>1, <2>2 DEF TypeInv
  <2>4. ClockInv'
    BY <1>0, <1>2, <1>3, <2>1, <2>2 DEF ClockInv
  <2> QED BY <1>0, <1>1, <2>2, <2>3, <2>4, Aside
<1>5. ASSUME NEW t \in Tokens, Die(t) PROVE Inv' /\ Kept
  <2>1. /\ dead' = dead \cup {t} /\ reports' = reports \cup {<<t, now>>}
        /\ UNCHANGED <<now, feedback>> /\ Event
    BY <1>5 DEF Die
  <2>2. events' \in Nat /\ events' + ver'[Home] <= MaxEvents /\ now <= events'
    BY <1>0, <2>1, Counted
  <2>3. TypeInv'
    BY <1>0, <1>1, <1>2, <2>1, <2>2 DEF TypeInv
  <2>4. ClockInv'
    BY <1>0, <1>3, <2>1, <2>2 DEF ClockInv
  <2> QED BY <1>0, <1>1, <2>2, <2>3, <2>4, Aside
<1>6. ASSUME NEW r \in reports, readFeedback(r) PROVE Inv' /\ Kept
  <2> DEFINE rows == {<<p, modified[p]>> : p \in {q \in subscribed : q[1] = r[1]}}
  <2>1. /\ reports' = reports \ {r}
        /\ feedback' = [token |-> r[1], time |-> r[2], rows |-> rows]
        /\ UNCHANGED <<now, dead, events>>
    BY <1>6 DEF readFeedback
  <2>2. rows \subseteq Pairs \X Int
    BY <1>1, PairFacts DEF TypeInv
  <2> HIDE DEF rows
  <2>3. feedback' \in Feedbacks
    BY <1>1, <2>1, <2>2 DEF Feedbacks, TypeInv
  <2>4. TypeInv'
    BY <1>0, <1>1, <2>1, <2>3 DEF TypeInv
  <2>5. ClockInv'
    BY <1>0, <2>1 DEF Inv, ClockInv
  <2> QED BY <1>0, <1>1, <1>2, <2>1, <2>4, <2>5, Aside
<1> QED BY <1>4, <1>5, <1>6

\* Rows are deleted: pairs leave, and no other is concerned.
LEMMA Deleting ==
  ASSUME Inv, NEW S, DeleteRows(S),
         UNCHANGED <<ver, work, conn, queue, outstanding, told, lost, now, events>>
  PROVE  /\ Kept /\ subscribed' \subseteq subscribed /\ ClockInv'
         /\ modified' \in [Pairs -> Int]
         /\ \A p \in Pairs : modified'[p] = IF p \in S THEN -1 ELSE modified[p]
<1>0. /\ modified' \in [Pairs -> Int]
      /\ \A p \in Pairs : modified'[p] = IF p \in S THEN -1 ELSE modified[p]
  BY DEF DeleteRows, Inv, TypeInv
<1>1. subscribed' = subscribed \ S
  BY <1>0 DEF subscribed
<1>2. now \in Nat /\ \A p \in Pairs : modified[p] \in Int
  BY DEF Inv, TypeInv
<1>3. ClockInv'
  <2>1. \A p \in Pairs : -1 <= modified'[p] /\ modified'[p] <= now
    BY <1>0, <1>2 DEF Inv, ClockInv
  <2> QED BY <2>1 DEF Inv, ClockInv
<1>4. ASSUME NEW p
      PROVE  (p \in Owed' => p \in Owed) /\ (p \in Owed /\ p \notin S => p \in Owed')
  BY <1>1, OwedMembers
<1>5. Kept
  <2> DEFINE U == S \cap subscribed
  <2>1. /\ U \in SUBSET subscribed /\ subscribed' = subscribed \ U
        /\ Owed' \in SUBSET Owed
    BY <1>1, <1>4
  <2>2. Owed \ U \subseteq Owed'
    <3> SUFFICES ASSUME NEW p \in Owed, p \notin U PROVE p \in Owed'
      OBVIOUS
    <3>1. CASE p \in subscribed
      BY <1>4, <3>1
    <3>2. CASE p \notin subscribed
      BY <1>1, <3>2, OwedMembers
    <3> QED BY <3>1, <3>2
  <2> HIDE DEF U
  <2>3. Promise!Unsubscribe(U)
    BY <2>1, <2>2 DEF Promise!Unsubscribe
  <2> QED BY <2>1, <2>3 DEF Kept, Promise!Next
<1> QED BY <1>0, <1>1, <1>3, <1>5

\* Feedback is processed, or old subscriptions are purged.
LEMMA DeleteSteps ==
  ASSUME Inv, processFeedback \/ purgeOldAPNSubscriptions
  PROVE  Inv' /\ Kept
<1>0. /\ UNCHANGED <<ver, work, run, item, taken, conn, queue, outstanding, history, rejects>>
      /\ UNCHANGED <<staggering, now, dead, reports, told, lost, events>>
      /\ feedback' = feedback \/ feedback' = NoFeedback
      /\ \E S : DeleteRows(S)
  BY DEF processFeedback, purgeOldAPNSubscriptions, jobVars, netVars, ghosts
<1>1. PICK S : DeleteRows(S)
  BY <1>0
<1>2. /\ Kept /\ subscribed' \subseteq subscribed /\ ClockInv'
      /\ modified' \in [Pairs -> Int]
  BY <1>0, <1>1, Deleting
<1>3. NoFeedback \in Feedbacks
  BY DEF NoFeedback, Feedbacks
<1>4. TypeInv'
  BY <1>0, <1>2, <1>3 DEF Inv, TypeInv
<1>5. events' + ver'[Home] <= MaxEvents
  BY <1>0 DEF Inv, CountInv
<1> QED BY <1>0, <1>2, <1>4, <1>5, Aside

\* An error is looked up in the history of its connection, and forgotten.
LEMMA ProcessErrorStep ==
  ASSUME Inv, NEW w \in Workers, NEW e \in rejects[w], processError(w, e)
  PROVE  Inv' /\ Kept
<1> DEFINE found == {x \in history[w].kept : x[1] = e[1]}
           gone == {p \in subscribed : \E x \in found : p[1] = x[2]}
<1>0. /\ rejects' = [rejects EXCEPT ![w] = @ \ {e}]
      /\ history' = [history EXCEPT ![w].kept = @ \ found]
      /\ DeleteRows(gone)
      /\ UNCHANGED <<ver, work, run, item, taken, staggering, conn, queue, outstanding, now, dead>>
      /\ UNCHANGED <<reports, feedback, told, lost, events>>
  BY DEF processError, jobVars, ghosts
<1>1. TypeInv /\ HistoryOK(history[w], rejects[w])
  BY DEF Inv, NetInv
<1> HIDE DEF gone
<1>2. /\ Kept /\ subscribed' \subseteq subscribed /\ ClockInv'
      /\ modified' \in [Pairs -> Int]
  BY <1>0, Deleting
<1> DEFINE kept == history[w].kept \ found
           new == [history[w] EXCEPT !.kept = kept]
<1>3. /\ history[w] \in [last : Nat, kept : SUBSET Entries]
      /\ history' = [history EXCEPT ![w] = new]
  BY <1>0, <1>1 DEF TypeInv
<1>4. kept \subseteq history[w].kept
  OBVIOUS
<1> HIDE DEF found, kept
<1>5. /\ new \in [last : Nat, kept : SUBSET Entries]
      /\ new.last = history[w].last /\ new.kept = kept
  BY <1>3, <1>4
<1> HIDE DEF new
<1>6. /\ history' \in [Workers -> [last : Nat, kept : SUBSET Entries]]
      /\ rejects' \in [Workers -> SUBSET Entries]
      /\ \A v \in Workers : /\ history'[v] = IF v = w THEN new ELSE history[v]
                            /\ rejects'[v] = IF v = w THEN rejects[v] \ {e} ELSE rejects[v]
  <2>1. history \in [Workers -> [last : Nat, kept : SUBSET Entries]]
    BY <1>1 DEF TypeInv
  <2>2. /\ history' \in [Workers -> [last : Nat, kept : SUBSET Entries]]
        /\ \A v \in Workers : history'[v] = IF v = w THEN new ELSE history[v]
    BY <1>3, <1>5, <2>1
  <2>3. rejects \in [Workers -> SUBSET Entries] /\ rejects' = [rejects EXCEPT ![w] = @ \ {e}]
    BY <1>0, <1>1 DEF TypeInv
  <2>4. /\ rejects' \in [Workers -> SUBSET Entries]
        /\ \A v \in Workers : rejects'[v] = IF v = w THEN rejects[v] \ {e} ELSE rejects[v]
    BY <2>3
  <2> QED BY <2>2, <2>4
<1>7. HistoryOK(new, rejects[w] \ {e})
  <2>1. IsFiniteSet(kept) /\ Cardinality(kept) <= maxSize
    <3>1. /\ IsFiniteSet(history[w].kept) /\ Cardinality(history[w].kept) <= maxSize
          /\ maxSize \in Nat
      BY <1>1, PushAssumption DEF HistoryOK
    <3>2. /\ IsFiniteSet(kept) /\ Cardinality(kept) <= Cardinality(history[w].kept)
      BY <1>4, <3>1, FS_Subset
    <3>3. Cardinality(kept) \in Nat /\ Cardinality(history[w].kept) \in Nat
      BY <3>1, <3>2, FS_CardinalityType
    <3> QED BY <3>1, <3>2, <3>3
  <2>2. \A x \in kept \cup (rejects[w] \ {e}) : x \in history[w].kept \cup rejects[w]
    BY <1>4
  <2> QED BY <1>1, <1>5, <2>1, <2>2 DEF HistoryOK
<1>8. conn[w] = "up"
  BY DEF Inv, NetInv
<1>9. NetInv'
  <2>1. \A v \in Workers : HistoryOK(history'[v], rejects'[v])
    BY <1>6, <1>7 DEF Inv, NetInv
  <2> QED BY <1>0, <1>6, <1>8, <2>1, NetNext DEF Inv, NetInv
<1>10. TypeInv'
  BY <1>0, <1>1, <1>2, <1>6 DEF TypeInv
<1>11. CountInv' /\ JobInv' /\ HandedInv'
  BY <1>0, <1>2, Frames DEF Inv, CountInv
<1> QED BY <1>2, <1>9, <1>10, <1>11 DEF Inv

\* A device subscribes: it has the data as they are.
LEMMA AddSubscriptionStep ==
  ASSUME Inv, NEW p \in Pairs, addSubscription(p)
  PROVE  Inv' /\ Kept
<1>0. /\ Event /\ dead' = dead \ {p[1]} /\ modified' = [modified EXCEPT ![p] = now]
      /\ told' = IF p \in subscribed THEN told ELSE [told EXCEPT ![p] = ver[p[2]]]
      /\ lost' = IF p \in subscribed THEN lost ELSE lost \ {p}
      /\ UNCHANGED <<ver, work, run, item, taken, staggering, conn, queue, outstanding, history>>
      /\ UNCHANGED <<rejects, now, reports, feedback>>
  BY DEF addSubscription, jobVars, netVars
<1>1. TypeInv /\ now \in Nat
  BY DEF Inv, TypeInv
<1>2. events' \in Nat /\ events' + ver'[Home] <= MaxEvents /\ now <= events'
  BY <1>0, Counted
<1>3. /\ modified' \in [Pairs -> Int]
      /\ \A q \in Pairs : modified'[q] = IF q = p THEN now ELSE modified[q]
  BY <1>0, <1>1 DEF TypeInv
<1>4. subscribed' = subscribed \cup {p}
  BY <1>1, <1>3 DEF subscribed
<1>5. \A q \in Pairs : ver[q[2]] \in Nat /\ told[q] \in Nat /\ told[q] <= ver[q[2]]
  BY <1>1, PairFacts DEF TypeInv, Inv, CountInv
<1>6. /\ told' \in [Pairs -> Nat]
      /\ \A q \in Pairs : told'[q] = IF q = p /\ p \notin subscribed THEN ver[q[2]] ELSE told[q]
  BY <1>0, <1>1, <1>5 DEF TypeInv
<1>7. TypeInv'
  BY <1>0, <1>1, <1>2, <1>3, <1>6 DEF TypeInv
<1>8. CountInv'
  BY <1>0, <1>2, <1>5, <1>6 DEF Inv, CountInv
<1>9. ClockInv'
  <2>1. \A q \in Pairs : -1 <= modified'[q] /\ modified'[q] <= now
    BY <1>1, <1>3 DEF Inv, ClockInv
  <2> QED BY <1>0, <1>2, <2>1 DEF ClockInv
<1>10. JobInv' /\ NetInv'
  BY <1>0, Frames DEF Inv
<1>11. HandedInv'
  <2>1. \A q \in subscribed' : (q \in subscribed /\ told'[q] = told[q]) \/ told'[q] = ver[q[2]]
    BY <1>4, <1>6, PairFacts
  <2>2. \A v \in Workers : /\ run'[v] = run[v] /\ item'[v] = item[v] /\ taken'[v] = taken[v]
                           /\ SameKey(item[v])' = SameKey(item[v])
    BY <1>0 DEF SameKey
  <2> QED BY <1>0, <2>1, <2>2, HandedStays DEF Inv
<1>12. Kept
  <2>1. CASE p \in subscribed
    <3>1. subscribed' = subscribed /\ UNCHANGED <<told, lost>>
      BY <1>0, <1>4, <2>1
    <3>2. Owed' = Owed
      BY <1>0, <3>1 DEF Owed, OwedIf
    <3> QED BY <1>0, <3>1, <3>2 DEF Kept
  <2>2. CASE p \notin subscribed
    <3>1. ASSUME NEW q PROVE (q \in Owed => q \in Owed') /\ (q \in Owed' => q \in Owed \cup {p})
      BY <1>0, <1>4, OwedMembers
    <3>2. Owed' \in {Owed, Owed \cup {p}}
      BY <3>1
    <3>3. Promise!Subscribe(p)
      BY <1>0, <1>4, <2>2, <3>2 DEF Promise!Subscribe
    <3> QED BY <3>3 DEF Kept, Promise!Next
  <2> QED BY <2>1, <2>2
<1> QED BY <1>7, <1>8, <1>9, <1>10, <1>11, <1>12 DEF Inv

-----------------------------------------------------------------------------
\* The theorems

\* Nothing has happened.
LEMMA InvInit ==
  ASSUME Init
  PROVE  Inv
<1>1. /\ ver \in [Keys -> Nat] /\ \A k \in Keys : ver[k] = 0
      /\ Home \in Keys /\ ver[Home] = 0 /\ MaxChanges \in Nat /\ MaxEvents \in Nat
  BY PushAssumption DEF Init
<1>2. modified \in [Pairs -> Int] /\ \A p \in Pairs : -1 <= modified[p] /\ modified[p] <= 0
  BY DEF Init
<1>3. NoFeedback \in Feedbacks /\ NewHistory \in [last : Nat, kept : SUBSET Entries]
  BY DEF NoFeedback, Feedbacks, NewHistory
<1>4. history = [w \in Workers |-> NewHistory]
  BY DEF Init, NewHistory
<1>5. TypeInv
  BY <1>1, <1>2, <1>3, <1>4 DEF Init, TypeInv
<1>6. CountInv
  BY <1>1, PairFacts DEF Init, CountInv
<1>7. ClockInv
  BY <1>2 DEF Init, ClockInv
<1>8. JobInv /\ HandedInv
  BY DEF Init, JobInv, HandedInv
<1>9. NetInv
  BY <1>4, NewOK DEF Init, NetInv
<1> QED BY <1>5, <1>6, <1>7, <1>8, <1>9 DEF Inv

\* Every step keeps the invariant and the promise.
LEMMA InvStep ==
  ASSUME Inv, [Next]_vars
  PROVE  Inv' /\ Kept
<1>1. ASSUME NEW k \in Keys, notify(k) PROVE Inv' /\ Kept
  BY <1>1, NotifyStep
<1>2. ASSUME NEW w \in Workers, Worker(w) PROVE Inv' /\ Kept
  BY <1>2, DoWorkStep, EnqueueStep, CommitJobStep, ConnectionMadeStep, SendStep DEF Worker
<1>3. ASSUME NEW w \in Workers, Fault(w) PROVE Inv' /\ Kept
  BY <1>3, FailJobStep, RestartStep, ConnectionLostStep DEF Fault
<1>4. CASE Subscription
  BY <1>4, AsideSteps, AddSubscriptionStep, ProcessErrorStep, DeleteSteps DEF Subscription
<1>5. CASE UNCHANGED vars
  <2>1. /\ UNCHANGED <<ver, work, run, item, taken, staggering, conn, queue, outstanding>>
        /\ UNCHANGED <<history, rejects, modified, now, dead, reports, feedback>>
        /\ UNCHANGED <<told, lost, events>>
    BY <1>5 DEF vars, jobVars, netVars, subVars, ghosts
  <2>2. Kept /\ subscribed' = subscribed
    BY <2>1, Quiet, Frames
  <2>3. TypeInv' /\ ClockInv' /\ events' + ver'[Home] <= MaxEvents
    BY <2>1 DEF Inv, TypeInv, CountInv, ClockInv
  <2> QED BY <2>1, <2>2, <2>3, Aside
<1> QED BY <1>1, <1>2, <1>3, <1>4, <1>5 DEF Next

\* The inductive invariant holds in every behaviour.
THEOREM InvHolds == Spec => []Inv
<1>1. Init => Inv
  BY InvInit
<1>2. Inv /\ [Next]_vars => Inv'
  BY InvStep
<1> QED BY <1>1, <1>2, PTL DEF Spec

\* The type invariant: the rows of a job stay in the table until it commits, and
\* no history is longer than maxSize.
THEOREM TypeCorrect == Spec => []TypeOK
<1>1. Inv => TypeOK
  <2> SUFFICES ASSUME Inv PROVE TypeOK
    OBVIOUS
  <2>1. TypeInv /\ CountInv /\ ClockInv /\ JobInv /\ NetInv
    BY DEF Inv
  <2>2. /\ ver \in [Keys -> Nat] /\ MaxChanges \in Nat /\ MaxEvents \in Nat /\ Home \in Keys
        /\ events \in Nat /\ now \in Nat
    BY <2>1, PushAssumption DEF TypeInv
  <2>3. \A k \in Keys : ver[k] \in 0..MaxChanges
    BY <2>1, <2>2 DEF CountInv
  <2>4. ver \in [Keys -> 0..MaxChanges]
    BY <2>2, <2>3
  <2>5. work \subseteq Keys \X (1..MaxChanges)
    <3> SUFFICES ASSUME NEW r \in work PROVE r \in Keys \X (1..MaxChanges)
      OBVIOUS
    <3>1. r \in Keys \X Nat /\ 1 <= r[2] /\ r[2] <= ver[r[1]]
      BY <2>1 DEF TypeInv, CountInv
    <3>2. r[2] \in 1..MaxChanges
      BY <2>2, <2>3, <3>1
    <3> QED BY <3>1, <3>2
  <2>6. ASSUME NEW w \in Workers
        PROVE  /\ IF run[w] = "idle" THEN item[w] = None
                  ELSE {item[w]} \cup taken[w] \subseteq work
               /\ Cardinality(history[w].kept) <= maxSize
    BY <2>1 DEF JobInv, SameKey, NetInv, HistoryOK
  <2>7. events <= MaxEvents /\ now \in 0..MaxEvents
    BY <2>1, <2>2 DEF CountInv, ClockInv
  <2>8. modified \in [Pairs -> -1..MaxEvents]
    <3>1. \A p \in Pairs : modified[p] \in -1..MaxEvents
      BY <2>1, <2>2, <2>7 DEF ClockInv, TypeInv
    <3> QED BY <2>1, <3>1 DEF TypeInv
  <2>9. told \in [Pairs -> 0..MaxChanges]
    <3>1. \A p \in Pairs : told[p] \in 0..MaxChanges
      BY <2>1, <2>2, <2>3, PairFacts DEF CountInv, TypeInv
    <3> QED BY <2>1, <3>1 DEF TypeInv
  <2> QED BY <2>1, <2>4, <2>5, <2>6, <2>7, <2>8, <2>9 DEF TypeOK, TypeInv
<1> QED BY <1>1, InvHolds, PTL

\* The safety part of PushPromise is implemented: a device that is owed a push is
\* owed it until it is told, leaves, or the push is counted as lost.
THEOREM Implements ==
  Spec => Promise!Init /\ [][Promise!Next]_<<ver, subscribed, told, Owed, lost>>
<1>1. Init => Promise!Init
  <2> SUFFICES ASSUME Init PROVE Promise!Init
    OBVIOUS
  <2>1. ASSUME NEW p PROVE p \notin Owed
    BY OwedMembers DEF Init, Held
  <2>2. Owed = {} /\ subscribed \in SUBSET Pairs
    BY <2>1, PairFacts
  <2> QED BY <2>2 DEF Init, Promise!Init
<1>2. Inv /\ [Next]_vars => [Promise!Next]_<<ver, subscribed, told, Owed, lost>>
  BY InvStep DEF Kept
<1> QED BY <1>1, <1>2, InvHolds, PTL DEF Spec

\* The promise forgets nothing.
LEMMA PromiseRemembers ==
  ASSUME TypeInv, TypeInv', NothingForgotten,
         Promise!Next \/ UNCHANGED <<ver, subscribed, told, Owed, lost>>
  PROVE  NothingForgotten'
<1>0. \A p \in Pairs : told[p] \in Nat /\ told'[p] \in Nat /\ ver[p[2]] \in Nat
  BY PairFacts DEF TypeInv
<1>1. subscribed \subseteq Pairs /\ \A p \in Pairs : p[2] \in Keys
  BY PairFacts
<1> SUFFICES ASSUME NEW p \in subscribed', told'[p] < ver'[p[2]]
             PROVE  p \in Owed' \cup lost'
  BY DEF NothingForgotten
<1>2. p \in Pairs
  BY DEF subscribed
<1>3. p \in subscribed /\ told[p] < ver[p[2]] => p \in Owed \cup lost
  BY DEF NothingForgotten
<1>4. ASSUME NEW K \in SUBSET Keys, Promise!Change(K) PROVE p \in Owed' \cup lost'
  <2>1. /\ ver' = [k \in Keys |-> IF k \in K THEN ver[k] + 1 ELSE ver[k]]
        /\ Owed' = Owed \cup {q \in subscribed : q[2] \in K}
        /\ lost' = lost \ {q \in subscribed : q[2] \in K}
        /\ subscribed' = subscribed /\ told' = told
    BY <1>4 DEF Promise!Change
  <2>2. CASE p[2] \in K
    BY <2>1, <2>2
  <2>3. CASE p[2] \notin K
    <3>1. ver'[p[2]] = ver[p[2]]
      BY <1>1, <1>2, <2>1, <2>3
    <3> QED BY <1>3, <2>1, <2>3, <3>1
  <2> QED BY <2>2, <2>3
<1>5. ASSUME NEW S \in SUBSET Pairs, Promise!Tell(S) PROVE p \in Owed' \cup lost'
  <2>1. /\ told' = [q \in Pairs |-> IF q \in S THEN ver[q[2]] ELSE told[q]]
        /\ lost' = lost \ S /\ \A q \in Owed \ Owed' : told'[q] = ver[q[2]]
        /\ ver' = ver /\ subscribed' = subscribed
    BY <1>5 DEF Promise!Tell
  <2>2. told'[p] # ver[p[2]]
    BY <1>0, <1>2, <2>1
  <2>3. p \notin S /\ told'[p] = told[p]
    BY <1>2, <2>1, <2>2
  <2> QED BY <1>3, <2>1, <2>2, <2>3
<1>6. ASSUME NEW D \in SUBSET Owed, NEW L \in SUBSET D, Promise!Drop(D, L)
      PROVE  p \in Owed' \cup lost'
  <2>1. /\ \A q \in D \ L : told[q] = ver[q[2]] \/ q \notin subscribed
        /\ Owed' = Owed \ D /\ lost' = lost \cup L
        /\ ver' = ver /\ subscribed' = subscribed /\ told' = told
    BY <1>6 DEF Promise!Drop
  <2>2. told[p] # ver[p[2]]
    BY <1>0, <1>2, <2>1
  <2> QED BY <1>3, <2>1, <2>2
<1>7. ASSUME NEW S \in SUBSET subscribed, Promise!Unsubscribe(S) PROVE p \in Owed' \cup lost'
  <2>1. /\ subscribed' = subscribed \ S /\ Owed \ S \subseteq Owed'
        /\ ver' = ver /\ told' = told /\ lost' = lost
    BY <1>7 DEF Promise!Unsubscribe
  <2> QED BY <1>3, <2>1
<1>8. ASSUME NEW q \in Pairs, Promise!Subscribe(q) PROVE p \in Owed' \cup lost'
  <2>1. /\ subscribed' = subscribed \cup {q} /\ told' = [told EXCEPT ![q] = ver[q[2]]]
        /\ Owed \subseteq Owed' /\ lost' = lost \ {q} /\ ver' = ver
    BY <1>8 DEF Promise!Subscribe
  <2>2. told'[p] # ver[p[2]]
    BY <1>0, <1>2, <2>1
  <2>3. p # q /\ told'[p] = told[p]
    BY <1>2, <2>1, <2>2 DEF TypeInv
  <2> QED BY <1>3, <2>1, <2>3
<1>9. ASSUME UNCHANGED <<ver, subscribed, told, Owed, lost>> PROVE p \in Owed' \cup lost'
  BY <1>3, <1>9
<1> QED BY <1>4, <1>5, <1>6, <1>7, <1>8, <1>9 DEF Promise!Next

\* A subscribed device that has not been told of the latest change has a push
\* coming, or its push was lost with the memory of a process.
THEOREM Remembered == Spec => []NothingForgotten
<1>1. Init => NothingForgotten
  <2> SUFFICES ASSUME Init, NEW p \in subscribed PROVE ~(told[p] < ver[p[2]])
    BY DEF NothingForgotten
  <2>1. p \in Pairs /\ p[2] \in Keys
    BY PairFacts
  <2> QED BY <2>1 DEF Init
<1>2. Inv /\ NothingForgotten /\ [Next]_vars => NothingForgotten'
  <2> SUFFICES ASSUME Inv, NothingForgotten, [Next]_vars PROVE NothingForgotten'
    OBVIOUS
  <2>1. Inv' /\ Kept
    BY InvStep
  <2>2. TypeInv /\ TypeInv'
    BY <2>1 DEF Inv
  <2> QED BY <2>1, <2>2, PromiseRemembers DEF Kept
<1> QED BY <1>1, <1>2, InvHolds, PTL DEF Spec

\* An error costs only the device it is about its subscriptions: on a connection
\* an identifier stands for one token, in the history and in the errors to come.
THEOREM RightToken == Spec => ErrorHitsItsToken
<1>1. ASSUME Inv, NEW w \in Workers, NEW e \in rejects[w], processError(w, e),
             NEW p \in Pairs, modified'[p] # modified[p]
      PROVE  p[1] = e[2]
  <2> DEFINE found == {x \in history[w].kept : x[1] = e[1]}
             gone == {q \in subscribed : \E x \in found : q[1] = x[2]}
  <2>1. DeleteRows(gone)
    BY <1>1 DEF processError
  <2>2. p \in gone
    BY <1>1, <2>1 DEF DeleteRows
  <2>3. PICK x \in history[w].kept : x[1] = e[1] /\ p[1] = x[2]
    BY <2>2
  <2>4. HistoryOK(history[w], rejects[w])
    BY <1>1 DEF Inv, NetInv
  <2>5. x = e
    BY <1>1, <2>3, <2>4 DEF HistoryOK
  <2> QED BY <2>3, <2>5
<1>2. Inv => [\A w \in Workers : \A e \in rejects[w] :
                processError(w, e) => \A p \in Pairs :
                   modified'[p] # modified[p] => p[1] = e[2]]_vars
  BY <1>1
<1> QED BY <1>2, InvHolds, PTL DEF ErrorHitsItsToken

\* Feedback leaves a device its subscription if it has subscribed since, unless it
\* did so after the rows were read.
THEOREM Resubscribed == Spec => ResubscribedStays
<1>1. ASSUME Inv, processFeedback, NEW p \in subscribed, modified[p] >= feedback.time,
             modified'[p] # modified[p]
      PROVE  \E x \in feedback.rows : x[1] = p /\ x[2] # modified[p]
  <2>1. p \in Pairs /\ modified[p] \in Int /\ feedback \in Feedbacks
    BY <1>1, PairFacts DEF Inv, TypeInv
  <2>2. DeleteRows(Outdated(feedback))
    BY <1>1 DEF processFeedback
  <2>3. p \in Outdated(feedback)
    BY <1>1, <2>1, <2>2 DEF DeleteRows
  <2>4. PICK y \in feedback.rows : feedback.time > y[2] /\ y[1] = p
    BY <2>3 DEF Outdated
  <2>5. y[2] \in Int /\ feedback.time \in Int
    BY <2>1 DEF Feedbacks
  <2>6. y[2] # modified[p]
    BY <1>1, <2>1, <2>4, <2>5
  <2> QED BY <2>4, <2>6
<1>2. Inv => [processFeedback =>
                \A p \in subscribed : modified[p] >= feedback.time
                  => \/ modified'[p] = modified[p]
                     \/ \E x \in feedback.rows : x[1] = p /\ x[2] # modified[p]]_vars
  BY <1>1
<1> QED BY <1>2, InvHolds, PTL DEF ResubscribedStays
=============================================================================
