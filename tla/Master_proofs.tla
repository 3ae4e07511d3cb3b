---------------------------- MODULE Master_proofs ----------------------------
(***************************************************************************)
(* Proofs about the two parts of the master process: ConnectionLimiter,    *)
(* for any finite set of worker slots, any limits, and any number of       *)
(* sockets and deaths, and ProcessMonitor (the last part).                 *)
(***************************************************************************)
EXTENDS ConnectionLimiter, ProcessMonitor, FiniteSetTheorems, TLAPS

Messages == {"0", "+", "-"}
Live == {"booting", "up", "draining"}

-----------------------------------------------------------------------------
\* Sums over the slots

Units(n) == UNION {{w} \X (1..n[w]) : w \in Workers}

\* The pairs that a sum counts.
LEMMA UnitsAre ==
  ASSUME NEW n \in [Workers -> Nat], NEW x
  PROVE  x \in Units(n) <=> \E w \in Workers : \E i \in 1..n[w] : x = <<w, i>>
BY DEF Units

\* There are finitely many of them.
LEMMA UnitsFinite ==
  ASSUME NEW n \in [Workers -> Nat]
  PROVE  IsFiniteSet(Units(n)) /\ Total(n) \in Nat /\ Total(n) = Cardinality(Units(n))
<1> DEFINE T == {{w} \X (1..n[w]) : w \in Workers}
           g == [w \in Workers |-> {w} \X (1..n[w])]
<1>1. g \in Surjection(Workers, T)
  BY DEF Surjection
<1>2. IsFiniteSet(T)
  BY <1>1, FS_Surjection, LimiterAssumption
<1>3. ASSUME NEW w \in Workers PROVE IsFiniteSet({w} \X (1..n[w]))
  <2>1. IsFiniteSet({w}) /\ IsFiniteSet(1..n[w])
    <3>1. 1 \in Int /\ n[w] \in Int
      OBVIOUS
    <3> QED BY <3>1, FS_Singleton, FS_Interval
  <2> QED BY <2>1, FS_Product
<1>4. \A S \in T : IsFiniteSet(S)
  BY <1>3
<1>5. IsFiniteSet(UNION T)
  <2> HIDE DEF T
  <2> QED BY <1>2, <1>4, FS_UNION
<1> QED BY <1>5, FS_CardinalityType DEF Total, Units

\* A sum is monotone in every summand ...
LEMMA TotalMonotone ==
  ASSUME NEW m \in [Workers -> Nat], NEW n \in [Workers -> Nat],
         \A w \in Workers : m[w] <= n[w]
  PROVE  Total(m) <= Total(n)
<1>1. Units(m) \subseteq Units(n)
  <2> SUFFICES ASSUME NEW x \in Units(m) PROVE x \in Units(n)
    OBVIOUS
  <2>1. PICK w \in Workers : \E i \in 1..m[w] : x = <<w, i>>
    BY UnitsAre
  <2>1a. PICK i \in 1..m[w] : x = <<w, i>>
    BY <2>1
  <2>2. i \in 1..n[w]
    OBVIOUS
  <2> QED BY <2>1a, <2>2, UnitsAre
<1> QED BY <1>1, UnitsFinite, FS_Subset

\* ... grows by one with a summand ...
LEMMA TotalIncrement ==
  ASSUME NEW m \in [Workers -> Nat], NEW n \in [Workers -> Nat], NEW w \in Workers,
         n[w] = m[w] + 1, \A v \in Workers \ {w} : n[v] = m[v]
  PROVE  Total(n) = Total(m) + 1
<1> DEFINE new == <<w, m[w] + 1>>
<1>1. new \notin Units(m)
  BY UnitsAre
<1>2. \A x : x \in Units(n) <=> x \in Units(m) \cup {new}
  <2> SUFFICES ASSUME NEW x PROVE x \in Units(n) <=> x \in Units(m) \cup {new}
    OBVIOUS
  <2>1. ASSUME x \in Units(n) PROVE x \in Units(m) \cup {new}
    <3>1. PICK v \in Workers : \E i \in 1..n[v] : x = <<v, i>>
      BY <2>1, UnitsAre
    <3>1a. PICK i \in 1..n[v] : x = <<v, i>>
      BY <3>1
    <3>2. i \in 1..m[v] \/ (v = w /\ i = m[w] + 1)
      OBVIOUS
    <3> QED BY <3>1a, <3>2, UnitsAre
  <2>2. ASSUME x \in Units(m) PROVE x \in Units(n)
    <3>1. PICK v \in Workers : \E i \in 1..m[v] : x = <<v, i>>
      BY <2>2, UnitsAre
    <3>1a. PICK i \in 1..m[v] : x = <<v, i>>
      BY <3>1
    <3>2. i \in 1..n[v]
      OBVIOUS
    <3> QED BY <3>1a, <3>2, UnitsAre
  <2>3. new \in Units(n)
    <3>1. m[w] + 1 \in 1..n[w]
      OBVIOUS
    <3> QED BY <3>1, UnitsAre
  <2> QED BY <2>1, <2>2, <2>3
<1>3. Units(n) = Units(m) \cup {new}
  BY <1>2
<1> QED BY <1>1, <1>3, UnitsFinite, FS_AddElement

\* ... and the sum of two is at most the sum of both.
LEMMA TotalAdds ==
  ASSUME NEW a \in [Workers -> Nat], NEW b \in [Workers -> Nat],
         NEW n \in [Workers -> Nat], \A w \in Workers : n[w] = a[w] + b[w]
  PROVE  Total(n) <= Total(a) + Total(b)
<1> DEFINE Upper == {x \in Units(n) : x \notin Units(a)}
           shift == [x \in Units(b) |-> <<x[1], a[x[1]] + x[2]>>]
           Image == {shift[x] : x \in Units(b)}
<1>1. IsFiniteSet(Image) /\ Cardinality(Image) <= Cardinality(Units(b))
  <2>1. shift \in Surjection(Units(b), Image)
    BY DEF Surjection
  <2> HIDE DEF shift, Image
  <2> QED BY <2>1, UnitsFinite, FS_Surjection
<1>2. Upper \in SUBSET Image
  <2> SUFFICES ASSUME NEW x \in Units(n), x \notin Units(a)
               PROVE  \E y \in Units(b) : x = shift[y]
    OBVIOUS
  <2>1. PICK w \in Workers : \E i \in 1..n[w] : x = <<w, i>>
    BY UnitsAre
  <2>1a. PICK i \in 1..n[w] : x = <<w, i>>
    BY <2>1
  <2>2. i \notin 1..a[w]
    BY <2>1a, UnitsAre
  <2>3. i - a[w] \in 1..b[w]
    BY <2>2
  <2>4. <<w, i - a[w]>> \in Units(b)
    BY <2>3, UnitsAre
  <2>5. a[w] + (i - a[w]) = i
    OBVIOUS
  <2>6. shift[<<w, i - a[w]>>] = <<w, a[w] + (i - a[w])>>
    BY <2>4
  <2> QED BY <2>1a, <2>4, <2>5, <2>6
<1>3. IsFiniteSet(Upper) /\ Cardinality(Upper) <= Cardinality(Image)
  BY <1>1, <1>2, FS_Subset
<1>4. Units(n) \in SUBSET (Units(a) \cup Upper)
  OBVIOUS
<1>5. /\ IsFiniteSet(Units(a) \cup Upper)
      /\ Cardinality(Units(a) \cup Upper) =
           Cardinality(Units(a)) + Cardinality(Upper) - Cardinality(Units(a) \cap Upper)
  BY <1>3, UnitsFinite, FS_Union
<1>6. Cardinality(Units(n)) <= Cardinality(Units(a) \cup Upper)
  BY <1>4, <1>5, FS_Subset
<1>7. /\ Cardinality(Upper) \in Nat /\ Cardinality(Image) \in Nat
      /\ Cardinality(Units(a) \cup Upper) \in Nat
      /\ Cardinality(Units(a) \cap Upper) \in Nat
  <2>1. IsFiniteSet(Units(a) \cap Upper)
    BY <1>3, FS_Intersection
  <2> QED BY <1>1, <1>3, <1>5, <2>1, FS_CardinalityType
<1> HIDE DEF Upper, shift, Image
<1>8. /\ Total(a) \in Nat /\ Total(a) = Cardinality(Units(a))
      /\ Total(b) \in Nat /\ Total(b) = Cardinality(Units(b))
      /\ Total(n) \in Nat /\ Total(n) = Cardinality(Units(n))
  BY UnitsFinite
<1> QED BY <1>1, <1>3, <1>5, <1>6, <1>7, <1>8

-----------------------------------------------------------------------------
\* The messages on their way

\* The larger of zero and a number, as adjust clamps the counters.
LEMMA MaxZero ==
  ASSUME NEW x \in Int
  PROVE  Max({0, x}) = IF x >= 0 THEN x ELSE 0
<1> DEFINE big == IF x >= 0 THEN x ELSE 0
<1>1. big \in {0, x} /\ \A y \in {0, x} : big >= y
  OBVIOUS
<1>2. \A z \in {0, x} : (\A y \in {0, x} : z >= y) => z = big
  OBVIOUS
<1> QED BY <1>1, <1>2 DEF Max

Places(ms, k, m) == {i \in (k + 1)..Len(ms) : ms[i] = m}

\* A count is a natural number.
LEMMA CountType ==
  ASSUME NEW ms \in Seq(Messages), NEW k \in Nat, NEW m
  PROVE  /\ IsFiniteSet(Places(ms, k, m))
         /\ CountAfter(ms, k, m) = Cardinality(Places(ms, k, m))
         /\ CountAfter(ms, k, m) \in Nat
<1>1. Places(ms, k, m) \in SUBSET ((k + 1)..Len(ms)) /\ IsFiniteSet((k + 1)..Len(ms))
  <2>1. k + 1 \in Int /\ Len(ms) \in Int
    OBVIOUS
  <2> QED BY <2>1, FS_Interval DEF Places
<1>2. IsFiniteSet(Places(ms, k, m))
  BY <1>1, FS_Subset
<1> QED BY <1>2, FS_CardinalityType DEF Places, CountAfter

\* Nothing comes after the last message.
LEMMA CountNone ==
  ASSUME NEW ms \in Seq(Messages), NEW m
  PROVE  CountAfter(ms, Len(ms), m) = 0
<1>1. Places(ms, Len(ms), m) = {}
  BY DEF Places
<1> QED BY <1>1, CountType, FS_EmptySet

\* A message that is reported counts in every suffix.
LEMMA CountAppend ==
  ASSUME NEW ms \in Seq(Messages), NEW x \in Messages, NEW m, NEW k \in 0..Len(ms)
  PROVE  CountAfter(Append(ms, x), k, m) =
           CountAfter(ms, k, m) + IF x = m THEN 1 ELSE 0
<1> DEFINE new == Append(ms, x)
<1>1. /\ new \in Seq(Messages) /\ Len(new) = Len(ms) + 1 /\ new[Len(ms) + 1] = x
      /\ \A i \in 1..Len(ms) : new[i] = ms[i]
  OBVIOUS
<1> HIDE DEF new
<1> SUFFICES CountAfter(new, k, m) = CountAfter(ms, k, m) + IF x = m THEN 1 ELSE 0
  BY DEF new
<1>0. k \in Nat
  OBVIOUS
<1>2. CASE x = m
  <2>1. Places(new, k, m) = Places(ms, k, m) \cup {Len(ms) + 1}
    BY <1>1, <1>2 DEF Places
  <2>2. Len(ms) + 1 \notin Places(ms, k, m)
    BY DEF Places
  <2> QED BY <1>0, <1>1, <1>2, <2>1, <2>2, CountType, FS_AddElement
<1>3. CASE x # m
  <2>1. Places(new, k, m) = Places(ms, k, m)
    BY <1>1, <1>3 DEF Places
  <2>2. CountAfter(new, k, m) = CountAfter(ms, k, m) /\ CountAfter(ms, k, m) \in Nat
    BY <1>0, <1>1, <2>1, CountType
  <2> QED BY <1>3, <2>2
<1> QED BY <1>2, <1>3

\* What a suffix has more than the next shorter one.
LEMMA CountStep ==
  ASSUME NEW ms \in Seq(Messages), NEW m, NEW k \in Nat, k < Len(ms)
  PROVE  CountAfter(ms, k, m) = CountAfter(ms, k + 1, m) + IF ms[k + 1] = m THEN 1 ELSE 0
<1>1. k + 1 \in Nat /\ k + 1 \notin Places(ms, k + 1, m)
  BY DEF Places
<1>2. CASE ms[k + 1] = m
  <2>1. Places(ms, k, m) = Places(ms, k + 1, m) \cup {k + 1}
    BY <1>2 DEF Places
  <2> QED BY <1>1, <1>2, <2>1, CountType, FS_AddElement
<1>3. CASE ms[k + 1] # m
  <2>1. Places(ms, k, m) = Places(ms, k + 1, m)
    BY <1>3 DEF Places
  <2> QED BY <1>1, <1>3, <2>1, CountType
<1> QED BY <1>2, <1>3

\* Reading the first message moves every suffix by one.
LEMMA CountTail ==
  ASSUME NEW ms \in Seq(Messages), ms # <<>>, NEW m, NEW k \in Nat
  PROVE  CountAfter(Tail(ms), k, m) = CountAfter(ms, k + 1, m)
<1> DEFINE new == Tail(ms)
           f == [i \in Places(new, k, m) |-> i + 1]
<1>1. /\ new \in Seq(Messages) /\ Len(new) = Len(ms) - 1
      /\ \A i \in 1..Len(new) : new[i] = ms[i + 1]
  OBVIOUS
<1> HIDE DEF new
<1>2. \A i \in Places(new, k, m) : i \in Nat /\ i + 1 \in Places(ms, k + 1, m)
  BY <1>1 DEF Places
<1>3. \A j \in Places(ms, k + 1, m) : j - 1 \in Places(new, k, m) /\ (j - 1) + 1 = j
  BY <1>1 DEF Places
<1>4. f \in Bijection(Places(new, k, m), Places(ms, k + 1, m))
  <2>1. f \in [Places(new, k, m) -> Places(ms, k + 1, m)]
    BY <1>2
  <2>2. \A a, b \in Places(new, k, m) : f[a] = f[b] => a = b
    BY <1>2
  <2>3. \A j \in Places(ms, k + 1, m) : \E i \in Places(new, k, m) : f[i] = j
    BY <1>3
  <2> HIDE DEF f
  <2> QED BY <2>1, <2>2, <2>3 DEF Bijection, Injection, Surjection, IsInjective
<1>5. ExistsBijection(Places(new, k, m), Places(ms, k + 1, m))
  BY <1>4 DEF ExistsBijection
<1>6. Cardinality(Places(ms, k + 1, m)) = Cardinality(Places(new, k, m))
  BY <1>1, <1>5, CountType, FS_Bijection
<1>7. CountAfter(new, k, m) = Cardinality(Places(new, k, m))
  BY <1>1, CountType
<1>8. CountAfter(ms, k + 1, m) = Cardinality(Places(ms, k + 1, m))
  BY CountType
<1> QED BY <1>6, <1>7, <1>8 DEF new

-----------------------------------------------------------------------------
\* The inductive invariant

\* The connections the process had when it had sent the first k messages: never
\* negative, because a "-" is sent only for a connection that it has.
Had(w, k) == conns[w] - CountAfter(msgs[w], k, "+") + CountAfter(msgs[w], k, "-")

\* What the master has on the books for the process in the slot.  As long as
\* messages of a dead process come first, none of the live one has been read.
BooksInv(w) ==
    /\ proc[w] \in Live =>
          /\ \A k \in stale[w]..Len(msgs[w]) : Had(w, k) >= 0
          /\ stale[w] > 0 =>
                Had(w, stale[w]) = 0 /\ status[w].acknowledged <= lateAcks[w]
          /\ stale[w] = 0 =>
                /\ status[w].acknowledged >= Had(w, stale[w])
                /\ status[w].acknowledged <= Had(w, stale[w]) + lateAcks[w]
    /\ proc[w] = "down" => status[w].acknowledged <= lateAcks[w]
    /\ proc[w] \in {"booting", "dead", "down"} =>
          stale[w] = Len(msgs[w]) /\ conns[w] = 0

\* A socket that is not acknowledged yet, or whose "+" has not been read, is on
\* the books, or was abandoned.
SentInv(w) ==
    pipe[w] + CountAfter(msgs[w], 0, "+")
       <= status[w].unacknowledged + status[w].abandoned

\* A slot whose process is booting is not dispatched to (but for a late "0").
BootInv(w) == proc[w] = "booting" => status[w].starting \/ lateReady[w]

\* Every "+" on its way finds a socket that the master still holds.
HeldInv(w) == held[w] >= pipe[w] + CountAfter(msgs[w], 0, "+")

SlotInv(w) == BooksInv(w) /\ SentInv(w) /\ BootInv(w) /\ HeldInv(w)

\* The port is read only below the limit.
ReadingInv == reading => Current(status) < MaxRequests

Inv ==
    /\ TypeOK
    /\ ReadingInv
    /\ LoadBounded
    /\ \A w \in Workers : SlotInv(w)

-----------------------------------------------------------------------------
\* Types

Status == [acknowledged : Nat, unacknowledged : Nat, abandoned : Nat,
           starting : BOOLEAN, stopped : BOOLEAN]

\* What adjust makes of a status.
LEMMA AdjustIs ==
  ASSUME NEW s \in Status, NEW da \in Int, NEW du \in Int
  PROVE  /\ adjust(s, da, du) \in Status
         /\ adjust(s, da, du).acknowledged =
              IF s.acknowledged + da >= 0 THEN s.acknowledged + da ELSE 0
         /\ adjust(s, da, du).unacknowledged =
              IF s.unacknowledged + du >= 0 THEN s.unacknowledged + du ELSE 0
         /\ adjust(s, da, du).abandoned = s.abandoned
         /\ adjust(s, da, du).starting = s.starting
         /\ adjust(s, da, du).stopped = s.stopped
<1> DEFINE a == Max({0, s.acknowledged + da})
           u == Max({0, s.unacknowledged + du})
<1>1. /\ a = IF s.acknowledged + da >= 0 THEN s.acknowledged + da ELSE 0
      /\ u = IF s.unacknowledged + du >= 0 THEN s.unacknowledged + du ELSE 0
      /\ a \in Nat /\ u \in Nat
  <2>1. s.acknowledged + da \in Int /\ s.unacknowledged + du \in Int
    BY DEF Status
  <2> QED BY <2>1, MaxZero
<1>2. adjust(s, da, du) = [s EXCEPT !.acknowledged = a, !.unacknowledged = u]
  BY DEF adjust
<1> HIDE DEF a, u
<1> QED BY <1>1, <1>2 DEF Status

\* What a status message makes of a status.
LEMMA MessageIs ==
  ASSUME NEW s \in Status, NEW m \in Messages
  PROVE  LET t == statusFromMessage(s, m) IN
         /\ t \in Status
         /\ t.acknowledged = IF m = "+" THEN s.acknowledged + 1
                             ELSE IF m = "-" /\ s.acknowledged > 0
                                  THEN s.acknowledged - 1 ELSE s.acknowledged
         /\ t.unacknowledged = IF m = "+" /\ s.unacknowledged > 0
                               THEN s.unacknowledged - 1 ELSE s.unacknowledged
         /\ t.abandoned = s.abandoned
         /\ t.starting = (s.starting /\ m # "0")
<1>1. CASE m = "+"
  <2>1. statusFromMessage(s, m) = adjust(s, 1, -1)
    BY <1>1 DEF statusFromMessage
  <2> QED BY <1>1, <2>1, AdjustIs DEF Status
<1>2. CASE m = "-"
  <2>1. statusFromMessage(s, m) = adjust(s, -1, 0)
    BY <1>2 DEF statusFromMessage
  <2> QED BY <1>2, <2>1, AdjustIs DEF Status
<1>3. CASE m = "0"
  <2>1. statusFromMessage(s, m) = restarted(s)
    BY <1>3 DEF statusFromMessage
  <2> QED BY <1>3, <2>1 DEF restarted, Status
<1> QED BY <1>1, <1>2, <1>3 DEF Messages

\* What a new connection makes of a status.
LEMMA NewConnectionIs ==
  ASSUME NEW s \in Status
  PROVE  LET t == newConnectionStatus(s) IN
         /\ t \in Status
         /\ t.acknowledged = s.acknowledged
         /\ t.unacknowledged = s.unacknowledged + 1
         /\ t.abandoned = s.abandoned
         /\ t.starting = s.starting
<1>1. newConnectionStatus(s) = adjust(s, 0, 1)
  BY DEF newConnectionStatus
<1>2. 0 \in Int /\ 1 \in Int /\ s.acknowledged \in Nat /\ s.unacknowledged \in Nat
  BY DEF Status
<1> QED BY <1>1, <1>2, AdjustIs

\* The status that each step of the master leaves has its type.
LEMMA StatusTyped ==
  ASSUME NEW s \in Status
  PROVE  start(s) \in Status /\ stop(s) \in Status /\ newConnectionStatus(s) \in Status
<1>1. newConnectionStatus(s) \in Status
  BY NewConnectionIs
<1>2. start(s) \in Status
  BY DEF start, Status
<1>3. stop(s) \in Status
  <2> DEFINE left == s.abandoned + s.unacknowledged
  <2>1. left \in Nat
    BY DEF Status
  <2> DEFINE t == [s EXCEPT !.acknowledged = 0, !.unacknowledged = 0, !.abandoned = left]
  <2>2. t \in Status
    BY <2>1 DEF Status
  <2>3. stop(s) = [t EXCEPT !.starting = FALSE, !.stopped = TRUE]
    BY DEF stop
  <2> HIDE DEF t
  <2> QED BY <2>2, <2>3 DEF Status
<1> QED BY <1>1, <1>2, <1>3

\* Every step keeps the types.
LEMMA TypeStep == TypeOK /\ [Next]_vars => TypeOK'
<1> SUFFICES ASSUME TypeOK, [Next]_vars PROVE TypeOK'
  OBVIOUS
<1>1. CASE UNCHANGED vars
  BY <1>1 DEF TypeOK, vars, masterVars, boundVars, lateVars
<1>2. ASSUME NEW w \in Workers, Step(w) PROVE TypeOK'
  <2>0. status \in [Workers -> Status] /\ status[w] \in Status
    BY DEF TypeOK, Status
  <2>a. ASSUME NEW s \in Status, SetStatus(w, s)
        PROVE  status' \in [Workers -> Status] /\ reading' \in BOOLEAN
    BY <2>0, <2>a DEF SetStatus, statusesChanged, Overloaded
  <2> USE DEF TypeOK, masterVars, boundVars, lateVars
  <2>1. CASE Accept(w)
    <3>1. status' \in [Workers -> Status] /\ reading' \in BOOLEAN
      BY <2>0, <2>1, <2>a, StatusTyped DEF Accept
    <3>2. accepted' \in 0..MaxSockets
      BY <2>1, LimiterAssumption DEF Accept
    <3>3. pipe' \in [Workers -> Nat] /\ held' \in [Workers -> Int]
      BY <2>1 DEF Accept
    <3> QED BY <2>1, <3>1, <3>2, <3>3 DEF Accept, Status
  <2>2. CASE StatusMessage(w)
    <3> DEFINE m == Head(msgs[w])
    <3>1. m \in Messages /\ Tail(msgs[w]) \in Seq(Messages)
          /\ Len(Tail(msgs[w])) = Len(msgs[w]) - 1
      BY <2>2 DEF StatusMessage, Messages
    <3>2. statusFromMessage(status[w], m) \in Status
      BY <2>0, <3>1, MessageIs
    <3>3. status' \in [Workers -> Status] /\ reading' \in BOOLEAN
      BY <2>2, <3>2, <2>a DEF StatusMessage
    <3>4. held' \in [Workers -> Int]
      BY <2>2 DEF StatusMessage, closeCountFromStatus
    <3>5. lateAcks' \in [Workers -> Nat] /\ lateReady' \in [Workers -> BOOLEAN]
      BY <2>2 DEF StatusMessage
    <3>6. Max({0, stale[w] - 1}) = IF stale[w] >= 1 THEN stale[w] - 1 ELSE 0
      <4>1. stale[w] - 1 \in Int /\ stale[w] \in Nat
        OBVIOUS
      <4>2. Max({0, stale[w] - 1}) = IF stale[w] - 1 >= 0 THEN stale[w] - 1 ELSE 0
        BY <4>1, MaxZero
      <4> QED BY <4>1, <4>2
    <3>7. stale' \in [Workers -> Nat] /\ \A v \in Workers : stale'[v] <= Len(msgs'[v])
      <4>1. /\ stale' = [stale EXCEPT ![w] = Max({0, stale[w] - 1})]
            /\ msgs' = [msgs EXCEPT ![w] = Tail(msgs[w])]
        BY <2>2 DEF StatusMessage
      <4>2. stale' \in [Workers -> Nat]
        BY <3>6, <4>1
      <4>3. stale'[w] <= Len(msgs'[w])
        BY <3>1, <3>6, <4>1
      <4>4. \A v \in Workers \ {w} : stale'[v] <= Len(msgs'[v])
        BY <4>1
      <4> QED BY <4>2, <4>3, <4>4
    <3>8. msgs' \in [Workers -> Seq(Messages)]
      BY <2>2, <3>1 DEF StatusMessage, Messages
    <3> QED BY <2>2, <3>3, <3>4, <3>5, <3>7, <3>8 DEF StatusMessage, Status, Messages
  <2>3. CASE ProcessEnded(w)
    <3>1. status' \in [Workers -> Status] /\ reading' \in BOOLEAN
      BY <2>0, <2>3, <2>a, StatusTyped DEF ProcessEnded
    <3> QED BY <2>3, <3>1 DEF ProcessEnded, Status
  <2>4. CASE StartProcess(w)
    <3>1. status' \in [Workers -> Status] /\ reading' \in BOOLEAN
      BY <2>0, <2>4, <2>a, StatusTyped DEF StartProcess
    <3> QED BY <2>4, <3>1 DEF StartProcess, Status
  <2>b. ASSUME NEW x \in Messages, reportStatus(w, x)
        PROVE  /\ msgs' \in [Workers -> Seq(Messages)]
               /\ \A v \in Workers : stale[v] <= Len(msgs'[v])
    <3>0. /\ msgs'[w] = Append(msgs[w], x) /\ msgs[w] \in Seq(Messages)
          /\ \A v \in Workers : v # w => msgs'[v] = msgs[v]
      BY <2>b DEF reportStatus, Messages
    <3>a. Len(msgs'[w]) = Len(msgs[w]) + 1 /\ Len(msgs[w]) \in Nat
      BY <3>0
    <3>1. \A v \in Workers : Len(msgs'[v]) >= Len(msgs[v]) /\ Len(msgs'[v]) \in Nat
      <4> SUFFICES ASSUME NEW v \in Workers
                   PROVE  Len(msgs'[v]) >= Len(msgs[v]) /\ Len(msgs'[v]) \in Nat
        OBVIOUS
      <4>1. CASE v = w
        <5> DEFINE n == Len(msgs[w])
                   l == Len(msgs'[w])
        <5>1. l = n + 1 /\ n \in Nat
          BY <3>a
        <5> HIDE DEF n, l
        <5>2. l >= n /\ l \in Nat
          BY <5>1
        <5> QED BY <4>1, <5>2 DEF n, l
      <4>2. CASE v # w
        <5>1. msgs'[v] = msgs[v] /\ Len(msgs[v]) \in Nat
          BY <3>0, <4>2
        <5> QED BY <5>1
      <4> QED BY <4>1, <4>2
    <3>2. msgs' \in [Workers -> Seq(Messages)]
      BY <2>b DEF reportStatus, Messages
    <3>3. \A v \in Workers : Len(msgs[v]) \in Nat
      OBVIOUS
    <3> QED BY SMTT(30), <3>1, <3>2, <3>3
  <2>5. CASE StartService(w)
    <3>1. /\ msgs' \in [Workers -> Seq(Messages)]
          /\ \A v \in Workers : stale[v] <= Len(msgs'[v])
      BY <2>5, <2>b DEF StartService, Messages
    <3> QED BY <2>5, <3>1 DEF StartService, Messages
  <2>6. CASE addConnectedChannel(w)
    <3>1. /\ msgs' \in [Workers -> Seq(Messages)]
          /\ \A v \in Workers : stale[v] <= Len(msgs'[v])
      BY <2>6, <2>b DEF addConnectedChannel, Messages
    <3>2. pipe' \in [Workers -> Nat] /\ conns' \in [Workers -> Nat]
      BY <2>6 DEF addConnectedChannel
    <3> QED BY <2>6, <3>1, <3>2 DEF addConnectedChannel, Messages
  <2>7. CASE TakeOverloaded(w)
    BY SMTT(30), <2>7 DEF TakeOverloaded
  <2>8. CASE removeConnectedChannel(w)
    <3>1. /\ msgs' \in [Workers -> Seq(Messages)]
          /\ \A v \in Workers : stale[v] <= Len(msgs'[v])
      BY <2>8, <2>b DEF removeConnectedChannel, Messages
    <3>2. conns' \in [Workers -> Nat]
      BY <2>8 DEF removeConnectedChannel
    <3> QED BY <2>8, <3>1, <3>2 DEF removeConnectedChannel, Messages
  <2>9. CASE StopService(w)
    BY SMTT(30), <2>9 DEF StopService
  <2>10. ASSUME Ends(w) PROVE TypeOK'
    BY SMTT(30), <2>10 DEF Ends
  <2> QED BY <1>2, <2>1, <2>2, <2>3, <2>4, <2>5, <2>6, <2>7, <2>8, <2>9, <2>10
          DEF Step, AllConnectionsClosed, Crash
<1> QED BY <1>1, <1>2 DEF Next

-----------------------------------------------------------------------------
\* The steps of one slot

\* Nothing of slot v changes.
Same(v) ==
    /\ status'[v] = status[v] /\ held'[v] = held[v] /\ pipe'[v] = pipe[v]
    /\ msgs'[v] = msgs[v] /\ proc'[v] = proc[v] /\ conns'[v] = conns[v]
    /\ stale'[v] = stale[v] /\ lateAcks'[v] = lateAcks[v] /\ lateReady'[v] = lateReady[v]

\* A step of one slot leaves the others alone.
LEMMA Elsewhere ==
  ASSUME TypeOK, NEW w \in Workers, Step(w), NEW v \in Workers, v # w
  PROVE  Same(v)
<1> USE DEF TypeOK, masterVars, boundVars, lateVars, Same
<1>1. ASSUME Accept(w) \/ ProcessEnded(w) \/ StartProcess(w) PROVE Same(v)
  BY <1>1 DEF Accept, ProcessEnded, StartProcess, SetStatus, statusesChanged
<1>2. ASSUME StatusMessage(w) PROVE Same(v)
  BY <1>2 DEF StatusMessage, SetStatus, statusesChanged
<1>3. ASSUME StartService(w) \/ addConnectedChannel(w) \/ removeConnectedChannel(w)
      PROVE  Same(v)
  BY <1>3 DEF StartService, addConnectedChannel, removeConnectedChannel, reportStatus
<1>4. ASSUME TakeOverloaded(w) \/ StopService(w) \/ Ends(w) PROVE Same(v)
  BY <1>4 DEF TakeOverloaded, StopService, Ends
<1> QED BY <1>1, <1>2, <1>3, <1>4 DEF Step, AllConnectionsClosed, Crash

\* A slot that does not change keeps its invariant.
LEMMA SlotFrame ==
  ASSUME NEW v \in Workers, SlotInv(v), Same(v)
  PROVE  SlotInv(v)'
BY DEF SlotInv, BooksInv, SentInv, BootInv, HeldInv, Had, Same

\* The types at one slot.
LEMMA SlotTypes ==
  ASSUME TypeOK, NEW w \in Workers
  PROVE  /\ status[w] \in Status /\ held[w] \in Int /\ pipe[w] \in Nat /\ conns[w] \in Nat
         /\ status[w].acknowledged \in Nat /\ status[w].unacknowledged \in Nat
         /\ status[w].abandoned \in Nat
         /\ status[w].starting \in BOOLEAN /\ status[w].stopped \in BOOLEAN
         /\ msgs[w] \in Seq(Messages) /\ Len(msgs[w]) \in Nat
         /\ stale[w] \in Nat /\ stale[w] <= Len(msgs[w])
         /\ proc[w] \in {"booting", "up", "draining", "dead", "down"}
         /\ lateAcks[w] \in Nat /\ lateReady[w] \in BOOLEAN
         /\ DOMAIN status = Workers /\ DOMAIN held = Workers /\ DOMAIN pipe = Workers
         /\ DOMAIN msgs = Workers /\ DOMAIN proc = Workers /\ DOMAIN conns = Workers
         /\ DOMAIN stale = Workers /\ DOMAIN lateAcks = Workers /\ DOMAIN lateReady = Workers
         /\ \A k \in Nat : /\ CountAfter(msgs[w], k, "+") \in Nat
                           /\ CountAfter(msgs[w], k, "-") \in Nat
                           /\ Had(w, k) \in Int
<1>1. /\ status[w] \in Status /\ held[w] \in Int /\ pipe[w] \in Nat /\ conns[w] \in Nat
      /\ stale[w] \in Nat /\ stale[w] <= Len(msgs[w])
      /\ proc[w] \in {"booting", "up", "draining", "dead", "down"}
      /\ lateAcks[w] \in Nat /\ lateReady[w] \in BOOLEAN
      /\ msgs[w] \in Seq(Messages)
  BY DEF TypeOK, Status, Messages
<1>2. /\ DOMAIN status = Workers /\ DOMAIN held = Workers /\ DOMAIN pipe = Workers
      /\ DOMAIN msgs = Workers /\ DOMAIN proc = Workers /\ DOMAIN conns = Workers
      /\ DOMAIN stale = Workers /\ DOMAIN lateAcks = Workers /\ DOMAIN lateReady = Workers
  BY DEF TypeOK
<1>3. Len(msgs[w]) \in Nat
  BY <1>1
<1>4. \A k \in Nat : /\ CountAfter(msgs[w], k, "+") \in Nat
                     /\ CountAfter(msgs[w], k, "-") \in Nat
  BY <1>1, CountType
<1>5. ASSUME NEW k \in Nat PROVE Had(w, k) \in Int
  <2> DEFINE c == conns[w]  p == CountAfter(msgs[w], k, "+")  q == CountAfter(msgs[w], k, "-")
  <2>1. c \in Int /\ p \in Int /\ q \in Int
    <3>1. p \in Nat /\ q \in Nat
      BY <1>4
    <3>2. c \in Nat
      BY <1>1
    <3> HIDE DEF c, p, q
    <3> QED BY <3>1, <3>2
  <2>2. Had(w, k) = c - p + q
    BY DEF Had
  <2> HIDE DEF c, p, q
  <2> QED BY <2>1, <2>2
<1>6. /\ status[w].acknowledged \in Nat /\ status[w].unacknowledged \in Nat
      /\ status[w].abandoned \in Nat
      /\ status[w].starting \in BOOLEAN /\ status[w].stopped \in BOOLEAN
  BY <1>1 DEF Status
<1> QED BY <1>1, <1>2, <1>3, <1>4, <1>5, <1>6

\* A socket is sent.
LEMMA AcceptSlot ==
  ASSUME TypeOK, NEW w \in Workers, SlotInv(w), Accept(w)
  PROVE  SlotInv(w)'
<1>1. /\ status'[w] = newConnectionStatus(status[w])
      /\ pipe'[w] = pipe[w] + 1 /\ held'[w] = held[w] + 1
      /\ UNCHANGED <<msgs, proc, conns, stale, lateAcks, lateReady>>
  BY SlotTypes DEF Accept, SetStatus, statusesChanged, lateVars
<1>2. /\ status'[w].acknowledged = status[w].acknowledged
      /\ status'[w].unacknowledged = status[w].unacknowledged + 1
      /\ status'[w].abandoned = status[w].abandoned
      /\ status'[w].starting = status[w].starting
  <2>1. status[w] \in Status
    BY SlotTypes
  <2> QED BY <1>1, <2>1, NewConnectionIs
<1>3. BooksInv(w)' /\ BootInv(w)'
  BY <1>1, <1>2 DEF SlotInv, BooksInv, BootInv, Had
<1>4. SentInv(w)' /\ HeldInv(w)'
  <2>1. /\ held[w] \in Int /\ pipe[w] \in Nat /\ CountAfter(msgs[w], 0, "+") \in Nat
        /\ status[w].unacknowledged \in Nat /\ status[w].abandoned \in Nat
    BY SlotTypes
  <2> QED BY <1>1, <1>2, <2>1 DEF SlotInv, SentInv, HeldInv
<1> QED BY <1>3, <1>4 DEF SlotInv

\* The death of a process is noted: what the dead process had is off the books.
LEMMA ProcessEndedSlot ==
  ASSUME TypeOK, NEW w \in Workers, SlotInv(w), ProcessEnded(w)
  PROVE  SlotInv(w)'
<1>1. /\ proc[w] = "dead" /\ proc'[w] = "down" /\ status'[w] = stop(status[w])
      /\ UNCHANGED <<held, pipe, msgs, conns, stale, lateAcks, lateReady>>
  BY SlotTypes DEF ProcessEnded, SetStatus, statusesChanged, lateVars
<1>2. /\ status[w].unacknowledged \in Nat /\ status[w].abandoned \in Nat
      /\ status[w] \in Status /\ lateAcks[w] \in Nat
  BY SlotTypes
<1>3. /\ status'[w].acknowledged = 0 /\ status'[w].unacknowledged = 0
      /\ status'[w].abandoned = status[w].abandoned + status[w].unacknowledged
  BY <1>1, <1>2 DEF stop, Status
<1>4. SentInv(w)'
  BY <1>1, <1>2, <1>3 DEF SlotInv, SentInv
<1> QED BY <1>1, <1>2, <1>3, <1>4 DEF SlotInv, BooksInv, BootInv, HeldInv, Live

\* A process is started: it has no connections, and no message of its own.
LEMMA StartProcessSlot ==
  ASSUME TypeOK, NEW w \in Workers, SlotInv(w), StartProcess(w)
  PROVE  SlotInv(w)'
<1>1. /\ proc[w] = "down" /\ proc'[w] = "booting" /\ status'[w] = start(status[w])
      /\ UNCHANGED <<held, pipe, msgs, conns, stale, lateAcks>>
  BY SlotTypes DEF StartProcess, SetStatus, statusesChanged
<1>2. /\ status[w] \in Status /\ status[w].acknowledged \in Nat /\ lateAcks[w] \in Nat
      /\ msgs[w] \in Seq(Messages) /\ Len(msgs[w]) \in Nat
  BY SlotTypes
<1>3. /\ status'[w].acknowledged = status[w].acknowledged
      /\ status'[w].unacknowledged = status[w].unacknowledged
      /\ status'[w].abandoned = status[w].abandoned
      /\ status'[w].starting
  BY <1>1, <1>2 DEF start, Status
<1>4. /\ stale[w] = Len(msgs[w]) /\ conns[w] = 0 /\ status[w].acknowledged <= lateAcks[w]
  BY <1>1 DEF SlotInv, BooksInv
<1>5. Had(w, Len(msgs[w])) = 0
  <2>1. CountAfter(msgs[w], Len(msgs[w]), "+") = 0 /\ CountAfter(msgs[w], Len(msgs[w]), "-") = 0
    BY <1>2, CountNone
  <2> QED BY <1>4, <2>1 DEF Had
<1>6. \A k : Had(w, k)' = Had(w, k)
  BY <1>1 DEF Had
<1>7. BooksInv(w)'
  <2>1. \A k \in stale[w]..Len(msgs[w]) : k = Len(msgs[w])
    BY <1>2, <1>4
  <2>2. stale'[w] = stale[w] /\ msgs'[w] = msgs[w] /\ conns'[w] = conns[w]
        /\ lateAcks'[w] = lateAcks[w]
    BY <1>1
  <2>3. \A k \in stale'[w]..Len(msgs'[w]) : Had(w, k)' >= 0
    BY <1>4, <1>5, <1>6, <2>1, <2>2
  <2>4. Had(w, stale[w])' = 0
    BY <1>4, <1>5, <2>2 DEF Had
  <2> QED BY <1>1, <1>2, <1>3, <1>4, <2>2, <2>3, <2>4 DEF BooksInv
<1> QED BY <1>1, <1>3, <1>7 DEF SlotInv, SentInv, BootInv, HeldInv

\* A process sends a message: the connections it had after each of the earlier
\* messages are the same.
LEMMA ReportKeepsHad ==
  ASSUME TypeOK, NEW w \in Workers, NEW x \in Messages, reportStatus(w, x),
         conns'[w] = IF x = "+" THEN conns[w] + 1
                     ELSE IF x = "-" THEN conns[w] - 1 ELSE conns[w]
  PROVE  /\ \A k \in 0..Len(msgs[w]) : Had(w, k)' = Had(w, k)
         /\ Had(w, Len(msgs[w]))' = conns'[w]
         /\ Len(msgs'[w]) = Len(msgs[w]) + 1
         /\ CountAfter(msgs'[w], 0, "+") =
               CountAfter(msgs[w], 0, "+") + IF x = "+" THEN 1 ELSE 0
<1>0. msgs[w] \in Seq(Messages) /\ conns[w] \in Nat /\ Len(msgs[w]) \in Nat
  BY SlotTypes
<1>1. msgs'[w] = Append(msgs[w], x)
  BY SlotTypes DEF reportStatus
<1>2. msgs'[w] \in Seq(Messages) /\ Len(msgs'[w]) = Len(msgs[w]) + 1
  BY <1>0, <1>1
<1>3. ASSUME NEW k \in 0..Len(msgs[w]) PROVE Had(w, k)' = Had(w, k)
  <2>1. /\ CountAfter(msgs'[w], k, "+") =
             CountAfter(msgs[w], k, "+") + IF x = "+" THEN 1 ELSE 0
        /\ CountAfter(msgs'[w], k, "-") =
             CountAfter(msgs[w], k, "-") + IF x = "-" THEN 1 ELSE 0
    BY <1>0, <1>1, CountAppend
  <2>2. CountAfter(msgs[w], k, "+") \in Nat /\ CountAfter(msgs[w], k, "-") \in Nat
    BY <1>0, CountType
  <2> QED BY <1>0, <2>1, <2>2 DEF Had
<1>4. Had(w, Len(msgs[w]))' = conns'[w]
  <2>1. /\ CountAfter(msgs'[w], Len(msgs'[w]), "+") = 0
        /\ CountAfter(msgs'[w], Len(msgs'[w]), "-") = 0
    BY <1>2, CountNone
  <2>2. conns'[w] \in Int
    BY <1>0
  <2> QED BY <2>1, <2>2 DEF Had
<1>5. CountAfter(msgs'[w], 0, "+") = CountAfter(msgs[w], 0, "+") + IF x = "+" THEN 1 ELSE 0
  BY <1>0, <1>1, CountAppend
<1> QED BY <1>2, <1>3, <1>4, <1>5

\* The books still agree with what the process has reported.
LEMMA ReportSlot ==
  ASSUME TypeOK, NEW w \in Workers, SlotInv(w), NEW x \in Messages, reportStatus(w, x),
         conns'[w] = IF x = "+" THEN conns[w] + 1
                     ELSE IF x = "-" THEN conns[w] - 1 ELSE conns[w],
         conns'[w] >= 0, proc[w] \in Live, proc'[w] \in {"up", "draining"},
         UNCHANGED <<status, stale, lateAcks>>
  PROVE  BooksInv(w)'
<1>0. /\ stale[w] \in Nat /\ stale[w] <= Len(msgs[w]) /\ Len(msgs[w]) \in Nat
  BY SlotTypes
<1>1. /\ \A k \in 0..Len(msgs[w]) : Had(w, k)' = Had(w, k)
      /\ Had(w, Len(msgs[w]))' = conns'[w]
      /\ Len(msgs'[w]) = Len(msgs[w]) + 1
  BY ReportKeepsHad
<1>2. ASSUME NEW k \in stale'[w]..Len(msgs'[w]) PROVE Had(w, k)' >= 0
  <2>1. CASE k \in stale[w]..Len(msgs[w])
    <3>1. Had(w, k)' = Had(w, k) /\ Had(w, k) >= 0
      BY <1>0, <1>1, <2>1 DEF SlotInv, BooksInv
    <3> QED BY <3>1
  <2>2. CASE k = Len(msgs'[w])
    BY <1>1, <2>2 DEF Had
  <2> QED BY <1>0, <1>1, <2>1, <2>2
<1>3. Had(w, stale[w])' = Had(w, stale[w])
  <2>1. stale[w] \in 0..Len(msgs[w]) /\ stale'[w] = stale[w]
    BY <1>0
  <2> QED BY <1>1, <2>1 DEF Had
<1> QED BY <1>2, <1>3 DEF SlotInv, BooksInv, Live

\* A process reports that it is ready.
LEMMA StartServiceSlot ==
  ASSUME TypeOK, NEW w \in Workers, SlotInv(w), StartService(w)
  PROVE  SlotInv(w)'
<1>1. /\ proc[w] = "booting" /\ proc'[w] = "up" /\ reportStatus(w, "0") /\ "0" \in Messages
      /\ UNCHANGED <<status, held, pipe, conns, stale, lateAcks, lateReady>>
  BY SlotTypes DEF StartService, masterVars, lateVars, Messages
<1>2. conns[w] \in Nat /\ conns'[w] = conns[w]
  BY <1>1, SlotTypes
<1>3. BooksInv(w)'
  BY <1>1, <1>2, ReportSlot DEF Live
<1>4. CountAfter(msgs'[w], 0, "+") = CountAfter(msgs[w], 0, "+")
  <2>1. CountAfter(msgs'[w], 0, "+") = CountAfter(msgs[w], 0, "+") + 0
    BY <1>1, <1>2, ReportKeepsHad
  <2>2. CountAfter(msgs[w], 0, "+") \in Nat
    BY SlotTypes
  <2> QED BY <2>1, <2>2
<1> QED BY <1>1, <1>3, <1>4 DEF SlotInv, SentInv, BootInv, HeldInv

\* A process takes a socket: its "+" takes the socket's place.
LEMMA AddSlot ==
  ASSUME TypeOK, NEW w \in Workers, SlotInv(w), addConnectedChannel(w)
  PROVE  SlotInv(w)'
<1>1. /\ proc[w] = "up" /\ proc'[w] = "up" /\ reportStatus(w, "+") /\ "+" \in Messages
      /\ conns'[w] = conns[w] + 1 /\ pipe'[w] = pipe[w] - 1
      /\ UNCHANGED <<status, held, stale, lateAcks, lateReady>>
  BY SlotTypes DEF addConnectedChannel, masterVars, lateVars, Messages
<1>2. conns[w] \in Nat /\ pipe[w] \in Nat /\ CountAfter(msgs[w], 0, "+") \in Nat
  BY SlotTypes
<1>3. BooksInv(w)'
  BY <1>1, <1>2, ReportSlot DEF Live
<1>4. CountAfter(msgs'[w], 0, "+") = CountAfter(msgs[w], 0, "+") + 1
  BY <1>1, <1>2, ReportKeepsHad
<1>5. pipe'[w] + CountAfter(msgs'[w], 0, "+") = pipe[w] + CountAfter(msgs[w], 0, "+")
  BY <1>1, <1>2, <1>4
<1> QED BY <1>1, <1>3, <1>5 DEF SlotInv, SentInv, BootInv, HeldInv

\* A connection is closed: the process had it.
LEMMA RemoveSlot ==
  ASSUME TypeOK, NEW w \in Workers, SlotInv(w), removeConnectedChannel(w)
  PROVE  SlotInv(w)'
<1>1. /\ proc[w] \in {"up", "draining"} /\ proc'[w] = proc[w]
      /\ reportStatus(w, "-") /\ "-" \in Messages
      /\ conns'[w] = conns[w] - 1 /\ conns[w] > 0
      /\ UNCHANGED <<status, held, pipe, stale, lateAcks, lateReady>>
  BY SlotTypes DEF removeConnectedChannel, masterVars, lateVars, Messages
<1>2. conns[w] \in Nat /\ CountAfter(msgs[w], 0, "+") \in Nat
  BY SlotTypes
<1>3. BooksInv(w)'
  BY <1>1, <1>2, ReportSlot DEF Live
<1>4. CountAfter(msgs'[w], 0, "+") = CountAfter(msgs[w], 0, "+")
  <2>1. CountAfter(msgs'[w], 0, "+") = CountAfter(msgs[w], 0, "+") + 0
    BY <1>1, <1>2, ReportKeepsHad
  <2> QED BY <1>2, <2>1
<1> QED BY <1>1, <1>3, <1>4 DEF SlotInv, SentInv, BootInv, HeldInv

\* A socket is taken that the process has no channel for.
LEMMA TakeOverloadedSlot ==
  ASSUME TypeOK, NEW w \in Workers, SlotInv(w), TakeOverloaded(w)
  PROVE  SlotInv(w)'
<1>1. /\ pipe'[w] = pipe[w] - 1
      /\ UNCHANGED <<status, held, msgs, proc, conns, stale, lateAcks, lateReady>>
  BY SlotTypes DEF TakeOverloaded, masterVars, lateVars
<1>2. /\ pipe[w] \in Nat /\ CountAfter(msgs[w], 0, "+") \in Nat /\ held[w] \in Int
      /\ status[w].unacknowledged \in Nat /\ status[w].abandoned \in Nat
  BY SlotTypes
<1>3. SentInv(w)' /\ HeldInv(w)'
  BY <1>1, <1>2 DEF SlotInv, SentInv, HeldInv
<1> QED BY <1>1, <1>3 DEF SlotInv, BooksInv, BootInv, Had

\* A process is told to stop.
LEMMA StopServiceSlot ==
  ASSUME TypeOK, NEW w \in Workers, SlotInv(w), StopService(w)
  PROVE  SlotInv(w)'
<1>1. /\ proc[w] = "up" /\ proc'[w] = "draining"
      /\ UNCHANGED <<status, held, pipe, msgs, conns, stale, lateAcks, lateReady>>
  BY SlotTypes DEF StopService, masterVars, lateVars
<1> QED BY <1>1 DEF SlotInv, SentInv, HeldInv, BooksInv, BootInv, Had, Live

\* A process ends: all its messages are those of a dead process.
LEMMA EndsSlot ==
  ASSUME TypeOK, NEW w \in Workers, SlotInv(w), Ends(w)
  PROVE  SlotInv(w)'
<1>1. /\ proc'[w] = "dead" /\ conns'[w] = 0 /\ stale'[w] = Len(msgs[w])
      /\ UNCHANGED <<status, held, pipe, msgs, lateAcks, lateReady>>
  BY SlotTypes DEF Ends, masterVars, lateVars
<1> QED BY <1>1 DEF SlotInv, SentInv, HeldInv, BooksInv, BootInv, Live

\* A message is read: every suffix moves by one, and the books follow.
LEMMA StatusMessageSlot ==
  ASSUME TypeOK, NEW w \in Workers, SlotInv(w), StatusMessage(w)
  PROVE  SlotInv(w)'
<1> DEFINE m == Head(msgs[w])
           late == stale[w] > 0 /\ proc[w] # "dead"
<1>0. /\ status[w] \in Status /\ held[w] \in Int /\ pipe[w] \in Nat /\ conns[w] \in Nat
      /\ status[w].acknowledged \in Nat /\ status[w].unacknowledged \in Nat
      /\ status[w].abandoned \in Nat /\ status[w].starting \in BOOLEAN
      /\ msgs[w] \in Seq(Messages) /\ Len(msgs[w]) \in Nat /\ lateReady[w] \in BOOLEAN
      /\ stale[w] \in Nat /\ stale[w] <= Len(msgs[w]) /\ lateAcks[w] \in Nat
  BY SlotTypes
<1>1. /\ msgs[w] # <<>> /\ msgs'[w] = Tail(msgs[w])
      /\ status'[w] = statusFromMessage(status[w], m)
      /\ held'[w] = held[w] - (IF m = "+" THEN 1 ELSE 0)
      /\ lateAcks'[w] = lateAcks[w] + (IF m = "+" /\ late THEN 1 ELSE 0)
      /\ lateReady'[w] = (lateReady[w] \/ (m = "0" /\ late))
      /\ stale'[w] = Max({0, stale[w] - 1})
      /\ UNCHANGED <<pipe, proc, conns>>
  BY SlotTypes DEF StatusMessage, SetStatus, statusesChanged, closeCountFromStatus
<1>2. /\ m \in Messages /\ m = msgs[w][1] /\ Len(msgs[w]) > 0
      /\ Len(msgs'[w]) = Len(msgs[w]) - 1
  BY <1>0, <1>1
<1>3. stale'[w] = IF stale[w] > 0 THEN stale[w] - 1 ELSE 0
  <2>1. stale[w] - 1 \in Int
    BY <1>0
  <2>2. Max({0, stale[w] - 1}) = IF stale[w] - 1 >= 0 THEN stale[w] - 1 ELSE 0
    BY <2>1, MaxZero
  <2> QED BY <1>0, <1>1, <2>2
<1> HIDE DEF m
<1>4. /\ status'[w].acknowledged = IF m = "+" THEN status[w].acknowledged + 1
                                   ELSE IF m = "-" /\ status[w].acknowledged > 0
                                        THEN status[w].acknowledged - 1
                                        ELSE status[w].acknowledged
      /\ status'[w].unacknowledged = IF m = "+" /\ status[w].unacknowledged > 0
                                     THEN status[w].unacknowledged - 1
                                     ELSE status[w].unacknowledged
      /\ status'[w].abandoned = status[w].abandoned
      /\ status'[w].starting = (status[w].starting /\ m # "0")
  BY SMTT(30), <1>0, <1>1, <1>2, MessageIs
<1>5. \A k \in Nat : /\ CountAfter(msgs'[w], k, "+") = CountAfter(msgs[w], k + 1, "+")
                     /\ CountAfter(msgs'[w], k, "-") = CountAfter(msgs[w], k + 1, "-")
  BY <1>0, <1>1, CountTail
<1>6. /\ CountAfter(msgs[w], 0, "+") =
           CountAfter(msgs[w], 1, "+") + IF m = "+" THEN 1 ELSE 0
      /\ CountAfter(msgs[w], 0, "-") =
           CountAfter(msgs[w], 1, "-") + IF m = "-" THEN 1 ELSE 0
  <2>1. 0 \in Nat /\ 0 < Len(msgs[w]) /\ 0 + 1 = 1
    BY <1>0, <1>2
  <2>2. \A x : CountAfter(msgs[w], 0, x) =
                 CountAfter(msgs[w], 0 + 1, x) + IF msgs[w][0 + 1] = x THEN 1 ELSE 0
    BY <1>0, <2>1, CountStep
  <2> QED BY <1>2, <2>1, <2>2
<1>7. /\ CountAfter(msgs[w], 0, "+") \in Nat /\ CountAfter(msgs[w], 1, "+") \in Nat
      /\ CountAfter(msgs[w], 0, "-") \in Nat /\ CountAfter(msgs[w], 1, "-") \in Nat
  BY <1>0, CountType
<1>8. CountAfter(msgs'[w], 0, "+") = CountAfter(msgs[w], 0, "+") - IF m = "+" THEN 1 ELSE 0
  BY <1>5, <1>6, <1>7
<1>9. SentInv(w)' /\ HeldInv(w)'
  <2>1. CASE m = "+"
    <3>1. CountAfter(msgs'[w], 0, "+") = CountAfter(msgs[w], 0, "+") - 1
          /\ held'[w] = held[w] - 1 /\ pipe'[w] = pipe[w]
      BY <1>1, <1>8, <2>1
    <3>2. HeldInv(w)'
      BY <1>0, <1>7, <3>1 DEF SlotInv, HeldInv
    <3>3. /\ status'[w].abandoned = status[w].abandoned
          /\ status'[w].unacknowledged = IF status[w].unacknowledged > 0
                THEN status[w].unacknowledged - 1 ELSE status[w].unacknowledged
      BY <1>4, <2>1
    <3>4. SentInv(w)'
      <4>1. CountAfter(msgs[w], 0, "+") >= 1
        BY <1>6, <1>7, <2>1
      <4>2. pipe[w] + CountAfter(msgs[w], 0, "+")
              <= status[w].unacknowledged + status[w].abandoned
        BY DEF SlotInv, SentInv
      <4>3. CASE status[w].unacknowledged > 0
        <5>1. status'[w].unacknowledged = status[w].unacknowledged - 1
          BY <3>3, <4>3
        <5>2. /\ pipe[w] \in Nat /\ CountAfter(msgs[w], 0, "+") \in Nat
              /\ status[w].unacknowledged \in Nat /\ status[w].abandoned \in Nat
          BY <1>0, <1>7
        <5> QED BY <3>1, <3>3, <4>2, <5>1, <5>2 DEF SentInv
      <4>4. CASE status[w].unacknowledged = 0
        BY SMTT(30), <1>0, <1>7, <3>1, <3>3, <4>1, <4>2, <4>4 DEF SentInv
      <4> QED BY <1>0, <4>3, <4>4
    <3> QED BY <3>2, <3>4
  <2>2. CASE m # "+"
    BY <1>0, <1>1, <1>4, <1>7, <1>8, <2>2 DEF SlotInv, SentInv, HeldInv
  <2> QED BY <2>1, <2>2
<1>10. BootInv(w)'
  <2> SUFFICES ASSUME proc[w] = "booting", m = "0" PROVE lateReady'[w]
    BY <1>1, <1>4 DEF SlotInv, BootInv
  <2>1. stale[w] = Len(msgs[w])
    BY DEF SlotInv, BooksInv
  <2> QED BY <1>0, <1>1, <1>2, <2>1
<1>11. \A k \in Nat : Had(w, k)' = Had(w, k + 1)
  BY <1>1, <1>5 DEF Had
<1>12. \A k \in Nat : Had(w, k) \in Int
  BY SlotTypes
<1>13. Had(w, 0) = Had(w, 1) + (IF m = "-" THEN 1 ELSE 0) - (IF m = "+" THEN 1 ELSE 0)
  <2>1. CASE m = "+"
    <3>1. /\ CountAfter(msgs[w], 0, "+") = CountAfter(msgs[w], 1, "+") + 1
          /\ CountAfter(msgs[w], 0, "-") = CountAfter(msgs[w], 1, "-")
      BY <1>6, <1>7, <2>1
    <3>2. m # "-"
      BY <2>1
    <3> QED BY SMTT(30), <1>0, <1>7, <2>1, <3>1, <3>2 DEF Had
  <2>2. CASE m = "-"
    <3>1. /\ CountAfter(msgs[w], 0, "-") = CountAfter(msgs[w], 1, "-") + 1
          /\ CountAfter(msgs[w], 0, "+") = CountAfter(msgs[w], 1, "+")
      BY <1>6, <1>7, <2>2
    <3>2. m # "+"
      BY <2>2
    <3>3. /\ conns[w] \in Nat
          /\ CountAfter(msgs[w], 1, "+") \in Nat /\ CountAfter(msgs[w], 1, "-") \in Nat
      BY <1>0, <1>7
    <3>4. Had(w, 0) = Had(w, 1) + 1
      BY <3>1, <3>3 DEF Had
    <3>5. Had(w, 1) \in Int
      BY <1>12
    <3> QED BY <2>2, <3>2, <3>4, <3>5
  <2>3. CASE m # "+" /\ m # "-"
    BY <1>0, <1>6, <1>7, <2>3 DEF Had
  <2> QED BY <2>1, <2>2, <2>3
<1>14. CASE proc[w] \in Live
  <2>1. ASSUME NEW k \in stale'[w]..Len(msgs'[w]) PROVE Had(w, k)' >= 0
    <3>1. k \in Nat /\ k + 1 \in stale[w]..Len(msgs[w])
      BY <1>0, <1>2, <1>3
    <3> QED BY <1>11, <1>14, <3>1 DEF SlotInv, BooksInv
  <2>2. CASE stale[w] > 0
    <3>1. /\ Had(w, stale[w]) = 0 /\ status[w].acknowledged <= lateAcks[w]
          /\ stale[w] - 1 \in Nat /\ (stale[w] - 1) + 1 = stale[w] /\ late
      BY <1>0, <1>14, <2>2 DEF SlotInv, BooksInv, Live
    <3>2. stale'[w] = stale[w] - 1 /\ stale'[w] \in Nat /\ stale'[w] + 1 = stale[w]
      BY <1>3, <2>2, <3>1
    <3>3. Had(w, stale[w])' = Had(w, stale[w])
      BY <1>1, <1>5, <3>2 DEF Had
    <3>4. status'[w].acknowledged <= lateAcks'[w] /\ status'[w].acknowledged >= 0
      BY <1>0, <1>1, <1>4, <3>1
    <3>5. lateAcks'[w] \in Nat /\ status'[w].acknowledged \in Nat
      BY <1>0, <1>1, <1>4
    <3>6. proc[w] = "booting" => stale'[w] = Len(msgs'[w]) /\ conns'[w] = 0
      BY <1>0, <1>1, <1>2, <3>2 DEF SlotInv, BooksInv
    <3>7. BooksInv(w)'
      <4>1. proc'[w] = proc[w] /\ proc'[w] \in Live
        BY <1>1, <1>14
      <4>2. Had(w, stale[w])' = 0
        BY <3>1, <3>3
      <4>3. /\ status'[w].acknowledged >= Had(w, stale[w])'
            /\ status'[w].acknowledged <= Had(w, stale[w])' + lateAcks'[w]
        BY <3>4, <3>5, <4>2
      <4> QED BY <2>1, <3>4, <3>6, <4>1, <4>2, <4>3 DEF BooksInv, Live
    <3> QED BY <1>9, <1>10, <3>7 DEF SlotInv
  <2>3. CASE stale[w] = 0
    <3>1. /\ status[w].acknowledged >= Had(w, 0)
          /\ status[w].acknowledged <= Had(w, 0) + lateAcks[w]
          /\ Had(w, 1) >= 0
      <4>1. 1 \in stale[w]..Len(msgs[w])
        BY <1>0, <1>2, <2>3
      <4> QED BY <1>14, <2>3, <4>1 DEF SlotInv, BooksInv
    <3>2. stale'[w] = 0 /\ ~late
      BY <1>3, <2>3
    <3>3. Had(w, stale[w])' = Had(w, 1)
      BY <1>1, <1>5, <3>2 DEF Had
    <3>4. Had(w, 1) \in Int /\ Had(w, 0) \in Int
      BY <1>12
    <3>5. lateAcks'[w] = lateAcks[w]
      BY <1>0, <1>1, <3>2
    <3>6. /\ status'[w].acknowledged >= Had(w, 1)
          /\ status'[w].acknowledged <= Had(w, 1) + lateAcks[w]
      BY SMTT(30), <1>0, <1>4, <1>13, <3>1, <3>4
    <3>7. ~(stale'[w] > 0)
      BY <3>2
    <3>8. proc[w] = "booting" => FALSE
      BY <1>0, <1>2, <2>3 DEF SlotInv, BooksInv
    <3>9. BooksInv(w)'
      BY <1>1, <1>14, <2>1, <3>3, <3>5, <3>6, <3>7, <3>8 DEF BooksInv, Live
    <3> QED BY <1>9, <1>10, <3>9 DEF SlotInv
  <2> QED BY <1>0, <1>9, <1>10, <2>2, <2>3 DEF SlotInv
<1>15. CASE proc[w] \in {"dead", "down"}
  <2>1. stale[w] = Len(msgs[w]) /\ conns[w] = 0 /\ stale[w] > 0
    BY <1>0, <1>2, <1>15 DEF SlotInv, BooksInv
  <2>2. stale'[w] = Len(msgs'[w])
    BY <1>0, <1>2, <1>3, <2>1
  <2>3. CASE proc[w] = "down"
    <3>1. status[w].acknowledged <= lateAcks[w] /\ late
      BY <2>1, <2>3 DEF SlotInv, BooksInv
    <3>2. status'[w].acknowledged <= lateAcks'[w]
      BY <1>0, <1>1, <1>4, <3>1
    <3> QED BY <1>1, <1>9, <1>10, <2>1, <2>2, <2>3, <3>2 DEF SlotInv, BooksInv, Live
  <2>4. CASE proc[w] = "dead"
    BY <1>1, <1>9, <1>10, <2>1, <2>2, <2>4 DEF SlotInv, BooksInv, Live
  <2> QED BY <1>15, <2>3, <2>4
<1> QED
  <2>1. proc[w] \in Live \/ proc[w] \in {"dead", "down"}
    BY SlotTypes DEF Live
  <2> QED BY <1>14, <1>15, <2>1

\* Every step of a slot keeps its invariant.
LEMMA SlotStep ==
  ASSUME Inv, NEW w \in Workers, Step(w), NEW v \in Workers
  PROVE  SlotInv(v)'
<1>0. TypeOK /\ SlotInv(v)
  BY DEF Inv
<1>1. CASE v # w
  BY <1>0, <1>1, Elsewhere, SlotFrame
<1>2. CASE v = w
  <2>1. CASE Accept(w)
    BY <1>0, <1>2, <2>1, AcceptSlot
  <2>2. CASE StatusMessage(w)
    BY <1>0, <1>2, <2>2, StatusMessageSlot
  <2>3. CASE ProcessEnded(w)
    BY <1>0, <1>2, <2>3, ProcessEndedSlot
  <2>4. CASE StartProcess(w)
    BY <1>0, <1>2, <2>4, StartProcessSlot
  <2>5. CASE StartService(w)
    BY <1>0, <1>2, <2>5, StartServiceSlot
  <2>6. CASE addConnectedChannel(w)
    BY <1>0, <1>2, <2>6, AddSlot
  <2>7. CASE TakeOverloaded(w)
    BY <1>0, <1>2, <2>7, TakeOverloadedSlot
  <2>8. CASE removeConnectedChannel(w)
    BY <1>0, <1>2, <2>8, RemoveSlot
  <2>9. CASE StopService(w)
    BY <1>0, <1>2, <2>9, StopServiceSlot
  <2>10. CASE AllConnectionsClosed(w) \/ Crash(w)
    BY <1>0, <1>2, <2>10, EndsSlot DEF AllConnectionsClosed, Crash
  <2> QED BY <2>1, <2>2, <2>3, <2>4, <2>5, <2>6, <2>7, <2>8, <2>9, <2>10 DEF Step
<1> QED BY <1>1, <1>2

-----------------------------------------------------------------------------
\* The load of the server

Loads == [w \in Workers |-> pipe[w] + conns[w]]
Effectives == [w \in Workers |-> effective(status[w])]
Abandoneds == [w \in Workers |-> status[w].abandoned]

\* The sums are over natural numbers.
LEMMA SumTyped ==
  ASSUME NEW p \in [Workers -> Nat], NEW c \in [Workers -> Nat],
         NEW st \in [Workers -> Status]
  PROVE  /\ [w \in Workers |-> p[w] + c[w]] \in [Workers -> Nat]
         /\ [w \in Workers |-> effective(st[w])] \in [Workers -> Nat]
         /\ [w \in Workers |-> st[w].abandoned] \in [Workers -> Nat]
         /\ Current(st) \in Nat
<1>1. ASSUME NEW w \in Workers
      PROVE  p[w] + c[w] \in Nat /\ effective(st[w]) \in Nat /\ st[w].abandoned \in Nat
  <2>1. /\ p[w] \in Nat /\ c[w] \in Nat /\ st[w].abandoned \in Nat
        /\ st[w].acknowledged \in Nat /\ st[w].unacknowledged \in Nat
    BY DEF Status
  <2> QED BY <2>1 DEF effective
<1>2. [w \in Workers |-> effective(st[w])] \in [Workers -> Nat]
  BY <1>1
<1>3. Current(st) \in Nat
  BY <1>2, UnitsFinite DEF Current
<1> QED BY <1>1, <1>2, <1>3

\* The sums that the bound on the load is about.
LEMMA SumTypes ==
  ASSUME TypeOK
  PROVE  /\ Loads \in [Workers -> Nat] /\ Effectives \in [Workers -> Nat]
         /\ Abandoneds \in [Workers -> Nat]
         /\ ServerLoad = Total(Loads) /\ Current(status) = Total(Effectives)
         /\ Abandoned = Total(Abandoneds)
         /\ ServerLoad \in Nat /\ Current(status) \in Nat /\ Abandoned \in Nat
<1>1. /\ pipe \in [Workers -> Nat] /\ conns \in [Workers -> Nat]
      /\ status \in [Workers -> Status]
  BY DEF TypeOK, Status
<1>2. /\ Loads \in [Workers -> Nat] /\ Effectives \in [Workers -> Nat]
      /\ Abandoneds \in [Workers -> Nat]
  BY <1>1, SumTyped DEF Loads, Effectives, Abandoneds
<1>3. /\ ServerLoad = Total(Loads) /\ Current(status) = Total(Effectives)
      /\ Abandoned = Total(Abandoneds)
  BY DEF ServerLoad, Current, Abandoned, Loads, Effectives, Abandoneds
<1> QED BY <1>2, <1>3, UnitsFinite

\* The same of the next state.
LEMMA SumTypesNext ==
  ASSUME TypeOK'
  PROVE  /\ Loads' \in [Workers -> Nat] /\ Abandoneds' \in [Workers -> Nat]
         /\ ServerLoad' = Total(Loads') /\ Abandoned' = Total(Abandoneds')
         /\ ServerLoad' \in Nat /\ Abandoned' \in Nat /\ Current(status') \in Nat
<1>1. /\ pipe' \in [Workers -> Nat] /\ conns' \in [Workers -> Nat]
      /\ status' \in [Workers -> Status]
  BY DEF TypeOK, Status
<1>2. Loads' \in [Workers -> Nat] /\ Abandoneds' \in [Workers -> Nat]
  BY <1>1, SumTyped DEF Loads, Abandoneds
<1>3. ServerLoad' = Total(Loads') /\ Abandoned' = Total(Abandoneds')
  BY DEF ServerLoad, Abandoned, Loads, Abandoneds
<1>4. Current(status') \in Nat
  BY <1>1, SumTyped
<1> QED BY <1>2, <1>3, <1>4, UnitsFinite

\* What was sent to a slot or is worked on is on the books, or was abandoned:
\* the "+" that the master has not read is missing in acknowledged, and its
\* socket is still counted in unacknowledged.
LEMMA SlotLoad ==
  ASSUME TypeOK, NEW w \in Workers, SlotInv(w)
  PROVE  pipe[w] + conns[w] <= effective(status[w]) + status[w].abandoned
<1> DEFINE plus(k) == CountAfter(msgs[w], k, "+")
           minus(k) == CountAfter(msgs[w], k, "-")
<1>0. /\ pipe[w] \in Nat /\ conns[w] \in Nat /\ status[w].abandoned \in Nat
      /\ status[w].acknowledged \in Nat /\ status[w].unacknowledged \in Nat
      /\ plus(0) \in Nat /\ plus(stale[w]) \in Nat /\ minus(stale[w]) \in Nat
      /\ stale[w] \in Nat /\ msgs[w] \in Seq(Messages)
  BY SlotTypes
<1>1. pipe[w] + plus(0) <= status[w].unacknowledged + status[w].abandoned
  BY DEF SlotInv, SentInv
<1>2. conns[w] <= status[w].acknowledged + plus(0)
  <2>1. CASE proc[w] \in Live /\ stale[w] > 0
    <3>1. conns[w] - plus(stale[w]) + minus(stale[w]) = 0
      BY <2>1 DEF SlotInv, BooksInv, Had
    <3>2. plus(stale[w]) <= plus(0)
      <4>1. Places(msgs[w], stale[w], "+") \in SUBSET Places(msgs[w], 0, "+")
        BY <1>0 DEF Places
      <4>2. /\ IsFiniteSet(Places(msgs[w], 0, "+"))
            /\ plus(0) = Cardinality(Places(msgs[w], 0, "+"))
            /\ plus(stale[w]) = Cardinality(Places(msgs[w], stale[w], "+"))
        BY <1>0, CountType
      <4> QED BY <4>1, <4>2, FS_Subset
    <3> HIDE DEF plus, minus
    <3> QED BY <1>0, <3>1, <3>2
  <2>2. CASE proc[w] \in Live /\ stale[w] = 0
    <3>1. status[w].acknowledged >= conns[w] - plus(0) + minus(stale[w])
      BY <2>2 DEF SlotInv, BooksInv, Had
    <3> HIDE DEF plus, minus
    <3> QED BY <1>0, <3>1
  <2>3. CASE proc[w] \notin Live
    <3>1. conns[w] = 0
      BY <2>3, SlotTypes DEF SlotInv, BooksInv, Live
    <3> QED BY <1>0, <3>1
  <2> QED BY <1>0, <2>1, <2>2, <2>3
<1>3. effective(status[w]) = status[w].acknowledged + status[w].unacknowledged
  BY DEF effective
<1>4. /\ pipe[w] \in Nat /\ conns[w] \in Nat /\ status[w].abandoned \in Nat
      /\ status[w].acknowledged \in Nat /\ status[w].unacknowledged \in Nat
      /\ plus(0) \in Nat
  BY <1>0
<1> HIDE DEF plus, minus
<1> QED BY <1>1, <1>2, <1>3, <1>4

\* So the load of the server is at most what is on the books and what was abandoned.
LEMMA LoadOnBooks ==
  ASSUME Inv
  PROVE  ServerLoad <= Current(status) + Abandoned
<1> DEFINE Both == [w \in Workers |-> Effectives[w] + Abandoneds[w]]
<1>0. TypeOK
  BY DEF Inv
<1>1. /\ Loads \in [Workers -> Nat] /\ Effectives \in [Workers -> Nat]
      /\ Abandoneds \in [Workers -> Nat]
      /\ ServerLoad = Total(Loads) /\ Current(status) = Total(Effectives)
      /\ Abandoned = Total(Abandoneds)
      /\ ServerLoad \in Nat /\ Current(status) \in Nat /\ Abandoned \in Nat
  BY <1>0, SumTypes
<1>2. Both \in [Workers -> Nat]
  BY <1>1
<1>3. \A w \in Workers : Loads[w] <= Both[w]
  BY <1>0, SlotLoad DEF Loads, Effectives, Abandoneds, Inv
<1>4. Total(Loads) <= Total(Both)
  <2> HIDE DEF Both
  <2> QED BY <1>1, <1>2, <1>3, TotalMonotone
<1>5. Total(Both) <= Total(Effectives) + Total(Abandoneds)
  <2>1. \A w \in Workers : Both[w] = Effectives[w] + Abandoneds[w]
    OBVIOUS
  <2> HIDE DEF Both
  <2> QED BY <1>1, <1>2, <2>1, TotalAdds
<1>6. Total(Both) \in Nat
  <2> HIDE DEF Both
  <2> QED BY <1>2, UnitsFinite
<1> HIDE DEF Both
<1> QED BY <1>1, <1>4, <1>5, <1>6

\* A step that adds no load, and takes nothing back that was abandoned, keeps the bound.
LEMMA NoMoreLoad ==
  ASSUME TypeOK, TypeOK', LoadBounded,
         \A v \in Workers : pipe'[v] + conns'[v] <= pipe[v] + conns[v],
         \A v \in Workers : status[v].abandoned <= status'[v].abandoned
  PROVE  LoadBounded'
<1>1. /\ Loads \in [Workers -> Nat] /\ Abandoneds \in [Workers -> Nat]
      /\ ServerLoad = Total(Loads) /\ Abandoned = Total(Abandoneds)
      /\ ServerLoad \in Nat /\ Abandoned \in Nat
  BY SumTypes
<1>2. /\ Loads' \in [Workers -> Nat] /\ Abandoneds' \in [Workers -> Nat]
      /\ ServerLoad' = Total(Loads') /\ Abandoned' = Total(Abandoneds')
      /\ ServerLoad' \in Nat /\ Abandoned' \in Nat
  BY SumTypesNext
<1>3. \A v \in Workers : Loads'[v] <= Loads[v] /\ Abandoneds[v] <= Abandoneds'[v]
  BY DEF Loads, Abandoneds
<1>4. Total(Loads') <= Total(Loads) /\ Total(Abandoneds) <= Total(Abandoneds')
  BY <1>1, <1>2, <1>3, TotalMonotone
<1> QED BY <1>1, <1>2, <1>4, LimiterAssumption DEF LoadBounded

\* A connection is accepted below the limit only.
LEMMA AcceptLoad ==
  ASSUME Inv, TypeOK', NEW w \in Workers, Accept(w)
  PROVE  LoadBounded'
<1>0. TypeOK /\ reading /\ Current(status) < MaxRequests
  BY DEF Inv, Accept, ReadingInv
<1>1. /\ Loads \in [Workers -> Nat] /\ ServerLoad = Total(Loads)
      /\ ServerLoad \in Nat /\ Abandoned \in Nat /\ Current(status) \in Nat
  BY <1>0, SumTypes
<1>2. /\ Loads' \in [Workers -> Nat] /\ ServerLoad' = Total(Loads') /\ Abandoned' \in Nat
  BY SumTypesNext
<1>3. Loads'[w] = Loads[w] + 1 /\ \A v \in Workers \ {w} : Loads'[v] = Loads[v]
  <2>1. /\ \A v \in Workers : pipe[v] \in Nat /\ conns[v] \in Nat
        /\ pipe' = [pipe EXCEPT ![w] = @ + 1] /\ DOMAIN pipe = Workers /\ conns' = conns
    BY <1>0, SlotTypes DEF Accept
  <2> QED BY <2>1 DEF Loads
<1>4. ServerLoad' = ServerLoad + 1
  BY <1>1, <1>2, <1>3, TotalIncrement
<1>5. Abandoned' = Abandoned
  <2>1. status' = [status EXCEPT ![w] = newConnectionStatus(status[w])]
    BY DEF Accept, SetStatus, statusesChanged
  <2>2. status[w] \in Status /\ DOMAIN status = Workers
    BY <1>0, SlotTypes
  <2>3. newConnectionStatus(status[w]).abandoned = status[w].abandoned
    BY <2>2, NewConnectionIs
  <2>4. \A v \in Workers : status'[v].abandoned = status[v].abandoned
    BY <2>1, <2>2, <2>3
  <2>5. [v \in Workers |-> status'[v].abandoned] = [v \in Workers |-> status[v].abandoned]
    BY <2>4
  <2> QED BY <2>5 DEF Abandoned
<1>6. ServerLoad <= Current(status) + Abandoned
  BY LoadOnBooks
<1> QED BY <1>0, <1>1, <1>4, <1>5, <1>6, LimiterAssumption DEF LoadBounded

\* Every step keeps the bound on the load.
LEMMA LoadStep ==
  ASSUME Inv, TypeOK', NEW w \in Workers, Step(w)
  PROVE  LoadBounded'
<1>0. /\ TypeOK /\ LoadBounded
      /\ \A v \in Workers : /\ pipe[v] \in Nat /\ conns[v] \in Nat /\ status[v] \in Status
                            /\ status[v].abandoned \in Nat
                            /\ status[v].unacknowledged \in Nat
      /\ DOMAIN pipe = Workers /\ DOMAIN conns = Workers /\ DOMAIN status = Workers
  BY SlotTypes DEF Inv
<1>1. CASE Accept(w)
  BY <1>1, AcceptLoad
<1>2. CASE StatusMessage(w) \/ ProcessEnded(w) \/ StartProcess(w)
  <2>1. pipe' = pipe /\ conns' = conns
    BY <1>2 DEF StatusMessage, ProcessEnded, StartProcess
  <2>2. PICK s : status' = [status EXCEPT ![w] = s] /\ status[w].abandoned <= s.abandoned
    <3>1. CASE StatusMessage(w)
      <4> DEFINE s == statusFromMessage(status[w], Head(msgs[w]))
      <4>1. status' = [status EXCEPT ![w] = s]
        BY <3>1 DEF StatusMessage, SetStatus, statusesChanged
      <4>2. Head(msgs[w]) \in Messages
        <5>1. msgs[w] \in Seq(Messages) /\ msgs[w] # <<>>
          BY <1>0, <3>1, SlotTypes DEF StatusMessage
        <5> QED BY <5>1
      <4>3. s.abandoned = status[w].abandoned
        BY <1>0, <4>2, MessageIs
      <4>4. status[w].abandoned <= s.abandoned
        BY <1>0, <4>3
      <4> HIDE DEF s
      <4> QED BY <4>1, <4>4
    <3>2. CASE ProcessEnded(w)
      <4>1. status' = [status EXCEPT ![w] = stop(status[w])]
        BY <3>2 DEF ProcessEnded, SetStatus, statusesChanged
      <4>2. stop(status[w]).abandoned = status[w].abandoned + status[w].unacknowledged
        BY <1>0 DEF stop, Status
      <4>3. status[w].abandoned <= stop(status[w]).abandoned
        BY <1>0, <4>2
      <4> QED BY <4>1, <4>3
    <3>3. CASE StartProcess(w)
      <4>1. status' = [status EXCEPT ![w] = start(status[w])]
        BY <3>3 DEF StartProcess, SetStatus, statusesChanged
      <4>2. start(status[w]).abandoned = status[w].abandoned
        BY <1>0 DEF start, Status
      <4>3. status[w].abandoned <= start(status[w]).abandoned
        BY <1>0, <4>2
      <4> QED BY <4>1, <4>3
    <3> QED BY <1>2, <3>1, <3>2, <3>3
  <2>3. \A v \in Workers : status[v].abandoned <= status'[v].abandoned
    BY <1>0, <2>2
  <2>4. \A v \in Workers : pipe'[v] + conns'[v] <= pipe[v] + conns[v]
    BY <1>0, <2>1
  <2> QED BY <1>0, <2>3, <2>4, NoMoreLoad
<1>3. ASSUME status' = status, \A v \in Workers : pipe'[v] + conns'[v] <= pipe[v] + conns[v]
      PROVE  LoadBounded'
  <2>1. \A v \in Workers : status[v].abandoned <= status'[v].abandoned
    BY <1>0, <1>3
  <2> QED BY <1>0, <1>3, <2>1, NoMoreLoad
<1>4. CASE StartService(w) \/ StopService(w)
  BY <1>0, <1>3, <1>4 DEF StartService, StopService, masterVars
<1>5. CASE addConnectedChannel(w)
  <2>1. \A v \in Workers : pipe'[v] + conns'[v] <= pipe[v] + conns[v]
    BY <1>0, <1>5 DEF addConnectedChannel
  <2> QED BY <1>3, <1>5, <2>1 DEF addConnectedChannel, masterVars
<1>6. CASE TakeOverloaded(w) \/ removeConnectedChannel(w)
  <2>1. \A v \in Workers : pipe'[v] + conns'[v] <= pipe[v] + conns[v]
    BY <1>0, <1>6 DEF TakeOverloaded, removeConnectedChannel
  <2> QED BY <1>3, <1>6, <2>1 DEF TakeOverloaded, removeConnectedChannel, masterVars
<1>7. CASE Ends(w)
  <2>1. \A v \in Workers : pipe'[v] + conns'[v] <= pipe[v] + conns[v]
    BY <1>0, <1>7 DEF Ends
  <2> QED BY <1>3, <1>7, <2>1 DEF Ends, masterVars
<1> QED BY <1>1, <1>2, <1>4, <1>5, <1>6, <1>7 DEF Step, AllConnectionsClosed, Crash

\* The port is read only below the limit, whatever the last step was.
LEMMA ReadingStep ==
  ASSUME Inv, TypeOK', NEW w \in Workers, Step(w)
  PROVE  ReadingInv'
<1>1. ASSUME NEW s, SetStatus(w, s) PROVE ReadingInv'
  <2>1. reading' = ~Overloaded(status')
    BY <1>1 DEF SetStatus, statusesChanged
  <2>2. Current(status') \in Nat
    BY SumTypesNext
  <2>3. reading' => ~(Current(status') >= MaxRequests)
    BY <2>1 DEF Overloaded
  <2> QED BY <2>2, <2>3, LimiterAssumption DEF ReadingInv
<1>2. ASSUME UNCHANGED <<status, reading>> PROVE ReadingInv'
  BY <1>2 DEF Inv, ReadingInv, Current
<1> QED BY <1>1, <1>2 DEF Step, Accept, StatusMessage, ProcessEnded, StartProcess,
           StartService, addConnectedChannel, TakeOverloaded, removeConnectedChannel,
           StopService, AllConnectionsClosed, Crash, Ends, masterVars

-----------------------------------------------------------------------------
\* The theorems

\* The invariant holds at the start.
LEMMA InvInit == Init => Inv
<1> SUFFICES ASSUME Init PROVE Inv
  OBVIOUS
<1>1. TypeOK
  <2>1. status \in [Workers -> Status]
    BY DEF Init, initialStatus, Status
  <2>2. msgs \in [Workers -> Seq(Messages)] /\ \A w \in Workers : stale[w] <= Len(msgs[w])
    BY DEF Init
  <2>3. accepted \in 0..MaxSockets
    BY LimiterAssumption DEF Init
  <2>4. /\ held \in [Workers -> Int] /\ pipe \in [Workers -> Nat] /\ conns \in [Workers -> Nat]
        /\ stale \in [Workers -> Nat] /\ lateAcks \in [Workers -> Nat]
        /\ deaths \in Nat
    BY DEF Init
  <2>5. lateReady \in [Workers -> BOOLEAN] /\ reading \in BOOLEAN
    BY DEF Init
  <2>6. proc \in [Workers -> {"booting", "up", "draining", "dead", "down"}]
    BY DEF Init
  <2> QED BY <2>1, <2>2, <2>3, <2>4, <2>5, <2>6 DEF TypeOK, Status, Messages
<1>2. ReadingInv
  BY DEF Init, ReadingInv
<1>3. ASSUME NEW w \in Workers PROVE SlotInv(w)
  <2>1. /\ status[w] = initialStatus /\ held[w] = 0 /\ pipe[w] = 0 /\ msgs[w] = <<>>
        /\ proc[w] = "booting" /\ conns[w] = 0 /\ stale[w] = 0 /\ lateAcks[w] = 0
    BY DEF Init
  <2>2. Len(msgs[w]) = 0 /\ msgs[w] \in Seq(Messages)
    BY <2>1
  <2>3. CountAfter(msgs[w], 0, "+") = 0 /\ CountAfter(msgs[w], 0, "-") = 0
    BY <2>2, CountNone
  <2>4. Had(w, 0) = 0
    BY <2>1, <2>3 DEF Had
  <2>5. \A k \in stale[w]..Len(msgs[w]) : k = 0
    BY <2>1, <2>2
  <2> QED BY <2>1, <2>2, <2>3, <2>4, <2>5
          DEF SlotInv, BooksInv, SentInv, BootInv, HeldInv, initialStatus
<1>4. LoadBounded
  <2>1. \A w \in Workers : Loads[w] = 0
    BY DEF Init, Loads
  <2>2. Units(Loads) = {}
    BY <1>1, <2>1, SumTypes, UnitsAre
  <2>3. Total(Loads) = 0
    BY <1>1, <2>2, SumTypes, UnitsFinite, FS_EmptySet
  <2> QED BY <1>1, <2>3, SumTypes, LimiterAssumption DEF LoadBounded
<1> QED BY <1>1, <1>2, <1>3, <1>4 DEF Inv

\* Every step keeps the invariant.
LEMMA InvStep == Inv /\ [Next]_vars => Inv'
<1> SUFFICES ASSUME Inv, [Next]_vars PROVE Inv'
  OBVIOUS
<1>1. TypeOK'
  BY TypeStep DEF Inv
<1>2. CASE UNCHANGED vars
  <2>1. UNCHANGED <<status, reading, held, pipe, msgs, proc, conns, accepted, deaths, stale,
                    lateAcks, lateReady>>
    BY <1>2 DEF vars, masterVars, boundVars, lateVars
  <2>2. \A v \in Workers : SlotInv(v)'
    BY <2>1, SlotFrame DEF Inv, Same
  <2>3. ReadingInv' /\ LoadBounded'
    BY <2>1 DEF Inv, ReadingInv, LoadBounded, ServerLoad, Abandoned, Current
  <2> QED BY <1>1, <2>2, <2>3 DEF Inv
<1>3. ASSUME NEW w \in Workers, Step(w) PROVE Inv'
  BY <1>1, <1>3, SlotStep, LoadStep, ReadingStep DEF Inv
<1> QED BY <1>2, <1>3 DEF Next

\* The invariant holds in every reachable state.
THEOREM InvHolds == Spec => []Inv
BY InvInit, InvStep, PTL DEF Spec

\* Types, and the counters of WorkerStatus never go below zero.
THEOREM TypeCorrect == Spec => []TypeOK
<1>1. Inv => TypeOK
  BY DEF Inv
<1> QED BY <1>1, InvHolds, PTL

\* The limit of the server (ConnectionLimiter.statusesChanged) is exceeded by
\* no more than the sockets that dead processes left.
THEOREM LoadIsBounded == Spec => []LoadBounded
<1>1. Inv => LoadBounded
  BY DEF Inv
<1> QED BY <1>1, InvHolds, PTL

\* WorkerStatus.acknowledged is what the process works on as far as it has
\* reported, but for the acknowledgements that were read late.
THEOREM BooksTrackWork == Spec => []AcknowledgedTracksWork
<1>1. Inv => AcknowledgedTracksWork
  <2> SUFFICES ASSUME Inv, NEW w \in Workers, proc[w] \in Live, stale[w] = 0
               PROVE  /\ status[w].acknowledged >= Known(w)
                      /\ status[w].acknowledged <= Known(w) + lateAcks[w]
    BY DEF AcknowledgedTracksWork, Live
  <2>1. Known(w) = Had(w, stale[w])
    BY DEF Known, Had
  <2> QED BY <2>1 DEF Inv, SlotInv, BooksInv
<1> QED BY <1>1, InvHolds, PTL

\* The master holds a socket for every "+" it will read (closeCountFromStatus).
THEOREM AcksHaveSockets == Spec => []EveryAckHasASocket
<1>1. Inv => EveryAckHasASocket
  BY DEF Inv, SlotInv, HeldInv, EveryAckHasASocket
<1> QED BY <1>1, InvHolds, PTL

\* A slot is dispatched to only after its process has said that it is ready,
\* unless the "0" of the process before it came late.
THEOREM ActiveIsReady == Spec => []ReadyWhenActive
<1>1. Inv => ReadyWhenActive
  BY DEF Inv, SlotInv, BootInv, ReadyWhenActive, active
<1> QED BY <1>1, InvHolds, PTL

-----------------------------------------------------------------------------
\* The process monitor, for any set of names and any number of deaths

\* A name that was not added is idle, and so is every name until startService.
IdleBeforeStart ==
    \A n \in Names : n \notin processes \/ (~running /\ ~stopping) => Idle(n)

\* From stopService on, the names it does not wait for are idle, no restart is
\* scheduled, and the deferred has fired only if it waits for no name.
StopWaits ==
    /\ running => ~stopping
    /\ stopping => restart = {} /\ \A n \in Names \ deferreds : Idle(n)
    /\ result => stopping /\ deferreds = {}

MonitorInv == MonitorTypeOK /\ OneProcessPerName /\ IdleBeforeStart /\ StopWaits

\* Every state the monitor can reach satisfies the inductive invariant: one
\* step per operation of DelayedStartupProcessMonitor.
THEOREM MonitorInvHolds == MonitorSpec => []MonitorInv
<1>1. MonitorInit => MonitorInv
  <2> SUFFICES ASSUME MonitorInit PROVE MonitorInv
    OBVIOUS
  <2>1. MonitorTypeOK
    <3>1. /\ running \in BOOLEAN /\ stopping \in BOOLEAN /\ result \in BOOLEAN
          /\ quiet \in BOOLEAN
      BY DEF MonitorInit
    <3>2. /\ processes \subseteq Names /\ restart \subseteq processes
          /\ murder \subseteq processes /\ termed \subseteq processes
          /\ deferreds \subseteq processes
      BY DEF MonitorInit
    <3>3. /\ protocols \in [Names -> {"none", "alive", "ended"}]
          /\ starts \in [Names -> Nat] /\ exits \in 0..MaxExits
      BY MonitorAssumption, SMT DEF MonitorInit
    <3>4. QED
      BY <3>1, <3>2, <3>3 DEF MonitorTypeOK
  <2>2. \A n \in Names : Idle(n)
    BY DEF MonitorInit, Idle
  <2>3. OneProcessPerName
    <3> SUFFICES ASSUME NEW n \in Names
                 PROVE  starts[n] + (IF n \in restart THEN 1 ELSE 0)
                          + (IF protocols[n] = "none" THEN 0 ELSE 1) <= 1
      BY Zenon DEF OneProcessPerName
    <3>1. starts[n] = 0 /\ n \notin restart /\ protocols[n] = "none"
      BY <2>2 DEF Idle
    <3>2. QED
      BY <3>1
  <2>4. IdleBeforeStart /\ StopWaits
    BY <2>2 DEF MonitorInit, IdleBeforeStart, StopWaits
  <2>5. QED
    BY <2>1, <2>3, <2>4 DEF MonitorInv
<1>2. MonitorInv /\ [MonitorNext]_monitorVars => MonitorInv'
  <2> SUFFICES ASSUME MonitorInv, [MonitorNext]_monitorVars PROVE MonitorInv'
    OBVIOUS
  <2> USE MonitorAssumption
      DEF MonitorInv, MonitorTypeOK, OneProcessPerName, IdleBeforeStart, StopWaits, Idle
  <2>1. CASE startService
    BY <2>1 DEF startService, startProcess
  <2>2. CASE stopService
    <3>1. /\ running /\ running' = FALSE /\ stopping' = TRUE
          /\ deferreds' = processes /\ restart' = {}
          /\ murder' \subseteq processes /\ termed' \subseteq processes
          /\ quiet' \in BOOLEAN
          /\ UNCHANGED <<processes, protocols, starts, exits>>
      BY <2>2 DEF stopService, stopProcess
    <3>2. result' \in BOOLEAN /\ (result' => deferreds' = {})
      BY <2>2 DEF stopService
    <3>3. MonitorTypeOK'
      BY <3>1, <3>2
    <3>4. OneProcessPerName' /\ IdleBeforeStart'
      BY <3>1
    <3>5. StopWaits'
      BY <3>1, <3>2
    <3>6. QED
      BY <3>3, <3>4, <3>5
  <2>3. ASSUME NEW n \in Names, addProcessObject(n) PROVE MonitorInv'
    BY <2>3 DEF addProcessObject, Add, startProcess
  <2>4. ASSUME NEW n \in Names, checkMemory(n) PROVE MonitorInv'
    BY <2>4 DEF checkMemory, stopProcess
  <2>5. ASSUME NEW n \in Names, RestartTimer(n) PROVE MonitorInv'
    BY <2>5 DEF RestartTimer, startProcess
  <2>6. ASSUME NEW n \in Names, delayedStart(n) PROVE MonitorInv'
    BY <2>6 DEF delayedStart
  <2>7. ASSUME NEW n \in Names, processEnded(n) PROVE MonitorInv'
    BY <2>7 DEF processEnded, Reap
  <2>8. ASSUME NEW n \in Names, _forceStopProcess(n) PROVE MonitorInv'
    BY <2>8 DEF _forceStopProcess
  <2>9. ASSUME NEW n \in Names, Exit(n) PROVE MonitorInv'
    BY <2>9 DEF Exit
  <2>10. CASE UNCHANGED monitorVars
    BY <2>10 DEF monitorVars
  <2>11. QED
    BY <2>1, <2>2, <2>3, <2>4, <2>5, <2>6, <2>7, <2>8, <2>9, <2>10 DEF MonitorNext
<1>3. QED
  BY <1>1, <1>2, PTL DEF MonitorSpec

\* Type correctness: timers, TERM marks and deferreds are only ever those of
\* names that were added, in every state of the monitor.
THEOREM MonitorTypes == MonitorSpec => []MonitorTypeOK
<1>1. MonitorInv => MonitorTypeOK
  BY DEF MonitorInv
<1>2. QED
  BY <1>1, MonitorInvHolds, PTL

\* A name never has two of a process, a scheduled start and a scheduled
\* restart, whatever dies, is stopped or is added when.
THEOREM OneProcess == MonitorSpec => []OneProcessPerName
<1>1. MonitorInv => OneProcessPerName
  BY DEF MonitorInv
<1>2. QED
  BY <1>1, MonitorInvHolds, PTL

\* When the deferred of stopService has fired, no process is left and none
\* will start.
THEOREM StoppedGone == MonitorSpec => []StoppedMeansGone
<1>1. MonitorInv => StoppedMeansGone
  BY DEF MonitorInv, StopWaits, StoppedMeansGone
<1>2. QED
  BY <1>1, MonitorInvHolds, PTL

=============================================================================
