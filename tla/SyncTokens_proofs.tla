------------------------- MODULE SyncTokens_proofs -------------------------
(***************************************************************************)
(* Proofs about SyncTokens, for any sets of names, transactions and        *)
(* clients.  IndInv is inductive; the properties the runs check follow.    *)
(***************************************************************************)
EXTENDS SyncTokens, TLAPS, WellFoundedInduction

\* A non-empty set of revisions up to k has a maximum, and MaxOf is it: the
\* max(REVISION) of _childSyncTokenQuery is well defined.
LEMMA MaxExists ==
    ASSUME NEW k \in Nat, NEW S, S \subseteq 0..k, S # {}
    PROVE  MaxOf(S) \in S /\ \A y \in S : y <= MaxOf(S)
<1>5. \A y \in S : y \in 0..k
  OBVIOUS
<1>6. \A y \in S : y \in Int /\ k - y \in Nat
  BY <1>5
<1> DEFINE T == {k - x : x \in S}
<1>1. T \subseteq Nat /\ T # {}
  <2>1. PICK x \in S : TRUE
    OBVIOUS
  <2>2. k - x \in T
    OBVIOUS
  <2> QED BY <1>6, <2>2
<1>2. PICK m \in T : \A y \in T : ~(<<y, m>> \in OpToRel(<, Nat))
  <2> HIDE DEF T
  <2> QED BY <1>1, WFMin, NatLessThanWellFounded
<1>3. \A y \in T : m <= y
  <2> TAKE y \in T
  <2>1. m \in Nat /\ y \in Nat
    BY <1>1
  <2>2. ~(<<y, m>> \in {ss \in Nat \X Nat : ss[1] < ss[2]})
    BY <1>2 DEF OpToRel
  <2> QED BY <2>1, <2>2
<1>4. \E x \in S : \A y \in S : y <= x
  <2>1. PICK x \in S : m = k - x
    OBVIOUS
  <2>2. \A y \in S : k - x <= k - y
    BY <1>3, <2>1
  <2> HIDE DEF T
  <2>3. \A y \in S : y <= x
    BY <1>6, <2>2
  <2> QED BY <2>3
<1> QED BY <1>4 DEF MaxOf

-----------------------------------------------------------------------------
\* The inductive invariant

\* No revision is above the sequence, no token more than one above it.
WithinSequence ==
    /\ \A s \in Slots : rows[s].rev <= seq
    /\ \A t \in Txns, s \in Slots : newRows[t][s].rev <= seq
    /\ \A t \in Txns : txn[t].start <= seq
    /\ \A c \in Clients : cli[c].token <= cli[c].new /\ cli[c].new <= seq + 1

\* A committed row carries the last change of its name; only rows below
\* MIN-VALID-REVISION are ever missing.
RowsCarryLast ==
    \A n \in Names : IF rows[n].rev # 0 THEN last[n] = rows[n].rev
                                        ELSE last[n] < minValid

\* An uncommitted row belongs to one open transaction, and is newer than the
\* start of that transaction, than the committed row and than anything the
\* clean-up may have removed.
PendingFresh ==
    \A t \in Txns, s \in Slots : Wrote(t, s) =>
        /\ txn[t].active
        /\ newRows[t][s].rev > txn[t].start
        /\ newRows[t][s].rev > rows[s].rev
        /\ newRows[t][s].rev >= minValid
        /\ ~Locked(t, s)

FindHoldsLock ==
    \A t \in Txns : txn[t].find # NoName =>
        txn[t].active /\ ~Locked(t, txn[t].find)

PendingMatchObjects ==
    \A t \in Txns, n \in Names :
        Wrote(t, n) => (newRows[t][n].deleted <=> newObjs[t][n] = 0)

\* What a client's token leaves out is known: every uncommitted revision, and
\* the next one of the sequence, is above the token or was noted as late.
LateNoted ==
    \A c \in Clients :
        /\ \A t \in Txns, s \in Slots : Wrote(t, s) =>
              newRows[t][s].rev > cli[c].new \/ newRows[t][s].rev \in late[c]
        /\ cli[c].new = seq + 1 => cli[c].new \in late[c]

\* Whatever a client does not know is above its token or late.
ViewGap ==
    \A c \in Clients, n \in Names :
        cli[c].token # 0 /\ view[c][n] # objs[n] =>
            last[n] > cli[c].token \/ last[n] \in late[c]

IndInv ==
    /\ TypeOK
    /\ WithinSequence
    /\ RowsCarryLast
    /\ RowsMatchObjects
    /\ PendingFresh
    /\ FindHoldsLock
    /\ PendingMatchObjects
    /\ LateNoted
    /\ ViewGap
    /\ TokensStayKnown

-----------------------------------------------------------------------------
USE SyncAssumption

\* syncTokenRevision is MIN-VALID-REVISION when no row is left, and otherwise
\* the greatest revision of a row.
LEMMA TokenIsMax ==
    ASSUME NEW rr, NEW mv, NEW k \in Nat, \A s \in Slots : rr[s].rev \in 0..k
    PROVE  /\ (\A s \in Slots : rr[s].rev = 0) => syncTokenRevision(rr, mv) = mv
           /\ (\E s \in Slots : rr[s].rev # 0) =>
                 /\ \E s \in Slots : rr[s].rev # 0 /\ syncTokenRevision(rr, mv) = rr[s].rev
                 /\ \A s \in Slots : rr[s].rev <= syncTokenRevision(rr, mv)
<1>1. Revisions(rr) \subseteq 0..k
  BY DEF Revisions
<1>2. CASE \A s \in Slots : rr[s].rev = 0
  <2>1. Revisions(rr) = {}
    BY <1>2 DEF Revisions
  <2> QED BY <1>2, <2>1 DEF syncTokenRevision
<1>3. CASE \E s \in Slots : rr[s].rev # 0
  <2>1. Revisions(rr) # {}
    BY <1>3 DEF Revisions
  <2>2. syncTokenRevision(rr, mv) = MaxOf(Revisions(rr))
    BY <2>1 DEF syncTokenRevision
  <2>3. syncTokenRevision(rr, mv) \in Revisions(rr)
        /\ \A y \in Revisions(rr) : y <= syncTokenRevision(rr, mv)
    BY <1>1, <2>1, <2>2, MaxExists
  <2>4. \E s \in Slots : rr[s].rev # 0 /\ syncTokenRevision(rr, mv) = rr[s].rev
    BY <2>3 DEF Revisions
  <2>5. \A s \in Slots : rr[s].rev # 0 => rr[s].rev <= syncTokenRevision(rr, mv)
    BY <2>3 DEF Revisions
  <2>6. \A s \in Slots : rr[s].rev <= syncTokenRevision(rr, mv)
    BY <1>3, <2>4, <2>5
  <2> QED BY <1>3, <2>4, <2>6
<1> QED BY <1>2, <1>3

\* A collection that was just created satisfies the invariant.
LEMMA InitIndInv == Init => IndInv
<1> SUFFICES ASSUME Init PROVE IndInv
  OBVIOUS
<1>1. TypeOK
  <2>1. NoRow \in Rows /\ FirstRow \in Rows
    BY DEF NoRow, FirstRow, Rows
  <2>2. NoRows \in [Slots -> Rows] /\ NoObjs \in [Names -> 0..MaxRev]
    BY <2>1 DEF NoRows, NoObjs
  <2>3. rows \in [Slots -> Rows]
    BY <2>1 DEF Init
  <2>4. txn \in [Txns -> TxnStates]
    BY DEF Init, IdleTxn, TxnStates
  <2>5. cli \in [Clients -> ClientStates]
    BY DEF Init, NewClient, ClientStates
  <2>6. newRows \in [Txns -> [Slots -> Rows]] /\ newObjs \in [Txns -> [Names -> 0..MaxRev]]
        /\ view \in [Clients -> [Names -> 0..MaxRev]]
    BY <2>2 DEF Init
  <2>7. late \in [Clients -> SUBSET (1..(MaxRev + 1))]
    BY DEF Init
  <2>8. seq = 1 /\ minValid = 1 /\ cleanupDue \in BOOLEAN
    BY DEF Init
  <2>9. seq \in 1..MaxRev /\ minValid \in 1..(seq + 1)
    BY <2>8
  <2> QED BY <2>2, <2>3, <2>4, <2>5, <2>6, <2>7, <2>8, <2>9 DEF Init, TypeOK
<1>2. WithinSequence /\ RowsCarryLast /\ RowsMatchObjects /\ PendingFresh
      /\ FindHoldsLock /\ PendingMatchObjects /\ LateNoted /\ ViewGap
  BY DEF Init, NoRow, FirstRow, NoRows, NoObjs, IdleTxn, NewClient, Slots, WithinSequence,
         RowsCarryLast, RowsMatchObjects, PendingFresh, FindHoldsLock,
         PendingMatchObjects, LateNoted, ViewGap, Wrote, Locked
<1>3. TokensStayKnown
  <2>1. Coll \in Slots /\ rows[Coll].rev # 0 /\ \A s \in Slots : rows[s].rev \in 0..1
    BY DEF Init, NoRow, FirstRow, Slots
  <2>2. CurrentToken \in Nat
    BY <2>1, TokenIsMax DEF CurrentToken
  <2> QED BY <2>2 DEF Init, NewClient, TokensStayKnown
<1> QED BY <1>1, <1>2, <1>3 DEF IndInv

\* A statement that writes slot x of transaction t with the next revision.
WriteSlot(t, x, row) ==
    /\ row \in Rows /\ row.rev = seq + 1
    /\ txn[t].active /\ ~Locked(t, x) /\ txn[t].find \in {x, NoName}
    /\ seq < MaxRev /\ seq' = seq + 1
    /\ newRows' = [newRows EXCEPT ![t][x] = row]
    /\ txn' \in [Txns -> TxnStates]
    /\ \A u \in Txns : /\ txn'[u].active = txn[u].active
                       /\ txn'[u].start = txn[u].start
                       /\ txn'[u].find = IF u = t THEN NoName ELSE txn[u].find
    /\ newObjs' \in [Txns -> [Names -> 0..MaxRev]]
    /\ PendingMatchObjects'
    /\ UNCHANGED <<dbVars, clientVars>>

\* Writing a slot under its lock preserves the invariant.
LEMMA WriteSlotStep ==
    ASSUME IndInv, NEW t \in Txns, NEW x \in Slots, NEW row,
           WriteSlot(t, x, row)
    PROVE  IndInv'
<1> DEFINE r == seq + 1
<1>1. /\ UNCHANGED <<rows, objs, last, minValid, cleanupDue, cli, late, view>>
      /\ seq' = r
  BY DEF WriteSlot, dbVars, clientVars
<1>2. /\ seq \in Nat /\ r \in 1..MaxRev /\ minValid \in 1..r
      /\ \A s \in Slots : rows[s].rev \in Nat /\ rows[s].rev <= seq
      /\ \A u \in Txns, s \in Slots : newRows[u][s].rev \in Nat
      /\ newRows \in [Txns -> [Slots -> Rows]]
  BY DEF WriteSlot, IndInv, TypeOK, WithinSequence, Rows
<1>3. /\ \A u \in Txns : txn[u].start \in Nat /\ txn[u].start <= seq
      /\ \A c \in Clients : cli[c].new \in Nat /\ cli[c].new <= r
  BY DEF IndInv, TypeOK, WithinSequence, TxnStates, ClientStates
<1>4. TypeOK'
  <2>1. newRows' \in [Txns -> [Slots -> Rows]]
    BY <1>2 DEF WriteSlot
  <2>2. minValid' \in 1..(seq' + 1) /\ seq' \in 1..MaxRev
    BY <1>1, <1>2
  <2>3. txn' \in [Txns -> TxnStates] /\ newObjs' \in [Txns -> [Names -> 0..MaxRev]]
    BY DEF WriteSlot
  <2> QED BY <1>1, <2>1, <2>2, <2>3 DEF IndInv, TypeOK
<1>5. /\ newRows'[t][x] = row /\ row.rev = r
      /\ \A u \in Txns, s \in Slots : ~(u = t /\ s = x) => newRows'[u][s] = newRows[u][s]
  BY <1>2 DEF WriteSlot
<1>12. /\ txn[t].active /\ ~Locked(t, x) /\ txn[t].find \in {x, NoName}
       /\ \A u \in Txns : /\ txn'[u].active = txn[u].active
                          /\ txn'[u].start = txn[u].start
                          /\ txn'[u].find = IF u = t THEN NoName ELSE txn[u].find
  BY DEF WriteSlot
<1>6. WithinSequence'
  BY <1>1, <1>2, <1>3, <1>5, <1>12 DEF IndInv, WithinSequence
<1>7. RowsCarryLast' /\ RowsMatchObjects' /\ ViewGap'
  BY <1>1 DEF IndInv, RowsCarryLast, RowsMatchObjects, ViewGap
<1>8. PendingFresh'
  <2> SUFFICES ASSUME NEW u \in Txns, NEW s \in Slots, Wrote(u, s)'
               PROVE  /\ txn'[u].active
                      /\ newRows'[u][s].rev > txn'[u].start
                      /\ newRows'[u][s].rev > rows'[s].rev
                      /\ newRows'[u][s].rev >= minValid'
                      /\ ~Locked(u, s)'
    BY DEF PendingFresh
  <2>1. CASE u = t /\ s = x
    <3>1. ~Locked(u, s)'
      BY <1>5, <1>12, <2>1 DEF Locked, Wrote
    <3> QED BY <1>1, <1>2, <1>3, <1>5, <1>12, <2>1, <3>1
  <2>2. CASE ~(u = t /\ s = x)
    <3>1. Wrote(u, s)
      BY <1>5, <2>2 DEF Wrote
    <3>2. /\ txn[u].active /\ newRows[u][s].rev > txn[u].start
          /\ newRows[u][s].rev > rows[s].rev /\ newRows[u][s].rev >= minValid
          /\ ~Locked(u, s)
      BY <3>1 DEF IndInv, PendingFresh
    <3>3. s # x /\ s # NoName
      BY <1>12, <2>2, <3>1 DEF Locked, Slots
    <3>4. ~Locked(u, s)'
      BY <1>5, <1>12, <2>2, <3>2, <3>3 DEF Locked, Wrote
    <3> QED BY <1>1, <1>5, <1>12, <2>2, <3>2, <3>4
  <2> QED BY <2>1, <2>2
<1>9. FindHoldsLock'
  <2> SUFFICES ASSUME NEW u \in Txns, txn'[u].find # NoName
               PROVE  txn'[u].active /\ ~Locked(u, txn[u].find)'
    BY DEF FindHoldsLock
  <2>1. u # t /\ txn'[u].find = txn[u].find /\ txn[u].active /\ ~Locked(u, txn[u].find)
    BY <1>12 DEF IndInv, FindHoldsLock
  <2>2. txn[u].find # x
    BY <1>12, <2>1 DEF Locked
  <2>3. txn[u].find \in Slots
    BY <2>1 DEF IndInv, TypeOK, TxnStates, Slots
  <2>4. \A v \in Txns \ {u} : ~(newRows'[v][txn[u].find].rev # 0 \/ txn'[v].find = txn[u].find)
    BY <1>5, <1>12, <2>1, <2>2, <2>3 DEF Locked, Wrote
  <2> QED BY <1>12, <2>1, <2>4 DEF Locked, Wrote
<1>10. LateNoted'
  <2> SUFFICES ASSUME NEW c \in Clients
               PROVE  /\ \A u \in Txns, s \in Slots : Wrote(u, s)' =>
                           newRows'[u][s].rev > cli'[c].new \/ newRows'[u][s].rev \in late'[c]
                      /\ cli'[c].new = seq' + 1 => cli'[c].new \in late'[c]
    BY DEF LateNoted
  <2>1. r > cli[c].new \/ r \in late[c]
    <3>1. cli[c].new = r => r \in late[c]
      BY DEF IndInv, LateNoted
    <3> QED BY <1>2, <1>3, <3>1
  <2>2. cli'[c].new # seq' + 1
    BY <1>1, <1>2, <1>3
  <2>3. \A u \in Txns, s \in Slots : Wrote(u, s) =>
           newRows[u][s].rev > cli[c].new \/ newRows[u][s].rev \in late[c]
    BY DEF IndInv, LateNoted
  <2> QED BY <1>1, <1>5, <2>1, <2>2, <2>3 DEF Wrote
<1>11. TokensStayKnown'
  BY <1>1 DEF IndInv, TokensStayKnown, CurrentToken
<1> QED BY <1>4, <1>6, <1>7, <1>8, <1>9, <1>10, <1>11 DEF IndInv, WriteSlot

\* Every _changeRevision of a name is such a write.
LEMMA ChangeRowStep ==
    ASSUME IndInv, NEW t \in Txns, NEW n \in Names, NEW del \in BOOLEAN,
           NEW content \in {0, seq + 1},
           txn[t].active, ~Locked(t, n), txn[t].find \in {n, NoName},
           del <=> content = 0,
           ChangeRow(t, n, del, content)
    PROVE  IndInv'
<1>1. /\ n \in Slots /\ seq \in Nat /\ seq < MaxRev /\ seq' = seq + 1
      /\ newRows' = [newRows EXCEPT ![t][n] = Row(seq + 1, del, t)]
      /\ newObjs' = [newObjs EXCEPT ![t][n] = content]
      /\ UNCHANGED <<dbVars, clientVars>>
      /\ newRows \in [Txns -> [Slots -> Rows]]
      /\ newObjs \in [Txns -> [Names -> 0..MaxRev]]
  <2>1. /\ n \in Slots /\ seq \in Nat
        /\ newRows \in [Txns -> [Slots -> Rows]]
        /\ newObjs \in [Txns -> [Names -> 0..MaxRev]]
    BY DEF IndInv, TypeOK, Slots
  <2> QED BY <2>1 DEF ChangeRow
<1>2. txn \in [Txns -> TxnStates] /\ txn' = [txn EXCEPT ![t].find = NoName, ![t].notified = TRUE]
  BY DEF ChangeRow, IndInv, TypeOK
<1>3. /\ txn' \in [Txns -> TxnStates]
      /\ \A u \in Txns : /\ txn'[u].active = txn[u].active
                         /\ txn'[u].start = txn[u].start
                         /\ txn'[u].find = IF u = t THEN NoName ELSE txn[u].find
  BY <1>2 DEF TxnStates
<1>4. /\ Row(seq + 1, del, t) \in Rows
      /\ Row(seq + 1, del, t).rev = seq + 1
      /\ Row(seq + 1, del, t).deleted = del
  <2>1. txn[t].start \in 0..MaxRev
    BY <1>2 DEF TxnStates
  <2> QED BY <1>1, <2>1 DEF Row, Rows
<1>5. newObjs' \in [Txns -> [Names -> 0..MaxRev]]
  <2>1. content \in 0..MaxRev
    BY <1>1
  <2> QED BY <1>1, <2>1
<1>6. PendingMatchObjects'
  <2> SUFFICES ASSUME NEW u \in Txns, NEW m \in Names, newRows'[u][m].rev # 0
               PROVE  newRows'[u][m].deleted <=> newObjs'[u][m] = 0
    BY DEF PendingMatchObjects, Wrote
  <2>1. CASE u = t /\ m = n
    <3>1. newRows'[u][m] = Row(seq + 1, del, t) /\ newObjs'[u][m] = content
      BY <1>1, <2>1
    <3> QED BY <1>4, <3>1
  <2>2. CASE ~(u = t /\ m = n)
    <3>1. newRows'[u][m] = newRows[u][m] /\ newObjs'[u][m] = newObjs[u][m]
      BY <1>1, <2>2 DEF Slots
    <3> QED BY <3>1 DEF IndInv, PendingMatchObjects, Wrote
  <2> QED BY <2>1, <2>2
<1>7. WriteSlot(t, n, Row(seq + 1, del, t))
  BY <1>1, <1>3, <1>4, <1>5, <1>6 DEF WriteSlot
<1> QED BY <1>1, <1>7, WriteSlotStep

\* So is a bump or a rename of the collection.
LEMMA ChangeCollRowStep ==
    ASSUME IndInv, NEW t \in Txns, Ready(t), ~Locked(t, Coll), ChangeCollRow(t)
    PROVE  IndInv'
<1>1. /\ Coll \in Slots /\ seq \in Nat /\ seq < MaxRev /\ seq' = seq + 1
      /\ newRows' = [newRows EXCEPT ![t][Coll] = Row(seq + 1, FALSE, t)]
      /\ UNCHANGED <<dbVars, newObjs, clientVars>>
      /\ newRows \in [Txns -> [Slots -> Rows]]
      /\ newObjs \in [Txns -> [Names -> 0..MaxRev]]
  BY DEF ChangeCollRow, IndInv, TypeOK, Slots
<1>2. txn \in [Txns -> TxnStates] /\ txn' = [txn EXCEPT ![t].notified = TRUE, ![t].bumped = TRUE]
  BY DEF ChangeCollRow, IndInv, TypeOK
<1>3. /\ txn' \in [Txns -> TxnStates]
      /\ \A u \in Txns : /\ txn'[u].active = txn[u].active
                         /\ txn'[u].start = txn[u].start
                         /\ txn'[u].find = IF u = t THEN NoName ELSE txn[u].find
  BY ZenonT(40), <1>2 DEF TxnStates, Ready
<1>4. Row(seq + 1, FALSE, t) \in Rows /\ Row(seq + 1, FALSE, t).rev = seq + 1
  <2>1. txn[t].start \in 0..MaxRev
    BY <1>2 DEF TxnStates
  <2> QED BY <1>1, <2>1 DEF Row, Rows
<1>5. PendingMatchObjects'
  <2>1. \A u \in Txns, m \in Names : newRows'[u][m] = newRows[u][m]
    BY <1>1 DEF Slots
  <2>2. newObjs' = newObjs
    BY <1>1
  <2>3. PendingMatchObjects
    BY DEF IndInv
  <2> QED BY <2>1, <2>2, <2>3 DEF PendingMatchObjects, Wrote
<1>6. WriteSlot(t, Coll, Row(seq + 1, FALSE, t))
  BY <1>1, <1>3, <1>4, <1>5 DEF WriteSlot, Ready
<1> QED BY <1>1, <1>6, WriteSlotStep

\* Steps of a transaction that write nothing: it begins, looks for a row, or
\* finds that it has nothing to bump.
QuietTxn(t) ==
    /\ txn' \in [Txns -> TxnStates]
    /\ \A u \in Txns \ {t} : txn'[u] = txn[u]
    /\ txn[t].active => txn'[t].active /\ txn'[t].start = txn[t].start
    /\ txn'[t].start <= seq
    /\ txn'[t].find # NoName => txn'[t].active /\ ~Locked(t, txn'[t].find)
    /\ UNCHANGED <<dbVars, seq, newRows, newObjs, clientVars>>

\* Such a step preserves the invariant.
LEMMA QuietTxnStep ==
    ASSUME IndInv, NEW t \in Txns, QuietTxn(t)
    PROVE  IndInv'
<1>1. UNCHANGED <<rows, objs, last, minValid, cleanupDue, seq, newRows, newObjs, cli, late, view>>
  BY DEF QuietTxn, dbVars, clientVars
<1>2. TypeOK'
  <2>1. txn' \in [Txns -> TxnStates]
    BY DEF QuietTxn
  <2> QED BY <1>1, <2>1 DEF IndInv, TypeOK
<1>3. /\ \A u \in Txns \ {t} : txn'[u] = txn[u]
      /\ txn[t].active => txn'[t].active /\ txn'[t].start = txn[t].start
      /\ txn'[t].start <= seq
      /\ txn'[t].find # NoName => txn'[t].active /\ ~Locked(t, txn'[t].find)
  BY DEF QuietTxn
<1>4. WithinSequence'
  BY <1>1, <1>3 DEF IndInv, WithinSequence
<1>5. RowsCarryLast' /\ RowsMatchObjects' /\ ViewGap' /\ PendingMatchObjects' /\ LateNoted'
  BY <1>1 DEF IndInv, RowsCarryLast, RowsMatchObjects, ViewGap, PendingMatchObjects, LateNoted, Wrote
<1>6. PendingFresh'
  <2> SUFFICES ASSUME NEW u \in Txns, NEW s \in Slots, Wrote(u, s)
               PROVE  /\ txn'[u].active
                      /\ newRows[u][s].rev > txn'[u].start
                      /\ newRows[u][s].rev > rows[s].rev
                      /\ newRows[u][s].rev >= minValid
                      /\ ~Locked(u, s)'
    BY <1>1 DEF PendingFresh, Wrote
  <2>1. /\ txn[u].active /\ newRows[u][s].rev > txn[u].start
        /\ newRows[u][s].rev > rows[s].rev /\ newRows[u][s].rev >= minValid
        /\ ~Locked(u, s)
    BY DEF IndInv, PendingFresh
  <2>2. u # t => txn'[t].find # s
    BY <1>3 DEF Locked, Slots
  <2>3. \A v \in Txns \ {u} : ~(newRows'[v][s].rev # 0 \/ txn'[v].find = s)
    BY <1>1, <1>3, <2>1, <2>2 DEF Locked, Wrote
  <2> QED BY <1>3, <2>1, <2>3 DEF Locked, Wrote
<1>7. FindHoldsLock'
  <2> SUFFICES ASSUME NEW u \in Txns, txn'[u].find # NoName
               PROVE  txn'[u].active /\ \A v \in Txns \ {u} :
                        ~(newRows'[v][txn'[u].find].rev # 0 \/ txn'[v].find = txn'[u].find)
    BY DEF FindHoldsLock, Locked, Wrote
  <2>1. CASE u = t
    BY <1>1, <1>3, <2>1 DEF Locked, Wrote
  <2>2. CASE u # t
    <3>1. txn'[u] = txn[u] /\ txn[u].active /\ ~Locked(u, txn[u].find)
      BY <1>3, <2>2 DEF IndInv, FindHoldsLock
    <3>2. txn'[t].find # txn[u].find
      BY <1>3, <2>2, <3>1 DEF Locked
    <3> QED BY <1>1, <1>3, <2>2, <3>1, <3>2 DEF Locked, Wrote
  <2> QED BY <2>1, <2>2
<1>8. TokensStayKnown'
  BY <1>1 DEF IndInv, TokensStayKnown, CurrentToken
<1> QED BY <1>2, <1>4, <1>5, <1>6, <1>7, <1>8 DEF IndInv

\* The end of a transaction takes no lock from the others.
LEMMA EndLocks ==
    ASSUME PendingFresh, FindHoldsLock, NEW t \in Txns,
           txn \in [Txns -> TxnStates], minValid' = minValid,
           txn'[t].find = NoName, \A s \in Slots : newRows'[t][s].rev = 0,
           \A u \in Txns \ {t} : txn'[u] = txn[u] /\ newRows'[u] = newRows[u],
           \A s \in Slots : newRows[t][s].rev = 0 => rows'[s] = rows[s]
    PROVE  PendingFresh' /\ FindHoldsLock'
<1>1. \A u \in Txns \ {t}, s \in Slots : ~Locked(u, s) => ~Locked(u, s)'
  BY DEF Locked, Wrote, Slots
<1>2. PendingFresh'
  <2> SUFFICES ASSUME NEW u \in Txns, NEW s \in Slots, newRows'[u][s].rev # 0
               PROVE  /\ txn'[u].active
                      /\ newRows'[u][s].rev > txn'[u].start
                      /\ newRows'[u][s].rev > rows'[s].rev
                      /\ newRows'[u][s].rev >= minValid'
                      /\ ~Locked(u, s)'
    BY DEF PendingFresh, Wrote
  <2>1. u # t /\ newRows[u][s].rev # 0 /\ newRows'[u][s] = newRows[u][s] /\ txn'[u] = txn[u]
    OBVIOUS
  <2>2. /\ txn[u].active /\ newRows[u][s].rev > txn[u].start
        /\ newRows[u][s].rev > rows[s].rev /\ newRows[u][s].rev >= minValid
        /\ ~Locked(u, s)
    BY <2>1 DEF PendingFresh, Wrote
  <2>3. newRows[t][s].rev = 0
    BY <2>1, <2>2 DEF Locked, Wrote
  <2> QED BY <1>1, <2>1, <2>2, <2>3
<1>3. FindHoldsLock'
  <2> SUFFICES ASSUME NEW u \in Txns, txn'[u].find # NoName
               PROVE  txn'[u].active /\ ~Locked(u, txn[u].find)'
                      /\ txn'[u].find = txn[u].find
    BY DEF FindHoldsLock, Locked, Wrote
  <2>1. u # t /\ txn'[u] = txn[u] /\ txn[u].active /\ ~Locked(u, txn[u].find)
    BY DEF FindHoldsLock
  <2>2. txn[u].find \in Slots
    BY <2>1 DEF TxnStates, Slots
  <2>3. txn'[u].find \in Slots
    BY <2>1, <2>2
  <2> QED BY <2>1, <2>2, <1>1
<1> QED BY <1>2, <1>3

\* A transaction that ends without committing preserves the invariant.
LEMMA EndStep ==
    ASSUME IndInv, NEW t \in Txns, End(t), UNCHANGED <<dbVars, seq, clientVars>>
    PROVE  IndInv'
<1>1. UNCHANGED <<rows, objs, last, minValid, cleanupDue, seq, cli, late, view>>
  BY DEF dbVars, clientVars
<1>2. /\ txn \in [Txns -> TxnStates] /\ newRows \in [Txns -> [Slots -> Rows]]
      /\ newObjs \in [Txns -> [Names -> 0..MaxRev]]
  BY DEF IndInv, TypeOK
<1>3. IdleTxn \in TxnStates /\ NoRows \in [Slots -> Rows] /\ NoObjs \in [Names -> 0..MaxRev]
  BY DEF IdleTxn, TxnStates, NoRows, NoRow, Rows, NoObjs
<1>4. /\ txn' \in [Txns -> TxnStates] /\ newRows' \in [Txns -> [Slots -> Rows]]
      /\ newObjs' \in [Txns -> [Names -> 0..MaxRev]]
  BY <1>2, <1>3 DEF End
<1>5. /\ txn'[t] = IdleTxn /\ newRows'[t] = NoRows
      /\ \A u \in Txns \ {t} : txn'[u] = txn[u] /\ newRows'[u] = newRows[u] /\ newObjs'[u] = newObjs[u]
  BY <1>2 DEF End
<1>6. txn'[t].find = NoName /\ txn'[t].start = 0 /\ \A s \in Slots : newRows'[t][s].rev = 0
  BY <1>5 DEF IdleTxn, NoRows, NoRow
<1>7. TypeOK'
  BY <1>1, <1>4 DEF IndInv, TypeOK
<1>8. WithinSequence'
  <2>1. seq \in Nat
    BY DEF IndInv, TypeOK
  <2> QED BY <1>1, <1>5, <1>6, <2>1 DEF IndInv, WithinSequence
<1>9. RowsCarryLast' /\ RowsMatchObjects' /\ ViewGap'
  BY <1>1 DEF IndInv, RowsCarryLast, RowsMatchObjects, ViewGap
<1>10. PendingMatchObjects' /\ LateNoted'
  BY <1>1, <1>5, <1>6 DEF IndInv, PendingMatchObjects, LateNoted, Wrote, Slots
<1>11. PendingFresh' /\ FindHoldsLock'
  <2>1. \A s \in Slots : rows'[s] = rows[s]
    BY <1>1
  <2>2. minValid' = minValid /\ PendingFresh /\ FindHoldsLock
    BY <1>1 DEF IndInv
  <2> QED BY <1>2, <1>5, <1>6, <2>1, <2>2, EndLocks
<1>12. TokensStayKnown'
  BY <1>1 DEF IndInv, TokensStayKnown, CurrentToken
<1> QED BY <1>7, <1>8, <1>9, <1>10, <1>11, <1>12 DEF IndInv

-----------------------------------------------------------------------------
\* The token does not go back when rows are replaced by newer ones ...
LEMMA TokenGrows ==
    ASSUME NEW r1, NEW r2, NEW v \in Nat, NEW k \in Nat,
           \A s \in Slots : r1[s].rev \in 0..k /\ r2[s].rev \in 0..k,
           \A s \in Slots : r1[s].rev = r2[s].rev
                            \/ (r1[s].rev < r2[s].rev /\ r2[s].rev >= v)
    PROVE  syncTokenRevision(r1, v) <= syncTokenRevision(r2, v)
<1>1. CASE \A s \in Slots : r2[s].rev = 0
  <2>1. \A s \in Slots : r1[s].rev = 0
    BY <1>1
  <2> QED BY <1>1, <2>1, TokenIsMax
<1>2. CASE \E s \in Slots : r2[s].rev # 0
  <2>1. /\ \E s \in Slots : r2[s].rev # 0 /\ syncTokenRevision(r2, v) = r2[s].rev
        /\ \A s \in Slots : r2[s].rev <= syncTokenRevision(r2, v)
    BY <1>2, TokenIsMax
  <2>2. CASE \A s \in Slots : r1[s].rev = 0
    <3>1. syncTokenRevision(r1, v) = v
      BY <2>2, TokenIsMax
    <3> QED BY <2>1, <2>2, <3>1
  <2>3. CASE \E s \in Slots : r1[s].rev # 0
    <3>1. PICK s \in Slots : syncTokenRevision(r1, v) = r1[s].rev
      BY <2>3, TokenIsMax
    <3>2. r1[s].rev <= r2[s].rev
      OBVIOUS
    <3>3. r2[s].rev <= syncTokenRevision(r2, v) /\ syncTokenRevision(r2, v) \in Nat
      BY <2>1
    <3> QED BY <3>1, <3>2, <3>3
  <2> QED BY <2>2, <2>3
<1> QED BY <1>1, <1>2

\* ... nor when the rows below MIN-VALID-REVISION are removed.
LEMMA TokenSurvivesCleanup ==
    ASSUME NEW r1, NEW r2, NEW v \in Nat, NEW k \in Nat,
           \A s \in Slots : r1[s].rev \in 0..k /\ r2[s].rev \in 0..k,
           \A s \in Slots : IF r1[s].rev < v THEN r2[s].rev = 0 ELSE r2[s].rev = r1[s].rev
    PROVE  syncTokenRevision(r1, v) <= syncTokenRevision(r2, v)
<1>1. CASE \A s \in Slots : r1[s].rev = 0
  <2>1. \A s \in Slots : r2[s].rev = 0
    BY <1>1
  <2> QED BY <1>1, <2>1, TokenIsMax
<1>2. CASE \E s \in Slots : r1[s].rev # 0
  <2>1. PICK s1 \in Slots : syncTokenRevision(r1, v) = r1[s1].rev
    BY <1>2, TokenIsMax
  <2>2. CASE \A s \in Slots : r2[s].rev = 0
    <3>1. syncTokenRevision(r2, v) = v
      BY <2>2, TokenIsMax
    <3>2. r1[s1].rev <= v
      BY <2>2
    <3> QED BY <2>1, <3>1, <3>2
  <2>3. CASE \E s \in Slots : r2[s].rev # 0
    <3>1. PICK s2 \in Slots : r2[s2].rev # 0 /\ syncTokenRevision(r2, v) = r2[s2].rev
      BY <2>3, TokenIsMax
    <3>2. \A s \in Slots : r2[s].rev <= syncTokenRevision(r2, v)
      BY <2>3, TokenIsMax
    <3>3. r2[s2].rev >= v
      BY <3>1
    <3>4. r1[s1].rev < v \/ r1[s1].rev = r2[s1].rev
      OBVIOUS
    <3> QED BY <2>1, <3>1, <3>2, <3>3, <3>4
  <2> QED BY <2>2, <2>3
<1> QED BY <1>1, <1>2

\* A token is a number.
LEMMA TokenType ==
    ASSUME NEW rr \in [Slots -> Rows], NEW mv \in Nat
    PROVE  syncTokenRevision(rr, mv) \in Nat
<1>1. \A s \in Slots : rr[s].rev \in 0..MaxRev
  BY DEF Rows
<1>2. CASE \A s \in Slots : rr[s].rev = 0
  BY <1>1, <1>2, TokenIsMax
<1>3. CASE \E s \in Slots : rr[s].rev # 0
  <2>1. \E s \in Slots : syncTokenRevision(rr, mv) = rr[s].rev
    BY <1>1, <1>3, TokenIsMax
  <2> QED BY <1>1, <2>1
<1> QED BY <1>2, <1>3

\* If the current token does not go back, the tokens handed out stay known.
LEMMA KnownAfter ==
    ASSUME TypeOK, TypeOK', TokensStayKnown, cli' = cli, CurrentToken' >= CurrentToken
    PROVE  TokensStayKnown'
<1>1. CurrentToken \in Nat
  <2>1. rows \in [Slots -> Rows] /\ minValid \in Nat
    BY DEF TypeOK
  <2> QED BY <2>1, TokenType DEF CurrentToken
<1>2. CurrentToken' \in Nat
  <2>1. rows' \in [Slots -> Rows] /\ minValid' \in Nat
    BY DEF TypeOK
  <2> QED BY <2>1, TokenType DEF CurrentToken
<1>3. \A c \in Clients : cli[c].token \in Nat /\ cli[c].new \in Nat
  BY DEF TypeOK, ClientStates
<1>4. \A c \in Clients : cli'[c].token <= CurrentToken' /\ cli'[c].new <= CurrentToken'
  BY <1>1, <1>2, <1>3 DEF TokensStayKnown
<1> QED BY <1>4 DEF TokensStayKnown

\* A commit, in whatever order, preserves the invariant and the token.
LEMMA CommitStep ==
    ASSUME IndInv, NEW t \in Txns, Commit(t)
    PROVE  IndInv' /\ CurrentToken' >= CurrentToken
<1>1. UNCHANGED <<minValid, cleanupDue, seq, cli, late, view>> /\ End(t)
  BY DEF Commit, clientVars
<1>2. /\ rows \in [Slots -> Rows] /\ objs \in [Names -> 0..MaxRev]
      /\ last \in [Names -> 0..MaxRev] /\ seq \in Nat /\ minValid \in Nat
      /\ txn \in [Txns -> TxnStates] /\ newRows \in [Txns -> [Slots -> Rows]]
      /\ newObjs \in [Txns -> [Names -> 0..MaxRev]]
  BY DEF IndInv, TypeOK
<1>3. IdleTxn \in TxnStates /\ NoRows \in [Slots -> Rows] /\ NoObjs \in [Names -> 0..MaxRev]
  BY DEF IdleTxn, TxnStates, NoRows, NoRow, Rows, NoObjs
<1>4. /\ txn' \in [Txns -> TxnStates] /\ newRows' \in [Txns -> [Slots -> Rows]]
      /\ newObjs' \in [Txns -> [Names -> 0..MaxRev]]
  BY <1>1, <1>2, <1>3 DEF End
<1>5. /\ txn'[t] = IdleTxn /\ newRows'[t] = NoRows
      /\ \A u \in Txns \ {t} : txn'[u] = txn[u] /\ newRows'[u] = newRows[u] /\ newObjs'[u] = newObjs[u]
  BY <1>1, <1>2 DEF End
<1>6. txn'[t].find = NoName /\ txn'[t].start = 0 /\ \A s \in Slots : newRows'[t][s].rev = 0
  BY <1>5 DEF IdleTxn, NoRows, NoRow
<1>7. \A s \in Slots : rows'[s] = IF newRows[t][s].rev # 0 THEN newRows[t][s] ELSE rows[s]
  BY DEF Commit, RowSeen, Wrote
<1>8. \A n \in Names :
        /\ n \in Slots
        /\ objs'[n] = IF newRows[t][n].rev # 0 THEN newObjs[t][n] ELSE objs[n]
        /\ last'[n] = IF newRows[t][n].rev # 0 THEN newRows[t][n].rev ELSE last[n]
  BY DEF Commit, ObjSeen, Wrote, Slots
<1>9. TypeOK'
  <2>1. rows' \in [Slots -> Rows] /\ objs' \in [Names -> 0..MaxRev]
    BY <1>2 DEF Commit, RowSeen, ObjSeen
  <2>2. \A s \in Slots : newRows[t][s].rev \in 0..MaxRev
    BY <1>2 DEF Rows
  <2>3. last' \in [Names -> 0..MaxRev]
    BY <1>2, <2>2 DEF Commit, Slots
  <2> QED BY <1>1, <1>4, <2>1, <2>3 DEF IndInv, TypeOK
<1>10. WithinSequence'
  <2>1. WithinSequence
    BY DEF IndInv
  <2>2. \A s \in Slots : rows'[s].rev <= seq
    BY <1>7, <2>1 DEF WithinSequence
  <2>3. \A u \in Txns, s \in Slots : newRows'[u][s].rev <= seq
    BY <1>2, <1>5, <1>6, <2>1 DEF WithinSequence
  <2>4. \A u \in Txns : txn'[u].start <= seq
    BY <1>2, <1>5, <1>6, <2>1 DEF WithinSequence
  <2> QED BY <1>1, <2>1, <2>2, <2>3, <2>4 DEF WithinSequence
<1>11. RowsCarryLast'
  BY <1>1, <1>7, <1>8 DEF IndInv, RowsCarryLast
<1>12. RowsMatchObjects'
  BY <1>7, <1>8 DEF IndInv, RowsMatchObjects, PendingMatchObjects, Wrote
<1>13. PendingMatchObjects' /\ LateNoted'
  BY <1>1, <1>5, <1>6 DEF IndInv, PendingMatchObjects, LateNoted, Wrote, Slots
<1>14. PendingFresh' /\ FindHoldsLock'
  <2>1. minValid' = minValid /\ PendingFresh /\ FindHoldsLock
    BY <1>1 DEF IndInv
  <2>2. \A s \in Slots : newRows[t][s].rev = 0 => rows'[s] = rows[s]
    BY <1>7
  <2> QED BY <1>2, <1>5, <1>6, <2>1, <2>2, EndLocks
<1>15. ViewGap'
  <2> SUFFICES ASSUME NEW c \in Clients, NEW n \in Names,
                      cli[c].token # 0, view[c][n] # objs'[n]
               PROVE  last'[n] > cli[c].token \/ last'[n] \in late[c]
    BY <1>1 DEF ViewGap
  <2>1. CASE newRows[t][n].rev # 0
    <3>1. newRows[t][n].rev > cli[c].new \/ newRows[t][n].rev \in late[c]
      BY <1>8, <2>1 DEF IndInv, LateNoted, Wrote
    <3>2. /\ cli[c].token <= cli[c].new /\ cli[c].token \in Nat /\ cli[c].new \in Nat
          /\ newRows[t][n].rev \in Nat
      BY <1>2, <1>8 DEF IndInv, TypeOK, WithinSequence, ClientStates, Rows
    <3> QED BY <1>8, <2>1, <3>1, <3>2
  <2>2. CASE newRows[t][n].rev = 0
    BY <1>8, <2>2 DEF IndInv, ViewGap
  <2> QED BY <2>1, <2>2
<1>16. CurrentToken' >= CurrentToken
  <2>1. \A s \in Slots : rows[s].rev \in 0..MaxRev /\ rows'[s].rev \in 0..MaxRev
    <3>1. rows \in [Slots -> Rows] /\ rows' \in [Slots -> Rows]
      BY <1>2, <1>9 DEF TypeOK
    <3> QED BY <3>1 DEF Rows
  <2>2. \A s \in Slots : newRows[t][s].rev # 0 =>
           newRows[t][s].rev > rows[s].rev /\ newRows[t][s].rev >= minValid
    BY DEF IndInv, PendingFresh, Wrote
  <2>3. \A s \in Slots : rows[s].rev = rows'[s].rev
                         \/ (rows[s].rev < rows'[s].rev /\ rows'[s].rev >= minValid)
    <3> TAKE s \in Slots
    <3>1. CASE newRows[t][s].rev # 0
      <4>1. rows'[s].rev = newRows[t][s].rev
        BY <1>7, <3>1
      <4> QED BY <2>1, <2>2, <3>1, <4>1
    <3>2. CASE newRows[t][s].rev = 0
      <4>1. rows'[s] = rows[s]
        BY <1>7, <3>2
      <4> QED BY <2>1, <4>1
    <3> QED BY <3>1, <3>2
  <2>4. syncTokenRevision(rows, minValid) <= syncTokenRevision(rows', minValid)
    BY <1>2, <2>1, <2>3, TokenGrows
  <2> QED BY <1>1, <2>4 DEF CurrentToken
<1>17. TokensStayKnown'
  <2>1. TypeOK /\ TokensStayKnown /\ cli' = cli
    BY <1>1 DEF IndInv
  <2> QED BY <1>9, <1>16, <2>1, KnownAfter
<1> QED BY <1>9, <1>10, <1>11, <1>12, <1>13, <1>14, <1>15, <1>16, <1>17 DEF IndInv

\* Raising MIN-VALID-REVISION preserves the invariant and the token.
LEMMA FindMinStep ==
    ASSUME IndInv, NEW cut \in 1..MaxRev, FindMinValidRevision(cut)
    PROVE  IndInv' /\ CurrentToken' >= CurrentToken
<1> DEFINE old == OldRevisions(cut)
           top == MaxOf(old)
<1>1. UNCHANGED <<rows, objs, last, seq, txn, newRows, newObjs, cli, late, view>>
  BY DEF FindMinValidRevision, txnVars, clientVars
<1>2. /\ old # {} /\ CutoffOK(cut) /\ top > minValid
      /\ minValid' = top + 1 /\ cleanupDue' = TRUE
  BY DEF FindMinValidRevision
<1>3. seq \in Nat /\ minValid \in 1..(seq + 1) /\ rows \in [Slots -> Rows]
  BY DEF IndInv, TypeOK
<1>4. \A s \in Slots : rows[s].rev \in 0..MaxRev /\ rows[s].rev \in 0..seq
  BY <1>3 DEF IndInv, WithinSequence, Rows
<1>5. old \subseteq 0..seq
  BY <1>4 DEF OldRevisions
<1>6. top \in old
  BY <1>2, <1>3, <1>5, MaxExists
<1>7. top \in 0..seq /\ minValid <= minValid' /\ minValid' \in 1..(seq + 1)
  BY <1>2, <1>3, <1>5, <1>6
<1>8. TypeOK'
  BY <1>1, <1>2, <1>7 DEF IndInv, TypeOK
<1>9. WithinSequence' /\ RowsMatchObjects' /\ FindHoldsLock' /\ PendingMatchObjects'
      /\ LateNoted' /\ ViewGap'
  BY <1>1 DEF IndInv, WithinSequence, RowsMatchObjects, FindHoldsLock,
              PendingMatchObjects, LateNoted, ViewGap, Wrote, Locked
<1>10. RowsCarryLast'
  <2>1. \A n \in Names : last[n] \in Nat
    BY DEF IndInv, TypeOK
  <2>2. minValid \in Nat /\ minValid' \in Nat
    BY <1>3, <1>7
  <2> QED BY <1>1, <1>7, <2>1, <2>2 DEF IndInv, RowsCarryLast
<1>11. PendingFresh'
  <2> SUFFICES ASSUME NEW t \in Txns, NEW s \in Slots, Wrote(t, s)
               PROVE  newRows[t][s].rev >= minValid'
    BY <1>1 DEF IndInv, PendingFresh, Wrote, Locked
  <2>1. txn[t].active /\ newRows[t][s].rev > txn[t].start
    BY DEF IndInv, PendingFresh
  <2>2. top <= txn[t].start
    BY <1>2, <1>6, <2>1 DEF CutoffOK
  <2>3. newRows[t][s].rev \in Nat /\ txn[t].start \in Nat
    BY DEF IndInv, TypeOK, Rows, TxnStates
  <2> QED BY <1>2, <1>7, <2>1, <2>2, <2>3
<1>12. CurrentToken' = CurrentToken
  <2>1. Revisions(rows) # {}
    BY <1>2 DEF OldRevisions, Revisions
  <2> QED BY <1>1, <2>1 DEF CurrentToken, syncTokenRevision
<1>13. CurrentToken' >= CurrentToken
  <2>1. CurrentToken \in Nat
    BY <1>3, TokenType DEF CurrentToken
  <2> QED BY <1>12, <2>1
<1>14. TokensStayKnown'
  <2>1. TypeOK /\ TokensStayKnown /\ cli' = cli
    BY <1>1 DEF IndInv
  <2> QED BY <1>8, <1>13, <2>1, KnownAfter
<1> QED BY <1>8, <1>9, <1>10, <1>11, <1>13, <1>14 DEF IndInv

\* So does removing the rows below it.
LEMMA CleanupStep ==
    ASSUME IndInv, RevisionCleanup
    PROVE  IndInv' /\ CurrentToken' >= CurrentToken
<1>1. UNCHANGED <<objs, last, seq, minValid, txn, newRows, newObjs, cli, late, view>>
      /\ cleanupDue' = FALSE
  BY DEF RevisionCleanup, txnVars, clientVars
<1>2. rows \in [Slots -> Rows] /\ minValid \in Nat /\ NoRow \in Rows /\ NoRow.rev = 0
  BY DEF IndInv, TypeOK, NoRow, Rows
<1>3. rows' \in [Slots -> Rows]
  BY <1>2 DEF RevisionCleanup
<1>4. \A s \in Slots : rows[s].rev \in 0..MaxRev /\ rows'[s].rev \in 0..MaxRev
  BY <1>2, <1>3 DEF Rows
<1>5. \A s \in Slots : rows'[s] = IF rows[s].rev # 0 /\ rows[s].rev < minValid
                                  THEN NoRow ELSE rows[s]
  BY DEF RevisionCleanup
<1>6. TypeOK'
  BY <1>1, <1>3 DEF IndInv, TypeOK
<1>7. WithinSequence'
  <2>1. seq \in Nat /\ WithinSequence
    BY DEF IndInv, TypeOK
  <2>2. \A s \in Slots : rows'[s].rev <= seq
    BY <1>2, <1>5, <2>1 DEF WithinSequence
  <2> QED BY <1>1, <2>1, <2>2 DEF WithinSequence
<1>8. RowsCarryLast' /\ RowsMatchObjects'
  <2> SUFFICES ASSUME NEW n \in Names
               PROVE  /\ IF rows'[n].rev # 0 THEN last[n] = rows'[n].rev ELSE last[n] < minValid
                      /\ rows'[n].rev # 0 => (rows'[n].deleted <=> objs[n] = 0)
    BY <1>1 DEF RowsCarryLast, RowsMatchObjects
  <2>1. IF rows[n].rev # 0 THEN last[n] = rows[n].rev ELSE last[n] < minValid
    BY DEF IndInv, RowsCarryLast
  <2>2. rows[n].rev # 0 => (rows[n].deleted <=> objs[n] = 0)
    BY DEF IndInv, RowsMatchObjects
  <2>3. rows'[n] = IF rows[n].rev # 0 /\ rows[n].rev < minValid THEN NoRow ELSE rows[n]
    BY <1>5 DEF Slots
  <2> QED BY <1>2, <2>1, <2>2, <2>3
<1>9. FindHoldsLock' /\ PendingMatchObjects' /\ LateNoted' /\ ViewGap'
  BY <1>1 DEF IndInv, FindHoldsLock, PendingMatchObjects, LateNoted, ViewGap, Wrote, Locked
<1>10. PendingFresh'
  <2>1. \A t \in Txns, s \in Slots : newRows[t][s].rev > rows[s].rev => newRows[t][s].rev > rows'[s].rev
    <3>1. \A t \in Txns, s \in Slots : newRows[t][s].rev \in Nat
      BY DEF IndInv, TypeOK, Rows
    <3> QED BY <1>2, <1>4, <1>5, <3>1
  <2> QED BY <1>1, <2>1 DEF IndInv, PendingFresh, Wrote, Locked
<1>11. CurrentToken' >= CurrentToken
  <2>1. \A s \in Slots : IF rows[s].rev < minValid THEN rows'[s].rev = 0
                                                   ELSE rows'[s].rev = rows[s].rev
    BY <1>2, <1>5
  <2>2. syncTokenRevision(rows, minValid) <= syncTokenRevision(rows', minValid)
    BY <1>2, <1>4, <2>1, TokenSurvivesCleanup
  <2> QED BY <1>1, <2>2 DEF CurrentToken
<1>12. TokensStayKnown'
  <2>1. TypeOK /\ TokensStayKnown /\ cli' = cli
    BY <1>1 DEF IndInv
  <2> QED BY <1>6, <1>11, <2>1, KnownAfter
<1> QED BY <1>6, <1>7, <1>8, <1>9, <1>10, <1>11, <1>12 DEF IndInv

-----------------------------------------------------------------------------
\* The steps of a report

\* Reading a token notes every revision still in flight.
LEMMA ReadTokenStep ==
    ASSUME IndInv, NEW c \in Clients, ReadToken(c)
    PROVE  IndInv' /\ CurrentToken' = CurrentToken
<1> DEFINE tok == CurrentToken
           noted == late[c] \cup InFlight \cup (IF tok > seq THEN {tok} ELSE {})
<1>1. UNCHANGED <<rows, objs, last, minValid, cleanupDue, seq, txn, newRows, newObjs, view>>
  BY DEF ReadToken, dbVars, txnVars
<1>2. /\ seq \in 1..MaxRev /\ minValid \in 1..(seq + 1) /\ rows \in [Slots -> Rows]
      /\ cli \in [Clients -> ClientStates]
      /\ late \in [Clients -> SUBSET (1..(MaxRev + 1))]
      /\ newRows \in [Txns -> [Slots -> Rows]]
  BY DEF IndInv, TypeOK
<1>3. \A s \in Slots : rows[s].rev \in 0..seq
  BY <1>2 DEF IndInv, WithinSequence, Rows
<1>4. tok \in Nat /\ tok <= seq + 1
  <2>1. CASE \A s \in Slots : rows[s].rev = 0
    <3>1. tok = minValid
      BY <1>2, <1>3, <2>1, TokenIsMax DEF CurrentToken
    <3> QED BY <1>2, <3>1
  <2>2. CASE \E s \in Slots : rows[s].rev # 0
    <3>1. \E s \in Slots : tok = rows[s].rev
      BY <1>2, <1>3, <2>2, TokenIsMax DEF CurrentToken
    <3> QED BY <1>2, <1>3, <3>1
  <2> QED BY <2>1, <2>2
<1>5. /\ cli' = [cli EXCEPT ![c].busy = TRUE, ![c].new = tok]
      /\ late' = [late EXCEPT ![c] = noted]
      /\ cli[c].token <= tok
  BY DEF ReadToken
<1>6. /\ cli' \in [Clients -> ClientStates]
      /\ cli'[c].new = tok /\ cli'[c].token = cli[c].token
      /\ \A d \in Clients \ {c} : cli'[d] = cli[d]
      /\ late'[c] = noted /\ \A d \in Clients \ {c} : late'[d] = late[d]
  <2>1. tok \in 0..(MaxRev + 1)
    BY <1>2, <1>4
  <2> HIDE DEF tok, noted
  <2>2. cli' \in [Clients -> ClientStates]
    BY <1>2, <1>5, <2>1 DEF ClientStates
  <2>3. cli'[c].new = tok /\ cli'[c].token = cli[c].token
    BY <1>2, <1>5 DEF ClientStates
  <2>4. \A d \in Clients \ {c} : cli'[d] = cli[d]
    BY <1>2, <1>5
  <2>5. late'[c] = noted /\ \A d \in Clients \ {c} : late'[d] = late[d]
    BY <1>2, <1>5
  <2> QED BY <2>2, <2>3, <2>4, <2>5
<1>7. noted \in SUBSET (1..(MaxRev + 1))
  <2>1. InFlight \subseteq 1..(MaxRev + 1)
    <3>1. \A t \in Txns, s \in Slots : newRows[t][s].rev \in 0..MaxRev
      BY <1>2 DEF Rows
    <3>2. \A t \in Txns, s \in Slots : newRows[t][s].rev # 0 => newRows[t][s].rev \in 1..(MaxRev + 1)
      BY <3>1
    <3> QED BY <3>2 DEF InFlight
  <2>2. tok > seq => tok \in 1..(MaxRev + 1)
    BY <1>2, <1>4
  <2> QED BY <1>2, <2>1, <2>2
<1>8. TypeOK'
  <2>1. late' \in [Clients -> SUBSET (1..(MaxRev + 1))]
    BY <1>2, <1>5, <1>7
  <2> QED BY <1>1, <1>6, <2>1 DEF IndInv, TypeOK
<1>9. WithinSequence'
  <2>1. WithinSequence
    BY DEF IndInv
  <2>2. \A d \in Clients : cli'[d].token <= cli'[d].new /\ cli'[d].new <= seq + 1
    BY <1>4, <1>5, <1>6, <2>1 DEF WithinSequence
  <2> QED BY <1>1, <2>1, <2>2 DEF WithinSequence
<1>10. RowsCarryLast' /\ RowsMatchObjects' /\ PendingFresh' /\ FindHoldsLock' /\ PendingMatchObjects'
  BY <1>1 DEF IndInv, RowsCarryLast, RowsMatchObjects, PendingFresh, FindHoldsLock,
              PendingMatchObjects, Wrote, Locked
<1>11. LateNoted'
  <2> SUFFICES ASSUME NEW d \in Clients
               PROVE  /\ \A t \in Txns, s \in Slots : newRows[t][s].rev # 0 =>
                           newRows[t][s].rev > cli'[d].new \/ newRows[t][s].rev \in late'[d]
                      /\ cli'[d].new = seq + 1 => cli'[d].new \in late'[d]
    BY <1>1 DEF LateNoted, Wrote
  <2>1. CASE d = c
    <3>1. \A t \in Txns, s \in Slots : newRows[t][s].rev # 0 => newRows[t][s].rev \in noted
      BY DEF InFlight
    <3>2. tok = seq + 1 => tok \in noted
      BY <1>2, <1>4
    <3> QED BY <1>6, <2>1, <3>1, <3>2
  <2>2. CASE d # c
    BY <1>6, <2>2 DEF IndInv, LateNoted, Wrote
  <2> QED BY <2>1, <2>2
<1>12. ViewGap'
  <2>1. \A d \in Clients : cli'[d].token = cli[d].token /\ late[d] \subseteq late'[d]
    BY <1>6
  <2> QED BY <1>1, <2>1 DEF IndInv, ViewGap
<1>13. CurrentToken' = CurrentToken
  BY <1>1 DEF CurrentToken
<1>14. TokensStayKnown'
  <2>1. \A d \in Clients : cli'[d].token <= tok /\ cli'[d].new <= tok
    BY <1>4, <1>5, <1>6 DEF IndInv, TokensStayKnown
  <2> QED BY <1>13, <2>1 DEF TokensStayKnown
<1> QED BY <1>8, <1>9, <1>10, <1>11, <1>12, <1>13, <1>14 DEF IndInv

\* What the answer to a report leaves of a client: the new token, and a view
\* that is current for every name whose last change is above the old one.
Answered(c) ==
    /\ UNCHANGED <<dbVars, seq, txnVars, late>>
    /\ cli' = [cli EXCEPT ![c].busy = FALSE, ![c].token = cli[c].new]
    /\ \A d \in Clients \ {c} : view'[d] = view[d]
    /\ view' \in [Clients -> [Names -> 0..MaxRev]]
    /\ \A n \in Names : view'[c][n] # objs[n] => last[n] \in late[c]

\* An answer preserves the invariant.
LEMMA AnsweredStep ==
    ASSUME IndInv, NEW c \in Clients, Answered(c)
    PROVE  IndInv' /\ CurrentToken' = CurrentToken
<1>1. UNCHANGED <<rows, objs, last, minValid, cleanupDue, seq, txn, newRows, newObjs, late>>
  BY DEF Answered, dbVars, txnVars
<1>2. cli \in [Clients -> ClientStates] /\ cli' = [cli EXCEPT ![c].busy = FALSE, ![c].token = cli[c].new]
  BY DEF IndInv, TypeOK, Answered
<1>3. /\ cli' \in [Clients -> ClientStates]
      /\ cli'[c].token = cli[c].new /\ cli'[c].new = cli[c].new
      /\ \A d \in Clients \ {c} : cli'[d] = cli[d]
  <2>1. cli' \in [Clients -> ClientStates]
    BY <1>2 DEF ClientStates
  <2> QED BY <1>2, <2>1 DEF ClientStates
<1>4. /\ \A d \in Clients \ {c} : view'[d] = view[d]
      /\ view' \in [Clients -> [Names -> 0..MaxRev]]
      /\ \A n \in Names : view'[c][n] # objs[n] => last[n] \in late[c]
  BY DEF Answered
<1>5. TypeOK'
  BY <1>1, <1>3, <1>4 DEF IndInv, TypeOK
<1>6. \A d \in Clients : cli[d].token \in Nat /\ cli[d].new \in Nat
  BY <1>2 DEF ClientStates
<1>7. WithinSequence'
  <2>1. WithinSequence
    BY DEF IndInv
  <2>2. \A d \in Clients : cli'[d].token <= cli'[d].new /\ cli'[d].new <= seq + 1
    BY <1>3, <1>6, <2>1 DEF WithinSequence
  <2> QED BY <1>1, <2>1, <2>2 DEF WithinSequence
<1>8. RowsCarryLast' /\ RowsMatchObjects' /\ PendingFresh' /\ FindHoldsLock' /\ PendingMatchObjects'
  BY <1>1 DEF IndInv, RowsCarryLast, RowsMatchObjects, PendingFresh, FindHoldsLock,
              PendingMatchObjects, Wrote, Locked
<1>9. LateNoted'
  <2>1. \A d \in Clients : cli'[d].new = cli[d].new
    BY <1>3
  <2> QED BY <1>1, <2>1 DEF IndInv, LateNoted, Wrote
<1>10. ViewGap'
  <2> SUFFICES ASSUME NEW d \in Clients, NEW n \in Names,
                      cli'[d].token # 0, view'[d][n] # objs[n]
               PROVE  last[n] > cli'[d].token \/ last[n] \in late[d]
    BY <1>1 DEF ViewGap
  <2>1. CASE d = c
    BY <1>4, <2>1
  <2>2. CASE d # c
    BY <1>3, <1>4, <2>2 DEF IndInv, ViewGap
  <2> QED BY <2>1, <2>2
<1>11. CurrentToken' = CurrentToken
  BY <1>1 DEF CurrentToken
<1>12. TokensStayKnown'
  BY <1>3, <1>11 DEF IndInv, TokensStayKnown
<1> QED BY <1>5, <1>7, <1>8, <1>9, <1>10, <1>11, <1>12 DEF IndInv

\* The answer to a first report is such an answer ...
LEMMA ReportAllStep ==
    ASSUME IndInv, NEW c \in Clients, ReportAll(c)
    PROVE  Answered(c)
<1>1. objs \in [Names -> 0..MaxRev] /\ view \in [Clients -> [Names -> 0..MaxRev]]
  BY DEF IndInv, TypeOK
<1>2. view' = [view EXCEPT ![c] = objs]
  BY DEF ReportAll
<1>3. /\ view' \in [Clients -> [Names -> 0..MaxRev]] /\ view'[c] = objs
      /\ \A d \in Clients \ {c} : view'[d] = view[d]
  BY <1>1, <1>2
<1> QED BY <1>3 DEF ReportAll, Answered

\* ... and so is an incremental one: rows above the token carry the news.
LEMMA ReportChangesStep ==
    ASSUME IndInv, NEW c \in Clients, ReportChanges(c)
    PROVE  Answered(c)
<1> DEFINE told == [n \in Names |-> Reported(n, cli[c].token, view[c][n])]
<1>1. objs \in [Names -> 0..MaxRev] /\ view \in [Clients -> [Names -> 0..MaxRev]]
  BY DEF IndInv, TypeOK
<1>2. view' = [view EXCEPT ![c] = told]
  BY DEF ReportChanges
<1>3. told \in [Names -> 0..MaxRev]
  BY <1>1 DEF Reported
<1>4. /\ view' \in [Clients -> [Names -> 0..MaxRev]] /\ view'[c] = told
      /\ \A d \in Clients \ {c} : view'[d] = view[d]
  <2> HIDE DEF told
  <2> QED BY <1>1, <1>2, <1>3
<1>5. ASSUME NEW n \in Names, told[n] # objs[n]
      PROVE  last[n] \in late[c]
  <2>1. n \in Slots /\ rows[n].rev \in Nat /\ last[n] \in Nat
        /\ cli[c].token \in Nat /\ minValid \in Nat
    BY DEF IndInv, TypeOK, Rows, ClientStates, Slots
  <2>2. cli[c].token # 0 /\ cli[c].token >= minValid
    BY DEF ReportChanges
  <2>3. CASE rows[n].rev > cli[c].token
    <3>1. told[n] = IF rows[n].deleted THEN 0 ELSE objs[n]
      BY <2>3 DEF Reported
    <3>2. rows[n].deleted <=> objs[n] = 0
      BY <2>1, <2>3 DEF IndInv, RowsMatchObjects
    <3> QED BY <1>5, <3>1, <3>2
  <2>4. CASE ~(rows[n].rev > cli[c].token)
    <3>1. view[c][n] # objs[n]
      BY <1>5, <2>4 DEF Reported
    <3>2. last[n] > cli[c].token \/ last[n] \in late[c]
      BY <2>2, <3>1 DEF IndInv, ViewGap
    <3>3. IF rows[n].rev # 0 THEN last[n] = rows[n].rev ELSE last[n] < minValid
      BY DEF IndInv, RowsCarryLast
    <3> QED BY <2>1, <2>2, <2>4, <3>2, <3>3
  <2> QED BY <2>3, <2>4
<1> QED
  <2>1. \A n \in Names : view'[c][n] # objs[n] => last[n] \in late[c]
    BY <1>4, <1>5
  <2> QED BY <1>4, <2>1 DEF ReportChanges, Answered

\* A client told that its token is invalid starts again.
LEMMA ReportInvalidStep ==
    ASSUME IndInv, NEW c \in Clients, ReportInvalid(c)
    PROVE  IndInv' /\ CurrentToken' = CurrentToken
<1>1. UNCHANGED <<rows, objs, last, minValid, cleanupDue, seq, txn, newRows, newObjs>>
  BY DEF ReportInvalid, dbVars, txnVars
<1>2. /\ cli \in [Clients -> ClientStates] /\ seq \in Nat
      /\ late \in [Clients -> SUBSET (1..(MaxRev + 1))]
      /\ view \in [Clients -> [Names -> 0..MaxRev]]
      /\ rows \in [Slots -> Rows] /\ minValid \in Nat
      /\ newRows \in [Txns -> [Slots -> Rows]]
  BY DEF IndInv, TypeOK
<1>3. NewClient \in ClientStates /\ NoObjs \in [Names -> 0..MaxRev]
      /\ NewClient.token = 0 /\ NewClient.new = 0
  BY DEF NewClient, ClientStates, NoObjs
<1>4. /\ cli' \in [Clients -> ClientStates] /\ cli'[c] = NewClient
      /\ late' \in [Clients -> SUBSET (1..(MaxRev + 1))]
      /\ view' \in [Clients -> [Names -> 0..MaxRev]]
      /\ \A d \in Clients \ {c} : cli'[d] = cli[d] /\ late'[d] = late[d] /\ view'[d] = view[d]
  BY <1>2, <1>3 DEF ReportInvalid
<1>5. TypeOK'
  BY <1>1, <1>4 DEF IndInv, TypeOK
<1>6. WithinSequence'
  <2>1. WithinSequence
    BY DEF IndInv
  <2>2. \A d \in Clients : cli'[d].token <= cli'[d].new /\ cli'[d].new <= seq + 1
    <3> TAKE d \in Clients
    <3>1. CASE d = c
      <4>1. cli'[d].token = 0 /\ cli'[d].new = 0 /\ seq \in Nat
        BY <1>2, <1>3, <1>4, <3>1
      <4> QED BY <4>1
    <3>2. CASE d # c
      BY <1>4, <2>1, <3>2 DEF WithinSequence
    <3> QED BY <3>1, <3>2
  <2> QED BY <1>1, <2>1, <2>2 DEF WithinSequence
<1>7. RowsCarryLast' /\ RowsMatchObjects' /\ PendingFresh' /\ FindHoldsLock' /\ PendingMatchObjects'
  BY <1>1 DEF IndInv, RowsCarryLast, RowsMatchObjects, PendingFresh, FindHoldsLock,
              PendingMatchObjects, Wrote, Locked
<1>8. LateNoted'
  <2> SUFFICES ASSUME NEW d \in Clients
               PROVE  /\ \A t \in Txns, s \in Slots : newRows[t][s].rev # 0 =>
                           newRows[t][s].rev > cli'[d].new \/ newRows[t][s].rev \in late'[d]
                      /\ cli'[d].new = seq + 1 => cli'[d].new \in late'[d]
    BY <1>1 DEF LateNoted, Wrote
  <2>1. CASE d = c
    <3>1. \A t \in Txns, s \in Slots : newRows[t][s].rev \in Nat
      BY <1>2 DEF Rows
    <3>2. cli'[d].new = 0
      BY <1>3, <1>4, <2>1
    <3> QED BY <1>2, <3>1, <3>2
  <2>2. CASE d # c
    BY <1>4, <2>2 DEF IndInv, LateNoted, Wrote
  <2> QED BY <2>1, <2>2
<1>9. ViewGap'
  BY <1>1, <1>3, <1>4 DEF IndInv, ViewGap
<1>10. CurrentToken' = CurrentToken
  BY <1>1 DEF CurrentToken
<1>11. TokensStayKnown'
  <2>1. CurrentToken \in Nat
    BY <1>2, TokenType DEF CurrentToken
  <2> QED BY <1>3, <1>4, <1>10, <2>1 DEF IndInv, TokensStayKnown
<1> QED BY <1>5, <1>6, <1>7, <1>8, <1>9, <1>10, <1>11 DEF IndInv

-----------------------------------------------------------------------------
\* The steps of a transaction

\* Every step of a transaction preserves the invariant and the token.
LEMMA TxnStepInv ==
    ASSUME IndInv, NEW t \in Txns, TxnStep(t)
    PROVE  IndInv' /\ CurrentToken' >= CurrentToken
<1>1. /\ txn \in [Txns -> TxnStates] /\ seq \in Nat /\ seq <= MaxRev
      /\ rows \in [Slots -> Rows] /\ minValid \in Nat
      /\ \A u \in Txns : txn[u].start <= seq
  BY DEF IndInv, TypeOK, WithinSequence
<1>2. CurrentToken \in Nat
  BY <1>1, TokenType DEF CurrentToken
<1>3. ASSUME UNCHANGED dbVars PROVE CurrentToken' >= CurrentToken
  <2>1. CurrentToken' = CurrentToken
    BY <1>3 DEF dbVars, CurrentToken
  <2> QED BY <1>2, <2>1
<1>4. CASE Begin(t)
  <2>1. ~txn[t].active /\ txn' = [txn EXCEPT ![t].active = TRUE, ![t].start = seq]
        /\ UNCHANGED <<dbVars, seq, newRows, newObjs, clientVars>>
    BY <1>4 DEF Begin
  <2>5. seq \in 0..MaxRev
    BY <1>1
  <2>2. /\ txn' \in [Txns -> TxnStates] /\ txn'[t].find = txn[t].find /\ txn'[t].start = seq
        /\ \A u \in Txns \ {t} : txn'[u] = txn[u]
    BY <1>1, <2>1, <2>5 DEF TxnStates
  <2>3. txn[t].find = NoName
    BY <2>1 DEF IndInv, FindHoldsLock
  <2>4. QuietTxn(t)
    BY <1>1, <2>1, <2>2, <2>3 DEF QuietTxn
  <2> QED BY <1>3, <2>1, <2>4, QuietTxnStep
<1>5. CASE Commit(t)
  BY <1>5, CommitStep
<1>6. CASE Abort(t)
  <2>1. End(t) /\ UNCHANGED <<dbVars, seq, clientVars>>
    BY <1>6 DEF Abort
  <2> QED BY <1>3, <2>1, EndStep
<1>7. CASE InsertRowVanished(t)
  <2>1. End(t) /\ UNCHANGED <<dbVars, seq, clientVars>>
    BY <1>7 DEF InsertRowVanished
  <2> QED BY <1>3, <2>1, EndStep
<1>8. CASE BumpSyncToken(t)
  <2>1. CASE RowSeen(t, Coll).rev # 0
    <3>1. Ready(t) /\ ~Locked(t, Coll) /\ ChangeCollRow(t)
      BY <1>8, <2>1 DEF BumpSyncToken
    <3>2. UNCHANGED dbVars
      BY <3>1 DEF ChangeCollRow
    <3> QED BY <1>3, <3>1, <3>2, ChangeCollRowStep
  <2>2. CASE RowSeen(t, Coll).rev = 0
    <3>1. txn' = [txn EXCEPT ![t].notified = TRUE, ![t].bumped = TRUE]
          /\ UNCHANGED <<dbVars, seq, newRows, newObjs, clientVars>> /\ Ready(t)
      BY <1>8, <2>2 DEF BumpSyncToken
    <3>2. /\ txn' \in [Txns -> TxnStates] /\ txn'[t].find = txn[t].find
          /\ txn'[t].start = txn[t].start /\ txn'[t].active = txn[t].active
          /\ \A u \in Txns \ {t} : txn'[u] = txn[u]
      BY <1>1, <3>1 DEF TxnStates
    <3>3. QuietTxn(t)
      BY <1>1, <3>1, <3>2 DEF QuietTxn, Ready
    <3> QED BY <1>3, <3>1, <3>3, QuietTxnStep
  <2> QED BY <2>1, <2>2
<1>9. CASE RenameSyncToken(t)
  <2>1. Ready(t) /\ ~Locked(t, Coll) /\ ChangeCollRow(t)
    BY <1>9 DEF RenameSyncToken
  <2>2. UNCHANGED dbVars
    BY <2>1 DEF ChangeCollRow
  <2> QED BY <1>3, <2>1, <2>2, ChangeCollRowStep
<1>10. ASSUME NEW n \in Names, InsertFind(t, n)
       PROVE  IndInv' /\ CurrentToken' >= CurrentToken
  <2>1. /\ txn[t].active /\ ~Locked(t, n)
        /\ txn' = [txn EXCEPT ![t].find = n, ![t].found = (RowSeen(t, n).rev # 0)]
        /\ UNCHANGED <<dbVars, seq, newRows, newObjs, clientVars>>
    BY <1>10 DEF InsertFind, Ready
  <2>2. (RowSeen(t, n).rev # 0) \in BOOLEAN
    OBVIOUS
  <2>3. /\ txn' \in [Txns -> TxnStates] /\ txn'[t].find = n
        /\ txn'[t].start = txn[t].start /\ txn'[t].active = txn[t].active
        /\ \A u \in Txns \ {t} : txn'[u] = txn[u]
    BY ZenonT(40), <1>1, <2>1, <2>2 DEF TxnStates
  <2>4. QuietTxn(t)
    BY <1>1, <2>1, <2>3 DEF QuietTxn
  <2> QED BY <1>3, <2>1, <2>4, QuietTxnStep
<1>11. ASSUME NEW n \in Names, InsertRevision(t, n)
       PROVE  IndInv' /\ CurrentToken' >= CurrentToken
  <2>1. txn[t].active /\ txn[t].find = n /\ ChangeRow(t, n, FALSE, seq + 1)
    BY <1>11 DEF InsertRevision
  <2>2. ~Locked(t, n)
    BY <2>1 DEF IndInv, FindHoldsLock
  <2>3. UNCHANGED dbVars
    BY <2>1 DEF ChangeRow
  <2>4. seq + 1 # 0
    BY <1>1
  <2>5. IndInv'
    BY <2>1, <2>2, <2>4, ChangeRowStep
  <2> QED BY <1>3, <2>3, <2>5
<1>12. ASSUME NEW n \in Names, UpdateRevision(t, n)
       PROVE  IndInv' /\ CurrentToken' >= CurrentToken
  <2>1. Ready(t) /\ ~Locked(t, n) /\ ObjSeen(t, n) # 0
        /\ ChangeRow(t, n, RowSeen(t, n).rev # 0 /\ RowSeen(t, n).deleted, seq + 1)
    BY <1>12 DEF UpdateRevision
  <2>2. UNCHANGED dbVars
    BY <2>1 DEF ChangeRow
  <2>3. ~(RowSeen(t, n).rev # 0 /\ RowSeen(t, n).deleted)
    BY <2>1 DEF IndInv, RowsMatchObjects, PendingMatchObjects, RowSeen, ObjSeen
  <2>6. ChangeRow(t, n, FALSE, seq + 1)
    <3>1. (RowSeen(t, n).rev # 0 /\ RowSeen(t, n).deleted) = FALSE
      BY <2>3
    <3> QED BY <2>1, <3>1
  <2>4. seq + 1 # 0
    BY <1>1
  <2>5. IndInv'
    BY <2>1, <2>4, <2>6, ChangeRowStep DEF Ready
  <2> QED BY <1>3, <2>2, <2>5
<1>13. ASSUME NEW n \in Names, DeleteRevision(t, n)
       PROVE  IndInv' /\ CurrentToken' >= CurrentToken
  <2>1. Ready(t) /\ ~Locked(t, n) /\ ChangeRow(t, n, TRUE, 0)
    BY <1>13 DEF DeleteRevision
  <2>2. UNCHANGED dbVars
    BY <2>1 DEF ChangeRow
  <2>3. IndInv'
    BY <2>1, ChangeRowStep DEF Ready
  <2> QED BY <1>3, <2>2, <2>3
<1> QED BY <1>4, <1>5, <1>6, <1>7, <1>8, <1>9, <1>10, <1>11, <1>12, <1>13 DEF TxnStep

\* Every step of a report preserves the invariant and the token.
LEMMA ClientStepInv ==
    ASSUME IndInv, NEW c \in Clients, ClientStep(c)
    PROVE  IndInv' /\ CurrentToken' = CurrentToken
<1>1. CASE ReadToken(c)
  BY <1>1, ReadTokenStep
<1>2. CASE ReportAll(c)
  BY <1>2, ReportAllStep, AnsweredStep
<1>3. CASE ReportChanges(c)
  BY <1>3, ReportChangesStep, AnsweredStep
<1>4. CASE ReportInvalid(c)
  BY <1>4, ReportInvalidStep
<1> QED BY <1>1, <1>2, <1>3, <1>4 DEF ClientStep

\* Every step preserves the invariant and never takes the token back.
LEMMA StepInv ==
    ASSUME IndInv, [Next]_vars
    PROVE  IndInv' /\ CurrentToken' >= CurrentToken
<1>1. CurrentToken \in Nat
  <2>1. rows \in [Slots -> Rows] /\ minValid \in Nat
    BY DEF IndInv, TypeOK
  <2> QED BY <2>1, TokenType DEF CurrentToken
<1>2. ASSUME NEW t \in Txns, TxnStep(t)
      PROVE  IndInv' /\ CurrentToken' >= CurrentToken
  BY <1>2, TxnStepInv
<1>3. ASSUME NEW c \in Clients, ClientStep(c)
      PROVE  IndInv' /\ CurrentToken' >= CurrentToken
  BY <1>1, <1>3, ClientStepInv
<1>4. ASSUME NEW cut \in 1..MaxRev, FindMinValidRevision(cut)
      PROVE  IndInv' /\ CurrentToken' >= CurrentToken
  BY <1>4, FindMinStep
<1>5. CASE RevisionCleanup
  BY <1>5, CleanupStep
<1>6. CASE UNCHANGED vars
  <2>1. UNCHANGED <<rows, objs, last, minValid, cleanupDue, seq, txn, newRows, newObjs, cli, late, view>>
    BY <1>6 DEF vars, dbVars, txnVars, clientVars
  <2>2. CurrentToken' = CurrentToken
    BY <2>1 DEF CurrentToken
  <2>3. IndInv'
    BY <2>1, <2>2 DEF IndInv, TypeOK, WithinSequence, RowsCarryLast, RowsMatchObjects,
           PendingFresh, FindHoldsLock, PendingMatchObjects, LateNoted, ViewGap,
           TokensStayKnown, Wrote, Locked
  <2> QED BY <1>1, <2>2, <2>3
<1> QED BY <1>2, <1>3, <1>4, <1>5, <1>6 DEF Next

\* IndInv holds in every reachable state of the change log, whatever the sets
\* of names, transactions and clients and however long it runs.
THEOREM InductiveInvariant == Spec => []IndInv
<1>1. Init => IndInv
  BY InitIndInv
<1>2. IndInv /\ [Next]_vars => IndInv'
  BY StepInv
<1> QED BY <1>1, <1>2, PTL DEF Spec

\* Type correctness.
THEOREM TypeCorrect == Spec => []TypeOK
<1>1. IndInv => TypeOK
  BY DEF IndInv
<1> QED BY <1>1, InductiveInvariant, PTL

\* A revision row is a tombstone exactly when its object is gone.
THEOREM RowsMatch == Spec => []RowsMatchObjects
<1>1. IndInv => RowsMatchObjects
  BY DEF IndInv
<1> QED BY <1>1, InductiveInvariant, PTL

\* A report from a valid token leaves out only changes whose transaction was
\* still open when a token was read, or that took the announced revision.
THEOREM OnlyLateLost == Spec => []OnlyLateChangesLost
<1>1. IndInv => OnlyLateChangesLost
  <2> SUFFICES ASSUME IndInv, NEW c \in Clients, NEW n \in Names,
                      cli[c].token # 0, cli[c].token >= minValid,
                      view[c][n] # objs[n]
               PROVE  rows[n].rev > cli[c].token \/ last[n] \in late[c]
    BY DEF OnlyLateChangesLost, WillBeTold
  <2>1. last[n] > cli[c].token \/ last[n] \in late[c]
    BY DEF IndInv, ViewGap
  <2>2. IF rows[n].rev # 0 THEN last[n] = rows[n].rev ELSE last[n] < minValid
    BY DEF IndInv, RowsCarryLast
  <2>3. last[n] \in Nat /\ cli[c].token \in Nat /\ minValid \in Nat
    BY DEF IndInv, TypeOK, ClientStates
  <2> QED BY <2>1, <2>2, <2>3
<1> QED BY <1>1, InductiveInvariant, PTL

\* No token that was handed out is ever above the current one.
THEOREM TokensKnown == Spec => []TokensStayKnown
<1>1. IndInv => TokensStayKnown
  BY DEF IndInv
<1> QED BY <1>1, InductiveInvariant, PTL

\* The sync token of the collection never goes back.
THEOREM TokenNeverBack == Spec => TokenMonotonic
<1>1. IndInv /\ [Next]_vars => CurrentToken' >= CurrentToken
  BY StepInv
<1>2. IndInv /\ [Next]_vars => [CurrentToken' >= CurrentToken]_vars
  BY <1>1
<1> QED BY <1>2, InductiveInvariant, PTL DEF Spec, TokenMonotonic
====
