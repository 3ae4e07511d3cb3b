----------------------------- MODULE SyncTokens -----------------------------
(***************************************************************************)
(* The change log behind DAV sync tokens, for one collection of the SQL    *)
(* store: txdav/common/datastore/sql_util.py (_SharedSyncLogic), its       *)
(* callers in txdav/common/datastore/sql.py, the revision clean-up work    *)
(* items (work/revision_cleanup.py) and the sync-collection report         *)
(* (twistedcaldav/resource.py, whatchanged).                               *)
(*                                                                         *)
(* The *_OBJECT_REVISIONS table keeps one row per resource name of the     *)
(* collection and one row without a name for the collection itself (slot   *)
(* Coll).  Every change takes REVISION from one database sequence BEFORE   *)
(* its transaction commits; nextval is not transactional, so the order of  *)
(* revisions and the order of commits differ.  Transactions run at READ    *)
(* COMMITTED: a statement sees the rows committed before it started, plus  *)
(* the transaction's own, and waits for a row another one has written.     *)
(***************************************************************************)
EXTENDS Integers, FiniteSets

CONSTANTS Names,      \* resource names in the collection
          Txns,       \* store transactions that can be open together
          Clients,    \* sync clients
          Coll,       \* the slot of the row with no RESOURCE_NAME
          NoName,     \* no insert in progress
          MaxRev,     \* bound: revisions taken from REVISION_SEQ
          Cleaning    \* whether RevisionCleanup.Enabled

ASSUME SyncAssumption ==
    /\ Coll \notin Names /\ NoName \notin Names /\ Coll # NoName
    /\ MaxRev \in Nat \ {0}
    /\ Cleaning \in BOOLEAN

VARIABLES
    rows,        \* committed revision rows, per slot; rev = 0: no row
    objs,        \* committed objects: revision of the content, 0: none
    last,        \* (history) revision of the last committed change of a name
    seq,         \* last value handed out by REVISION_SEQ
    minValid,    \* CALENDARSERVER.MIN-VALID-REVISION
    cleanupDue,  \* a RevisionCleanupWork item is queued
    txn,         \* the state of each transaction
    newRows,     \* the rows each transaction has written; rev = 0: none
    newObjs,     \* the objects that go with them
    cli,         \* the report each client is in, and its token
    late,        \* (history) revisions that were out but not committed when
                 \* the client was given its tokens
    view         \* what each client knows of the objects

dbVars == <<rows, objs, last, minValid, cleanupDue>>
txnVars == <<txn, newRows, newObjs>>
clientVars == <<cli, late, view>>
vars == <<dbVars, seq, txnVars, clientVars>>

Slots == Names \cup {Coll}
NoRow == [rev |-> 0, deleted |-> FALSE, modified |-> 0]
FirstRow == [rev |-> 1, deleted |-> FALSE, modified |-> 0]

\* Time is counted in revisions handed out: "modified" of a row is the value
\* of the sequence when the transaction that wrote it began (CURRENT_TIMESTAMP
\* is the start of the transaction).
Row(r, del, t) == [rev |-> r, deleted |-> del, modified |-> txn[t].start]

IdleTxn == [active |-> FALSE, start |-> 0, find |-> NoName, found |-> FALSE,
            notified |-> FALSE, bumped |-> FALSE]
NoRows == [s \in Slots |-> NoRow]
NoObjs == [n \in Names |-> 0]

\* token = 0: the client holds no token
NewClient == [busy |-> FALSE, token |-> 0, new |-> 0]

-----------------------------------------------------------------------------
\* What a transaction sees, and whom it waits for

Wrote(t, s) == newRows[t][s].rev # 0
RowSeen(t, s) == IF Wrote(t, s) THEN newRows[t][s] ELSE rows[s]
ObjSeen(t, n) == IF Wrote(t, n) THEN newObjs[t][n] ELSE objs[n]

\* The object's own table row, or its unique (collection, name) key, is locked
\* before the revision row is touched.
Locked(t, s) == \E u \in Txns \ {t} : Wrote(u, s) \/ txn[u].find = s

Ready(t) == txn[t].active /\ txn[t].find = NoName

-----------------------------------------------------------------------------
\* Sync tokens

Revisions(rr) == {rr[s].rev : s \in {x \in Slots : rr[x].rev # 0}}
MaxOf(S) == CHOOSE x \in S : \A y \in S : y <= x

\* Mutant: a collection with no row left starts again at the first revision.
syncTokenRevision_first(rr, mv) ==
    IF Revisions(rr) = {} THEN 1 ELSE MaxOf(Revisions(rr))

\* max(REVISION), or MIN-VALID-REVISION when every row has been cleaned up
syncTokenRevision(rr, mv) ==
    IF Revisions(rr) = {} THEN mv ELSE MaxOf(Revisions(rr))

CurrentToken == syncTokenRevision(rows, minValid)

-----------------------------------------------------------------------------
\* A collection that was just created: its own row and no objects
Init ==
    /\ rows = [s \in Slots |-> IF s = Coll THEN FirstRow ELSE NoRow]
    /\ objs = NoObjs
    /\ last = NoObjs
    /\ seq = 1
    /\ minValid = 1
    /\ cleanupDue = FALSE
    /\ txn = [t \in Txns |-> IdleTxn]
    /\ newRows = [t \in Txns |-> NoRows]
    /\ newObjs = [t \in Txns |-> NoObjs]
    /\ cli = [c \in Clients |-> NewClient]
    /\ late = [c \in Clients |-> {}]
    /\ view = [c \in Clients |-> NoObjs]

-----------------------------------------------------------------------------
\* Store transactions

Begin(t) ==
    /\ ~txn[t].active
    /\ txn' = [txn EXCEPT ![t].active = TRUE, ![t].start = seq]
    /\ UNCHANGED <<dbVars, seq, newRows, newObjs, clientVars>>

\* The transaction is over: what it wrote and did not commit is gone.
End(t) ==
    /\ txn' = [txn EXCEPT ![t] = IdleTxn]
    /\ newRows' = [newRows EXCEPT ![t] = NoRows]
    /\ newObjs' = [newObjs EXCEPT ![t] = NoObjs]

\* One statement that sets REVISION of name n to nextval(REVISION_SEQ), with
\* the object's content, and the notifyChanged that follows it.
ChangeRow(t, n, del, content) ==
    /\ seq < MaxRev
    /\ seq' = seq + 1
    /\ newRows' = [newRows EXCEPT ![t][n] = Row(seq + 1, del, t)]
    /\ newObjs' = [newObjs EXCEPT ![t][n] = content]
    /\ txn' = [txn EXCEPT ![t].find = NoName, ![t].notified = TRUE]
    /\ UNCHANGED <<dbVars, clientVars>>

\* _changeRevision("insert"): the name is free, so its object is inserted and
\* a row left by an earlier object of that name is looked for ...
InsertFind(t, n) ==
    /\ Ready(t) /\ ~Locked(t, n) /\ ObjSeen(t, n) = 0
    /\ txn' = [txn EXCEPT ![t].find = n, ![t].found = (RowSeen(t, n).rev # 0)]
    /\ UNCHANGED <<dbVars, seq, newRows, newObjs, clientVars>>

\* Mutant: the row that was found is bumped but stays a tombstone.
InsertRevision_tombstone(t, n) ==
    /\ txn[t].active /\ txn[t].find = n
    /\ txn[t].found => RowSeen(t, n).rev # 0
    /\ ChangeRow(t, n, RowSeen(t, n).deleted, seq + 1)

\* ... then that row is bumped and marked live, or a new one is inserted.
InsertRevision(t, n) ==
    /\ txn[t].active /\ txn[t].find = n
    /\ txn[t].found => RowSeen(t, n).rev # 0
    /\ ChangeRow(t, n, FALSE, seq + 1)

\* The clean-up removed the row that was found before the UPDATE ran: the
\* UPDATE returns no row, [0][0] raises and the transaction is aborted.
InsertRowVanished(t) ==
    /\ txn[t].active /\ txn[t].find # NoName
    /\ txn[t].found /\ RowSeen(t, txn[t].find).rev = 0
    /\ End(t)
    /\ UNCHANGED <<dbVars, seq, clientVars>>

\* _changeRevision("update"): DELETED is left as it is; a missing row is
\* inserted as a live one.
UpdateRevision(t, n) ==
    /\ Ready(t) /\ ~Locked(t, n) /\ ObjSeen(t, n) # 0
    /\ ChangeRow(t, n, RowSeen(t, n).rev # 0 /\ RowSeen(t, n).deleted, seq + 1)

\* _changeRevision("delete"): the row becomes a tombstone, a missing row is
\* inserted as one.
DeleteRevision(t, n) ==
    /\ Ready(t) /\ ~Locked(t, n) /\ ObjSeen(t, n) # 0
    /\ ChangeRow(t, n, TRUE, 0)

\* One statement that bumps the row of the collection itself
ChangeCollRow(t) ==
    /\ seq < MaxRev
    /\ seq' = seq + 1
    /\ newRows' = [newRows EXCEPT ![t][Coll] = Row(seq + 1, FALSE, t)]
    /\ txn' = [txn EXCEPT ![t].notified = TRUE, ![t].bumped = TRUE]
    /\ UNCHANGED <<dbVars, newObjs, clientVars>>

\* notifyPropertyChanged -> _bumpSyncToken, once per transaction: an UPDATE,
\* which finds nothing to do when the row has been cleaned up.
BumpSyncToken(t) ==
    /\ Ready(t) /\ ~Locked(t, Coll)
    /\ ~txn[t].notified /\ ~txn[t].bumped
    /\ IF RowSeen(t, Coll).rev # 0
       THEN ChangeCollRow(t)
       ELSE /\ txn' = [txn EXCEPT ![t].notified = TRUE, ![t].bumped = TRUE]
            /\ UNCHANGED <<dbVars, seq, newRows, newObjs, clientVars>>

\* rename -> _renameSyncToken: an UPDATE, or _initSyncToken's INSERT when the
\* row has been cleaned up; the notifyPropertyChanged after it adds nothing.
RenameSyncToken(t) ==
    /\ Ready(t) /\ ~Locked(t, Coll)
    /\ ChangeCollRow(t)

Commit(t) ==
    /\ Ready(t)
    /\ rows' = [s \in Slots |-> RowSeen(t, s)]
    /\ objs' = [n \in Names |-> ObjSeen(t, n)]
    /\ last' = [n \in Names |-> IF Wrote(t, n) THEN newRows[t][n].rev ELSE last[n]]
    /\ End(t)
    /\ UNCHANGED <<seq, minValid, cleanupDue, clientVars>>

\* abort(), a time-out, an error or the death of the process; revisions taken
\* from the sequence are not given back.
Abort(t) ==
    /\ txn[t].active
    /\ End(t)
    /\ UNCHANGED <<dbVars, seq, clientVars>>

-----------------------------------------------------------------------------
\* Revision clean-up

OldRevisions(cut) ==
    {rows[s].rev : s \in {x \in Slots : rows[x].rev # 0 /\ rows[x].modified < cut}}

\* A transaction lasts minutes and a token SyncTokenLifetimeDays: whatever is
\* older than the cutoff had its revision before any open transaction began.
CutoffOK(cut) ==
    \A t \in Txns : txn[t].active =>
        /\ cut <= txn[t].start
        /\ \A r \in OldRevisions(cut) : r <= txn[t].start

\* FindMinValidRevisionWork.doWork
FindMinValidRevision(cut) ==
    /\ Cleaning
    /\ OldRevisions(cut) # {} /\ CutoffOK(cut)
    /\ MaxOf(OldRevisions(cut)) > minValid
    /\ minValid' = MaxOf(OldRevisions(cut)) + 1
    /\ cleanupDue' = TRUE
    /\ UNCHANGED <<rows, objs, last, seq, txnVars, clientVars>>

\* RevisionCleanupWork.doWork -> deleteRevisionsBefore: the DELETE waits for
\* the transactions that have written rows it would remove.
RevisionCleanup ==
    LET gone(s) == rows[s].rev # 0 /\ rows[s].rev < minValid
    IN  /\ cleanupDue
        /\ \A s \in Slots, t \in Txns : gone(s) => ~Wrote(t, s)
        /\ rows' = [s \in Slots |-> IF gone(s) THEN NoRow ELSE rows[s]]
        /\ cleanupDue' = FALSE
        /\ UNCHANGED <<objs, last, seq, minValid, txnVars, clientVars>>

-----------------------------------------------------------------------------
\* A sync-collection report.  whatchanged reads the current token first and
\* refuses a client's token above it ...

InFlight == {newRows[t][s].rev : t \in Txns, s \in Slots} \ {0}

ReadToken(c) ==
    /\ ~cli[c].busy
    /\ cli[c].token <= CurrentToken
    /\ cli' = [cli EXCEPT ![c].busy = TRUE, ![c].new = CurrentToken]
    /\ late' = [late EXCEPT ![c] = @ \cup InFlight
                                     \cup (IF CurrentToken > seq THEN {CurrentToken} ELSE {})]
    /\ UNCHANGED <<dbVars, seq, txnVars, view>>

\* resourceNamesSinceRevision(0): listObjectResources
ReportAll(c) ==
    /\ cli[c].busy /\ cli[c].token = 0
    /\ cli' = [cli EXCEPT ![c].busy = FALSE, ![c].token = cli[c].new]
    /\ view' = [view EXCEPT ![c] = objs]
    /\ UNCHANGED <<dbVars, seq, txnVars, late>>

\* Mutant: a tombstone is reported as a change, so the client keeps the name.
Reported_nodelete(n, revision, known) ==
    IF rows[n].rev > revision /\ ~rows[n].deleted THEN objs[n] ELSE known

\* What the client knows of name n after the rows above its revision
Reported(n, revision, known) ==
    IF rows[n].rev > revision
    THEN IF rows[n].deleted THEN 0 ELSE objs[n]
    ELSE known

\* ... then resourceNamesSinceRevision, in a later statement
ReportChanges(c) ==
    /\ cli[c].busy /\ cli[c].token # 0 /\ cli[c].token >= minValid
    /\ cli' = [cli EXCEPT ![c].busy = FALSE, ![c].token = cli[c].new]
    /\ view' = [view EXCEPT ![c] =
                   [n \in Names |-> Reported(n, cli[c].token, view[c][n])]]
    /\ UNCHANGED <<dbVars, seq, txnVars, late>>

\* SyncTokenValidException (403 valid-sync-token): start afresh.
ReportInvalid(c) ==
    /\ cli[c].busy /\ cli[c].token # 0 /\ cli[c].token < minValid
    /\ cli' = [cli EXCEPT ![c] = NewClient]
    /\ late' = [late EXCEPT ![c] = {}]
    /\ view' = [view EXCEPT ![c] = NoObjs]
    /\ UNCHANGED <<dbVars, seq, txnVars>>

-----------------------------------------------------------------------------
TxnStep(t) ==
    \/ Begin(t) \/ Commit(t) \/ Abort(t)
    \/ InsertRowVanished(t) \/ BumpSyncToken(t) \/ RenameSyncToken(t)
    \/ \E n \in Names : \/ InsertFind(t, n) \/ InsertRevision(t, n)
                        \/ UpdateRevision(t, n) \/ DeleteRevision(t, n)

ClientStep(c) ==
    \/ ReadToken(c) \/ ReportAll(c) \/ ReportChanges(c) \/ ReportInvalid(c)

Next ==
    \/ \E t \in Txns : TxnStep(t)
    \/ \E c \in Clients : ClientStep(c)
    \/ \E cut \in 1..MaxRev : FindMinValidRevision(cut)
    \/ RevisionCleanup

Spec == Init /\ [][Next]_vars

-----------------------------------------------------------------------------
Rows == [rev : 0..MaxRev, deleted : BOOLEAN, modified : 0..MaxRev]
TxnStates == [active : BOOLEAN, start : 0..MaxRev,
              find : Names \cup {NoName}, found : BOOLEAN,
              notified : BOOLEAN, bumped : BOOLEAN]
ClientStates == [busy : BOOLEAN, token : 0..(MaxRev + 1), new : 0..(MaxRev + 1)]

\* Revisions stay within what the sequence has handed out, and
\* MIN-VALID-REVISION is at most one past it.
TypeOK ==
    /\ rows \in [Slots -> Rows]
    /\ objs \in [Names -> 0..MaxRev]
    /\ last \in [Names -> 0..MaxRev]
    /\ seq \in 1..MaxRev
    /\ minValid \in 1..(seq + 1)
    /\ cleanupDue \in BOOLEAN
    /\ txn \in [Txns -> TxnStates]
    /\ newRows \in [Txns -> [Slots -> Rows]]
    /\ newObjs \in [Txns -> [Names -> 0..MaxRev]]
    /\ cli \in [Clients -> ClientStates]
    /\ late \in [Clients -> SUBSET (1..(MaxRev + 1))]
    /\ view \in [Clients -> [Names -> 0..MaxRev]]

\* A row that has not been cleaned up says what happened to its object: it is
\* a tombstone exactly when the object is gone (_changeRevision keeps DELETED
\* right through insert, update, delete and re-insert of a name, with the
\* clean-up removing rows in between).
RowsMatchObjects ==
    \A n \in Names : rows[n].rev # 0 => (rows[n].deleted <=> objs[n] = 0)

\* The client will be told of n by its next report.
WillBeTold(c, n) == rows[n].rev > cli[c].token

\* A client whose token is still valid and which does not know the state of n
\* will be told of n by its next report.
NoLostChange ==
    \A c \in Clients, n \in Names :
        /\ ~cli[c].busy /\ cli[c].token # 0 /\ cli[c].token >= minValid
        /\ view[c][n] # objs[n]
        => WillBeTold(c, n)

\* What resourceNamesSinceRevision does guarantee: the only changes a valid
\* token misses are those whose transaction already had its revision, without
\* having committed, when a token was read (or that took the very revision a
\* token read from MIN-VALID-REVISION announced).
OnlyLateChangesLost ==
    \A c \in Clients, n \in Names :
        /\ ~cli[c].busy /\ cli[c].token # 0 /\ cli[c].token >= minValid
        /\ view[c][n] # objs[n]
        => WillBeTold(c, n) \/ last[n] \in late[c]

\* No token handed out is ever refused as one from the future: whatchanged
\* rejects revision > current_revision, and the current revision never falls
\* below a token, whatever commits, aborts or is cleaned up.
TokensStayKnown ==
    \A c \in Clients : cli[c].token <= CurrentToken /\ cli[c].new <= CurrentToken

\* The token of the collection never goes back.
TokenMonotonic == [][CurrentToken' >= CurrentToken]_vars
====
