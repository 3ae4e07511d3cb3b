---------------------------- MODULE GroupSharing ----------------------------
(***************************************************************************)
(* One calendar shared with users and with groups, and the group cacher    *)
(* that follows the directory.  A sharee has one bind row, whose mode says *)
(* whether he was invited himself, as a member of a shared group, or both. *)
(* The members of a group are cached in the database; a poll refreshes the *)
(* cache, and a work item then reconciles the bind rows with it.           *)
(*                                                                         *)
(* Every action but the poll is one database transaction; the poll reads   *)
(* which groups are in use, and other transactions commit before it        *)
(* deletes the other ones.  A membership hash is the set it is made from.  *)
(***************************************************************************)
EXTENDS FiniteSets, Integers

CONSTANTS
    Users,      \* users, the owner of the calendar excepted
    Groups,     \* groups of the directory
    Grants,     \* (bound) pairs of a group and an access granted to it
    MaxChanges  \* (bound) changes of a group in the directory

Access     == {"READ", "WRITE"}
GroupModes == {"GROUP", "GROUP_READ", "GROUP_WRITE"}
Modes      == Access \cup GroupModes

ASSUME MaxChangesAssumption == MaxChanges \in Nat
ASSUME GroupsAssumption == IsFiniteSet(Groups)
ASSUME GrantsAssumption == Grants \subseteq Groups \X Access

VARIABLES
    dir,        \* dir[g]: the expanded members of g in the directory
    changes,    \* (bound) changes of the directory so far
    row,        \* the groups with a row in GROUPS
    members,    \* members[g]: the rows of g in GROUP_MEMBERSHIP
    linkMode,   \* linkMode[g]: GROUP_BIND_MODE of g in GROUP_SHAREE
    linkHash,   \* linkHash[g]: MEMBERSHIP_HASH of g in GROUP_SHAREE
    mode,       \* mode[u]: BIND_MODE of u in CALENDAR_BIND
    declined,   \* the users with a bind row whose BIND_STATUS is declined
    shared,     \* the owner's bind row says that the calendar is shared
    trashed,    \* the calendar is in the trash
    refresh,    \* the groups with a GROUP_REFRESH_WORK item
    work,       \* the groups with a GROUP_SHAREE_RECONCILE_WORK item
    polling,    \* the poll has read which groups are in use
    inUse,      \* the groups it read
    individual, \* (history) what the owner last granted to the user himself
    outOfStep,  \* (history) users whose bind a change or a loss passed by
    dropped     \* (history) groups whose reconciliation another one replaced

cacheVars   == <<row, members>>
linkVars    == <<linkMode, linkHash>>
bindVars    == <<mode, declined, shared, trashed>>
workVars    == <<refresh, work, polling, inUse>>
historyVars == <<individual, outOfStep, dropped>>
vars == <<dir, changes, cacheVars, linkVars, bindVars, workVars, historyVars>>

\* The groups the calendar is shared with, and those of them that the
\* database knows the user to be a member of.
Linked == {g \in Groups : linkMode[g] # "none"}
MemberGroups(u) == {g \in Linked : u \in members[g]}

-----------------------------------------------------------------------------
(***************************************************************************)
(* The mode of a bind row after one more, or one less, reason to have it.  *)
(* "none" is the absence of a row.                                         *)
(***************************************************************************)

\* Mutant: the higher of the two individual grants stays.
AfterAddingOneIndividualSharee_keep(m, granted) ==
    CASE m = "GROUP_WRITE" -> "GROUP_WRITE"
      [] m \in {"GROUP", "GROUP_READ"} ->
            IF granted = "READ" THEN "GROUP_READ" ELSE "GROUP_WRITE"
      [] OTHER -> granted

AfterAddingOneIndividualSharee(m, granted) ==
    IF m \in GroupModes
    THEN IF granted = "READ" THEN "GROUP_READ" ELSE "GROUP_WRITE"
    ELSE granted

AfterRemovingOneIndividualSharee(m) ==
    IF m \in {"GROUP_READ", "GROUP_WRITE"} THEN "GROUP" ELSE "none"

AfterAddingOneGroupSharee(m) ==
    CASE m = "READ"  -> "GROUP_READ"
      [] m = "WRITE" -> "GROUP_WRITE"
      [] m = "none"  -> "GROUP"
      [] OTHER       -> m

\* The individual part of a mode: what remains when no group is left.
IndividualPart(m) ==
    CASE m \in {"READ", "GROUP_READ"}   -> "READ"
      [] m \in {"WRITE", "GROUP_WRITE"} -> "WRITE"
      [] OTHER                          -> "none"

\* The group that is removed is still counted.  A share without any group in
\* its mode is given up altogether.
AfterRemovingOneGroupSharee(u) ==
    IF mode[u] \notin GroupModes THEN "none"
    ELSE IF Cardinality(MemberGroups(u)) > 1 THEN mode[u]
         ELSE IndividualPart(mode[u])

\* The access a bind row gives.  A group sharee who is in no group any more,
\* but has not been reconciled yet, may read.
EffectiveShareMode(u) ==
    CASE mode[u] = "GROUP_WRITE"             -> "WRITE"
      [] mode[u] \in {"GROUP", "GROUP_READ"} ->
            IF \E g \in MemberGroups(u) : linkMode[g] = "WRITE"
            THEN "WRITE" ELSE "READ"
      [] OTHER                               -> mode[u]

-----------------------------------------------------------------------------

Init ==
    /\ dir \in [Groups -> SUBSET Users]
    /\ changes = 0
    /\ row = {}
    /\ members = [g \in Groups |-> {}]
    /\ linkMode = [g \in Groups |-> "none"]
    /\ linkHash = [g \in Groups |-> {}]
    /\ mode = [u \in Users |-> "none"]
    /\ declined = {}
    /\ shared = FALSE
    /\ trashed = FALSE
    /\ refresh = {}
    /\ work = {}
    /\ polling = FALSE
    /\ inUse = {}
    /\ individual = [u \in Users |-> "none"]
    /\ outOfStep = {}
    /\ dropped = {}

\* Give the users in the domain of newMode the bind row with that mode: an
\* existing row is updated, a new one created, and a row of mode "none" removed.
\* A declined invitation is made again.
SetBinds(newMode) ==
    /\ mode' = [u \in Users |-> IF u \in DOMAIN newMode THEN newMode[u] ELSE mode[u]]
    /\ declined' = declined \ DOMAIN newMode

\* A request of the owner ends by marking the calendar as shared or not.
HandleInvite ==
    /\ ~trashed
    /\ shared' = \/ \E u \in Users : mode'[u] # "none"
                 \/ \E g \in Groups : linkMode'[g] # "none"
    /\ UNCHANGED <<dir, changes, trashed, workVars>>

-----------------------------------------------------------------------------
(***************************************************************************)
(* The owner and the sharees                                               *)
(***************************************************************************)

InviteUser(u, granted) ==
    /\ SetBinds([v \in {u} |-> AfterAddingOneIndividualSharee(mode[v], granted)])
    /\ individual' = [individual EXCEPT ![u] = granted]
    /\ UNCHANGED <<cacheVars, linkVars, outOfStep, dropped>>
    /\ HandleInvite

\* A sharee who is only a member of a group is removed too, although his group
\* keeps the share.
UninviteUser(u) ==
    /\ mode[u] # "none"
    /\ SetBinds([v \in {u} |-> AfterRemovingOneIndividualSharee(mode[v])])
    /\ individual' = [individual EXCEPT ![u] = "none"]
    /\ outOfStep' = outOfStep \cup {v \in {u} : mode[v] = "GROUP"}
    /\ UNCHANGED <<cacheVars, linkVars, dropped>>
    /\ HandleInvite

\* The members of a group: those of the cache, or those of the directory when
\* the cache does not have the group yet.
GroupMembers(g) == IF g \in row THEN members[g] ELSE dir[g]

\* Members who left since the last invitation are not told apart any more once
\* the hash is written.
InviteGroup(g, granted) ==
    LET invitees == GroupMembers(g)
    IN  /\ row' = row \cup {g}
        /\ members' = [members EXCEPT ![g] = invitees]
        /\ linkMode' = [linkMode EXCEPT ![g] = granted]
        /\ linkHash' = [linkHash EXCEPT ![g] = invitees]
        /\ SetBinds([u \in invitees |-> AfterAddingOneGroupSharee(mode[u])])
        /\ outOfStep' = outOfStep \cup (linkHash[g] \ invitees)
        /\ dropped' = dropped \ {g}
        /\ UNCHANGED individual
        /\ HandleInvite

\* A user has a change of his membership in g that is not reconciled.
Pending(u, g) == (u \in linkHash[g]) # (u \in members[g])

\* Mutant: the group that is removed is not counted.
UninviteGroup_last(g) ==
    /\ g \in Linked
    /\ SetBinds([u \in {v \in members[g] : mode[v] # "none"} |->
                   IF mode[u] \in GroupModes /\ Cardinality(MemberGroups(u)) > 0
                   THEN mode[u] ELSE AfterRemovingOneGroupSharee(u)])
    /\ linkMode' = [linkMode EXCEPT ![g] = "none"]
    /\ linkHash' = [linkHash EXCEPT ![g] = {}]
    /\ outOfStep' = outOfStep
          \cup {u \in Users : Pending(u, g)}
          \cup {u \in members[g] : \E h \in Linked : Pending(u, h)}
    /\ dropped' = dropped \ {g}
    /\ UNCHANGED <<cacheVars, individual>>
    /\ HandleInvite

\* Only present members are looked at, and with the counts of the cache: a
\* user with a pending change keeps a bind that no group gives him, or loses
\* one that was given to him alone.
UninviteGroup(g) ==
    /\ g \in Linked
    /\ SetBinds([u \in {v \in members[g] : mode[v] # "none"} |-> AfterRemovingOneGroupSharee(u)])
    /\ linkMode' = [linkMode EXCEPT ![g] = "none"]
    /\ linkHash' = [linkHash EXCEPT ![g] = {}]
    /\ outOfStep' = outOfStep
          \cup {u \in Users : Pending(u, g)}
          \cup {u \in members[g] : \E h \in Linked : Pending(u, h)}
    /\ dropped' = dropped \ {g}
    /\ UNCHANGED <<cacheVars, individual>>
    /\ HandleInvite

\* Every sharee is uninvited as an individual, so that one who is in a group as
\* well keeps his row; then the links to groups are deleted.
OwnerDeleteShare ==
    /\ shared' = FALSE
    /\ SetBinds([u \in {v \in Users : mode[v] # "none"} |-> AfterRemovingOneIndividualSharee(mode[u])])
    /\ linkMode' = [g \in Groups |-> "none"]
    /\ linkHash' = [g \in Groups |-> {}]
    /\ individual' = [u \in Users |-> "none"]
    /\ outOfStep' = {u \in Users : AfterRemovingOneIndividualSharee(mode[u]) # "none"}
    /\ dropped' = {}

ToTrash ==
    /\ ~trashed
    /\ trashed' = TRUE
    /\ OwnerDeleteShare
    /\ UNCHANGED <<dir, changes, cacheVars, workVars>>

FromTrash ==
    /\ trashed
    /\ trashed' = FALSE
    /\ UNCHANGED <<dir, changes, cacheVars, linkVars, mode, declined, shared, workVars,
                   historyVars>>

\* An accepted invitation and one without an answer are treated alike.
AcceptShare(u) ==
    /\ ~trashed
    /\ u \in declined
    /\ declined' = declined \ {u}
    /\ UNCHANGED <<dir, changes, cacheVars, linkVars, mode, shared, trashed, workVars,
                   historyVars>>

DeclineShare(u) ==
    /\ ~trashed
    /\ mode[u] # "none"
    /\ declined' = declined \cup {u}
    /\ UNCHANGED <<dir, changes, cacheVars, linkVars, mode, shared, trashed, workVars,
                   historyVars>>

-----------------------------------------------------------------------------
(***************************************************************************)
(* The directory, the group cacher and the reconciliation                  *)
(***************************************************************************)

DirectoryChange(g, S) ==
    /\ changes < MaxChanges
    /\ S # dir[g]
    /\ dir' = [dir EXCEPT ![g] = S]
    /\ changes' = changes + 1
    /\ UNCHANGED <<cacheVars, linkVars, bindVars, workVars, historyVars>>

GroupsToRefresh ==
    /\ ~polling
    /\ polling' = TRUE
    /\ inUse' = Linked
    /\ UNCHANGED <<dir, changes, cacheVars, linkVars, bindVars, refresh, work, historyVars>>

\* Groups not in use are deleted, and with them what refers to them; if one
\* came into use since, its sharees keep their bind rows.  The other groups
\* are to be refreshed.  (AutomaticPurging, which also deletes groups that have
\* long been missing in the directory, is off.)
Update ==
    /\ polling
    /\ LET gone == row \ inUse
       IN  /\ row' = row \ gone
           /\ members' = [g \in Groups |-> IF g \in gone THEN {} ELSE members[g]]
           /\ linkMode' = [g \in Groups |-> IF g \in gone THEN "none" ELSE linkMode[g]]
           /\ linkHash' = [g \in Groups |-> IF g \in gone THEN {} ELSE linkHash[g]]
           /\ work' = work \ gone
           /\ outOfStep' = outOfStep \cup
                 UNION {linkHash[g] \cup members[g] : g \in gone \cap Linked}
           /\ dropped' = dropped \ gone
    /\ refresh' = refresh \cup inUse
    /\ polling' = FALSE
    /\ inUse' = {}
    /\ UNCHANGED <<dir, changes, bindVars, individual>>

\* Mutant: the change is not handed on.
RefreshGroup_silent(g) ==
    /\ g \in refresh
    /\ refresh' = refresh \ {g}
    /\ row' = row \cup {g}
    /\ members' = [members EXCEPT ![g] = dir[g]]
    /\ dropped' = IF members[g] # dir[g] THEN dropped \ {g} ELSE dropped
    /\ UNCHANGED <<dir, changes, linkVars, bindVars, work, polling, inUse, individual,
                   outOfStep>>

\* A changed group that the calendar is shared with is to be reconciled.
ScheduleGroupShareeReconciliations(g) ==
    /\ work' = work \cup ({g} \cap Linked)
    /\ dropped' = dropped \ {g}

RefreshGroup(g) ==
    /\ g \in refresh
    /\ refresh' = refresh \ {g}
    /\ row' = row \cup {g}
    /\ members' = [members EXCEPT ![g] = dir[g]]
    /\ IF members[g] # dir[g]
       THEN ScheduleGroupShareeReconciliations(g)
       ELSE UNCHANGED <<work, dropped>>
    /\ UNCHANGED <<dir, changes, linkVars, bindVars, polling, inUse, individual, outOfStep>>

\* The directory does not answer: the error is logged and the item is gone.
RefreshGroupFails(g) ==
    /\ g \in refresh
    /\ refresh' = refresh \ {g}
    /\ UNCHANGED <<dir, changes, cacheVars, linkVars, bindVars, work, polling, inUse,
                   historyVars>>

\* The bind rows that disagree with the members of the shared groups, and what
\* becomes of them.
Strays == {u \in Users : (mode[u] \in GroupModes) # (MemberGroups(u) # {})}
Reconciled(u) ==
    IF mode[u] \in GroupModes THEN IndividualPart(mode[u])
                              ELSE AfterAddingOneGroupSharee(mode[u])

\* The item replaces all items of the calendar.  If the group has not changed
\* since it was last reconciled nothing is done, whatever the other items were
\* for.  If it has, every group is reconciled, but the hash is written for
\* this group only: a later change of another group back to its old members
\* is taken for no change.  An item for a group that is no longer shared
\* fails, because its link would be created without a mode.
ReconcileGroupSharee(g) ==
    /\ g \in work
    /\ g \in Linked
    /\ work' = {}
    /\ IF linkHash[g] # members[g]
       THEN /\ linkHash' = [linkHash EXCEPT ![g] = members[g]]
            /\ SetBinds([u \in Strays |-> Reconciled(u)])
            /\ shared' = (shared \/ \E u \in Strays : mode[u] = "none")
            /\ outOfStep' = {u \in Users :
                  \/ u \in outOfStep /\ IndividualPart(mode[u]) # individual[u]
                  \/ \E h \in Linked \ {g} : Pending(u, h)}
            /\ dropped' = {}
            /\ UNCHANGED trashed
       ELSE /\ dropped' = dropped \cup ((work \cap Linked) \ {g})
            /\ UNCHANGED <<linkHash, bindVars, outOfStep>>
    /\ UNCHANGED <<dir, changes, cacheVars, linkMode, refresh, polling, inUse, individual>>

\* The item of a calendar in the trash does nothing.
ReconcileTrashed(g) ==
    /\ g \in work
    /\ trashed
    /\ work' = {}
    /\ UNCHANGED <<dir, changes, cacheVars, linkVars, bindVars, refresh, polling, inUse,
                   historyVars>>

-----------------------------------------------------------------------------

Next ==
    \/ \E u \in Users, m \in Access : InviteUser(u, m)
    \/ \E u \in Users : UninviteUser(u) \/ AcceptShare(u) \/ DeclineShare(u)
    \/ \E grant \in Grants : InviteGroup(grant[1], grant[2])
    \/ \E g \in Groups : UninviteGroup(g)
    \/ ToTrash
    \/ FromTrash
    \/ \E g \in Groups, S \in SUBSET Users : DirectoryChange(g, S)
    \/ GroupsToRefresh
    \/ Update
    \/ \E g \in Groups : \/ RefreshGroup(g)
                         \/ RefreshGroupFails(g)
                         \/ ReconcileGroupSharee(g)
                         \/ ReconcileTrashed(g)

Spec == Init /\ [][Next]_vars

\* The poll regenerates itself, work items are run until they succeed, and the
\* directory answers now and then.
Fairness ==
    /\ WF_vars(GroupsToRefresh)
    /\ WF_vars(Update)
    /\ \A g \in Groups : SF_vars(RefreshGroup(g)) /\ WF_vars(ReconcileGroupSharee(g))

FairSpec == Spec /\ Fairness

-----------------------------------------------------------------------------
(***************************************************************************)
(* Properties                                                              *)
(***************************************************************************)

\* Every table has rows of its type; a group is linked only while GROUPS has
\* a row for it, as the foreign keys of GROUP_SHAREE and GROUP_MEMBERSHIP
\* demand, and an answer to an invitation needs a bind row.
TypeOK ==
    /\ dir \in [Groups -> SUBSET Users]
    /\ changes \in 0..MaxChanges
    /\ row \subseteq Groups
    /\ members \in [Groups -> SUBSET Users]
    /\ linkMode \in [Groups -> Access \cup {"none"}]
    /\ linkHash \in [Groups -> SUBSET Users]
    /\ mode \in [Users -> Modes \cup {"none"}]
    /\ declined \subseteq Users
    /\ shared \in BOOLEAN
    /\ trashed \in BOOLEAN
    /\ refresh \subseteq Groups
    /\ work \subseteq Groups
    /\ polling \in BOOLEAN
    /\ inUse \subseteq Groups
    /\ individual \in [Users -> Access \cup {"none"}]
    /\ outOfStep \subseteq Users
    /\ dropped \subseteq Groups
    /\ \A g \in Groups \ row : linkMode[g] = "none" /\ members[g] = {}
    /\ \A g \in Groups \ Linked : linkHash[g] = {}
    /\ \A u \in declined : mode[u] # "none"

\* The mode that the comment on group sharing assigns to what the owner
\* granted to a user and to the given groups of his.
ModeFor(granted, groups) ==
    IF groups = {} THEN granted
    ELSE CASE granted = "READ"  -> "GROUP_READ"
           [] granted = "WRITE" -> "GROUP_WRITE"
           [] OTHER             -> "GROUP"

Settled(u) == \A g \in Linked : ~Pending(u, g)

\* Once the changes of a user's groups are reconciled, the mode of his bind row
\* tells whether he was invited himself, through a group, or both, however
\* invitations, removals, refreshes and reconciliations followed one another,
\* unless one of them passed him by (_groupModeAfter*, reconcileGroupSharee).
ModeTells ==
    \A u \in Users \ outOfStep :
        Settled(u) => mode[u] = ModeFor(individual[u], MemberGroups(u))

\* A settled sharee has the higher of the access granted to himself and the
\* accesses granted to the shared groups he is in (_effectiveShareMode).
AccessIsMaximum ==
    \A u \in Users \ outOfStep :
        LET grants == {individual[u]} \cup {linkMode[g] : g \in MemberGroups(u)}
        IN  Settled(u) => EffectiveShareMode(u) = IF "WRITE" \in grants THEN "WRITE"
                                                  ELSE IF "READ" \in grants THEN "READ"
                                                  ELSE "none"

\* Nobody may write, settled or passed by, who was not granted it himself and
\* is in no group to which it is granted now: a bind row left over from a
\* group gives no more than reading.
NeverWritesUngranted ==
    \A u \in Users :
        EffectiveShareMode(u) = "WRITE" =>
            \/ individual[u] = "WRITE"
            \/ \E g \in MemberGroups(u) : linkMode[g] = "WRITE"

\* When the directory stops changing, the sharees become those of the
\* directory, unless a user was passed by or his group's reconciliation was
\* replaced by that of a group without changes.
FollowsDirectory ==
    <>[](\A u \in Users \ outOfStep :
            \/ \E g \in dropped : Pending(u, g)
            \/ mode[u] = ModeFor(individual[u], {g \in Linked : u \in dir[g]}))

\* "Remove all sharees (direct and invited)": a calendar that is not shared,
\* because its owner has put it into the trash, has no sharee
\* (ownerDeleteShare).
UnsharedHasNoSharees == shared \/ \A u \in Users : mode[u] = "none"

=============================================================================
