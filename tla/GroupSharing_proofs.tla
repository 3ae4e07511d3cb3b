------------------------- MODULE GroupSharing_proofs -------------------------
(***************************************************************************)
(* Proofs about GroupSharing for any users, any finite set of groups and   *)
(* any number of changes of the directory.                                 *)
(***************************************************************************)
EXTENDS GroupSharing, FiniteSetTheorems, TLAPS

\* A bind row follows the membership that was last reconciled, which is the one
\* of the recorded hash, and not the members that the cache has now; and it
\* keeps what the owner granted to the user himself.
FollowsHash ==
    \A u \in Users \ outOfStep :
        /\ IndividualPart(mode[u]) = individual[u]
        /\ (mode[u] \in GroupModes) <=> (\E g \in Linked : u \in linkHash[g])

\* Whatever passed a user by, his row holds no write access of his own that
\* the owner has not granted to him.
WritesOnlyGranted ==
    \A u \in Users : IndividualPart(mode[u]) = "WRITE" => individual[u] = "WRITE"

\* The parts of the type invariant: the flags, the other variables, and what the
\* tables have in common.
FlagsOK ==
    /\ shared \in BOOLEAN
    /\ trashed \in BOOLEAN
    /\ polling \in BOOLEAN

TablesOK ==
    /\ dir \in [Groups -> SUBSET Users]
    /\ changes \in 0..MaxChanges
    /\ row \subseteq Groups
    /\ members \in [Groups -> SUBSET Users]
    /\ linkMode \in [Groups -> Access \cup {"none"}]
    /\ linkHash \in [Groups -> SUBSET Users]
    /\ mode \in [Users -> Modes \cup {"none"}]
    /\ declined \subseteq Users
    /\ refresh \subseteq Groups
    /\ work \subseteq Groups
    /\ inUse \subseteq Groups
    /\ individual \in [Users -> Access \cup {"none"}]
    /\ outOfStep \subseteq Users
    /\ dropped \subseteq Groups

KeysOK ==
    /\ \A g \in Groups \ row : linkMode[g] = "none" /\ members[g] = {}
    /\ \A g \in Groups \ Linked : linkHash[g] = {}
    /\ \A u \in declined : mode[u] # "none"

IndInv == TypeOK /\ FollowsHash /\ WritesOnlyGranted

AllModes == Modes \cup {"none"}

-----------------------------------------------------------------------------
(***************************************************************************)
(* The type invariant and the modes of bind rows                           *)
(***************************************************************************)

LEMMA TypeParts == TypeOK <=> FlagsOK /\ TablesOK /\ KeysOK
BY Zenon DEF TypeOK, FlagsOK, TablesOK, KeysOK

LEMMA NextParts ==
  ASSUME FlagsOK', TablesOK', KeysOK', FollowsHash', WritesOnlyGranted'
  PROVE  IndInv'
<1>1. TypeOK'
  BY Zenon DEF TypeOK, FlagsOK, TablesOK, KeysOK
<1> QED
  BY <1>1 DEF IndInv

\* An individual grant replaces the individual part and leaves the group part.
LEMMA AddingIndividual ==
  ASSUME NEW m \in AllModes, NEW a \in Access
  PROVE  /\ AfterAddingOneIndividualSharee(m, a) \in Modes
         /\ IndividualPart(AfterAddingOneIndividualSharee(m, a)) = a
         /\ AfterAddingOneIndividualSharee(m, a) \in GroupModes <=> m \in GroupModes
BY DEF AllModes, Modes, Access, GroupModes, AfterAddingOneIndividualSharee,
       IndividualPart

\* Removing the individual grant leaves a group row only if there was both.
LEMMA RemovingIndividual ==
  ASSUME NEW m \in AllModes
  PROVE  /\ AfterRemovingOneIndividualSharee(m) \in AllModes
         /\ IndividualPart(AfterRemovingOneIndividualSharee(m)) = "none"
         /\ m # "GROUP" => (AfterRemovingOneIndividualSharee(m) \in GroupModes
                               <=> m \in GroupModes)
BY DEF AllModes, Modes, Access, GroupModes, AfterRemovingOneIndividualSharee,
       IndividualPart

\* A group adds the group part and leaves the individual one.
LEMMA AddingGroup ==
  ASSUME NEW m \in AllModes
  PROVE  /\ AfterAddingOneGroupSharee(m) \in Modes
         /\ AfterAddingOneGroupSharee(m) \in GroupModes
         /\ IndividualPart(AfterAddingOneGroupSharee(m)) = IndividualPart(m)
BY DEF AllModes, Modes, Access, GroupModes, AfterAddingOneGroupSharee,
       IndividualPart

\* The individual part is what remains of a mode without its group part.
LEMMA PartOfMode ==
  ASSUME NEW m \in AllModes
  PROVE  /\ IndividualPart(m) \in Access \cup {"none"}
         /\ IndividualPart(m) \in AllModes
         /\ IndividualPart(m) \notin GroupModes
         /\ IndividualPart(IndividualPart(m)) = IndividualPart(m)
         /\ m \notin GroupModes => IndividualPart(m) = m
         /\ m \in GroupModes => m # "none"
BY DEF AllModes, Modes, Access, GroupModes, IndividualPart

\* A user who is in the group that is removed is in another one as well exactly
\* if he is counted more than once.
LEMMA CountsOtherGroups ==
  ASSUME NEW u \in Users, NEW g \in MemberGroups(u)
  PROVE  Cardinality(MemberGroups(u)) > 1 <=> \E h \in MemberGroups(u) : h # g
<1>1. IsFiniteSet(MemberGroups(u))
  <2>1. MemberGroups(u) \in SUBSET Groups
    BY DEF MemberGroups, Linked
  <2> QED
    BY <2>1, GroupsAssumption, FS_Subset
<1>2. /\ IsFiniteSet(MemberGroups(u) \ {g})
      /\ Cardinality(MemberGroups(u) \ {g}) = Cardinality(MemberGroups(u)) - 1
  BY <1>1, FS_RemoveElement
<1>3. /\ Cardinality(MemberGroups(u)) \in Nat
      /\ Cardinality(MemberGroups(u) \ {g}) \in Nat
  BY <1>1, <1>2, FS_CardinalityType
<1>4. Cardinality(MemberGroups(u) \ {g}) = 0 <=> MemberGroups(u) \ {g} = {}
  BY <1>2, FS_EmptySet
<1> QED
  BY <1>2, <1>3, <1>4

\* What the removal of a group leaves has the individual part of the row or
\* nothing.
LEMMA RemovingGroup ==
  ASSUME TypeOK, NEW u \in Users
  PROVE  /\ AfterRemovingOneGroupSharee(u) \in AllModes
         /\ IndividualPart(AfterRemovingOneGroupSharee(u)) = "WRITE"
               => IndividualPart(mode[u]) = "WRITE"
<1>1. mode[u] \in AllModes
  BY DEF TypeOK, AllModes
<1>2. "none" \in AllModes /\ IndividualPart("none") # "WRITE"
  BY DEF AllModes, IndividualPart
<1> QED
  BY <1>1, <1>2, PartOfMode DEF AfterRemovingOneGroupSharee

-----------------------------------------------------------------------------
(***************************************************************************)
(* The first states                                                        *)
(***************************************************************************)

LEMMA InitIndInv == Init => IndInv
<1> SUFFICES ASSUME Init PROVE IndInv
  OBVIOUS
<1>1. FlagsOK /\ TablesOK /\ KeysOK
  <2>1. FlagsOK
    BY Zenon DEF Init, FlagsOK
  <2>2. TablesOK
    BY MaxChangesAssumption DEF Init, TablesOK, Modes, Access
  <2>3. KeysOK
    BY DEF Init, KeysOK, Linked
  <2> QED
    BY <2>1, <2>2, <2>3
<1>2. FollowsHash /\ WritesOnlyGranted
  BY DEF Init, FollowsHash, WritesOnlyGranted, Linked, IndividualPart, GroupModes
<1> QED
  BY <1>1, <1>2, TypeParts DEF IndInv


-----------------------------------------------------------------------------
(***************************************************************************)
(* Requests of the owner                                                   *)
(***************************************************************************)

\* A request leaves the flags flags, and the work and the directory alone.
LEMMA RequestFlags == ASSUME FlagsOK, HandleInvite PROVE FlagsOK'
<1>1. shared' \in BOOLEAN
  BY Zenon DEF HandleInvite
<1>2. trashed' = trashed /\ polling' = polling
  BY DEF HandleInvite, workVars
<1> QED
  BY Zenon, <1>1, <1>2 DEF FlagsOK

LEMMA InviteUserStep ==
  ASSUME IndInv, NEW w \in Users, NEW a \in Access, InviteUser(w, a)
  PROVE  IndInv'
<1>0. TypeOK /\ FlagsOK /\ TablesOK /\ KeysOK /\ FollowsHash /\ WritesOnlyGranted
  BY TypeParts DEF IndInv
<1>1. HandleInvite /\ UNCHANGED <<cacheVars, linkVars, outOfStep, dropped>>
  BY DEF InviteUser
<1>2. /\ mode' = [u \in Users |-> IF u \in {w}
                                  THEN AfterAddingOneIndividualSharee(mode[u], a)
                                  ELSE mode[u]]
      /\ declined' = declined \ {w}
      /\ individual' = [individual EXCEPT ![w] = a]
  BY DEF InviteUser, SetBinds
<1>3. \A u \in Users : mode[u] \in AllModes
  BY <1>0 DEF TablesOK, AllModes
<1>4. \A u \in Users : mode'[u] \in AllModes
  BY <1>2, <1>3, AddingIndividual DEF AllModes
<1>5. FlagsOK'
  BY <1>0, <1>1, RequestFlags
<1>6. TablesOK'
  <2>1. individual' \in [Users -> Access \cup {"none"}] /\ declined' \subseteq Users
    BY <1>0, <1>2 DEF TablesOK
  <2>2. mode' \in [Users -> Modes \cup {"none"}]
    BY <1>2, <1>4 DEF AllModes
  <2> QED
    BY <1>0, <1>1, <2>1, <2>2
    DEF TablesOK, HandleInvite, workVars, cacheVars, linkVars
<1>7. KeysOK'
  BY <1>0, <1>1, <1>2 DEF KeysOK, TablesOK, Linked, cacheVars, linkVars
<1>8. FollowsHash'
  BY <1>0, <1>1, <1>2, <1>3, AddingIndividual
  DEF FollowsHash, TablesOK, Linked, linkVars
<1>9. WritesOnlyGranted'
  BY <1>0, <1>2, <1>3, AddingIndividual DEF WritesOnlyGranted, TablesOK
<1> QED
  BY <1>5, <1>6, <1>7, <1>8, <1>9, NextParts

LEMMA UninviteUserStep ==
  ASSUME IndInv, NEW w \in Users, UninviteUser(w)
  PROVE  IndInv'
<1>0. TypeOK /\ FlagsOK /\ TablesOK /\ KeysOK /\ FollowsHash /\ WritesOnlyGranted
  BY TypeParts DEF IndInv
<1>1. HandleInvite /\ UNCHANGED <<cacheVars, linkVars, dropped>>
  BY DEF UninviteUser
<1>2. /\ mode' = [u \in Users |-> IF u \in {w}
                                  THEN AfterRemovingOneIndividualSharee(mode[u])
                                  ELSE mode[u]]
      /\ declined' = declined \ {w}
      /\ individual' = [individual EXCEPT ![w] = "none"]
      /\ outOfStep' = outOfStep \cup {v \in {w} : mode[v] = "GROUP"}
  BY DEF UninviteUser, SetBinds
<1>3. \A u \in Users : mode[u] \in AllModes
  BY <1>0 DEF TablesOK, AllModes
<1>4. \A u \in Users : mode'[u] \in AllModes
  BY <1>2, <1>3, RemovingIndividual DEF AllModes
<1>5. FlagsOK'
  BY <1>0, <1>1, RequestFlags
<1>6. TablesOK'
  <2>1. individual' \in [Users -> Access \cup {"none"}] /\ declined' \subseteq Users
        /\ outOfStep' \subseteq Users
    BY <1>0, <1>2 DEF TablesOK
  <2>2. mode' \in [Users -> Modes \cup {"none"}]
    BY <1>2, <1>4 DEF AllModes
  <2> QED
    BY <1>0, <1>1, <2>1, <2>2
    DEF TablesOK, HandleInvite, workVars, cacheVars, linkVars
<1>7. KeysOK'
  BY <1>0, <1>1, <1>2 DEF KeysOK, TablesOK, Linked, cacheVars, linkVars
<1>8. FollowsHash'
  BY <1>0, <1>1, <1>2, <1>3, RemovingIndividual
  DEF FollowsHash, TablesOK, Linked, linkVars
<1>9. WritesOnlyGranted'
  BY <1>0, <1>2, <1>3, RemovingIndividual DEF WritesOnlyGranted, TablesOK
<1> QED
  BY <1>5, <1>6, <1>7, <1>8, <1>9, NextParts

LEMMA InviteGroupStep ==
  ASSUME IndInv, NEW g \in Groups, NEW a \in Access, InviteGroup(g, a)
  PROVE  IndInv'
<1> DEFINE invitees == GroupMembers(g)
<1>0. TypeOK /\ FlagsOK /\ TablesOK /\ KeysOK /\ FollowsHash /\ WritesOnlyGranted
  BY TypeParts DEF IndInv
<1>1. HandleInvite /\ UNCHANGED individual
  BY DEF InviteGroup
<1>2. /\ row' = row \cup {g}
      /\ members' = [members EXCEPT ![g] = invitees]
      /\ linkMode' = [linkMode EXCEPT ![g] = a]
      /\ linkHash' = [linkHash EXCEPT ![g] = invitees]
      /\ mode' = [u \in Users |-> IF u \in invitees
                                  THEN AfterAddingOneGroupSharee(mode[u])
                                  ELSE mode[u]]
      /\ declined' = declined \ invitees
      /\ outOfStep' = outOfStep \cup (linkHash[g] \ invitees)
      /\ dropped' = dropped \ {g}
  BY DEF InviteGroup, SetBinds
<1>3. \A u \in Users : mode[u] \in AllModes
  BY <1>0 DEF TablesOK, AllModes
<1>4. \A u \in Users : mode'[u] \in AllModes
  BY <1>2, <1>3, AddingGroup DEF AllModes
<1>a. invitees \subseteq Users
  BY <1>0 DEF GroupMembers, TablesOK
<1>b. "none" \notin Access
  BY DEF Access
<1> HIDE DEF invitees
<1>5. FlagsOK'
  BY <1>0, <1>1, RequestFlags
<1>6. TablesOK'
  <2>1. /\ declined' \subseteq Users
        /\ outOfStep' \subseteq Users
        /\ dropped' \subseteq Groups
        /\ row' \subseteq Groups
    BY <1>0, <1>2, <1>a DEF TablesOK
  <2>2. mode' \in [Users -> Modes \cup {"none"}]
    BY <1>2, <1>4 DEF AllModes
  <2>3. /\ members' \in [Groups -> SUBSET Users]
        /\ linkHash' \in [Groups -> SUBSET Users]
        /\ linkMode' \in [Groups -> Access \cup {"none"}]
    BY <1>0, <1>2, <1>a DEF TablesOK
  <2> QED
    BY <1>0, <1>1, <2>1, <2>2, <2>3 DEF TablesOK, HandleInvite, workVars
<1>c. Linked' = Linked \cup {g}
  BY <1>0, <1>2, <1>b DEF Linked, TablesOK
<1>7. KeysOK'
  BY <1>0, <1>2, <1>c DEF KeysOK, TablesOK
<1>8. FollowsHash'
  <2> SUFFICES ASSUME NEW u \in Users \ outOfStep'
               PROVE  /\ IndividualPart(mode'[u]) = individual'[u]
                      /\ (mode'[u] \in GroupModes) <=> (\E h \in Linked' : u \in linkHash'[h])
    BY DEF FollowsHash
  <2>1. u \in Users \ outOfStep /\ ~(u \in linkHash[g] /\ u \notin invitees)
    BY <1>2
  <2>2. CASE u \in invitees
    BY <2>1, <2>2, <1>0, <1>1, <1>2, <1>3, <1>c, AddingGroup DEF FollowsHash, TablesOK
  <2>3. CASE u \notin invitees
    <3>1. mode'[u] = mode[u]
      BY <2>3, <1>2
    <3>2. (\E h \in Linked' : u \in linkHash'[h]) <=> (\E h \in Linked : u \in linkHash[h])
      BY <2>1, <2>3, <1>0, <1>2, <1>c DEF TablesOK, Linked
    <3> QED
      BY <2>1, <3>1, <3>2, <1>0, <1>1 DEF FollowsHash
  <2> QED
    BY <2>2, <2>3
<1>9. WritesOnlyGranted'
  BY <1>0, <1>1, <1>2, <1>3, AddingGroup DEF WritesOnlyGranted, TablesOK
<1> QED
  BY <1>5, <1>6, <1>7, <1>8, <1>9, NextParts

LEMMA UninviteGroupStep ==
  ASSUME IndInv, NEW g \in Groups, UninviteGroup(g)
  PROVE  IndInv'
<1> DEFINE whom == {u \in members[g] : mode[u] # "none"}
<1>0. TypeOK /\ FlagsOK /\ TablesOK /\ KeysOK /\ FollowsHash /\ WritesOnlyGranted
  BY TypeParts DEF IndInv
<1>1. HandleInvite /\ g \in Linked /\ UNCHANGED <<cacheVars, individual>>
  BY DEF UninviteGroup
<1>2. /\ linkMode' = [linkMode EXCEPT ![g] = "none"]
      /\ linkHash' = [linkHash EXCEPT ![g] = {}]
      /\ mode' = [u \in Users |-> IF u \in whom
                                  THEN AfterRemovingOneGroupSharee(u)
                                  ELSE mode[u]]
      /\ declined' = declined \ whom
      /\ outOfStep' = outOfStep
            \cup {u \in Users : Pending(u, g)}
            \cup {u \in members[g] : \E h \in Linked : Pending(u, h)}
      /\ dropped' = dropped \ {g}
  BY DEF UninviteGroup, SetBinds
<1>3. \A u \in Users : mode[u] \in AllModes
  BY <1>0 DEF TablesOK, AllModes
<1>4. \A u \in Users : mode'[u] \in AllModes
  BY <1>0, <1>2, <1>3, RemovingGroup
<1>5. FlagsOK'
  BY <1>0, <1>1, RequestFlags
<1>6. TablesOK'
  <2>1. /\ declined' \subseteq Users
        /\ outOfStep' \subseteq Users
        /\ dropped' \subseteq Groups
    BY <1>0, <1>2 DEF TablesOK
  <2>2. mode' \in [Users -> Modes \cup {"none"}]
    BY <1>2, <1>4 DEF AllModes
  <2>3. /\ linkHash' \in [Groups -> SUBSET Users]
        /\ linkMode' \in [Groups -> Access \cup {"none"}]
    BY <1>0, <1>2 DEF TablesOK
  <2> QED
    BY <1>0, <1>1, <2>1, <2>2, <2>3 DEF TablesOK, HandleInvite, workVars, cacheVars
<1>c. Linked' = Linked \ {g}
  BY <1>0, <1>2 DEF Linked, TablesOK
<1>7. KeysOK'
  BY <1>0, <1>1, <1>2, <1>c DEF KeysOK, TablesOK, cacheVars
<1>8. FollowsHash'
  <2> SUFFICES ASSUME NEW u \in Users \ outOfStep'
               PROVE  /\ IndividualPart(mode'[u]) = individual'[u]
                      /\ (mode'[u] \in GroupModes) <=> (\E h \in Linked' : u \in linkHash'[h])
    BY DEF FollowsHash
  <2>1. /\ u \in Users \ outOfStep
        /\ u \in linkHash[g] <=> u \in members[g]
        /\ u \in members[g] => \A h \in Linked : u \in linkHash[h] <=> u \in members[h]
    BY <1>2 DEF Pending
  <2>2. CASE u \in members[g]
    <3>1. mode[u] \in GroupModes /\ mode[u] # "none"
      BY <2>1, <2>2, <1>0, <1>1, <1>3, PartOfMode DEF FollowsHash
    <3>2. g \in MemberGroups(u)
      BY <2>2, <1>1 DEF MemberGroups
    <3>3. (\E h \in Linked' : u \in linkHash'[h]) <=> (\E h \in MemberGroups(u) : h # g)
      BY <2>1, <2>2, <1>0, <1>2, <1>c DEF MemberGroups, Linked, TablesOK
    <3>4. mode'[u] = IF Cardinality(MemberGroups(u)) > 1 THEN mode[u]
                     ELSE IndividualPart(mode[u])
      BY <2>2, <3>1, <1>2 DEF AfterRemovingOneGroupSharee
    <3>5. Cardinality(MemberGroups(u)) > 1 <=> \E h \in MemberGroups(u) : h # g
      BY <3>2, CountsOtherGroups
    <3> QED
      BY <2>1, <3>1, <3>3, <3>4, <3>5, <1>0, <1>1, <1>3, PartOfMode DEF FollowsHash
  <2>3. CASE u \notin members[g]
    <3>1. mode'[u] = mode[u]
      BY <2>3, <1>2
    <3>2. (\E h \in Linked' : u \in linkHash'[h]) <=> (\E h \in Linked : u \in linkHash[h])
      BY <2>1, <2>3, <1>0, <1>2, <1>c DEF TablesOK, Linked
    <3> QED
      BY <2>1, <3>1, <3>2, <1>0, <1>1 DEF FollowsHash
  <2> QED
    BY <2>2, <2>3
<1>9. WritesOnlyGranted'
  BY <1>0, <1>1, <1>2, RemovingGroup DEF WritesOnlyGranted, TablesOK
<1> QED
  BY <1>5, <1>6, <1>7, <1>8, <1>9, NextParts

LEMMA ToTrashStep ==
  ASSUME IndInv, ToTrash
  PROVE  IndInv'
<1> DEFINE whom == {u \in Users : mode[u] # "none"}
<1>0. TypeOK /\ FlagsOK /\ TablesOK /\ KeysOK /\ FollowsHash /\ WritesOnlyGranted
  BY TypeParts DEF IndInv
<1>1. UNCHANGED <<dir, changes, cacheVars, workVars>> /\ shared' = FALSE /\ trashed' = TRUE
  BY DEF ToTrash, OwnerDeleteShare
<1>2. /\ linkMode' = [g \in Groups |-> "none"]
      /\ linkHash' = [g \in Groups |-> {}]
      /\ mode' = [u \in Users |-> IF u \in whom
                                  THEN AfterRemovingOneIndividualSharee(mode[u])
                                  ELSE mode[u]]
      /\ declined' = declined \ whom
      /\ individual' = [u \in Users |-> "none"]
      /\ outOfStep' = {u \in Users : AfterRemovingOneIndividualSharee(mode[u]) # "none"}
      /\ dropped' = {}
  BY DEF ToTrash, OwnerDeleteShare, SetBinds
<1>3. \A u \in Users : mode[u] \in AllModes
  BY <1>0 DEF TablesOK, AllModes
<1>4. \A u \in Users : mode'[u] \in AllModes /\ IndividualPart(mode'[u]) = "none"
  <2>1. IndividualPart("none") = "none"
    BY DEF IndividualPart
  <2> QED
    BY <2>1, <1>2, <1>3, RemovingIndividual
<1>5. FlagsOK'
  BY Zenon, <1>0, <1>1 DEF FlagsOK, workVars
<1>6. TablesOK'
  <2>1. /\ declined' \subseteq Users
        /\ outOfStep' \subseteq Users
        /\ dropped' \subseteq Groups
        /\ individual' \in [Users -> Access \cup {"none"}]
        /\ linkHash' \in [Groups -> SUBSET Users]
        /\ linkMode' \in [Groups -> Access \cup {"none"}]
    BY <1>0, <1>2 DEF TablesOK
  <2>2. mode' \in [Users -> Modes \cup {"none"}]
    BY <1>2, <1>4 DEF AllModes
  <2> QED
    BY <1>0, <1>1, <2>1, <2>2 DEF TablesOK, workVars, cacheVars
<1>7. KeysOK'
  BY <1>0, <1>1, <1>2 DEF KeysOK, TablesOK, cacheVars
<1>8. FollowsHash'
  <2>1. Linked' = {}
    BY <1>2 DEF Linked
  <2>2. \A u \in Users \ outOfStep' : mode'[u] = "none"
    BY <1>2
  <2>3. "none" \notin GroupModes
    BY DEF GroupModes
  <2> QED
    BY <2>1, <2>2, <2>3, <1>2, <1>4 DEF FollowsHash
<1>9. WritesOnlyGranted'
  BY <1>4 DEF WritesOnlyGranted
<1> QED
  BY <1>5, <1>6, <1>7, <1>8, <1>9, NextParts

-----------------------------------------------------------------------------
(***************************************************************************)
(* Steps that leave the bind modes and the links alone                     *)
(***************************************************************************)

\* The sharee's answer, the directory, the look of the poll, the restored
\* calendar, and the items without an effect change none of what the bind rows
\* are compared with.
LEMMA BystanderStep ==
  ASSUME IndInv,
         UNCHANGED <<cacheVars, linkVars, mode, individual, outOfStep>>,
         FlagsOK', TablesOK',
         \A u \in declined' : mode[u] # "none"
  PROVE  IndInv'
<1>0. KeysOK /\ FollowsHash /\ WritesOnlyGranted
  BY TypeParts DEF IndInv
<1>1. Linked' = Linked
  BY DEF Linked, linkVars
<1>2. KeysOK'
  BY <1>0, <1>1 DEF KeysOK, cacheVars, linkVars
<1>3. FollowsHash' /\ WritesOnlyGranted'
  BY <1>0, <1>1 DEF FollowsHash, WritesOnlyGranted, linkVars
<1> QED
  BY <1>2, <1>3, NextParts

LEMMA AnswerStep ==
  ASSUME IndInv, NEW u \in Users, AcceptShare(u) \/ DeclineShare(u)
  PROVE  IndInv'
<1>0. FlagsOK /\ TablesOK /\ KeysOK
  BY TypeParts DEF IndInv
<1>1. UNCHANGED <<dir, changes, cacheVars, linkVars, mode, shared, trashed, workVars,
                  historyVars>>
  BY DEF AcceptShare, DeclineShare
<1>2. declined' \subseteq Users /\ \A v \in declined' : mode[v] # "none"
  BY <1>0 DEF AcceptShare, DeclineShare, TablesOK, KeysOK
<1>3. FlagsOK'
  BY Zenon, <1>0, <1>1 DEF FlagsOK, workVars
<1>4. TablesOK'
  BY <1>0, <1>1, <1>2 DEF TablesOK, cacheVars, linkVars, workVars, historyVars
<1> QED
  BY <1>1, <1>2, <1>3, <1>4, BystanderStep DEF historyVars

LEMMA FromTrashStep == ASSUME IndInv, FromTrash PROVE IndInv'
<1>0. FlagsOK /\ TablesOK /\ KeysOK
  BY TypeParts DEF IndInv
<1>1. UNCHANGED <<dir, changes, cacheVars, linkVars, mode, declined, shared, workVars,
                  historyVars>> /\ trashed' = FALSE
  BY DEF FromTrash
<1>2. FlagsOK'
  BY Zenon, <1>0, <1>1 DEF FlagsOK, workVars
<1>3. TablesOK'
  BY <1>0, <1>1 DEF TablesOK, cacheVars, linkVars, workVars, historyVars
<1> QED
  BY <1>0, <1>1, <1>2, <1>3, BystanderStep DEF historyVars, KeysOK

LEMMA DirectoryStep ==
  ASSUME IndInv, NEW g \in Groups, NEW T \in SUBSET Users, DirectoryChange(g, T)
  PROVE  IndInv'
<1>0. FlagsOK /\ TablesOK /\ KeysOK
  BY TypeParts DEF IndInv
<1>1. UNCHANGED <<cacheVars, linkVars, bindVars, workVars, historyVars>>
  BY DEF DirectoryChange
<1>2. dir' \in [Groups -> SUBSET Users] /\ changes' \in 0..MaxChanges
  BY <1>0, MaxChangesAssumption DEF DirectoryChange, TablesOK
<1>3. FlagsOK'
  BY Zenon, <1>0, <1>1 DEF FlagsOK, bindVars, workVars
<1>4. TablesOK'
  BY <1>0, <1>1, <1>2
  DEF TablesOK, bindVars, cacheVars, linkVars, workVars, historyVars
<1> QED
  BY <1>0, <1>1, <1>3, <1>4, BystanderStep DEF historyVars, bindVars, KeysOK

LEMMA PollStep == ASSUME IndInv, GroupsToRefresh PROVE IndInv'
<1>0. FlagsOK /\ TablesOK /\ KeysOK
  BY TypeParts DEF IndInv
<1>1. /\ UNCHANGED <<dir, changes, cacheVars, linkVars, bindVars, refresh, work,
                     historyVars>>
      /\ polling' = TRUE
      /\ inUse' = Linked
  BY DEF GroupsToRefresh
<1>2. FlagsOK'
  BY Zenon, <1>0, <1>1 DEF FlagsOK, bindVars
<1>3. TablesOK'
  BY <1>0, <1>1 DEF TablesOK, Linked, bindVars, cacheVars, linkVars, historyVars
<1> QED
  BY <1>0, <1>1, <1>2, <1>3, BystanderStep DEF historyVars, bindVars, KeysOK

LEMMA IdleItemStep ==
  ASSUME IndInv, NEW g \in Groups, RefreshGroupFails(g) \/ ReconcileTrashed(g)
  PROVE  IndInv'
<1>0. FlagsOK /\ TablesOK /\ KeysOK
  BY TypeParts DEF IndInv
<1>1. /\ UNCHANGED <<dir, changes, cacheVars, linkVars, bindVars, polling, inUse,
                     historyVars>>
      /\ refresh' \subseteq refresh
      /\ work' \subseteq work
  BY DEF RefreshGroupFails, ReconcileTrashed
<1>2. FlagsOK'
  BY Zenon, <1>0, <1>1 DEF FlagsOK, bindVars
<1>3. TablesOK'
  BY <1>0, <1>1 DEF TablesOK, bindVars, cacheVars, linkVars, historyVars
<1> QED
  BY <1>0, <1>1, <1>2, <1>3, BystanderStep DEF historyVars, bindVars, KeysOK

-----------------------------------------------------------------------------
(***************************************************************************)
(* The group cacher and the reconciliation                                 *)
(***************************************************************************)

\* A refresh changes the cache, with which the bind rows are not compared.
LEMMA RefreshStep == ASSUME IndInv, NEW g \in Groups, RefreshGroup(g) PROVE IndInv'
<1>0. FlagsOK /\ TablesOK /\ KeysOK /\ FollowsHash /\ WritesOnlyGranted
  BY TypeParts DEF IndInv
<1>1. /\ UNCHANGED <<dir, changes, linkVars, bindVars, polling, inUse, individual,
                     outOfStep>>
      /\ refresh' = refresh \ {g}
      /\ row' = row \cup {g}
      /\ members' = [members EXCEPT ![g] = dir[g]]
  BY DEF RefreshGroup
<1>2. work' \subseteq work \cup {g} /\ dropped' \subseteq dropped
  BY DEF RefreshGroup, ScheduleGroupShareeReconciliations
<1>3. Linked' = Linked
  BY <1>1 DEF Linked, linkVars
<1>4. FlagsOK'
  BY Zenon, <1>0, <1>1 DEF FlagsOK, bindVars
<1>5. TablesOK'
  <2>1. /\ refresh' \subseteq Groups
        /\ row' \subseteq Groups
        /\ work' \subseteq Groups
        /\ dropped' \subseteq Groups
        /\ members' \in [Groups -> SUBSET Users]
    BY <1>0, <1>1, <1>2 DEF TablesOK
  <2> QED
    BY <2>1, <1>0, <1>1 DEF TablesOK, bindVars, linkVars
<1>6. KeysOK'
  BY <1>0, <1>1, <1>3 DEF KeysOK, TablesOK, bindVars, linkVars
<1>7. FollowsHash' /\ WritesOnlyGranted'
  BY <1>0, <1>1, <1>3 DEF FollowsHash, WritesOnlyGranted, bindVars, linkVars
<1> QED
  BY <1>4, <1>5, <1>6, <1>7, NextParts

\* A deleted group that came into use meanwhile takes its link with it; all who
\* were bound through it are out of step.
LEMMA UpdateStep == ASSUME IndInv, Update PROVE IndInv'
<1> DEFINE gone == row \ inUse
<1>0. FlagsOK /\ TablesOK /\ KeysOK /\ FollowsHash /\ WritesOnlyGranted
  BY TypeParts DEF IndInv
<1>1. /\ UNCHANGED <<dir, changes, bindVars, individual>>
      /\ row' = row \ gone
      /\ members' = [g \in Groups |-> IF g \in gone THEN {} ELSE members[g]]
      /\ linkMode' = [g \in Groups |-> IF g \in gone THEN "none" ELSE linkMode[g]]
      /\ linkHash' = [g \in Groups |-> IF g \in gone THEN {} ELSE linkHash[g]]
      /\ work' = work \ gone
      /\ outOfStep' = outOfStep \cup
            UNION {linkHash[g] \cup members[g] : g \in gone \cap Linked}
      /\ dropped' = dropped \ gone
      /\ refresh' = refresh \cup inUse
      /\ polling' = FALSE
      /\ inUse' = {}
  BY DEF Update
<1> HIDE DEF gone
<1>2. Linked' = Linked \ gone
  BY <1>1 DEF Linked
<1>3. \A g \in gone \cap Linked : linkHash[g] \cup members[g] \subseteq outOfStep'
  BY <1>1
<1>4. FlagsOK'
  BY Zenon, <1>0, <1>1 DEF FlagsOK, bindVars
<1>5. TablesOK'
  <2>1. /\ refresh' \subseteq Groups
        /\ row' \subseteq Groups
        /\ work' \subseteq Groups
        /\ dropped' \subseteq Groups
        /\ inUse' \subseteq Groups
    BY <1>0, <1>1 DEF TablesOK
  <2>2. /\ members' \in [Groups -> SUBSET Users]
        /\ linkHash' \in [Groups -> SUBSET Users]
        /\ linkMode' \in [Groups -> Access \cup {"none"}]
    BY <1>0, <1>1 DEF TablesOK
  <2>3. outOfStep' \subseteq Users
    BY <1>0, <1>1 DEF TablesOK, Linked
  <2> QED
    BY <2>1, <2>2, <2>3, <1>0, <1>1 DEF TablesOK, bindVars
<1>6. KeysOK'
  BY <1>0, <1>1, <1>2 DEF KeysOK, TablesOK, bindVars
<1>7. FollowsHash'
  <2> SUFFICES ASSUME NEW u \in Users \ outOfStep'
               PROVE  /\ IndividualPart(mode'[u]) = individual'[u]
                      /\ (mode'[u] \in GroupModes) <=> (\E h \in Linked' : u \in linkHash'[h])
    BY DEF FollowsHash
  <2>1. u \in Users \ outOfStep
    BY <1>1
  <2>2. \A h \in gone \cap Linked : u \notin linkHash[h]
    BY <1>3
  <2>3. (\E h \in Linked' : u \in linkHash'[h]) <=> (\E h \in Linked : u \in linkHash[h])
    BY <2>2, <1>1, <1>2 DEF Linked
  <2> QED
    BY <2>1, <2>3, <1>0, <1>1 DEF FollowsHash, bindVars
<1>8. WritesOnlyGranted'
  BY <1>0, <1>1 DEF WritesOnlyGranted, bindVars
<1> QED
  BY <1>4, <1>5, <1>6, <1>7, <1>8, NextParts

LEMMA ReconcileStep ==
  ASSUME IndInv, NEW g \in Groups, ReconcileGroupSharee(g)
  PROVE  IndInv'
<1>0. FlagsOK /\ TablesOK /\ KeysOK /\ FollowsHash /\ WritesOnlyGranted
  BY TypeParts DEF IndInv
<1>1. /\ UNCHANGED <<dir, changes, cacheVars, linkMode, refresh, polling, inUse, individual>>
      /\ g \in Linked
      /\ work' = {}
  BY DEF ReconcileGroupSharee
<1>2. Linked' = Linked
  BY <1>1 DEF Linked
<1>3. CASE linkHash[g] = members[g]
  <2>1. /\ dropped' = dropped \cup ((work \cap Linked) \ {g})
        /\ UNCHANGED <<linkHash, bindVars, outOfStep>>
    BY <1>3 DEF ReconcileGroupSharee
  <2>2. FlagsOK'
    BY Zenon, <1>0, <1>1, <2>1 DEF FlagsOK, bindVars
  <2>3. TablesOK'
    BY <1>0, <1>1, <2>1 DEF TablesOK, bindVars, cacheVars
  <2>4. UNCHANGED <<cacheVars, linkVars, mode, individual, outOfStep>> /\ declined' = declined
    BY <1>1, <2>1 DEF linkVars, bindVars
  <2> QED
    BY <1>0, <2>2, <2>3, <2>4, BystanderStep DEF KeysOK
<1>4. CASE linkHash[g] # members[g]
  <2>1. /\ linkHash' = [linkHash EXCEPT ![g] = members[g]]
        /\ mode' = [u \in Users |-> IF u \in Strays THEN Reconciled(u) ELSE mode[u]]
        /\ declined' = declined \ Strays
        /\ shared' = (shared \/ \E u \in Strays : mode[u] = "none")
        /\ outOfStep' = {u \in Users :
              \/ u \in outOfStep /\ IndividualPart(mode[u]) # individual[u]
              \/ \E h \in Linked \ {g} : Pending(u, h)}
        /\ dropped' = {}
        /\ UNCHANGED trashed
    BY <1>4 DEF ReconcileGroupSharee, SetBinds
  <2>2. \A u \in Users : mode[u] \in AllModes
    BY <1>0 DEF TablesOK, AllModes
  <2>3. \A u \in Users :
           /\ mode'[u] \in AllModes
           /\ IndividualPart(mode'[u]) = IndividualPart(mode[u])
           /\ mode'[u] \in GroupModes <=> MemberGroups(u) # {}
    <3> SUFFICES ASSUME NEW u \in Users
                 PROVE  /\ mode'[u] \in AllModes
                        /\ IndividualPart(mode'[u]) = IndividualPart(mode[u])
                        /\ mode'[u] \in GroupModes <=> MemberGroups(u) # {}
      OBVIOUS
    <3>1. CASE u \notin Strays
      BY <3>1, <2>1, <2>2 DEF Strays
    <3>2. CASE u \in Strays /\ mode[u] \in GroupModes
      BY <3>2, <2>1, <2>2, PartOfMode DEF Strays, Reconciled
    <3>3. CASE u \in Strays /\ mode[u] \notin GroupModes
      BY <3>3, <2>1, <2>2, AddingGroup DEF Strays, Reconciled, AllModes
    <3> QED
      BY <3>1, <3>2, <3>3
  <2>4. FlagsOK'
    <3>1. shared' \in BOOLEAN
      BY Zenon, <2>1
    <3> QED
      BY Zenon, <1>0, <1>1, <2>1, <3>1 DEF FlagsOK
  <2>5. TablesOK'
    <3>1. /\ linkHash' \in [Groups -> SUBSET Users]
          /\ declined' \subseteq Users
          /\ outOfStep' \subseteq Users
          /\ dropped' \subseteq Groups
          /\ work' \subseteq Groups
      BY <1>0, <1>1, <2>1 DEF TablesOK
    <3>2. mode' \in [Users -> Modes \cup {"none"}]
      BY <2>1, <2>3 DEF AllModes
    <3> QED
      BY <3>1, <3>2, <1>0, <1>1 DEF TablesOK, cacheVars
  <2>6. KeysOK'
    BY <1>0, <1>1, <1>2, <2>1 DEF KeysOK, TablesOK, cacheVars
  <2>7. FollowsHash'
    <3> SUFFICES ASSUME NEW u \in Users \ outOfStep'
                 PROVE  /\ IndividualPart(mode'[u]) = individual'[u]
                        /\ (mode'[u] \in GroupModes)
                              <=> (\E h \in Linked' : u \in linkHash'[h])
      BY DEF FollowsHash
    <3>1. IndividualPart(mode[u]) = individual[u]
      BY <1>0, <2>1 DEF FollowsHash
    <3>2. \A h \in Linked : u \in linkHash'[h] <=> u \in members[h]
      BY <1>0, <1>1, <2>1 DEF Pending, TablesOK, Linked
    <3>3. (\E h \in Linked' : u \in linkHash'[h]) <=> MemberGroups(u) # {}
      BY <1>2, <3>2 DEF MemberGroups
    <3> QED
      BY <1>1, <2>3, <3>1, <3>3
  <2>8. WritesOnlyGranted'
    BY <1>0, <1>1, <2>3 DEF WritesOnlyGranted
  <2> QED
    BY <2>4, <2>5, <2>6, <2>7, <2>8, NextParts
<1> QED
  BY <1>3, <1>4

-----------------------------------------------------------------------------
(***************************************************************************)
(* The theorems                                                            *)
(***************************************************************************)

LEMMA StutterStep == ASSUME IndInv, UNCHANGED vars PROVE IndInv'
<1>0. FlagsOK /\ TablesOK /\ KeysOK
  BY TypeParts DEF IndInv
<1>1. UNCHANGED <<dir, changes, cacheVars, linkVars, bindVars, workVars, historyVars>>
  BY DEF vars
<1>2. FlagsOK'
  BY Zenon, <1>0, <1>1 DEF FlagsOK, bindVars, workVars
<1>3. TablesOK'
  BY <1>0, <1>1 DEF TablesOK, bindVars, cacheVars, linkVars, workVars, historyVars
<1> QED
  BY <1>0, <1>1, <1>2, <1>3, BystanderStep DEF historyVars, bindVars, KeysOK

LEMMA StepIndInv == IndInv /\ [Next]_vars => IndInv'
<1> SUFFICES ASSUME IndInv, [Next]_vars PROVE IndInv'
  OBVIOUS
<1>1. CASE \E u \in Users, m \in Access : InviteUser(u, m)
  BY <1>1, InviteUserStep
<1>2. CASE \E u \in Users : UninviteUser(u) \/ AcceptShare(u) \/ DeclineShare(u)
  BY <1>2, UninviteUserStep, AnswerStep
<1>3. CASE \E grant \in Grants : InviteGroup(grant[1], grant[2])
  <2>1. PICK grant \in Grants : InviteGroup(grant[1], grant[2])
    BY <1>3
  <2>2. grant[1] \in Groups /\ grant[2] \in Access
    BY GrantsAssumption
  <2> QED
    BY <2>1, <2>2, InviteGroupStep
<1>4. CASE \E g \in Groups : UninviteGroup(g)
  BY <1>4, UninviteGroupStep
<1>5. CASE ToTrash \/ FromTrash
  BY <1>5, ToTrashStep, FromTrashStep
<1>6. CASE \E g \in Groups, T \in SUBSET Users : DirectoryChange(g, T)
  BY <1>6, DirectoryStep
<1>7. CASE GroupsToRefresh \/ Update
  BY <1>7, PollStep, UpdateStep
<1>8. CASE \E g \in Groups : \/ RefreshGroup(g)
                             \/ RefreshGroupFails(g)
                             \/ ReconcileGroupSharee(g)
                             \/ ReconcileTrashed(g)
  BY <1>8, RefreshStep, IdleItemStep, ReconcileStep
<1>9. CASE UNCHANGED vars
  BY <1>9, StutterStep
<1> QED
  BY <1>1, <1>2, <1>3, <1>4, <1>5, <1>6, <1>7, <1>8, <1>9 DEF Next

LEMMA IndInvHolds == Spec => []IndInv
<1> QED
  BY InitIndInv, StepIndInv, PTL DEF Spec

\* The rows of all tables have their types and keep the foreign keys, for any
\* users, groups and number of changes.
THEOREM TypeCorrect == Spec => []TypeOK
<1>1. IndInv => TypeOK
  BY DEF IndInv
<1> QED
  BY <1>1, IndInvHolds, PTL

\* A settled bind row tells who was invited and how, for any users, any finite
\* set of groups and any number of changes (_groupModeAfter* and
\* reconcileGroupSharee).
THEOREM ModesTell == Spec => []ModeTells
<1>1. IndInv => ModeTells
  <2> SUFFICES ASSUME IndInv, NEW u \in Users \ outOfStep, Settled(u)
               PROVE  mode[u] = ModeFor(individual[u], MemberGroups(u))
    BY DEF ModeTells
  <2>1. mode[u] \in AllModes
    BY DEF IndInv, TypeOK, AllModes
  <2>2. (\E g \in Linked : u \in linkHash[g]) <=> MemberGroups(u) # {}
    BY DEF Settled, Pending, MemberGroups
  <2>3. /\ IndividualPart(mode[u]) = individual[u]
        /\ (mode[u] \in GroupModes) <=> MemberGroups(u) # {}
    BY <2>2 DEF IndInv, FollowsHash
  <2> QED
    BY <2>1, <2>3 DEF ModeFor, IndividualPart, AllModes, Modes, Access, GroupModes
<1> QED
  BY <1>1, IndInvHolds, PTL

\* Nobody writes by the bind row of a group that does not let him, or no longer
\* does, for any users, any finite set of groups and any number of changes
\* (_effectiveShareMode).
THEOREM NobodyWritesUngranted == Spec => []NeverWritesUngranted
<1>1. IndInv => NeverWritesUngranted
  <2> SUFFICES ASSUME IndInv, NEW u \in Users, EffectiveShareMode(u) = "WRITE",
                      ~ \E g \in MemberGroups(u) : linkMode[g] = "WRITE"
               PROVE  individual[u] = "WRITE"
    BY DEF NeverWritesUngranted
  <2>1. mode[u] \in AllModes
    BY DEF IndInv, TypeOK, AllModes
  <2>2. mode[u] \in {"WRITE", "GROUP_WRITE"}
    BY <2>1 DEF EffectiveShareMode, AllModes, Modes, Access, GroupModes
  <2>3. IndividualPart(mode[u]) = "WRITE"
    BY <2>2 DEF IndividualPart
  <2> QED
    BY <2>3 DEF IndInv, WritesOnlyGranted
<1> QED
  BY <1>1, IndInvHolds, PTL

\* A settled sharee has exactly the highest access granted to himself or to a
\* group of his, for any users, any finite set of groups and any number of
\* changes (_effectiveShareMode over the modes that ModesTell is about).
THEOREM AccessMaximal == Spec => []AccessIsMaximum
<1>1. IndInv => AccessIsMaximum
  <2> SUFFICES ASSUME IndInv, NEW u \in Users \ outOfStep, Settled(u)
               PROVE  LET grants == {individual[u]} \cup {linkMode[g] : g \in MemberGroups(u)}
                      IN  EffectiveShareMode(u) = IF "WRITE" \in grants THEN "WRITE"
                                                  ELSE IF "READ" \in grants THEN "READ"
                                                  ELSE "none"
    BY DEF AccessIsMaximum
  <2> DEFINE grants == {individual[u]} \cup {linkMode[g] : g \in MemberGroups(u)}
  <2>1. mode[u] \in AllModes
    BY DEF IndInv, TypeOK, AllModes
  <2>2. (\E g \in Linked : u \in linkHash[g]) <=> MemberGroups(u) # {}
    BY DEF Settled, Pending, MemberGroups
  <2>3. /\ IndividualPart(mode[u]) = individual[u]
        /\ (mode[u] \in GroupModes) <=> MemberGroups(u) # {}
    BY <2>2 DEF IndInv, FollowsHash
  <2>4. \A g \in MemberGroups(u) : linkMode[g] \in Access
    BY DEF IndInv, TypeOK, MemberGroups, Linked
  <2>5. "WRITE" \in grants <=> \/ individual[u] = "WRITE"
                               \/ \E g \in MemberGroups(u) : linkMode[g] = "WRITE"
    OBVIOUS
  <2>6. "READ" \in grants <=> \/ individual[u] = "READ"
                              \/ \E g \in MemberGroups(u) : linkMode[g] = "READ"
    OBVIOUS
  <2> HIDE DEF grants
  <2>7. EffectiveShareMode(u) = IF "WRITE" \in grants THEN "WRITE"
                                ELSE IF "READ" \in grants THEN "READ"
                                ELSE "none"
    <3>1. CASE MemberGroups(u) = {}
      BY <3>1, <2>1, <2>3, <2>5, <2>6
      DEF EffectiveShareMode, IndividualPart, AllModes, Modes, Access, GroupModes
    <3>2. CASE MemberGroups(u) # {}
      <4>1. "WRITE" \in grants \/ "READ" \in grants
        BY <3>2, <2>4, <2>5, <2>6 DEF Access
      <4>2. mode[u] \in {"GROUP", "GROUP_READ", "GROUP_WRITE"}
        BY <3>2, <2>3 DEF GroupModes
      <4>3. individual[u] = "WRITE" <=> mode[u] = "GROUP_WRITE"
        BY <4>2, <2>3 DEF IndividualPart
      <4>4. CASE "WRITE" \in grants
        <5>1. EffectiveShareMode(u) = "WRITE"
          <6>1. CASE mode[u] = "GROUP_WRITE"
            BY <6>1 DEF EffectiveShareMode
          <6>2. CASE mode[u] # "GROUP_WRITE"
            <7>1. \E g \in MemberGroups(u) : linkMode[g] = "WRITE"
              BY <6>2, <4>3, <4>4, <2>5
            <7> QED
              BY <7>1, <6>2, <4>2 DEF EffectiveShareMode
          <6> QED
            BY <6>1, <6>2
        <5> QED
          BY <4>4, <5>1
      <4>5. CASE "WRITE" \notin grants
        <5>1. EffectiveShareMode(u) = "READ"
          <6>1. mode[u] \in {"GROUP", "GROUP_READ"}
            BY <4>2, <4>3, <4>5, <2>5
          <6>2. ~ \E g \in MemberGroups(u) : linkMode[g] = "WRITE"
            BY <4>5, <2>5
          <6> QED
            BY <6>1, <6>2 DEF EffectiveShareMode
        <5> QED
          BY <4>1, <4>5, <5>1
      <4> QED
        BY <4>4, <4>5
    <3> QED
      BY <3>1, <3>2
  <2> QED
    BY <2>7 DEF grants
<1> QED
  BY <1>1, IndInvHolds, PTL

-----------------------------------------------------------------------------
(***************************************************************************)
(* What remains of a share that the owner has deleted                      *)
(***************************************************************************)

\* A calendar that is not shared is shared with no group, and the sharees who
\* are left have the mode of a member of a group.
LeftOver ==
    ~shared => /\ \A g \in Groups : linkMode[g] = "none"
               /\ \A u \in Users : mode[u] \in {"none", "GROUP"}

\* Whoever still has a bind row of a calendar that is not shared may only read.
UnsharedOnlyRead ==
    ~shared => \A u \in Users : EffectiveShareMode(u) \in {"none", "READ"}

\* A request of the owner marks the calendar as what it is.
LEMMA InviteLeftOver ==
    ASSUME HandleInvite
    PROVE  LeftOver'
<1>1. shared' = ((\E u \in Users : mode'[u] # "none")
                    \/ (\E g \in Groups : linkMode'[g] # "none"))
  BY DEF HandleInvite
<1>2. ASSUME ~shared' PROVE ~(\E u \in Users : mode'[u] # "none")
  BY <1>1, <1>2, Zenon
<1>3. ASSUME ~shared' PROVE ~(\E g \in Groups : linkMode'[g] # "none")
  BY <1>1, <1>3, Zenon
<1> QED
  BY <1>2, <1>3 DEF LeftOver

\* Deleting the share takes away all that was granted to the sharees themselves.
LEMMA DeleteLeftOver ==
    ASSUME TypeOK, OwnerDeleteShare
    PROVE  LeftOver'
<1>1. \A g \in Groups : linkMode'[g] = "none"
  BY DEF OwnerDeleteShare
<1>2. ASSUME NEW u \in Users PROVE mode'[u] \in {"none", "GROUP"}
  <2> DEFINE n == [v \in {w \in Users : mode[w] # "none"} |->
                      AfterRemovingOneIndividualSharee(mode[v])]
  <2>1. mode' = [v \in Users |-> IF v \in DOMAIN n THEN n[v] ELSE mode[v]]
    BY DEF OwnerDeleteShare, SetBinds
  <2>2. mode'[u] = IF mode[u] # "none" THEN AfterRemovingOneIndividualSharee(mode[u]) ELSE mode[u]
    BY <2>1
  <2> QED
    BY <2>2 DEF AfterRemovingOneIndividualSharee
<1> QED
  BY <1>1, <1>2 DEF LeftOver

\* Every step keeps LeftOver: only a group that is shared is reconciled.
LEMMA StepLeftOver ==
    ASSUME TypeOK, LeftOver, [Next]_vars
    PROVE  LeftOver'
<1>1. CASE HandleInvite
  BY <1>1, InviteLeftOver
<1>2. CASE ToTrash
  BY <1>2, DeleteLeftOver DEF ToTrash
<1>3. CASE UNCHANGED <<mode, shared, linkMode>>
  BY <1>3 DEF LeftOver
<1>4. CASE Update
  <2>1. /\ mode' = mode /\ shared' = shared
        /\ \A g \in Groups : linkMode'[g] \in {"none", linkMode[g]}
    BY <1>4 DEF Update, bindVars
  <2> QED
    BY <2>1 DEF LeftOver
<1>5. ASSUME NEW g \in Groups, ReconcileGroupSharee(g) PROVE LeftOver'
  <2>1. g \in Linked /\ linkMode' = linkMode
    BY <1>5 DEF ReconcileGroupSharee
  <2>2. shared
    BY <2>1 DEF LeftOver, Linked
  <2>3. shared'
    BY <1>5, <2>2 DEF ReconcileGroupSharee, bindVars
  <2> QED
    BY <2>3 DEF LeftOver
<1>6. ASSUME NEW u \in Users, UninviteUser(u) \/ AcceptShare(u) \/ DeclineShare(u)
      PROVE  LeftOver'
  <2>1. HandleInvite \/ UNCHANGED <<mode, shared, linkMode>>
    BY <1>6, Zenon DEF UninviteUser, AcceptShare, DeclineShare, linkVars
  <2> QED
    BY <1>1, <1>3, <2>1
<1>7. ASSUME NEW g \in Groups, RefreshGroup(g) \/ RefreshGroupFails(g) \/ ReconcileTrashed(g)
      PROVE  LeftOver'
  BY <1>3, <1>7 DEF RefreshGroup, RefreshGroupFails, ReconcileTrashed, bindVars, linkVars
<1>8. CASE \/ \E u \in Users, m \in Access : InviteUser(u, m)
           \/ \E grant \in Grants : InviteGroup(grant[1], grant[2])
           \/ \E g \in Groups : UninviteGroup(g)
  <2>1. HandleInvite
    BY <1>8, Zenon DEF InviteUser, InviteGroup, UninviteGroup
  <2> QED
    BY <1>1, <2>1
<1>9. CASE \/ FromTrash \/ GroupsToRefresh
           \/ \E g \in Groups, S \in SUBSET Users : DirectoryChange(g, S)
  BY <1>3, <1>9 DEF FromTrash, GroupsToRefresh, DirectoryChange, bindVars, linkVars
<1>10. CASE UNCHANGED vars
  BY <1>3, <1>10 DEF vars, bindVars, linkVars
<1> QED
  BY <1>2, <1>4, <1>5, <1>6, <1>7, <1>8, <1>9, <1>10 DEF Next

\* ownerDeleteShare leaves sharees behind (UnsharedHasNoSharees does not hold), but
\* none of them can write: what was granted to them is gone, and so is every link
\* to a group that would let them.
THEOREM LeftOversOnlyRead == Spec => []UnsharedOnlyRead
<1>1. Init => LeftOver
  BY DEF Init, LeftOver
<1>2. IndInv /\ LeftOver /\ [Next]_vars => LeftOver'
  BY StepLeftOver DEF IndInv
<1>3. LeftOver => UnsharedOnlyRead
  <2> SUFFICES ASSUME LeftOver, ~shared, NEW u \in Users
               PROVE  EffectiveShareMode(u) \in {"none", "READ"}
    BY DEF UnsharedOnlyRead
  <2>1. MemberGroups(u) = {} /\ mode[u] \in {"none", "GROUP"}
    BY DEF LeftOver, MemberGroups, Linked
  <2> QED
    BY <2>1 DEF EffectiveShareMode
<1> QED
  BY <1>1, <1>2, <1>3, IndInvHolds, PTL DEF Spec

=============================================================================
