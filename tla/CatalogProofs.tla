--------------------------- MODULE CatalogProofs ---------------------------
(***************************************************************************)
(* The invariants of the profile and group stores and their handlers, for  *)
(* any sets of profiles, groups, runtimes, modes and callers.              *)
(***************************************************************************)
EXTENDS Catalog, TLAPS

USE DEF Idle

StoreType ==
  /\ profiles \in [Ids -> Profile \cup {Absent}]
  /\ files \in [Ids -> Profile \cup {Absent}]
  /\ last \in [Ids -> {"none", "refused", "stored", "deleted", "leftover"}]
  /\ stored \in [Ids -> Profile \cup {Absent}]

GroupType ==
  /\ groups \in [Groups -> Modes \cup {NoMode}]
  /\ groupsFile \in [Groups -> Modes \cup {NoMode}]
  /\ failed \in BOOLEAN

CallType ==
  /\ pc \in [Threads -> {Idle, "update", "duplicate", "restore", "ungroup"}]
  /\ id \in [Threads -> Ids \cup {NoId}]
  /\ draft \in [Threads -> Profile \cup {Absent}]
  /\ fields \in [Threads -> SUBSET {"group", "runtime"}]
  /\ label \in [Threads -> Groups \cup {NoGroup}]
  /\ restored \in [Threads -> 0..MaxRestore]

ListType ==
  /\ todo \in [Threads -> SUBSET Ids]
  /\ gone \in [Threads -> SUBSET Ids]
  /\ joined \in [Threads -> BOOLEAN]

\* What a call has in its hands where it needs it.
CallWellFormed ==
  \A t \in Threads :
    /\ pc[t] = "update" => id[t] \in Ids
    /\ pc[t] \in {"update", "duplicate"} => draft[t] \in Profile
    /\ pc[t] = "ungroup" => label[t] \in Groups

Typed == StoreType /\ GroupType /\ CallType /\ ListType /\ CallWellFormed

LEMMA TypeParts == TypeOK <=> Typed
  BY DEF TypeOK, Typed, StoreType, GroupType, CallType, ListType, CallWellFormed

LEMMA TypeInit == Init => TypeOK
  <1> SUFFICES ASSUME Init PROVE Typed
    BY TypeParts
  <1>1. StoreType /\ GroupType
    BY DEF Init, StoreType, GroupType
  <1>2. CallType /\ CallWellFormed
    BY CatalogAssumption DEF CatalogAssumption, Init, CallType, CallWellFormed
  <1>3. ListType
    BY Zenon DEF Init, ListType
  <1>4. QED
    BY <1>1, <1>2, <1>3 DEF Typed

-----------------------------------------------------------------------------
\* The parts of the steps.

LEMMA ReturnType ==
  ASSUME CallType, CallWellFormed, todo \in [Threads -> SUBSET Ids], NEW t \in Threads, Return(t)
  PROVE  CallType' /\ CallWellFormed' /\ todo' \in [Threads -> SUBSET Ids]
  BY CatalogAssumption DEF CatalogAssumption, CallType, CallWellFormed, Return

LEMMA JoinsType ==
  ASSUME NEW g, Joins(g), joined \in [Threads -> BOOLEAN]
  PROVE  joined' \in [Threads -> BOOLEAN]
  BY Zenon DEF Joins

LEMMA LeavesType ==
  ASSUME ListType, NEW i \in Ids, Leaves(i)
  PROVE  gone' \in [Threads -> SUBSET Ids]
  BY DEF ListType, Leaves

LEMMA CreatedType ==
  ASSUME StoreType, ListType, NEW i \in Ids, NEW p \in Profile, Created(i, p) \/ CreateFailed(i)
  PROVE  StoreType' /\ gone' \in [Threads -> SUBSET Ids] /\ joined' \in [Threads -> BOOLEAN] /\ UNCHANGED failed
  <1>1. StoreType' /\ UNCHANGED failed
    BY DEF StoreType, Created, CreateFailed, storeVars
  <1>2. gone' \in [Threads -> SUBSET Ids] /\ joined' \in [Threads -> BOOLEAN]
    BY JoinsType, LeavesType DEF ListType, Created, CreateFailed
  <1>3. QED
    BY <1>1, <1>2

LEMMA UpdatedType ==
  ASSUME StoreType, failed \in BOOLEAN, NEW i \in Ids, NEW p \in Profile, Updated(i, p) \/ UpdateFailed(i, p)
  PROVE  StoreType' /\ failed' \in BOOLEAN
  BY ZenonT(60) DEF StoreType, Updated, UpdateFailed

LEMMA MergedType ==
  ASSUME Typed, NEW t \in Threads, pc[t] = "update", profiles[id[t]] # Absent
  PROVE  id[t] \in Ids /\ Merged(t) \in Profile
  BY DEF Typed, StoreType, CallType, CallWellFormed, Merged, Profile

LEMMA UngroupedType ==
  ASSUME Typed, NEW t \in Threads, id[t] # NoId, profiles[id[t]] # Absent
  PROVE  id[t] \in Ids /\ [profiles[id[t]] EXCEPT !.group = NoGroup] \in Profile
  BY DEF Typed, StoreType, CallType, Profile

LEMMA ClearProxyType ==
  ASSUME GroupType, NEW g \in Groups, ClearProxy(g)
  PROVE  GroupType'
  BY DEF GroupType, ClearProxy, SaveGroups

\* Every step keeps the variables in their sets: one step per action.
LEMMA TypeStep == TypeOK /\ [Next]_vars => TypeOK'
  <1> SUFFICES ASSUME Typed, [Next]_vars PROVE Typed'
    BY TypeParts, PTL
  <1> USE DEF Typed, storeVars, groupVars, callVars
  <1>1. ASSUME NEW i \in Ids, NEW p \in Profile, CreateProfile(i, p) PROVE Typed'
    BY <1>1, CreatedType DEF CreateProfile, StoreType, GroupType, CallType, ListType, CallWellFormed
  <1>2. ASSUME NEW i \in Ids, RenameProfile(i) PROVE Typed'
    BY <1>2, UpdatedType DEF RenameProfile, StoreType, GroupType, CallType, ListType, CallWellFormed
  <1>3. ASSUME NEW i \in Ids, DeleteProfile(i) PROVE Typed'
    <2>1. StoreType'
      BY <1>3 DEF DeleteProfile, StoreType
    <2>2. GroupType' /\ gone' \in [Threads -> SUBSET Ids]
      BY <1>3, LeavesType DEF DeleteProfile, GroupType, ListType
    <2>3. QED
      BY <1>3, <2>1, <2>2 DEF DeleteProfile, CallType, ListType, CallWellFormed
  <1>4. ASSUME NEW g \in Groups, NEW m \in Modes, Upsert(g, m) PROVE Typed'
    <2>1. GroupType'
      BY <1>4 DEF Upsert, SaveGroups, GroupType
    <2>2. QED
      BY <1>4, <2>1 DEF Upsert, StoreType, CallType, ListType, CallWellFormed
  <1>5. ASSUME NEW g \in Groups, ClearGroupProxy(g) PROVE Typed'
    BY <1>5, ClearProxyType DEF ClearGroupProxy, StoreType, GroupType, CallType, ListType, CallWellFormed
  <1>6. ASSUME NEW t \in Threads, NEW i \in Ids, NEW p \in Profile, NEW F \in SUBSET {"group", "runtime"}, GetForUpdate(t, i, p, F) PROVE Typed'
    BY <1>6, CatalogAssumption DEF CatalogAssumption, GetForUpdate, Profile, StoreType, GroupType, CallType, ListType, CallWellFormed
  <1>7. ASSUME NEW t \in Threads, NEW i \in Ids, CopyProfile(t, i) PROVE Typed'
    BY <1>7 DEF CopyProfile, StoreType, GroupType, CallType, ListType, CallWellFormed
  <1>8. ASSUME NEW t \in Threads, NEW n \in 0..MaxRestore, Restore(t, n) PROVE Typed'
    BY <1>8 DEF Restore, StoreType, GroupType, CallType, ListType, CallWellFormed
  <1>9. ASSUME NEW t \in Threads, NEW n \in 0..MaxRestore, NEW f \in [Groups -> Modes \cup {NoMode}], RestoreWithGroups(t, n, f) PROVE Typed'
    <2>1. GroupType'
      BY <1>9 DEF RestoreWithGroups, GroupType
    <2>2. CallType' /\ CallWellFormed'
      BY <1>9 DEF RestoreWithGroups, CallType, CallWellFormed
    <2>3. QED
      BY <1>9, <2>1, <2>2 DEF RestoreWithGroups, StoreType, ListType
  <1>10. ASSUME NEW t \in Threads, NEW g \in Groups, DeleteGroup(t, g) PROVE Typed'
    BY <1>10 DEF DeleteGroup, StoreType, GroupType, CallType, ListType, CallWellFormed
  <1>11. ASSUME NEW t \in Threads, UpdateProfile(t) PROVE Typed'
    BY <1>11, MergedType, UpdatedType, ReturnType DEF UpdateProfile, Moves, Joins, GroupType, ListType
  <1>12. ASSUME NEW t \in Threads, UpdateNotFound(t) PROVE Typed'
    BY <1>12, ReturnType DEF UpdateNotFound, StoreType, GroupType, ListType
  <1>13. ASSUME NEW t \in Threads, UpdateRejected(t) PROVE Typed'
    BY <1>13, ReturnType DEF UpdateRejected, StoreType, GroupType, ListType
  <1>14. ASSUME NEW t \in Threads, NEW i \in Ids, DuplicateProfile(t, i) PROVE Typed'
    <2>1. draft[t] \in Profile
      BY <1>14 DEF DuplicateProfile, CallWellFormed
    <2>2. QED
      BY <1>14, <2>1, CreatedType, ReturnType DEF DuplicateProfile, GroupType, ListType
  <1>15. ASSUME NEW t \in Threads, NEW i \in Ids, NEW p \in Profile, RestoreProfile(t, i, p) PROVE Typed'
    <2>1. StoreType' /\ GroupType' /\ gone' \in [Threads -> SUBSET Ids] /\ joined' \in [Threads -> BOOLEAN]
      BY <1>15, CreatedType DEF RestoreProfile, GroupType, CreateFailed
    <2>2. CallType' /\ CallWellFormed' /\ todo' \in [Threads -> SUBSET Ids]
      <3>1. CASE Return(t)
        BY <3>1, ReturnType DEF ListType
      <3>2. CASE restored' = [restored EXCEPT ![t] = @ - 1] /\ UNCHANGED <<pc, id, draft, fields, label, todo>>
        BY <1>15, <3>2, CatalogAssumption DEF CatalogAssumption, RestoreProfile, CallType, CallWellFormed, ListType
      <3>3. QED
        BY <1>15, <3>1, <3>2 DEF RestoreProfile
    <2>3. QED
      BY <2>1, <2>2 DEF ListType
  <1>16. ASSUME NEW t \in Threads, Restored(t) PROVE Typed'
    BY <1>16, ReturnType DEF Restored, StoreType, GroupType, ListType
  <1>17. ASSUME NEW t \in Threads, NEW i \in Ids, OtherGroup(t, i) PROVE Typed'
    BY <1>17 DEF OtherGroup, LooksAt, StoreType, GroupType, CallType, ListType, CallWellFormed
  <1>18. ASSUME NEW t \in Threads, NEW i \in Ids, SameGroup(t, i) PROVE Typed'
    BY <1>18 DEF SameGroup, LooksAt, StoreType, GroupType, CallType, ListType, CallWellFormed
  <1>19. ASSUME NEW t \in Threads, Ungroup(t) PROVE Typed'
    <2>1. id[t] \in Ids /\ [profiles[id[t]] EXCEPT !.group = NoGroup] \in Profile
      BY <1>19, UngroupedType DEF Ungroup
    <2>2. StoreType' /\ GroupType'
      BY <1>19, <2>1, UpdatedType DEF Ungroup, GroupType
    <2>3. CallType' /\ ListType' /\ CallWellFormed'
      <3>1. CASE EndDeletion(t)
        BY <3>1, ReturnType DEF EndDeletion, ListType
      <3>2. CASE id' = [id EXCEPT ![t] = NoId] /\ UNCHANGED <<pc, draft, fields, label, todo, gone, restored, joined>>
        BY <1>19, <3>2 DEF Ungroup, CallType, ListType, CallWellFormed
      <3>3. QED
        BY <1>19, <3>1, <3>2 DEF Ungroup
    <2>4. QED
      BY <2>2, <2>3
  <1>20. ASSUME NEW t \in Threads, UngroupNotFound(t) PROVE Typed'
    BY <1>20, ReturnType DEF UngroupNotFound, EndDeletion, StoreType, GroupType, ListType
  <1>21. ASSUME NEW t \in Threads, ClearGroup(t) PROVE Typed'
    <2>1. label[t] \in Groups
      BY <1>21 DEF ClearGroup, CallWellFormed
    <2>2. QED
      BY <1>21, <2>1, ClearProxyType, ReturnType DEF ClearGroup, EndDeletion, StoreType, ListType
  <1>22. ASSUME Restart PROVE Typed'
    <2>1. StoreType' /\ GroupType'
      BY <1>22 DEF Restart, StoreType, GroupType
    <2>2. CallType' /\ CallWellFormed'
      BY <1>22, CatalogAssumption DEF CatalogAssumption, Restart, CallType, CallWellFormed
    <2>3. ListType'
      BY <1>22, Zenon DEF Restart, ListType
    <2>4. QED
      BY <2>1, <2>2, <2>3
  <1>23. CASE UNCHANGED vars
    BY <1>23 DEF vars, StoreType, GroupType, CallType, ListType, CallWellFormed
  <1>24. QED
    BY <1>1, <1>2, <1>3, <1>4, <1>5, <1>6, <1>7, <1>8, <1>9, <1>10, <1>11, <1>12, <1>13, <1>14, <1>15, <1>16, <1>17, <1>18, <1>19, <1>20, <1>21, <1>22, <1>23 DEF Next, ProfileCall, GroupCall, Call, CallStep

\* Every variable keeps to its set.
THEOREM TypeCorrect == Spec => []TypeOK
  BY TypeInit, TypeStep, PTL DEF Spec

-----------------------------------------------------------------------------
\* What completed calls said is kept.  A restart brings back what is on disk, so
\* the invariant also says that what was stored is a profile.

StoredInv ==
  \A i \in Ids :
    /\ last[i] = "stored" => /\ profiles[i] # Absent
                             /\ stored[i] \in Profile
                             /\ files[i] = stored[i]
    /\ last[i] \in {"none", "refused", "deleted"} => profiles[i] = Absent /\ files[i] = Absent

LEMMA CreatedKeeps ==
  ASSUME Typed, StoredInv, NEW i \in Ids, NEW p \in Profile, Created(i, p) \/ CreateFailed(i)
  PROVE  StoredInv'
  BY AbsentAssumption DEF StoredInv, Typed, StoreType, Created, CreateFailed, storeVars

LEMMA UpdatedKeeps ==
  ASSUME Typed, StoredInv, NEW i \in Ids, NEW p \in Profile, profiles[i] # Absent,
         Updated(i, p) \/ UpdateFailed(i, p)
  PROVE  StoredInv'
  BY AbsentAssumption DEF StoredInv, Typed, StoreType, Updated, UpdateFailed

LEMMA StoredInit == Init => StoredInv
  BY DEF Init, StoredInv

LEMMA StoredStep == TypeOK /\ StoredInv /\ [Next]_vars => StoredInv'
  <1> SUFFICES ASSUME TypeOK, StoredInv, [Next]_vars PROVE StoredInv'
    OBVIOUS
  <1>t. Typed
    BY TypeParts
  <1> USE DEF storeVars, groupVars, callVars
  <1>1. ASSUME NEW i \in Ids, NEW p \in Profile, CreateProfile(i, p) PROVE StoredInv'
    BY <1>1, <1>t, CreatedKeeps DEF CreateProfile
  <1>2. ASSUME NEW i \in Ids, RenameProfile(i) PROVE StoredInv'
    <2>1. profiles[i] \in Profile
      BY <1>2, <1>t DEF RenameProfile, Typed, StoreType
    <2>2. QED
      BY <1>2, <1>t, <2>1, UpdatedKeeps DEF RenameProfile
  <1>3. ASSUME NEW i \in Ids, DeleteProfile(i) PROVE StoredInv'
    BY <1>3, <1>t DEF DeleteProfile, StoredInv, Typed, StoreType
  <1>4. ASSUME NEW g \in Groups, NEW m \in Modes, Upsert(g, m) PROVE StoredInv'
    BY <1>4 DEF Upsert, StoredInv
  <1>5. ASSUME NEW g \in Groups, ClearGroupProxy(g) PROVE StoredInv'
    BY <1>5 DEF ClearGroupProxy, StoredInv
  <1>6. ASSUME NEW t \in Threads, NEW i \in Ids, NEW p \in Profile, NEW F \in SUBSET {"group", "runtime"}, GetForUpdate(t, i, p, F) PROVE StoredInv'
    BY <1>6 DEF GetForUpdate, StoredInv
  <1>7. ASSUME NEW t \in Threads, NEW i \in Ids, CopyProfile(t, i) PROVE StoredInv'
    BY <1>7 DEF CopyProfile, StoredInv
  <1>8. ASSUME NEW t \in Threads, NEW n \in 0..MaxRestore, Restore(t, n) PROVE StoredInv'
    BY <1>8 DEF Restore, StoredInv
  <1>9. ASSUME NEW t \in Threads, NEW n \in 0..MaxRestore, NEW f \in [Groups -> Modes \cup {NoMode}], RestoreWithGroups(t, n, f) PROVE StoredInv'
    BY <1>9 DEF RestoreWithGroups, StoredInv
  <1>10. ASSUME NEW t \in Threads, NEW g \in Groups, DeleteGroup(t, g) PROVE StoredInv'
    BY <1>10 DEF DeleteGroup, StoredInv
  <1>11. ASSUME NEW t \in Threads, UpdateProfile(t) PROVE StoredInv'
    BY <1>11, <1>t, MergedType, UpdatedKeeps DEF UpdateProfile
  <1>12. ASSUME NEW t \in Threads, UpdateNotFound(t) PROVE StoredInv'
    BY <1>12 DEF UpdateNotFound, StoredInv
  <1>13. ASSUME NEW t \in Threads, UpdateRejected(t) PROVE StoredInv'
    BY <1>13 DEF UpdateRejected, StoredInv
  <1>14. ASSUME NEW t \in Threads, NEW i \in Ids, DuplicateProfile(t, i) PROVE StoredInv'
    <2>1. draft[t] \in Profile
      BY <1>14, <1>t DEF DuplicateProfile, Typed, CallWellFormed
    <2>2. QED
      BY <1>14, <1>t, <2>1, CreatedKeeps DEF DuplicateProfile
  <1>15. ASSUME NEW t \in Threads, NEW i \in Ids, NEW p \in Profile, RestoreProfile(t, i, p) PROVE StoredInv'
    BY <1>15, <1>t, CreatedKeeps DEF RestoreProfile
  <1>16. ASSUME NEW t \in Threads, Restored(t) PROVE StoredInv'
    BY <1>16 DEF Restored, StoredInv
  <1>17. ASSUME NEW t \in Threads, NEW i \in Ids, OtherGroup(t, i) PROVE StoredInv'
    BY <1>17 DEF OtherGroup, StoredInv
  <1>18. ASSUME NEW t \in Threads, NEW i \in Ids, SameGroup(t, i) PROVE StoredInv'
    BY <1>18 DEF SameGroup, StoredInv
  <1>19. ASSUME NEW t \in Threads, Ungroup(t) PROVE StoredInv'
    BY <1>19, <1>t, UngroupedType, UpdatedKeeps DEF Ungroup
  <1>20. ASSUME NEW t \in Threads, UngroupNotFound(t) PROVE StoredInv'
    BY <1>20 DEF UngroupNotFound, StoredInv
  <1>21. ASSUME NEW t \in Threads, ClearGroup(t) PROVE StoredInv'
    BY <1>21 DEF ClearGroup, StoredInv
  <1>22. ASSUME Restart PROVE StoredInv'
    BY <1>22, AbsentAssumption DEF Restart, StoredInv
  <1>23. CASE UNCHANGED vars
    BY <1>23 DEF vars, StoredInv
  <1>24. QED
    BY <1>1, <1>2, <1>3, <1>4, <1>5, <1>6, <1>7, <1>8, <1>9, <1>10, <1>11, <1>12, <1>13, <1>14, <1>15, <1>16, <1>17, <1>18, <1>19, <1>20, <1>21, <1>22, <1>23 DEF Next, ProfileCall, GroupCall, Call, CallStep

\* What a completed call about a profile said stays true of memory and disk.
THEOREM CompletedStays == Spec => []CompletedIsKept
  <1>1. StoredInv => CompletedIsKept
    BY DEF StoredInv, CompletedIsKept
  <1>2. QED
    BY TypeCorrect, StoredInit, StoredStep, <1>1, PTL DEF Spec

-----------------------------------------------------------------------------
LEMMA SyncStep == InSyncUntilFailure /\ [Next]_vars => InSyncUntilFailure'
  <1> SUFFICES ASSUME InSyncUntilFailure, [Next]_vars PROVE InSyncUntilFailure'
    OBVIOUS
  <1> USE DEF InSyncUntilFailure, storeVars, groupVars, callVars
  <1>1. ASSUME NEW i \in Ids, NEW p \in Profile, CreateProfile(i, p) PROVE InSyncUntilFailure'
    BY <1>1 DEF CreateProfile, Created, CreateFailed
  <1>2. ASSUME NEW i \in Ids, RenameProfile(i) PROVE InSyncUntilFailure'
    BY <1>2 DEF RenameProfile, Updated, UpdateFailed
  <1>3. ASSUME NEW i \in Ids, DeleteProfile(i) PROVE InSyncUntilFailure'
    BY <1>3 DEF DeleteProfile
  <1>4. ASSUME NEW g \in Groups, NEW m \in Modes, Upsert(g, m) PROVE InSyncUntilFailure'
    BY <1>4 DEF Upsert, SaveGroups
  <1>5. ASSUME NEW g \in Groups, ClearGroupProxy(g) PROVE InSyncUntilFailure'
    BY <1>5 DEF ClearGroupProxy, ClearProxy, SaveGroups
  <1>6. ASSUME NEW t \in Threads, NEW i \in Ids, NEW p \in Profile, NEW F \in SUBSET {"group", "runtime"}, GetForUpdate(t, i, p, F) PROVE InSyncUntilFailure'
    BY <1>6 DEF GetForUpdate
  <1>7. ASSUME NEW t \in Threads, NEW i \in Ids, CopyProfile(t, i) PROVE InSyncUntilFailure'
    BY <1>7 DEF CopyProfile
  <1>8. ASSUME NEW t \in Threads, NEW n \in 0..MaxRestore, Restore(t, n) PROVE InSyncUntilFailure'
    BY <1>8 DEF Restore
  <1>9. ASSUME NEW t \in Threads, NEW n \in 0..MaxRestore, NEW f \in [Groups -> Modes \cup {NoMode}], RestoreWithGroups(t, n, f) PROVE InSyncUntilFailure'
    BY <1>9 DEF RestoreWithGroups
  <1>10. ASSUME NEW t \in Threads, NEW g \in Groups, DeleteGroup(t, g) PROVE InSyncUntilFailure'
    BY <1>10 DEF DeleteGroup
  <1>11. ASSUME NEW t \in Threads, UpdateProfile(t) PROVE InSyncUntilFailure'
    BY <1>11 DEF UpdateProfile, Updated, UpdateFailed
  <1>12. ASSUME NEW t \in Threads, UpdateNotFound(t) PROVE InSyncUntilFailure'
    BY <1>12 DEF UpdateNotFound
  <1>13. ASSUME NEW t \in Threads, UpdateRejected(t) PROVE InSyncUntilFailure'
    BY <1>13 DEF UpdateRejected
  <1>14. ASSUME NEW t \in Threads, NEW i \in Ids, DuplicateProfile(t, i) PROVE InSyncUntilFailure'
    BY <1>14 DEF DuplicateProfile, Created, CreateFailed
  <1>15. ASSUME NEW t \in Threads, NEW i \in Ids, NEW p \in Profile, RestoreProfile(t, i, p) PROVE InSyncUntilFailure'
    BY <1>15 DEF RestoreProfile, Created, CreateFailed
  <1>16. ASSUME NEW t \in Threads, Restored(t) PROVE InSyncUntilFailure'
    BY <1>16 DEF Restored
  <1>17. ASSUME NEW t \in Threads, NEW i \in Ids, OtherGroup(t, i) PROVE InSyncUntilFailure'
    BY <1>17 DEF OtherGroup
  <1>18. ASSUME NEW t \in Threads, NEW i \in Ids, SameGroup(t, i) PROVE InSyncUntilFailure'
    BY <1>18 DEF SameGroup
  <1>19. ASSUME NEW t \in Threads, Ungroup(t) PROVE InSyncUntilFailure'
    BY <1>19 DEF Ungroup, Updated, UpdateFailed
  <1>20. ASSUME NEW t \in Threads, UngroupNotFound(t) PROVE InSyncUntilFailure'
    BY <1>20 DEF UngroupNotFound
  <1>21. ASSUME NEW t \in Threads, ClearGroup(t) PROVE InSyncUntilFailure'
    BY <1>21 DEF ClearGroup, ClearProxy, SaveGroups
  <1>22. ASSUME Restart PROVE InSyncUntilFailure'
    BY <1>22 DEF Restart
  <1>23. CASE UNCHANGED vars
    BY <1>23 DEF vars
  <1>24. QED
    BY <1>1, <1>2, <1>3, <1>4, <1>5, <1>6, <1>7, <1>8, <1>9, <1>10, <1>11, <1>12, <1>13, <1>14, <1>15, <1>16, <1>17, <1>18, <1>19, <1>20, <1>21, <1>22, <1>23 DEF Next, ProfileCall, GroupCall, Call, CallStep

\* As long as nothing has failed, memory and disk agree.
THEOREM MemoryMatchesDisk == Spec => []InSyncUntilFailure
  <1>1. Init => InSyncUntilFailure
    BY DEF Init, InSyncUntilFailure
  <1>2. QED
    BY <1>1, SyncStep, PTL DEF Spec

-----------------------------------------------------------------------------
\* A deletion of a group knows of every profile that is in the group, unless one
\* came in meanwhile: it is on its list, or it is being taken out.  That a list
\* starts with nothing marked as gone needs that only deletions have lists.

ListInv ==
  \A t \in Threads : pc[t] # "ungroup" => todo[t] = {} /\ gone[t] = {} /\ label[t] = NoGroup

Remembers(t) ==
  pc[t] = "ungroup" /\ ~joined[t] =>
    \A i \in Ids : InGroup(i, label[t]) => (i \in todo[t] /\ i \notin gone[t]) \/ id[t] = i

LEMMA LeavesList ==
  ASSUME ListType, NEW i \in Ids, Leaves(i)
  PROVE  \A t \in Threads : todo[t] = {} /\ gone[t] = {} => gone'[t] = {}
  BY DEF ListType, Leaves

LEMMA ListStep == Typed /\ ListInv /\ [Next]_vars => ListInv'
  <1> SUFFICES ASSUME Typed, ListInv, [Next]_vars PROVE ListInv'
    OBVIOUS
  <1> USE DEF Typed, ListInv, callVars
  <1>1. ASSUME NEW i \in Ids, NEW p \in Profile, CreateProfile(i, p) PROVE ListInv'
    BY <1>1, LeavesList DEF CreateProfile, Created, CreateFailed, CallType
  <1>2. ASSUME NEW i \in Ids, RenameProfile(i) PROVE ListInv'
    BY <1>2 DEF RenameProfile
  <1>3. ASSUME NEW i \in Ids, DeleteProfile(i) PROVE ListInv'
    BY <1>3, LeavesList DEF DeleteProfile, CallType
  <1>4. ASSUME NEW g \in Groups, NEW m \in Modes, Upsert(g, m) PROVE ListInv'
    BY <1>4 DEF Upsert
  <1>5. ASSUME NEW g \in Groups, ClearGroupProxy(g) PROVE ListInv'
    BY <1>5 DEF ClearGroupProxy
  <1>6. ASSUME NEW t \in Threads, NEW i \in Ids, NEW p \in Profile, NEW F \in SUBSET {"group", "runtime"}, GetForUpdate(t, i, p, F) PROVE ListInv'
    BY <1>6 DEF GetForUpdate, CallType, ListType, Return
  <1>7. ASSUME NEW t \in Threads, NEW i \in Ids, CopyProfile(t, i) PROVE ListInv'
    BY <1>7 DEF CopyProfile, CallType, ListType, Return
  <1>8. ASSUME NEW t \in Threads, NEW n \in 0..MaxRestore, Restore(t, n) PROVE ListInv'
    BY <1>8 DEF Restore, CallType, ListType, Return
  <1>9. ASSUME NEW t \in Threads, NEW n \in 0..MaxRestore, NEW f \in [Groups -> Modes \cup {NoMode}], RestoreWithGroups(t, n, f) PROVE ListInv'
    BY <1>9 DEF RestoreWithGroups, CallType, ListType, Return
  <1>10. ASSUME NEW t \in Threads, NEW g \in Groups, DeleteGroup(t, g) PROVE ListInv'
    BY <1>10 DEF DeleteGroup, CallType, ListType, Return
  <1>11. ASSUME NEW t \in Threads, UpdateProfile(t) PROVE ListInv'
    BY <1>11 DEF UpdateProfile, CallType, ListType, Return
  <1>12. ASSUME NEW t \in Threads, UpdateNotFound(t) PROVE ListInv'
    BY <1>12 DEF UpdateNotFound, CallType, ListType, Return
  <1>13. ASSUME NEW t \in Threads, UpdateRejected(t) PROVE ListInv'
    BY <1>13 DEF UpdateRejected, CallType, ListType, Return
  <1>14. ASSUME NEW t \in Threads, NEW i \in Ids, DuplicateProfile(t, i) PROVE ListInv'
    BY <1>14, LeavesList DEF DuplicateProfile, Return, Created, CreateFailed, CallType, ListType
  <1>15. ASSUME NEW t \in Threads, NEW i \in Ids, NEW p \in Profile, RestoreProfile(t, i, p) PROVE ListInv'
    BY <1>15, LeavesList DEF RestoreProfile, Return, Created, CreateFailed, CallType, ListType
  <1>16. ASSUME NEW t \in Threads, Restored(t) PROVE ListInv'
    BY <1>16 DEF Restored, CallType, ListType, Return
  <1>17. ASSUME NEW t \in Threads, NEW i \in Ids, OtherGroup(t, i) PROVE ListInv'
    BY <1>17 DEF OtherGroup, LooksAt, CallType, ListType
  <1>18. ASSUME NEW t \in Threads, NEW i \in Ids, SameGroup(t, i) PROVE ListInv'
    BY <1>18 DEF SameGroup, LooksAt, CallType, ListType
  <1>19. ASSUME NEW t \in Threads, Ungroup(t) PROVE ListInv'
    BY <1>19 DEF Ungroup, EndDeletion, Return, CallType, ListType
  <1>20. ASSUME NEW t \in Threads, UngroupNotFound(t) PROVE ListInv'
    BY <1>20 DEF UngroupNotFound, EndDeletion, Return, CallType, ListType
  <1>21. ASSUME NEW t \in Threads, ClearGroup(t) PROVE ListInv'
    BY <1>21 DEF ClearGroup, EndDeletion, Return, CallType, ListType
  <1>22. ASSUME Restart PROVE ListInv'
    BY <1>22 DEF Restart, CallType, ListType, Return
  <1>23. CASE UNCHANGED vars
    BY <1>23 DEF vars
  <1>24. QED
    BY <1>1, <1>2, <1>3, <1>4, <1>5, <1>6, <1>7, <1>8, <1>9, <1>10, <1>11, <1>12, <1>13, <1>14, <1>15, <1>16, <1>17, <1>18, <1>19, <1>20, <1>21, <1>22, <1>23 DEF Next, ProfileCall, GroupCall, Call, CallStep

LEMMA CreatedRemembers ==
  ASSUME Typed, NEW u \in Threads, Remembers(u), UNCHANGED <<pc[u], id[u], label[u], todo[u]>>,
         NEW i \in Ids, NEW p \in Profile, Created(i, p) \/ CreateFailed(i)
  PROVE  Remembers(u)'
  <1>1. CASE Created(i, p)
    <2>1. label[u] \in Groups => label[u] # NoGroup
      BY CatalogAssumption DEF CatalogAssumption
    <2>2. joined'[u] <=> joined[u] \/ (p.group # NoGroup /\ label[u] = p.group)
      BY <1>1 DEF Created, Joins
    <2>3. \A j \in Ids : j # i => (j \in gone'[u] <=> j \in gone[u]) /\ profiles'[j] = profiles[j]
      BY <1>1 DEF Created, Leaves, Typed, StoreType, ListType
    <2>4. profiles'[i] = p
      BY <1>1 DEF Created, Typed, StoreType
    <2>5. QED
      BY <2>1, <2>2, <2>3, <2>4 DEF Remembers, InGroup, Typed, CallWellFormed
  <1>2. CASE CreateFailed(i)
    BY <1>2 DEF CreateFailed, Remembers, InGroup, storeVars
  <1>3. QED
    BY <1>1, <1>2

LEMMA UpdatedRemembers ==
  ASSUME Typed, NEW u \in Threads, Remembers(u), UNCHANGED <<pc[u], id[u], label[u], todo[u], gone>>,
         NEW i \in Ids, NEW p \in Profile, profiles[i] # Absent,
         Updated(i, p) \/ UpdateFailed(i, p), Moves(i, p)
  PROVE  Remembers(u)'
  <1>1. profiles' = [profiles EXCEPT ![i] = p]
    BY DEF Updated, UpdateFailed
  <1>2. \A j \in Ids : j # i => profiles'[j] = profiles[j]
    BY <1>1 DEF Typed, StoreType
  <1>3. profiles'[i] = p
    BY <1>1 DEF Typed, StoreType
  <1>4. CASE p.group = profiles[i].group
    BY <1>2, <1>3, <1>4 DEF Moves, Remembers, InGroup
  <1>5. CASE p.group # profiles[i].group
    <2>1. label[u] \in Groups => label[u] # NoGroup
      BY CatalogAssumption DEF CatalogAssumption
    <2>2. joined'[u] <=> joined[u] \/ (p.group # NoGroup /\ label[u] = p.group)
      BY <1>5 DEF Moves, Joins
    <2>3. QED
      BY <1>2, <1>3, <2>1, <2>2 DEF Remembers, InGroup, Typed, CallWellFormed
  <1>6. QED
    BY <1>4, <1>5

LEMMA RemembersStep ==
  ASSUME NEW u \in Threads
  PROVE  Typed /\ ListInv /\ Remembers(u) /\ [Next]_vars => Remembers(u)'
  <1> SUFFICES ASSUME Typed, ListInv, Remembers(u), [Next]_vars PROVE Remembers(u)'
    OBVIOUS
  <1> USE DEF Typed, storeVars, callVars, InGroup
  <1>1. ASSUME NEW i \in Ids, NEW p \in Profile, CreateProfile(i, p) PROVE Remembers(u)'
    BY <1>1, CreatedRemembers DEF CreateProfile
  <1>2. ASSUME NEW i \in Ids, RenameProfile(i) PROVE Remembers(u)'
    <2>1. profiles[i] \in Profile
      BY <1>2 DEF RenameProfile, StoreType
    <2>2. QED
      BY <1>2, <2>1 DEF RenameProfile, Updated, UpdateFailed, StoreType, Remembers
  <1>3. ASSUME NEW i \in Ids, DeleteProfile(i) PROVE Remembers(u)'
    BY <1>3 DEF DeleteProfile, Leaves, StoreType, ListType, Remembers
  <1>4. ASSUME NEW g \in Groups, NEW m \in Modes, Upsert(g, m) PROVE Remembers(u)'
    BY <1>4 DEF Upsert, Remembers
  <1>5. ASSUME NEW g \in Groups, ClearGroupProxy(g) PROVE Remembers(u)'
    BY <1>5 DEF ClearGroupProxy, Remembers
  <1>6. ASSUME NEW t \in Threads, NEW i \in Ids, NEW p \in Profile, NEW F \in SUBSET {"group", "runtime"}, GetForUpdate(t, i, p, F) PROVE Remembers(u)'
    <2>1. CASE u = t
      BY <1>6, <2>1 DEF GetForUpdate, Return, CallType, Remembers
    <2>2. CASE u # t
      BY <1>6, <2>2 DEF GetForUpdate, Return, CallType, Remembers
    <2>3. QED
      BY <2>1, <2>2
  <1>7. ASSUME NEW t \in Threads, NEW i \in Ids, CopyProfile(t, i) PROVE Remembers(u)'
    <2>1. CASE u = t
      BY <1>7, <2>1 DEF CopyProfile, Return, CallType, Remembers
    <2>2. CASE u # t
      BY <1>7, <2>2 DEF CopyProfile, Return, CallType, Remembers
    <2>3. QED
      BY <2>1, <2>2
  <1>8. ASSUME NEW t \in Threads, NEW n \in 0..MaxRestore, Restore(t, n) PROVE Remembers(u)'
    <2>1. CASE u = t
      BY <1>8, <2>1 DEF Restore, Return, CallType, Remembers
    <2>2. CASE u # t
      BY <1>8, <2>2 DEF Restore, Return, CallType, Remembers
    <2>3. QED
      BY <2>1, <2>2
  <1>9. ASSUME NEW t \in Threads, NEW n \in 0..MaxRestore, NEW f \in [Groups -> Modes \cup {NoMode}], RestoreWithGroups(t, n, f) PROVE Remembers(u)'
    <2>1. CASE u = t
      BY <1>9, <2>1 DEF RestoreWithGroups, Return, CallType, Remembers
    <2>2. CASE u # t
      BY <1>9, <2>2 DEF RestoreWithGroups, Return, CallType, Remembers
    <2>3. QED
      BY <2>1, <2>2
  <1>10. ASSUME NEW t \in Threads, NEW g \in Groups, DeleteGroup(t, g) PROVE Remembers(u)'
    <2>1. CASE u = t
      BY <1>10, <2>1 DEF DeleteGroup, CallType, ListType, ListInv, Remembers
    <2>2. CASE u # t
      BY <1>10, <2>2 DEF DeleteGroup, CallType, ListType, Remembers
    <2>3. QED
      BY <2>1, <2>2
  <1>11. ASSUME NEW t \in Threads, UpdateProfile(t) PROVE Remembers(u)'
    <2>1. CASE u = t
      BY <1>11, <2>1 DEF UpdateProfile, Return, CallType, Remembers
    <2>2. CASE u # t
      <3>1. UNCHANGED <<pc[u], id[u], label[u], todo[u]>>
        BY <1>11, <2>2 DEF UpdateProfile, Return, CallType, ListType
      <3>2. id[t] \in Ids /\ Merged(t) \in Profile
        BY <1>11, MergedType DEF UpdateProfile
      <3>3. QED
        BY <1>11, <3>1, <3>2, UpdatedRemembers DEF UpdateProfile
    <2>3. QED
      BY <2>1, <2>2
  <1>12. ASSUME NEW t \in Threads, UpdateNotFound(t) PROVE Remembers(u)'
    <2>1. CASE u = t
      BY <1>12, <2>1 DEF UpdateNotFound, Return, CallType, Remembers
    <2>2. CASE u # t
      BY <1>12, <2>2 DEF UpdateNotFound, Return, CallType, Remembers
    <2>3. QED
      BY <2>1, <2>2
  <1>13. ASSUME NEW t \in Threads, UpdateRejected(t) PROVE Remembers(u)'
    <2>1. CASE u = t
      BY <1>13, <2>1 DEF UpdateRejected, Return, CallType, Remembers
    <2>2. CASE u # t
      BY <1>13, <2>2 DEF UpdateRejected, Return, CallType, Remembers
    <2>3. QED
      BY <2>1, <2>2
  <1>14. ASSUME NEW t \in Threads, NEW i \in Ids, DuplicateProfile(t, i) PROVE Remembers(u)'
    <2>1. CASE u = t
      BY <1>14, <2>1 DEF DuplicateProfile, Return, CallType, Remembers
    <2>2. CASE u # t
      <3>1. UNCHANGED <<pc[u], id[u], label[u], todo[u]>>
        BY <1>14, <2>2 DEF DuplicateProfile, Return, CallType, ListType
      <3>2. draft[t] \in Profile
        BY <1>14 DEF DuplicateProfile, CallWellFormed
      <3>3. QED
        BY <1>14, <3>1, <3>2, CreatedRemembers DEF DuplicateProfile
    <2>3. QED
      BY <2>1, <2>2
  <1>15. ASSUME NEW t \in Threads, NEW i \in Ids, NEW p \in Profile, RestoreProfile(t, i, p) PROVE Remembers(u)'
    <2>1. CASE u = t
      BY <1>15, <2>1 DEF RestoreProfile, Return, CallType, Remembers
    <2>2. CASE u # t
      <3>1. UNCHANGED <<pc[u], id[u], label[u], todo[u]>>
        BY <1>15, <2>2 DEF RestoreProfile, Return, CallType, ListType
      <3>2. QED
        BY <1>15, <3>1, CreatedRemembers DEF RestoreProfile
    <2>3. QED
      BY <2>1, <2>2
  <1>16. ASSUME NEW t \in Threads, Restored(t) PROVE Remembers(u)'
    <2>1. CASE u = t
      BY <1>16, <2>1 DEF Restored, Return, CallType, Remembers
    <2>2. CASE u # t
      BY <1>16, <2>2 DEF Restored, Return, CallType, Remembers
    <2>3. QED
      BY <2>1, <2>2
  <1>17. ASSUME NEW t \in Threads, NEW i \in Ids, OtherGroup(t, i) PROVE Remembers(u)'
    BY <1>17 DEF OtherGroup, LooksAt, CallType, ListType, Remembers
  <1>18. ASSUME NEW t \in Threads, NEW i \in Ids, SameGroup(t, i) PROVE Remembers(u)'
    BY <1>18, CatalogAssumption DEF CatalogAssumption, SameGroup, LooksAt, CallType, ListType, Remembers
  <1>19. ASSUME NEW t \in Threads, Ungroup(t) PROVE Remembers(u)'
    <2> DEFINE p == [profiles[id[t]] EXCEPT !.group = NoGroup]
    <2>1. id[t] \in Ids /\ p \in Profile /\ p.group = NoGroup
      BY <1>19, UngroupedType DEF Ungroup, Profile, StoreType
    <2>2. \A j \in Ids, g \in Groups : InGroup(j, g)' => InGroup(j, g) /\ j # id[t]
      BY <1>19, <2>1, CatalogAssumption, ZenonT(60) DEF CatalogAssumption, Ungroup, Updated, UpdateFailed, StoreType
    <2>3. CASE u = t
      BY <1>19, <2>2, <2>3 DEF Ungroup, EndDeletion, Return, CallType, ListType, CallWellFormed, Remembers
    <2>4. CASE u # t
      BY <1>19, <2>2, <2>4 DEF Ungroup, EndDeletion, Return, CallType, ListType, CallWellFormed, Remembers
    <2>5. QED
      BY <2>3, <2>4
  <1>20. ASSUME NEW t \in Threads, UngroupNotFound(t) PROVE Remembers(u)'
    <2>1. CASE u = t
      BY <1>20, <2>1 DEF UngroupNotFound, EndDeletion, Return, CallType, Remembers
    <2>2. CASE u # t
      BY <1>20, <2>2 DEF UngroupNotFound, Return, CallType, Remembers, ListType, EndDeletion
    <2>3. QED
      BY <2>1, <2>2
  <1>21. ASSUME NEW t \in Threads, ClearGroup(t) PROVE Remembers(u)'
    <2>1. CASE u = t
      BY <1>21, <2>1 DEF ClearGroup, EndDeletion, Return, CallType, Remembers
    <2>2. CASE u # t
      BY <1>21, <2>2 DEF ClearGroup, Return, CallType, Remembers, ListType, EndDeletion
    <2>3. QED
      BY <2>1, <2>2
  <1>22. ASSUME Restart PROVE Remembers(u)'
    BY <1>22 DEF Restart, Remembers
  <1>23. CASE UNCHANGED vars
    BY <1>23 DEF vars, Remembers
  <1>24. QED
    BY <1>1, <1>2, <1>3, <1>4, <1>5, <1>6, <1>7, <1>8, <1>9, <1>10, <1>11, <1>12, <1>13, <1>14, <1>15, <1>16, <1>17, <1>18, <1>19, <1>20, <1>21, <1>22, <1>23 DEF Next, ProfileCall, GroupCall, Call, CallStep

\* A group is empty when its deletion clears its policy, unless it was joined.
THEOREM DeletedGroupIsEmpty == Spec => []GroupEmptied
  <1> DEFINE Inv == ListInv /\ \A t \in Threads : Remembers(t)
  <1>1. Init => Inv
    BY DEF Init, ListInv, Remembers
  <1>2. TypeOK /\ Inv /\ [Next]_vars => Inv'
    BY TypeParts, ListStep, RemembersStep
  <1>3. Inv => GroupEmptied
    BY CatalogAssumption DEF CatalogAssumption, Remembers, GroupEmptied
  <1>4. QED
    BY <1>1, <1>2, <1>3, TypeCorrect, PTL DEF Spec

-----------------------------------------------------------------------------
\* The stores implement StoredMap.  A step does one of four things to a store.

ProfilesChange ==
  \/ UNCHANGED storeVars /\ failed' \in {failed, TRUE}
  \/ \E i \in Ids : \E p \in Profile \cup {Absent} :
       /\ profiles' = [profiles EXCEPT ![i] = p]
       /\ \/ files' = [files EXCEPT ![i] = p] /\ UNCHANGED failed
          \/ failed' = TRUE /\ UNCHANGED files
  \/ profiles' = files /\ failed' = FALSE /\ UNCHANGED files

GroupsChange ==
  \/ UNCHANGED groupVars /\ failed' \in {failed, TRUE}
  \/ SaveGroups
  \/ groups' = groupsFile /\ failed' = FALSE /\ UNCHANGED groupsFile

\* A profile is saved alone: what is on disk of the others stays.
LEMMA ProfilesStep ==
  ASSUME StoreType, StoreType', failed \in BOOLEAN, ProfilesChange
  PROVE  Profiles!Next \/ UNCHANGED Profiles!vars
  <1>1. ASSUME UNCHANGED storeVars, failed' = TRUE PROVE Profiles!Lose({})
    BY <1>1 DEF storeVars, StoreType, Profiles!Change, Profiles!Lose
  <1>2. ASSUME NEW i \in Ids, NEW p, profiles' = [profiles EXCEPT ![i] = p],
               files' = [files EXCEPT ![i] = p], UNCHANGED failed
        PROVE  Profiles!Save({i})
    BY <1>2 DEF StoreType, Profiles!Change, Profiles!Save
  <1>3. ASSUME NEW i \in Ids, NEW p, profiles' = [profiles EXCEPT ![i] = p],
               failed' = TRUE, UNCHANGED files
        PROVE  Profiles!Lose({i})
    BY <1>3 DEF StoreType, Profiles!Change, Profiles!Lose
  <1>4. ASSUME profiles' = files, failed' = FALSE, UNCHANGED files PROVE Profiles!Recover
    BY <1>4 DEF Profiles!Recover
  <1>5. CASE UNCHANGED <<profiles, files, failed>>
    BY <1>5 DEF Profiles!vars
  <1>6. {} \in Profiles!Affected /\ \A i \in Ids : {i} \in Profiles!Affected
    BY DEF Profiles!Affected
  <1>7. QED
    BY <1>1, <1>2, <1>3, <1>4, <1>5, <1>6 DEF ProfilesChange, storeVars, Profiles!Next

\* The groups are saved together, with what could not be saved before.
LEMMA GroupsStep ==
  ASSUME GroupType, GroupType', GroupsChange
  PROVE  Policies!Next \/ UNCHANGED Policies!vars
  <1> USE DEF GroupType, Policies!Next, Policies!Affected, Policies!Change
  <1>1. ASSUME UNCHANGED groupVars, failed' = TRUE PROVE Policies!Lose(Groups)
    BY <1>1 DEF groupVars, Policies!Lose
  <1>2. ASSUME groupsFile' = groups', UNCHANGED failed PROVE Policies!Save(Groups)
    BY <1>2 DEF Policies!Save
  <1>3. ASSUME failed' = TRUE, UNCHANGED groupsFile PROVE Policies!Lose(Groups)
    BY <1>3 DEF Policies!Lose
  <1>4. ASSUME groups' = groupsFile, failed' = FALSE, UNCHANGED groupsFile PROVE Policies!Recover
    BY <1>4 DEF Policies!Recover
  <1>5. CASE UNCHANGED <<groups, groupsFile, failed>>
    BY <1>5 DEF Policies!vars
  <1>6. QED
    BY <1>1, <1>2, <1>3, <1>4, <1>5 DEF GroupsChange, SaveGroups, groupVars

\* Every step of a handler is one of these for both stores: one step per action.
LEMMA StoresChange ==
  ASSUME Typed, [Next]_vars
  PROVE  ProfilesChange /\ GroupsChange
  <1> DEFINE Changes == ProfilesChange /\ GroupsChange
  <1> USE DEF ProfilesChange, GroupsChange, storeVars, groupVars, callVars
  <1>1. ASSUME NEW i \in Ids, NEW p \in Profile, CreateProfile(i, p) PROVE Changes
    BY <1>1 DEF CreateProfile, Created, CreateFailed
  <1>2. ASSUME NEW i \in Ids, RenameProfile(i) PROVE Changes
    BY <1>2 DEF RenameProfile, Updated, UpdateFailed, Typed, StoreType
  <1>3. ASSUME NEW i \in Ids, DeleteProfile(i) PROVE Changes
    BY <1>3 DEF DeleteProfile
  <1>4. ASSUME NEW g \in Groups, GroupCall(g) PROVE Changes
    BY <1>4 DEF GroupCall, Upsert, ClearGroupProxy, ClearProxy, SaveGroups
  <1>5. ASSUME NEW t \in Threads, Call(t) PROVE Changes
    BY <1>5 DEF Call, GetForUpdate, CopyProfile, Restore, RestoreWithGroups, DeleteGroup, SaveGroups
  <1>6. ASSUME NEW t \in Threads, UpdateProfile(t) PROVE Changes
    BY <1>6, MergedType DEF UpdateProfile, Updated, UpdateFailed
  <1>7. ASSUME NEW t \in Threads, Ungroup(t) PROVE Changes
    BY <1>7, UngroupedType DEF Ungroup, Updated, UpdateFailed
  <1>8. ASSUME NEW t \in Threads, NEW i \in Ids, DuplicateProfile(t, i) PROVE Changes
    BY <1>8 DEF DuplicateProfile, Created, CreateFailed, Typed, CallWellFormed
  <1>9. ASSUME NEW t \in Threads, NEW i \in Ids, NEW p \in Profile, RestoreProfile(t, i, p) PROVE Changes
    BY <1>9 DEF RestoreProfile, Created, CreateFailed
  <1>10. ASSUME NEW t \in Threads, ClearGroup(t) PROVE Changes
    BY <1>10 DEF ClearGroup, ClearProxy, SaveGroups
  <1>11. ASSUME NEW t \in Threads, \/ UpdateNotFound(t) \/ UpdateRejected(t) \/ Restored(t) \/ UngroupNotFound(t)
                                   \/ \E i \in Ids : OtherGroup(t, i) \/ SameGroup(t, i)
         PROVE  Changes
    BY <1>11 DEF UpdateNotFound, UpdateRejected, Restored, UngroupNotFound, OtherGroup, SameGroup
  <1>12. CASE Restart
    BY <1>12 DEF Restart
  <1>13. CASE UNCHANGED vars
    BY <1>13 DEF vars
  <1>14. QED
    BY <1>1, <1>2, <1>3, <1>4, <1>5, <1>6, <1>7, <1>8, <1>9, <1>10, <1>11, <1>12, <1>13 DEF Next, ProfileCall, CallStep

\* Both stores implement StoredMap: a call changes only what it is about, memory and
\* disk together or memory alone, and a start shows what is on disk.
THEOREM StoresAreImplemented == Spec => ImplementsStores
  <1>1. Init => Profiles!Init /\ Policies!Init
    BY DEF Init, Profiles!Init, Policies!Init
  <1>2. ASSUME TypeOK, TypeOK', [Next]_vars
        PROVE  [Profiles!Next]_(Profiles!vars) /\ [Policies!Next]_(Policies!vars)
    <2>1. Typed /\ Typed'
      BY <1>2, TypeParts, PTL
    <2>2. ProfilesChange /\ GroupsChange
      BY <1>2, <2>1, StoresChange
    <2>3. QED
      BY <2>1, <2>2, ProfilesStep, GroupsStep DEF Typed, GroupType
  <1>3. QED
    BY <1>1, <1>2, TypeCorrect, PTL DEF Spec, ImplementsStores, Profiles!Spec, Policies!Spec
=============================================================================
