------------------------------ MODULE Catalog ------------------------------
(***************************************************************************)
(* What a restart has to bring back: profile.Store, one profile.json per   *)
(* profile, and groups.Store, all groups in one groups.json, with the REST *)
(* and MCP handlers that write to them.  A write may fail, a client may    *)
(* give up and try again, and the server may be killed at any moment.      *)
(*                                                                         *)
(* A store method is one step: it holds the store's mutex, and its save    *)
(* renames a finished temporary file, so that a crash within it is a crash *)
(* before or after it.  A handler takes one step for each method it calls. *)
(***************************************************************************)
EXTENDS Naturals

CONSTANTS
  Ids,         \* the profile IDs that generateID may return or a request may name
  Groups, Runtimes, Modes, Threads,
  Absent, NoGroup, NoId, NoMode,
  MaxRestore   \* bounds the profiles in a backup

ASSUME CatalogAssumption ==
  /\ NoGroup \notin Groups
  /\ NoId \notin Ids
  /\ NoMode \notin Modes
  /\ MaxRestore \in Nat

\* What the model keeps of a profile.
Profile == [group : Groups \cup {NoGroup}, runtime : Runtimes]

ASSUME AbsentAssumption == Absent \notin Profile

VARIABLES
  profiles, files,     \* profile.Store.profiles and the profile.json on disk
  groups, groupsFile,  \* the proxy mode of each group with a policy, and groups.json
  pc,                  \* which handler a caller is in
  id,                  \* the profile it is about
  draft,               \* the profile it is about to write
  fields,              \* those the request asks to change
  label,               \* the group it is deleting
  todo,                \* the listed profiles it has not looked at for that
  gone,                \* the listed profiles that are no longer in the store
  restored,            \* how many profiles of the backup it has not created yet
  last, stored,        \* how the last completed call about each profile ended, with what
  failed,              \* a save, an update or a removal has failed since the server started
  joined               \* a profile was given the group since its deletion began

storeVars  == <<profiles, files>>
groupVars  == <<groups, groupsFile>>
callVars   == <<pc, id, draft, fields, label, todo, gone, restored>>
vars       == <<storeVars, groupVars, callVars, last, stored, failed, joined>>

Idle == "idle"

TypeOK ==
  /\ profiles \in [Ids -> Profile \cup {Absent}]
  /\ files \in [Ids -> Profile \cup {Absent}]
  /\ groups \in [Groups -> Modes \cup {NoMode}]
  /\ groupsFile \in [Groups -> Modes \cup {NoMode}]
  /\ pc \in [Threads -> {Idle, "update", "duplicate", "restore", "ungroup"}]
  /\ id \in [Threads -> Ids \cup {NoId}]
  /\ draft \in [Threads -> Profile \cup {Absent}]
  /\ fields \in [Threads -> SUBSET {"group", "runtime"}]
  /\ label \in [Threads -> Groups \cup {NoGroup}]
  /\ todo \in [Threads -> SUBSET Ids]
  /\ gone \in [Threads -> SUBSET Ids]
  /\ restored \in [Threads -> 0..MaxRestore]
  /\ last \in [Ids -> {"none", "refused", "stored", "deleted", "leftover"}]
  /\ stored \in [Ids -> Profile \cup {Absent}]
  /\ failed \in BOOLEAN
  /\ joined \in [Threads -> BOOLEAN]
  /\ \A t \in Threads :
       /\ pc[t] = "update" => id[t] \in Ids
       /\ pc[t] \in {"update", "duplicate"} => draft[t] \in Profile
       /\ pc[t] = "ungroup" => label[t] \in Groups

Init ==
  /\ profiles = [i \in Ids |-> Absent]
  /\ files = [i \in Ids |-> Absent]
  /\ groups = [g \in Groups |-> NoMode]
  /\ groupsFile = [g \in Groups |-> NoMode]
  /\ pc = [t \in Threads |-> Idle]
  /\ id = [t \in Threads |-> NoId]
  /\ draft = [t \in Threads |-> Absent]
  /\ fields = [t \in Threads |-> {}]
  /\ label = [t \in Threads |-> NoGroup]
  /\ todo = [t \in Threads |-> {}]
  /\ gone = [t \in Threads |-> {}]
  /\ restored = [t \in Threads |-> 0]
  /\ last = [i \in Ids |-> "none"]
  /\ stored = [i \in Ids |-> Absent]
  /\ failed = FALSE
  /\ joined = [t \in Threads |-> FALSE]

-----------------------------------------------------------------------------
\* A profile comes into group g: the deletions of g under way may not see that.
Joins(g) ==
  joined' = [t \in Threads |-> joined[t] \/ (g # NoGroup /\ label[t] = g)]

\* Profile i leaves the store, or another takes its place: a deletion that has
\* listed it goes on looking at the old one.
Leaves(i) == gone' = [t \in Threads |-> gone[t] \cup (todo[t] \cap {i})]

Return(t) ==
  /\ pc' = [pc EXCEPT ![t] = Idle]
  /\ id' = [id EXCEPT ![t] = NoId]
  /\ draft' = [draft EXCEPT ![t] = Absent]
  /\ fields' = [fields EXCEPT ![t] = {}]
  /\ label' = [label EXCEPT ![t] = NoGroup]
  /\ todo' = [todo EXCEPT ![t] = {}]
  /\ restored' = [restored EXCEPT ![t] = 0]

\* Store.Create: the profile enters the map once it is saved, and replaces one
\* that has its ID.
Created(i, p) ==
  /\ profiles' = [profiles EXCEPT ![i] = p]
  /\ files' = [files EXCEPT ![i] = p]
  /\ last' = [last EXCEPT ![i] = "stored"]
  /\ stored' = [stored EXCEPT ![i] = p]
  /\ Joins(p.group)
  /\ Leaves(i)
  /\ UNCHANGED failed

CreateFailed(i) ==
  /\ last' = [last EXCEPT ![i] = IF @ = "none" THEN "refused" ELSE @]
  /\ UNCHANGED <<storeVars, stored, failed, joined, gone>>

\* Store.Update merges into the profile in the map and saves it ...
Updated(i, p) ==
  /\ profiles' = [profiles EXCEPT ![i] = p]
  /\ files' = [files EXCEPT ![i] = p]
  /\ last' = [last EXCEPT ![i] = "stored"]
  /\ stored' = [stored EXCEPT ![i] = p]
  /\ UNCHANGED failed

\* ... but leaves it merged when a field does not decode or the save fails.
UpdateFailed(i, p) ==
  /\ profiles' = [profiles EXCEPT ![i] = p]
  /\ failed' = TRUE
  /\ UNCHANGED <<files, last, stored>>

Moves(i, p) == IF p.group = profiles[i].group THEN UNCHANGED joined ELSE Joins(p.group)

-----------------------------------------------------------------------------
\* createProfile, importProfile and create_profile, after their validation.  The
\* body of a REST request may name the ID, also one that is in use.
CreateProfile(i, p) ==
  /\ Created(i, p) \/ CreateFailed(i)
  /\ UNCHANGED <<groupVars, pc, id, draft, fields, label, todo, restored>>

\* An update of neither runtime, proxy nor group: only its saving matters.
RenameProfile(i) ==
  /\ profiles[i] # Absent
  /\ Updated(i, profiles[i]) \/ UpdateFailed(i, profiles[i])
  /\ UNCHANGED <<groupVars, callVars, joined>>

\* updateProfile, update_profile: the profile is read to validate the change, and
\* with the change the runtime that was read is written back.
GetForUpdate(t, i, p, F) ==
  /\ pc[t] = Idle
  /\ profiles[i] # Absent
  /\ pc' = [pc EXCEPT ![t] = "update"]
  /\ id' = [id EXCEPT ![t] = i]
  /\ fields' = [fields EXCEPT ![t] = F]
  /\ draft' = [draft EXCEPT ![t] =
                 [group   |-> IF "group" \in F THEN p.group ELSE profiles[i].group,
                  runtime |-> IF "runtime" \in F THEN p.runtime ELSE profiles[i].runtime]]
  /\ UNCHANGED <<storeVars, groupVars, label, todo, gone, restored, last, stored, failed, joined>>

Merged(t) ==
  [group   |-> IF "group" \in fields[t] THEN draft[t].group ELSE profiles[id[t]].group,
   runtime |-> draft[t].runtime]

UpdateProfile(t) ==
  /\ pc[t] = "update"
  /\ profiles[id[t]] # Absent
  /\ Updated(id[t], Merged(t)) \/ UpdateFailed(id[t], Merged(t))
  /\ Moves(id[t], Merged(t))
  /\ Return(t)
  /\ UNCHANGED <<groupVars, gone>>

\* Mutant: the update goes on with the profile that was read before.
UpdateNotFound_Saves(t) ==
  /\ pc[t] = "update"
  /\ profiles[id[t]] = Absent
  /\ files' = [files EXCEPT ![id[t]] = draft[t]]
  /\ Return(t)
  /\ UNCHANGED <<profiles, groupVars, gone, last, stored, failed, joined>>

UpdateNotFound(t) ==
  /\ pc[t] = "update"
  /\ profiles[id[t]] = Absent
  /\ Return(t)
  /\ UNCHANGED <<storeVars, groupVars, gone, last, stored, failed, joined>>

\* The runtime or the proxy that the update asks for is not accepted.
UpdateRejected(t) ==
  /\ pc[t] = "update"
  /\ Return(t)
  /\ UNCHANGED <<storeVars, groupVars, gone, last, stored, failed, joined>>

\* Delete: an error of RemoveAll is not looked at.
DeleteProfile(i) ==
  /\ profiles[i] # Absent
  /\ profiles' = [profiles EXCEPT ![i] = Absent]
  /\ \/ /\ files' = [files EXCEPT ![i] = Absent]
        /\ last' = [last EXCEPT ![i] = "deleted"]
        /\ UNCHANGED failed
     \/ /\ failed' = TRUE
        /\ last' = [last EXCEPT ![i] = "leftover"]
        /\ UNCHANGED files
  /\ stored' = [stored EXCEPT ![i] = Absent]
  /\ Leaves(i)
  /\ UNCHANGED <<groupVars, pc, id, draft, fields, label, todo, restored, joined>>

\* Duplicate copies the profile and then creates the copy under a new ID.
CopyProfile(t, i) ==
  /\ pc[t] = Idle
  /\ profiles[i] # Absent
  /\ pc' = [pc EXCEPT ![t] = "duplicate"]
  /\ draft' = [draft EXCEPT ![t] = profiles[i]]
  /\ UNCHANGED <<storeVars, groupVars, id, fields, label, todo, gone, restored, last, stored, failed, joined>>

DuplicateProfile(t, i) ==
  /\ pc[t] = "duplicate"
  /\ last[i] = "none"
  /\ Created(i, draft[t]) \/ CreateFailed(i)
  /\ Return(t)
  /\ UNCHANGED groupVars

-----------------------------------------------------------------------------
\* saveLocked writes all groups; when it fails the map has changed all the same.
SaveGroups ==
  \/ groupsFile' = groups' /\ UNCHANGED failed
  \/ failed' = TRUE /\ UNCHANGED groupsFile

\* Mutant: the groups are saved before the new one is put into the map.
Upsert_SavesFirst(g, m) ==
  /\ groups' = [groups EXCEPT ![g] = m]
  /\ groupsFile' = groups
  /\ UNCHANGED <<storeVars, callVars, last, stored, joined, failed>>

Upsert(g, m) ==
  /\ groups' = [groups EXCEPT ![g] = m]
  /\ SaveGroups
  /\ UNCHANGED <<storeVars, callVars, last, stored, joined>>

\* A group that is not in the map is cleared without saving anything.
ClearProxy(g) ==
  \/ /\ groups[g] = NoMode
     /\ UNCHANGED <<groups, groupsFile, failed>>
  \/ /\ groups[g] # NoMode
     /\ groups' = [groups EXCEPT ![g] = NoMode]
     /\ SaveGroups

ClearGroupProxy(g) ==
  /\ ClearProxy(g)
  /\ UNCHANGED <<storeVars, callVars, last, stored, joined>>

\* restore: first the groups of the backup, if it has any, over those there are ...
Restore(t, n) ==
  /\ pc[t] = Idle
  /\ pc' = [pc EXCEPT ![t] = "restore"]
  /\ restored' = [restored EXCEPT ![t] = n]
  /\ UNCHANGED <<storeVars, groupVars, id, draft, fields, label, todo, gone, last, stored, failed, joined>>

RestoreWithGroups(t, n, f) ==
  /\ pc[t] = Idle
  /\ groups' = [g \in Groups |-> IF f[g] # NoMode THEN f[g] ELSE groups[g]]
  /\ \/ /\ groupsFile' = groups'
        /\ pc' = [pc EXCEPT ![t] = "restore"]
        /\ restored' = [restored EXCEPT ![t] = n]
        /\ UNCHANGED failed
     \/ failed' = TRUE /\ UNCHANGED <<groupsFile, pc, restored>>
  /\ UNCHANGED <<storeVars, id, draft, fields, label, todo, gone, last, stored, joined>>

\* ... then its profiles, one by one, each under a new ID.
RestoreProfile(t, i, p) ==
  /\ pc[t] = "restore" /\ restored[t] > 0
  /\ last[i] = "none"
  /\ \/ /\ Created(i, p)
        /\ restored' = [restored EXCEPT ![t] = @ - 1]
        /\ UNCHANGED <<pc, id, draft, fields, label, todo>>
     \/ CreateFailed(i) /\ Return(t)
  /\ UNCHANGED groupVars

Restored(t) ==
  /\ pc[t] = "restore" /\ restored[t] = 0
  /\ Return(t)
  /\ UNCHANGED <<storeVars, groupVars, gone, last, stored, failed, joined>>

-----------------------------------------------------------------------------
\* deleteGroup, delete_group, of a group without active sessions: list all
\* profiles, take those in the group out of it, and then clear its policy.
DeleteGroup(t, g) ==
  /\ pc[t] = Idle
  /\ pc' = [pc EXCEPT ![t] = "ungroup"]
  /\ label' = [label EXCEPT ![t] = g]
  /\ todo' = [todo EXCEPT ![t] = {i \in Ids : profiles[i] # Absent}]
  /\ UNCHANGED <<storeVars, groupVars, id, draft, fields, gone, restored, last, stored, failed, joined>>

InGroup(i, g) == profiles[i] # Absent /\ profiles[i].group = g

\* The group is read from the profile that was listed: one that has left the
\* store shows the group it had.
LooksAt(t, i) ==
  /\ pc[t] = "ungroup"
  /\ id[t] = NoId
  /\ i \in todo[t]

\* Mutant: a break instead of a continue.
OtherGroup_Breaks(t, i) ==
  /\ LooksAt(t, i)
  /\ i \in gone[t] \/ ~InGroup(i, label[t])
  /\ todo' = [todo EXCEPT ![t] = {}]
  /\ UNCHANGED <<storeVars, groupVars, pc, id, draft, fields, label, gone, restored, last, stored, failed, joined>>

OtherGroup(t, i) ==
  /\ LooksAt(t, i)
  /\ i \in gone[t] \/ ~InGroup(i, label[t])
  /\ todo' = [todo EXCEPT ![t] = @ \ {i}]
  /\ gone' = [gone EXCEPT ![t] = @ \ {i}]
  /\ UNCHANGED <<storeVars, groupVars, pc, id, draft, fields, label, restored, last, stored, failed, joined>>

SameGroup(t, i) ==
  /\ LooksAt(t, i)
  /\ i \in gone[t] \/ InGroup(i, label[t])
  /\ todo' = [todo EXCEPT ![t] = @ \ {i}]
  /\ gone' = [gone EXCEPT ![t] = @ \ {i}]
  /\ id' = [id EXCEPT ![t] = i]
  /\ UNCHANGED <<storeVars, groupVars, pc, draft, fields, label, restored, last, stored, failed, joined>>

EndDeletion(t) ==
  /\ Return(t)
  /\ gone' = [gone EXCEPT ![t] = {}]
  /\ joined' = [joined EXCEPT ![t] = FALSE]

\* Update by ID, whatever group the profile is in by now.
Ungroup(t) ==
  /\ pc[t] = "ungroup" /\ id[t] # NoId
  /\ profiles[id[t]] # Absent
  /\ LET p == [profiles[id[t]] EXCEPT !.group = NoGroup]
     IN \/ /\ Updated(id[t], p)
           /\ id' = [id EXCEPT ![t] = NoId]
           /\ UNCHANGED <<pc, draft, fields, label, todo, gone, restored, joined>>
        \/ UpdateFailed(id[t], p) /\ EndDeletion(t)
  /\ UNCHANGED groupVars

UngroupNotFound(t) ==
  /\ pc[t] = "ungroup" /\ id[t] # NoId
  /\ profiles[id[t]] = Absent
  /\ EndDeletion(t)
  /\ UNCHANGED <<storeVars, groupVars, last, stored, failed>>

ClearGroup(t) ==
  /\ pc[t] = "ungroup" /\ id[t] = NoId
  /\ todo[t] = {}
  /\ ClearProxy(label[t])
  /\ EndDeletion(t)
  /\ UNCHANGED <<storeVars, last, stored>>

-----------------------------------------------------------------------------
\* The server is killed, or shut down, and started again: NewStore of both stores.
Restart ==
  /\ profiles' = files
  /\ groups' = groupsFile
  /\ pc' = [t \in Threads |-> Idle]
  /\ id' = [t \in Threads |-> NoId]
  /\ draft' = [t \in Threads |-> Absent]
  /\ fields' = [t \in Threads |-> {}]
  /\ label' = [t \in Threads |-> NoGroup]
  /\ todo' = [t \in Threads |-> {}]
  /\ gone' = [t \in Threads |-> {}]
  /\ restored' = [t \in Threads |-> 0]
  /\ failed' = FALSE
  /\ joined' = [t \in Threads |-> FALSE]
  /\ UNCHANGED <<files, groupsFile, last, stored>>

ProfileCall(i) ==
  \/ \E p \in Profile : CreateProfile(i, p)
  \/ RenameProfile(i)
  \/ DeleteProfile(i)

GroupCall(g) ==
  \/ \E m \in Modes : Upsert(g, m)
  \/ ClearGroupProxy(g)

Call(t) ==
  \/ \E i \in Ids, p \in Profile, F \in SUBSET {"group", "runtime"} : GetForUpdate(t, i, p, F)
  \/ \E i \in Ids : CopyProfile(t, i)
  \/ \E n \in 0..MaxRestore : Restore(t, n)
  \/ \E n \in 0..MaxRestore, f \in [Groups -> Modes \cup {NoMode}] : RestoreWithGroups(t, n, f)
  \/ \E g \in Groups : DeleteGroup(t, g)

CallStep(t) ==
  \/ UpdateProfile(t) \/ UpdateNotFound(t) \/ UpdateRejected(t)
  \/ \E i \in Ids : DuplicateProfile(t, i)
  \/ \E i \in Ids, p \in Profile : RestoreProfile(t, i, p)
  \/ Restored(t)
  \/ \E i \in Ids : OtherGroup(t, i) \/ SameGroup(t, i)
  \/ Ungroup(t) \/ UngroupNotFound(t) \/ ClearGroup(t)

Next ==
  \/ \E i \in Ids : ProfileCall(i)
  \/ \E g \in Groups : GroupCall(g)
  \/ \E t \in Threads : Call(t) \/ CallStep(t)
  \/ Restart

Spec == Init /\ [][Next]_vars

-----------------------------------------------------------------------------
\* What a completed call about a profile said is true on disk, whatever failed,
\* crashed or ran since: a stored profile is loaded with what was stored, one that
\* was refused or deleted does not exist and does not come back.
CompletedIsKept ==
  \A i \in Ids :
    /\ last[i] = "stored" => profiles[i] # Absent /\ files[i] = stored[i]
    /\ last[i] \in {"none", "refused", "deleted"} => profiles[i] = Absent /\ files[i] = Absent

\* Until a save, an update or a removal fails, the server shows what it would
\* load if it were started again.
InSyncUntilFailure == ~failed => profiles = files /\ groups = groupsFile

\* When deleteGroup clears the policy of a group, nobody depends on it any more,
\* unless profiles were moved into the group during the deletion.
GroupEmptied ==
  \A t \in Threads : pc[t] = "ungroup" /\ todo[t] = {} /\ id[t] = NoId /\ ~joined[t] =>
    \A i \in Ids : ~InGroup(i, label[t])

\* Each store is a map with its files: no handler, failure or restart makes one of
\* them show or save anything that a call about it did not ask for.
Profiles == INSTANCE StoredMap WITH
  Keys <- Ids, Values <- Profile \cup {Absent}, Nothing <- Absent, OneFile <- FALSE,
  shown <- profiles, saved <- files

Policies == INSTANCE StoredMap WITH
  Keys <- Groups, Values <- Modes \cup {NoMode}, Nothing <- NoMode, OneFile <- TRUE,
  shown <- groups, saved <- groupsFile

ImplementsStores == Profiles!Spec /\ Policies!Spec
=============================================================================
