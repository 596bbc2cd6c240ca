-------------------------- MODULE MaintenanceProofs --------------------------
(***************************************************************************)
(* What migrations, full backups and restores guarantee, for any number of *)
(* profiles, revisions and commands.                                       *)
(***************************************************************************)
EXTENDS Maintenance, TLAPS

Latest   == {"v2"} \X Revs
Contents == [Profiles -> [Kinds -> File]]

\* json holds nothing that a migration has to deal with.
Current(p) == files[p]["json"] \in Latest \cup {NoFile}

\* Where a migration is on its list.
PlanAt ==
  /\ pc \in {"idle", "archive", "extract", "unpack", "restored"} => \A p \in Profiles : plan[p] = NoFile
  /\ pc \in {"plan", "migrate", "back up", "rewrite", "write"} => todo \subseteq Profiles \X {"json"}
  /\ pc \in {"back up", "rewrite", "write"} => at \in todo
  /\ pc = "write" => Current(at[1]) \/ files[at[1]]["json"] = Torn

\* What it has read of a profile is there until it is rewritten, unless the server
\* replaced or removed it.
IsAsRead(p) ==
  plan[p] # NoFile =>
    /\ Migrates(plan[p])
    /\ files[p]["json"] \in Whole /\ Migrates(files[p]["json"]) => files[p]["json"] = plan[p]
    /\ /\ p \notin touched
       /\ \/ pc = "plan"
          \/ /\ pc \in {"migrate", "back up", "rewrite", "write"} /\ <<p, "json">> \in todo
             /\ pc = "write" => at[1] # p
       => files[p]["json"] = plan[p]

PlanInv == PlanAt /\ \A p \in Profiles : IsAsRead(p)

\* Its backup holds what a migration has yet to rewrite of a profile, or has torn.
HasOriginal(p) ==
  /\ files[p]["json"] = Torn => files[p]["bak"] \in Whole
  /\ \/ files[p]["bak"] = NoFile
     \/ pc = "back up" /\ at[1] = p
     \/ /\ files[p]["bak"] \in Whole
        /\ files[p]["json"] \in Whole /\ Migrates(files[p]["json"]) => files[p]["json"] = files[p]["bak"]

\* The backup of the profile at which migrate is.
BackupAt ==
  /\ pc = "back up" => files[at[1]]["bak"] \in {Torn, NoFile}
  /\ pc = "back up" /\ at[1] \notin touched => files[at[1]]["bak"] = Torn
  /\ pc = "rewrite" /\ at[1] \notin touched => files[at[1]]["bak"] # NoFile

BackupInv == BackupAt /\ \A p \in Profiles \ risked : HasOriginal(p)

\* What the server stores is of schema v2.
SavedInv == SavedIsKept /\ \A p \in Profiles : saved[p] # NoFile => saved[p][1] = "v2"

\* A profile is current, or still on the list of the migration.
MigrateInv ==
  /\ pc = "plan" => \A p \in Profiles : Current(p) \/ <<p, "json">> \in todo \/ plan[p] # NoFile
  /\ pc \in {"migrate", "back up", "rewrite", "write", "migrated"} =>
       \A p \in Profiles : Current(p) \/ <<p, "json">> \in todo
  /\ pc = "migrated" => todo = {}

\* The file that a restore is writing.
RestoreAt ==
  /\ pc = "unpack" => at \in todo /\ at[1] \in risked
  /\ pc = "unpack" /\ at[1] \notin touched => files[at[1]][at[2]] = Torn
  /\ pc = "restored" => todo = {}

\* An archived file is on disk, or still on the list of the restore.
IsBack(p, k) ==
  /\ pc \in {"extract", "unpack", "restored"}
  /\ archive[p][k] # NoFile /\ <<p, k>> \notin todo
  => files[p][k] = archive[p][k]

RestoreInv == RestoreAt /\ \A p \in Profiles \ touched, k \in Kinds : IsBack(p, k)

-----------------------------------------------------------------------------
LEMMA JsonBak == "json" \in Kinds /\ "bak" \in Kinds /\ "json" # "bak" /\ \A k \in Kinds : k \in {"json", "bak"}
  BY DEF Kinds

\* What the schemas and the missing and torn files have to do with each other.
LEMMA FileKinds ==
  /\ File = Whole \cup {NoFile, Torn}
  /\ NoFile # Torn /\ NoFile \notin Whole /\ Torn \notin Whole
  /\ Latest \subseteq Whole
  /\ \A c \in Latest : c[1] = "v2" /\ ~Migrates(c)
  /\ \A c \in Whole : ~Migrates(c) /\ c[1] # "odd" => c \in Latest
  BY MaintenanceAssumption DEF MaintenanceAssumption, File, Whole, Latest, Migrates

LEMMA IsLatest == \A c \in Whole, r \in New : <<"v2", c[2]>> \in Latest /\ <<"v2", r>> \in Latest
  BY MaintenanceAssumption DEF MaintenanceAssumption, Whole, Latest

LEMMA PairOf ==
  ASSUME NEW x \in Profiles \X Kinds
  PROVE  x[1] \in Profiles /\ x[2] \in Kinds /\ x = <<x[1], x[2]>>
  <1>1. PICK q \in Profiles, l \in Kinds : x = <<q, l>>
    OBVIOUS
  <1>2. QED
    BY <1>1

\* What the other steps need of the types.
LEMMA Types ==
  ASSUME TypeOK
  PROVE  /\ \A q \in Profiles : /\ files[q]["json"] \in Whole \cup {NoFile, Torn}
                                /\ files[q]["bak"] \in Whole \cup {NoFile, Torn}
                                /\ plan[q] \in Whole \cup {NoFile}
                                /\ saved[q] \in Whole \cup {NoFile}
         /\ pc \in {"back up", "rewrite", "write", "unpack"} =>
              at[1] \in Profiles /\ at[2] \in Kinds /\ at = <<at[1], at[2]>>
         /\ pc \in {"back up", "rewrite", "write"} => plan[at[1]] \in Whole
  <1> DEFINE Plans == [Profiles -> Whole \cup {NoFile}]
  <1>0. files \in Contents /\ plan \in Plans /\ saved \in Plans
    BY DEF TypeOK, Contents
  <1>1. \A q \in Profiles : /\ files[q]["json"] \in Whole \cup {NoFile, Torn}
                            /\ files[q]["bak"] \in Whole \cup {NoFile, Torn}
                            /\ plan[q] \in Whole \cup {NoFile}
                            /\ saved[q] \in Whole \cup {NoFile}
    BY <1>0, FileKinds, JsonBak DEF Contents
  <1>2. pc \in {"back up", "rewrite", "write", "unpack"} => at \in Profiles \X Kinds
    BY DEF TypeOK
  <1>3. pc \in {"back up", "rewrite", "write"} => plan[at[1]] # NoFile
    BY DEF TypeOK
  <1>4. QED
    BY <1>1, <1>2, <1>3, PairOf

-----------------------------------------------------------------------------
\* How a step changes the files: one of them holds c afterwards, ...
Writes(p, k, c) ==
  \A q \in Profiles :
    /\ files'[q]["json"] = IF q = p /\ k = "json" THEN c ELSE files[q]["json"]
    /\ files'[q]["bak"] = IF q = p /\ k = "bak" THEN c ELSE files[q]["bak"]

\* ... if it was the one that the command has opened.
Fills(p, k, c) == Writes(p, k, IF files[p][k] = Torn THEN c ELSE files[p][k])

LEMMA FilesChange ==
  ASSUME files \in Contents, NEW p \in Profiles, NEW k \in Kinds, NEW c \in File,
         files' = [files EXCEPT ![p][k] = c]
  PROVE  files' \in Contents /\ Writes(p, k, c)
  BY JsonBak DEF Contents, Writes

LEMMA FilesFill ==
  ASSUME files \in Contents, NEW p \in Profiles, NEW k \in Kinds, NEW c \in File, Fill(p, k, c)
  PROVE  files' \in Contents /\ Fills(p, k, c)
  <1>1. CASE files[p][k] = Torn
    BY <1>1, FilesChange DEF Fill, Fills
  <1>2. CASE files[p][k] # Torn
    BY <1>2, JsonBak DEF Fill, Fills, Writes, Contents
  <1>3. QED
    BY <1>1, <1>2

\* What an action that changes the files, or makes the list of them, does to each profile.
SavesDoes(p, c) ==
  /\ files' \in Contents
  /\ \A q \in Profiles : /\ files'[q]["json"] = IF q = p THEN c ELSE files[q]["json"]
                         /\ files'[q]["bak"] = files[q]["bak"]
  /\ mem' \in [Profiles -> Whole \cup {NoFile}] /\ saved' \in [Profiles -> Whole \cup {NoFile}]
  /\ \A q \in Profiles : saved'[q] = IF q = p THEN c ELSE saved[q]
  /\ touched' = touched \cup {p}
  /\ UNCHANGED <<archive, closed, up, pc, plan, todo, at, commands, risked>>

DeleteDoes(p) ==
  /\ files' \in Contents
  /\ \A q \in Profiles : /\ files'[q]["json"] = IF q = p THEN NoFile ELSE files[q]["json"]
                         /\ files'[q]["bak"] = IF q = p THEN NoFile ELSE files[q]["bak"]
                         /\ saved'[q] = IF q = p THEN NoFile ELSE saved[q]
  /\ touched' = touched \cup {p}
  /\ UNCHANGED <<archive, closed, up, pc, plan, todo, at, commands, risked>>

BeginMigrationDoes ==
  /\ pc = "idle" /\ pc' = "plan"
  /\ todo' \subseteq Profiles \X {"json"}
  /\ \A q \in Profiles : files[q]["json"] # NoFile => <<q, "json">> \in todo'
  /\ touched' = {}
  /\ UNCHANGED <<files, archive, closed, plan, at, saved, risked>>

PlanProfileDoes(p) ==
  /\ pc = "plan" /\ pc' = "plan"
  /\ files[p]["json"] # Torn
  /\ files[p]["json"] \in Whole => files[p]["json"][1] # "odd"
  /\ todo' \subseteq todo
  /\ \A q \in Profiles : q # p /\ <<q, "json">> \in todo => <<q, "json">> \in todo'
  /\ <<p, "json">> \in todo
  /\ \A q \in Profiles :
       plan'[q] = IF q = p /\ files[p]["json"] \in Whole /\ Migrates(files[p]["json"])
                    THEN files[p]["json"] ELSE plan[q]
  /\ UNCHANGED <<files, archive, closed, at, saved, touched, risked>>

BackUpDoes(p) ==
  /\ files' \in Contents
  /\ \A q \in Profiles : /\ files'[q]["json"] = files[q]["json"]
                         /\ files'[q]["bak"] = IF q = p THEN Torn ELSE files[q]["bak"]
  /\ pc = "migrate" /\ <<p, "json">> \in todo /\ files[p]["bak"] = NoFile
  /\ pc' = "back up" /\ at' = <<p, "json">> /\ at'[1] = p
  /\ UNCHANGED <<archive, closed, plan, todo, saved, touched, risked>>

BackedUpDoes ==
  /\ at[1] \in Profiles /\ plan[at[1]] \in Whole
  /\ files' \in Contents
  /\ \A q \in Profiles : /\ files'[q]["json"] = files[q]["json"]
                         /\ files'[q]["bak"] = IF q = at[1] /\ files[q]["bak"] = Torn THEN plan[q] ELSE files[q]["bak"]
  /\ pc = "back up" /\ pc' = "rewrite"
  /\ UNCHANGED <<archive, closed, plan, todo, at, saved, touched, risked>>

RewriteDoes ==
  /\ at[1] \in Profiles
  /\ files' \in Contents
  /\ \A q \in Profiles : /\ files'[q]["json"] = IF q = at[1] THEN Torn ELSE files[q]["json"]
                         /\ files'[q]["bak"] = files[q]["bak"]
  /\ risked' = IF at[1] \in touched THEN risked \cup {at[1]} ELSE risked
  /\ pc = "rewrite" /\ pc' = "write"
  /\ UNCHANGED <<archive, closed, plan, todo, at, saved, touched>>

RewrittenDoes(c) ==
  /\ at[1] \in Profiles
  /\ files' \in Contents
  /\ \A q \in Profiles : /\ files'[q]["json"] = IF q = at[1] /\ files[q]["json"] = Torn THEN c ELSE files[q]["json"]
                         /\ files'[q]["bak"] = files[q]["bak"]
  /\ pc = "write" /\ pc' = "migrate"
  /\ todo' = todo \ {at} /\ at' = Nothing
  /\ UNCHANGED <<archive, closed, plan, saved, touched, risked>>

BeginRestoreDoes ==
  /\ pc = "idle" /\ pc' = "extract"
  /\ todo' \subseteq Profiles \X Kinds
  /\ \A q \in Profiles, k \in Kinds : archive[q][k] # NoFile => <<q, k>> \in todo'
  /\ touched' = {}
  /\ UNCHANGED <<files, archive, closed, plan, at, saved, risked>>

ExtractDoes(p, k) ==
  /\ files' \in Contents /\ Writes(p, k, Torn)
  /\ \A q \in Profiles, l \in Kinds : files'[q][l] = IF q = p /\ l = k THEN Torn ELSE files[q][l]
  /\ <<p, k>> \in todo /\ at' = <<p, k>> /\ at'[1] = p /\ at'[2] = k
  /\ pc = "extract" /\ pc' = "unpack"
  /\ risked' = risked \cup {p}
  /\ UNCHANGED <<archive, closed, plan, todo, saved, touched>>

ExtractedDoes ==
  /\ at[1] \in Profiles /\ at[2] \in Kinds /\ at = <<at[1], at[2]>>
  /\ files' \in Contents /\ Fills(at[1], at[2], archive[at[1]][at[2]])
  /\ pc = "unpack" /\ pc' = "extract"
  /\ todo' = todo \ {at} /\ at' = Nothing
  /\ UNCHANGED <<archive, closed, plan, saved, touched, risked>>

LEMMA SavesEffect ==
  ASSUME TypeOK, NEW p \in Profiles, NEW r \in New, Saves(p, r)
  PROVE  \E c \in Latest : SavesDoes(p, c)
  <1>1. <<"v2", r>> \in Latest /\ <<"v2", r>> \in File
    BY IsLatest, FileKinds, MaintenanceAssumption DEF MaintenanceAssumption, Latest
  <1>2. files' \in Contents /\ Writes(p, "json", <<"v2", r>>)
    BY <1>1, FilesChange, JsonBak DEF TypeOK, Contents, Saves
  <1>3. QED
    BY JsonBak, FileKinds, <1>1, <1>2 DEF TypeOK, Saves, cmdVars, Writes, SavesDoes

LEMMA DeleteEffect ==
  ASSUME TypeOK, NEW p \in Profiles, Delete(p)
  PROVE  DeleteDoes(p)
  BY FileKinds, JsonBak DEF TypeOK, Contents, Delete, NoFiles, cmdVars, DeleteDoes

LEMMA BeginMigrationEffect ==
  ASSUME TypeOK, BeginMigration
  PROVE  BeginMigrationDoes
  <1>1. todo' = {x \in Profiles \X Kinds : files[x[1]][x[2]] # NoFile /\ x[2] = "json"}
    BY DEF BeginMigration, Begin, Existing
  <1>2. todo' \subseteq Profiles \X {"json"}
    BY <1>1, PairOf
  <1>3. \A q \in Profiles : files[q]["json"] # NoFile => <<q, "json">> \in todo'
    BY <1>1, JsonBak
  <1>4. QED
    BY <1>2, <1>3 DEF BeginMigration, Begin, BeginMigrationDoes

LEMMA PlanProfileEffect ==
  ASSUME TypeOK, NEW p \in Profiles, PlanProfile(p)
  PROVE  PlanProfileDoes(p)
  BY DEF TypeOK, PlanProfile, diskVars, memVars, histVars, PlanProfileDoes

LEMMA BackUpEffect ==
  ASSUME TypeOK, NEW p \in Profiles, BackUp(p)
  PROVE  BackUpDoes(p)
  <1>1. files' \in Contents /\ Writes(p, "bak", Torn)
    BY FilesChange, FileKinds, JsonBak DEF TypeOK, Contents, BackUp, Truncate
  <1>2. QED
    BY JsonBak, <1>1 DEF BackUp, Goto, histVars, Writes, BackUpDoes

LEMMA BackedUpEffect ==
  ASSUME TypeOK, BackedUp
  PROVE  BackedUpDoes
  <1>1. at[1] \in Profiles /\ plan[at[1]] \in Whole /\ plan[at[1]] \in File
    BY Types, FileKinds DEF BackedUp
  <1>2. files' \in Contents /\ Fills(at[1], "bak", plan[at[1]])
    BY <1>1, FilesFill, JsonBak DEF TypeOK, Contents, BackedUp
  <1>3. QED
    BY JsonBak, <1>1, <1>2 DEF BackedUp, Goto, histVars, Writes, Fills, BackedUpDoes

LEMMA RewriteEffect ==
  ASSUME TypeOK, Rewrite
  PROVE  RewriteDoes
  <1>1. at[1] \in Profiles
    BY Types DEF Rewrite
  <1>2. files' \in Contents /\ Writes(at[1], "json", Torn)
    BY <1>1, FilesChange, FileKinds, JsonBak DEF TypeOK, Contents, Rewrite, Truncate
  <1>3. QED
    BY JsonBak, <1>1, <1>2 DEF Rewrite, Goto, Writes, RewriteDoes

LEMMA RewrittenEffect ==
  ASSUME TypeOK, Rewritten
  PROVE  \E c \in Latest : RewrittenDoes(c)
  <1>1. at[1] \in Profiles /\ plan[at[1]] \in Whole
    BY Types DEF Rewritten
  <1>2. <<"v2", plan[at[1]][2]>> \in Latest /\ <<"v2", plan[at[1]][2]>> \in File
    BY <1>1, MaintenanceAssumption, FileKinds DEF Whole, Latest
  <1>3. files' \in Contents /\ Fills(at[1], "json", <<"v2", plan[at[1]][2]>>)
    BY <1>1, <1>2, FilesFill, JsonBak DEF TypeOK, Contents, Rewritten
  <1>4. QED
    BY JsonBak, <1>1, <1>2, <1>3 DEF Rewritten, Goto, histVars, Writes, Fills, RewrittenDoes

LEMMA BeginRestoreEffect ==
  ASSUME TypeOK, BeginRestore
  PROVE  BeginRestoreDoes
  BY DEF BeginRestore, Begin, BeginRestoreDoes

LEMMA ExtractEffect ==
  ASSUME TypeOK, NEW p \in Profiles, NEW k \in Kinds, Extract(p, k)
  PROVE  ExtractDoes(p, k)
  <1>1. files' \in Contents /\ Writes(p, k, Torn)
    BY FilesChange, FileKinds DEF TypeOK, Contents, Extract, Truncate
  <1>2. QED
    BY <1>1 DEF Extract, Goto, TypeOK, Truncate, ExtractDoes

LEMMA ExtractedEffect ==
  ASSUME TypeOK, Extracted
  PROVE  ExtractedDoes
  <1>1. at[1] \in Profiles /\ at[2] \in Kinds /\ at = <<at[1], at[2]>> /\ archive[at[1]][at[2]] \in File
    BY Types DEF Extracted, TypeOK
  <1>2. files' \in Contents /\ Fills(at[1], at[2], archive[at[1]][at[2]])
    BY <1>1, FilesFill DEF TypeOK, Contents, Extracted
  <1>3. QED
    BY <1>1, <1>2 DEF Extracted, Goto, histVars, ExtractedDoes

-----------------------------------------------------------------------------
\* The variables keep their types.
LEMMA TypeStep == TypeOK /\ [Next]_vars => TypeOK'
  <1> SUFFICES ASSUME TypeOK, [Next]_vars PROVE TypeOK'
    OBVIOUS
  <1> USE MaintenanceAssumption DEF MaintenanceAssumption
  <1>1. ASSUME StartServer PROVE TypeOK'
    <2>1. mem' \in [Profiles -> Whole \cup {NoFile}]
      BY <1>1, Types, FileKinds DEF StartServer
    <2>2. QED
      BY <1>1, <2>1 DEF StartServer, diskVars, memVars, cmdVars, histVars, TypeOK
  <1>2. ASSUME StopServer PROVE TypeOK'
    BY <1>2 DEF StopServer, diskVars, memVars, cmdVars, histVars, TypeOK, Contents
  <1>3. ASSUME NEW p \in Profiles, NEW r \in New, Update(p, r) PROVE TypeOK'
    <2>1. PICK c \in Latest : SavesDoes(p, c)
      BY <1>3, SavesEffect DEF Update
    <2>2. QED
      BY <2>1, FileKinds DEF SavesDoes, TypeOK, Contents
  <1>4. ASSUME NEW p \in Profiles, NEW r \in New, Create(p, r) PROVE TypeOK'
    <2>1. PICK c \in Latest : SavesDoes(p, c)
      BY <1>4, SavesEffect DEF Create
    <2>2. QED
      BY <2>1, FileKinds DEF SavesDoes, TypeOK, Contents
  <1>5. ASSUME NEW p \in Profiles, Delete(p) PROVE TypeOK'
    <2>1. DeleteDoes(p)
      BY <1>5, DeleteEffect
    <2>2. files' \in Contents
      BY <2>1 DEF DeleteDoes
    <2>3. QED
      BY <1>5, <2>1, <2>2, FileKinds DEF Delete, diskVars, memVars, cmdVars, histVars, TypeOK,
         Contents
  <1>6. ASSUME BeginMigration PROVE TypeOK'
    <2>1. BeginMigrationDoes
      BY <1>6, BeginMigrationEffect
    <2>2. todo' \in SUBSET (Profiles \X Kinds)
      BY <2>1, JsonBak DEF BeginMigrationDoes
    <2>3. QED
      BY <1>6, <2>2 DEF BeginMigration, Begin, diskVars, memVars, cmdVars, histVars, TypeOK
  <1>7. ASSUME NEW p \in Profiles, PlanProfile(p) PROVE TypeOK'
    BY <1>7 DEF PlanProfile, diskVars, memVars, cmdVars, histVars, TypeOK
  <1>8. ASSUME Planned PROVE TypeOK'
    BY <1>8, Types, FileKinds, JsonBak DEF Planned, Goto, diskVars, memVars, cmdVars, histVars,
       TypeOK, Contents
  <1>9. ASSUME NEW p \in Profiles, BackUp(p) PROVE TypeOK'
    <2>1. BackUpDoes(p)
      BY <1>9, BackUpEffect
    <2>2. files' \in Contents
      BY <2>1 DEF BackUpDoes
    <2>3. QED
      BY <1>9, <2>1, <2>2, FileKinds DEF BackUp, Goto, diskVars, memVars, cmdVars, histVars,
         TypeOK, Contents
  <1>10. ASSUME BackedUp PROVE TypeOK'
    <2>1. BackedUpDoes
      BY <1>10, BackedUpEffect
    <2>2. files' \in Contents
      BY <2>1 DEF BackedUpDoes
    <2>3. QED
      BY <1>10, <2>1, <2>2, FileKinds DEF BackedUp, Goto, diskVars, memVars, cmdVars, histVars,
         TypeOK, Contents
  <1>11. ASSUME NEW p \in Profiles, HasBackup(p) PROVE TypeOK'
    BY <1>11, Types, FileKinds, JsonBak DEF HasBackup, Goto, diskVars, memVars, cmdVars, histVars,
       TypeOK, Contents
  <1>12. ASSUME Rewrite PROVE TypeOK'
    <2>1. RewriteDoes
      BY <1>12, RewriteEffect
    <2>2. files' \in Contents
      BY <2>1 DEF RewriteDoes
    <2>3. QED
      BY <1>12, <2>1, <2>2, FileKinds DEF Rewrite, Goto, diskVars, memVars, cmdVars, histVars,
         TypeOK, Contents
  <1>13. ASSUME Rewritten PROVE TypeOK'
    <2>1. PICK c \in Latest : RewrittenDoes(c)
      BY <1>13, RewrittenEffect
    <2>2. files' \in Contents /\ todo' \subseteq todo /\ at' = Nothing /\ pc' = "migrate"
      BY <2>1 DEF RewrittenDoes
    <2>3. \A q \in Profiles : plan[q] = NoFile => <<q, "json">> \notin todo'
      BY <1>13, <2>2 DEF Rewritten, TypeOK
    <2>4. QED
      BY <1>13, <2>2, <2>3 DEF Rewritten, Goto, diskVars, memVars, cmdVars, histVars, TypeOK,
         Contents
  <1>14. ASSUME Migrated PROVE TypeOK'
    BY <1>14, Types, FileKinds, JsonBak DEF Migrated, Goto, diskVars, memVars, cmdVars, histVars,
       TypeOK, Contents
  <1>15. ASSUME BeginBackup PROVE TypeOK'
    <2>1. todo' \in SUBSET (Profiles \X Kinds) /\ archive' \in [Profiles -> [Kinds -> File]]
      BY <1>15, FileKinds DEF BeginBackup, Begin, Existing, NoFiles
    <2>2. /\ pc' = "archive" /\ commands' \in 0..MaxCommands /\ touched' = {} /\ closed' = FALSE
          /\ UNCHANGED <<files, memVars, plan, at, saved, risked>>
      BY <1>15 DEF BeginBackup, Begin, TypeOK
    <2>3. QED
      BY <2>1, <2>2 DEF memVars, TypeOK
  <1>16. ASSUME NEW p \in Profiles, NEW k \in Kinds, ArchiveFile(p, k) PROVE TypeOK'
    BY <1>16, Types, FileKinds, JsonBak DEF ArchiveFile, diskVars, memVars, cmdVars, histVars,
       TypeOK, Contents
  <1>17. ASSUME Archived PROVE TypeOK'
    BY <1>17, Types, FileKinds, JsonBak DEF Archived, Exit, Goto, diskVars, memVars, cmdVars,
       histVars, TypeOK, Contents
  <1>18. ASSUME BeginRestore PROVE TypeOK'
    <2>1. BeginRestoreDoes
      BY <1>18, BeginRestoreEffect
    <2>2. todo' \in SUBSET (Profiles \X Kinds)
      BY <2>1 DEF BeginRestoreDoes
    <2>3. QED
      BY <1>18, <2>2 DEF BeginRestore, Begin, diskVars, memVars, cmdVars, histVars, TypeOK
  <1>19. ASSUME NEW p \in Profiles, NEW k \in Kinds, Extract(p, k) PROVE TypeOK'
    <2>1. ExtractDoes(p, k)
      BY <1>19, ExtractEffect
    <2>2. files' \in Contents
      BY <2>1 DEF ExtractDoes
    <2>3. QED
      BY <1>19, <2>1, <2>2, FileKinds DEF Extract, Goto, diskVars, memVars, cmdVars, histVars,
         TypeOK, Contents
  <1>20. ASSUME Extracted PROVE TypeOK'
    <2>1. ExtractedDoes
      BY <1>20, ExtractedEffect
    <2>2. files' \in Contents
      BY <2>1 DEF ExtractedDoes
    <2>3. QED
      BY <1>20, <2>1, <2>2, FileKinds DEF Extracted, Goto, diskVars, memVars, cmdVars, histVars,
         TypeOK, Contents
  <1>21. ASSUME Restored PROVE TypeOK'
    BY <1>21, Types, FileKinds, JsonBak DEF Restored, Goto, diskVars, memVars, cmdVars, histVars,
       TypeOK, Contents
  <1>22. ASSUME Stop PROVE TypeOK'
    <2>1. pc = "back up" => at[1] \in Profiles
      BY Types
    <2>2. QED
      BY <1>22, <2>1 DEF Stop, Exit, Goto, Risk, Nothing, diskVars, memVars, cmdVars, histVars,
         TypeOK
  <1>23. CASE UNCHANGED vars
    BY <1>23 DEF vars, diskVars, memVars, cmdVars, histVars, TypeOK, Contents
  <1>24. QED
    BY <1>1, <1>2, <1>3, <1>4, <1>5, <1>6, <1>7, <1>8, <1>9, <1>10, <1>11, <1>12, <1>13, <1>14,
       <1>15, <1>16, <1>17, <1>18, <1>19, <1>20, <1>21, <1>22, <1>23 DEF Next

\* What migrate has read stays what it will rewrite.
LEMMA PlanStep == TypeOK /\ PlanInv /\ [Next]_vars => PlanInv'
  <1> SUFFICES ASSUME TypeOK /\ PlanInv, [Next]_vars PROVE PlanInv'
    OBVIOUS
  <1>1. ASSUME StartServer PROVE PlanInv'
    BY <1>1 DEF StartServer, diskVars, memVars, cmdVars, histVars, PlanInv, PlanAt, IsAsRead,
       Current
  <1>2. ASSUME StopServer PROVE PlanInv'
    BY <1>2 DEF StopServer, diskVars, memVars, cmdVars, histVars, PlanInv, PlanAt, IsAsRead, Current
  <1>3. ASSUME NEW p \in Profiles, NEW r \in New, Update(p, r) PROVE PlanInv'
    <2>1. PICK c \in Latest : SavesDoes(p, c)
      BY <1>3, SavesEffect DEF Update
    <2>2. PlanAt'
      BY <2>1, Types, FileKinds DEF SavesDoes, PlanInv, PlanAt, Current
    <2>3. ASSUME NEW q \in Profiles PROVE IsAsRead(q)'
      BY <2>1, Types, FileKinds DEF SavesDoes, PlanInv, PlanAt, IsAsRead, Current
    <2>4. QED
      BY <2>2, <2>3 DEF PlanInv
  <1>4. ASSUME NEW p \in Profiles, NEW r \in New, Create(p, r) PROVE PlanInv'
    <2>1. PICK c \in Latest : SavesDoes(p, c)
      BY <1>4, SavesEffect DEF Create
    <2>2. PlanAt'
      BY <2>1, Types, FileKinds DEF SavesDoes, PlanInv, PlanAt, Current
    <2>3. ASSUME NEW q \in Profiles PROVE IsAsRead(q)'
      BY <2>1, Types, FileKinds DEF SavesDoes, PlanInv, PlanAt, IsAsRead, Current
    <2>4. QED
      BY <2>2, <2>3 DEF PlanInv
  <1>5. ASSUME NEW p \in Profiles, Delete(p) PROVE PlanInv'
    <2>1. DeleteDoes(p)
      BY <1>5, DeleteEffect
    <2>2. PlanAt'
      BY <2>1, Types, FileKinds DEF DeleteDoes, PlanInv, PlanAt, Current
    <2>3. ASSUME NEW q \in Profiles PROVE IsAsRead(q)'
      BY <2>1, Types, FileKinds DEF DeleteDoes, PlanInv, PlanAt, IsAsRead, Current
    <2>4. QED
      BY <2>2, <2>3 DEF PlanInv
  <1>6. ASSUME BeginMigration PROVE PlanInv'
    <2>1. BeginMigrationDoes
      BY <1>6, BeginMigrationEffect
    <2>2. QED
      BY <2>1, Types, FileKinds DEF BeginMigrationDoes, PlanInv, PlanAt, IsAsRead, Current
  <1>7. ASSUME NEW p \in Profiles, PlanProfile(p) PROVE PlanInv'
    <2>1. PlanProfileDoes(p)
      BY <1>7, PlanProfileEffect
    <2>2. QED
      BY <2>1, Types, FileKinds DEF PlanProfileDoes, PlanInv, PlanAt, IsAsRead, Current
  <1>8. ASSUME Planned PROVE PlanInv'
    BY <1>8, Types, FileKinds DEF Planned, Goto, diskVars, memVars, cmdVars, histVars, PlanInv,
       PlanAt, IsAsRead, Current
  <1>9. ASSUME NEW p \in Profiles, BackUp(p) PROVE PlanInv'
    <2>1. BackUpDoes(p)
      BY <1>9, BackUpEffect
    <2>2. QED
      BY <2>1, Types, FileKinds DEF BackUpDoes, PlanInv, PlanAt, IsAsRead, Current
  <1>10. ASSUME BackedUp PROVE PlanInv'
    <2>1. BackedUpDoes
      BY <1>10, BackedUpEffect
    <2>2. QED
      BY <2>1, Types, FileKinds DEF BackedUpDoes, PlanInv, PlanAt, IsAsRead, Current
  <1>11. ASSUME NEW p \in Profiles, HasBackup(p) PROVE PlanInv'
    BY <1>11, Types, FileKinds DEF HasBackup, Goto, diskVars, memVars, cmdVars, histVars, PlanInv,
       PlanAt, IsAsRead, Current
  <1>12. ASSUME Rewrite PROVE PlanInv'
    <2>1. RewriteDoes
      BY <1>12, RewriteEffect
    <2>2. QED
      BY <2>1, Types, FileKinds DEF RewriteDoes, PlanInv, PlanAt, IsAsRead, Current
  <1>13. ASSUME Rewritten PROVE PlanInv'
    <2>1. PICK c \in Latest : RewrittenDoes(c)
      BY <1>13, RewrittenEffect
    <2>2. PlanAt'
      BY <2>1, Types, FileKinds DEF RewrittenDoes, PlanInv, PlanAt, Current
    <2>3. ASSUME NEW q \in Profiles PROVE IsAsRead(q)'
      BY <2>1, Types, FileKinds DEF RewrittenDoes, PlanInv, PlanAt, IsAsRead, Current
    <2>4. QED
      BY <2>2, <2>3 DEF PlanInv
  <1>14. ASSUME Migrated PROVE PlanInv'
    BY <1>14, Types, FileKinds DEF Migrated, Goto, diskVars, memVars, cmdVars, histVars, PlanInv,
       PlanAt, IsAsRead, Current
  <1>15. ASSUME BeginBackup PROVE PlanInv'
    BY <1>15, Types, FileKinds DEF BeginBackup, Begin, diskVars, memVars, cmdVars, histVars,
       PlanInv, PlanAt, IsAsRead, Current
  <1>16. ASSUME NEW p \in Profiles, NEW k \in Kinds, ArchiveFile(p, k) PROVE PlanInv'
    BY <1>16, Types, FileKinds DEF ArchiveFile, diskVars, memVars, cmdVars, histVars, PlanInv,
       PlanAt, IsAsRead, Current
  <1>17. ASSUME Archived PROVE PlanInv'
    BY <1>17, Types, FileKinds DEF Archived, Exit, Goto, diskVars, memVars, cmdVars, histVars,
       PlanInv, PlanAt, IsAsRead, Current
  <1>18. ASSUME BeginRestore PROVE PlanInv'
    <2>1. BeginRestoreDoes
      BY <1>18, BeginRestoreEffect
    <2>2. QED
      BY <2>1, Types, FileKinds DEF BeginRestoreDoes, PlanInv, PlanAt, IsAsRead, Current
  <1>19. ASSUME NEW p \in Profiles, NEW k \in Kinds, Extract(p, k) PROVE PlanInv'
    <2>1. ExtractDoes(p, k)
      BY <1>19, ExtractEffect
    <2>2. QED
      BY <2>1, Types, FileKinds DEF ExtractDoes, Writes, Fills, PlanInv, PlanAt, IsAsRead, Current
  <1>20. ASSUME Extracted PROVE PlanInv'
    <2>1. ExtractedDoes
      BY <1>20, ExtractedEffect
    <2>2. QED
      BY <2>1, Types, FileKinds DEF ExtractedDoes, Writes, Fills, PlanInv, PlanAt, IsAsRead, Current
  <1>21. ASSUME Restored PROVE PlanInv'
    BY <1>21, Types, FileKinds DEF Restored, Goto, diskVars, memVars, cmdVars, histVars, PlanInv,
       PlanAt, IsAsRead, Current
  <1>22. ASSUME Stop PROVE PlanInv'
    BY <1>22, Types, FileKinds DEF Stop, Exit, Goto, Risk, diskVars, memVars, cmdVars, histVars,
       PlanInv, PlanAt, IsAsRead, Current
  <1>23. CASE UNCHANGED vars
    BY <1>23 DEF vars, diskVars, memVars, cmdVars, histVars, PlanInv, PlanAt, IsAsRead, Current
  <1>24. QED
    BY <1>1, <1>2, <1>3, <1>4, <1>5, <1>6, <1>7, <1>8, <1>9, <1>10, <1>11, <1>12, <1>13, <1>14,
       <1>15, <1>16, <1>17, <1>18, <1>19, <1>20, <1>21, <1>22, <1>23 DEF Next

\* No step tears a profile whose contents no backup holds.
LEMMA BackupStep == TypeOK /\ PlanInv /\ RestoreInv /\ BackupInv /\ [Next]_vars => BackupInv'
  <1> SUFFICES ASSUME TypeOK /\ PlanInv /\ RestoreInv /\ BackupInv, [Next]_vars PROVE BackupInv'
    OBVIOUS
  <1>1. ASSUME StartServer PROVE BackupInv'
    BY <1>1 DEF StartServer, diskVars, memVars, cmdVars, histVars, BackupInv, BackupAt, HasOriginal
  <1>2. ASSUME StopServer PROVE BackupInv'
    BY <1>2 DEF StopServer, diskVars, memVars, cmdVars, histVars, BackupInv, BackupAt, HasOriginal
  <1>3. ASSUME NEW p \in Profiles, NEW r \in New, Update(p, r) PROVE BackupInv'
    <2>1. PICK c \in Latest : SavesDoes(p, c)
      BY <1>3, SavesEffect DEF Update
    <2>2. BackupAt'
      BY <2>1, Types, FileKinds DEF SavesDoes, BackupInv, BackupAt, PlanInv, PlanAt
    <2>3. ASSUME NEW q \in Profiles \ risked' PROVE HasOriginal(q)'
      BY <2>1, Types, FileKinds, ZenonT(60) DEF SavesDoes, BackupInv, BackupAt, HasOriginal
    <2>4. QED
      BY <2>2, <2>3 DEF BackupInv
  <1>4. ASSUME NEW p \in Profiles, NEW r \in New, Create(p, r) PROVE BackupInv'
    <2>1. PICK c \in Latest : SavesDoes(p, c)
      BY <1>4, SavesEffect DEF Create
    <2>2. BackupAt'
      BY <2>1, Types, FileKinds DEF SavesDoes, BackupInv, BackupAt, PlanInv, PlanAt
    <2>3. ASSUME NEW q \in Profiles \ risked' PROVE HasOriginal(q)'
      BY <2>1, Types, FileKinds, ZenonT(60) DEF SavesDoes, BackupInv, BackupAt, HasOriginal
    <2>4. QED
      BY <2>2, <2>3 DEF BackupInv
  <1>5. ASSUME NEW p \in Profiles, Delete(p) PROVE BackupInv'
    <2>1. DeleteDoes(p)
      BY <1>5, DeleteEffect
    <2>2. BackupAt'
      BY <2>1, Types, FileKinds DEF DeleteDoes, BackupInv, BackupAt, PlanInv, PlanAt
    <2>3. ASSUME NEW q \in Profiles \ risked' PROVE HasOriginal(q)'
      BY <2>1, Types, FileKinds DEF DeleteDoes, BackupInv, BackupAt, HasOriginal
    <2>4. QED
      BY <2>2, <2>3 DEF BackupInv
  <1>6. ASSUME BeginMigration PROVE BackupInv'
    <2>1. BeginMigrationDoes
      BY <1>6, BeginMigrationEffect
    <2>2. QED
      BY <2>1, Types, FileKinds DEF BeginMigrationDoes, BackupInv, BackupAt, HasOriginal
  <1>7. ASSUME NEW p \in Profiles, PlanProfile(p) PROVE BackupInv'
    <2>1. PlanProfileDoes(p)
      BY <1>7, PlanProfileEffect
    <2>2. QED
      BY <2>1, Types, FileKinds DEF PlanProfileDoes, BackupInv, BackupAt, HasOriginal
  <1>8. ASSUME Planned PROVE BackupInv'
    BY <1>8, Types, FileKinds DEF Planned, Goto, diskVars, memVars, cmdVars, histVars, BackupInv,
       BackupAt, HasOriginal
  <1>9. ASSUME NEW p \in Profiles, BackUp(p) PROVE BackupInv'
    <2>1. BackUpDoes(p)
      BY <1>9, BackUpEffect
    <2>2. BackupAt'
      BY <2>1, Types, FileKinds DEF BackUpDoes, BackupInv, BackupAt, PlanInv, PlanAt
    <2>3. ASSUME NEW q \in Profiles \ risked' PROVE HasOriginal(q)'
      BY <2>1, Types, FileKinds, ZenonT(60) DEF BackUpDoes, BackupInv, BackupAt, HasOriginal
    <2>4. QED
      BY <2>2, <2>3 DEF BackupInv
  <1>10. ASSUME BackedUp PROVE BackupInv'
    <2>1. BackedUpDoes
      BY <1>10, BackedUpEffect
    <2>2. BackupAt'
      BY <2>1, Types, FileKinds DEF BackedUpDoes, BackupInv, BackupAt, PlanInv, PlanAt
    <2>3. ASSUME NEW q \in Profiles \ risked' PROVE HasOriginal(q)'
      <3>1. CASE q = at[1]
        <4>1. files[q]["bak"] \in {Torn, NoFile} /\ files[q]["json"] # Torn /\ IsAsRead(q)
          BY <2>1, <2>3, <3>1, FileKinds DEF BackedUpDoes, BackupInv, BackupAt, HasOriginal, PlanInv
        <4>2. QED
          BY <2>1, <3>1, <4>1, FileKinds DEF BackedUpDoes, HasOriginal, IsAsRead
      <3>2. CASE q # at[1]
        BY <2>1, <3>2 DEF BackedUpDoes, BackupInv, HasOriginal
      <3>3. QED
        BY <3>1, <3>2
    <2>4. QED
      BY <2>2, <2>3 DEF BackupInv
  <1>11. ASSUME NEW p \in Profiles, HasBackup(p) PROVE BackupInv'
    BY <1>11, Types, FileKinds DEF HasBackup, Goto, diskVars, memVars, cmdVars, histVars,
       BackupInv, BackupAt, HasOriginal
  <1>12. ASSUME Rewrite PROVE BackupInv'
    <2>1. RewriteDoes
      BY <1>12, RewriteEffect
    <2>2. BackupAt'
      BY <2>1, Types, FileKinds DEF RewriteDoes, BackupInv, BackupAt, PlanInv, PlanAt
    <2>3. ASSUME NEW q \in Profiles \ risked' PROVE HasOriginal(q)'
      BY <2>1, Types, FileKinds DEF RewriteDoes, BackupInv, BackupAt, HasOriginal, PlanInv, PlanAt,
         IsAsRead
    <2>4. QED
      BY <2>2, <2>3 DEF BackupInv
  <1>13. ASSUME Rewritten PROVE BackupInv'
    <2>1. PICK c \in Latest : RewrittenDoes(c)
      BY <1>13, RewrittenEffect
    <2>2. BackupAt'
      BY <2>1, Types, FileKinds DEF RewrittenDoes, BackupInv, BackupAt, PlanInv, PlanAt
    <2>3. ASSUME NEW q \in Profiles \ risked' PROVE HasOriginal(q)'
      BY <2>1, Types, FileKinds DEF RewrittenDoes, BackupInv, BackupAt, HasOriginal
    <2>4. QED
      BY <2>2, <2>3 DEF BackupInv
  <1>14. ASSUME Migrated PROVE BackupInv'
    BY <1>14, Types, FileKinds DEF Migrated, Goto, diskVars, memVars, cmdVars, histVars, BackupInv,
       BackupAt, HasOriginal
  <1>15. ASSUME BeginBackup PROVE BackupInv'
    BY <1>15, Types, FileKinds DEF BeginBackup, Begin, diskVars, memVars, cmdVars, histVars,
       BackupInv, BackupAt, HasOriginal
  <1>16. ASSUME NEW p \in Profiles, NEW k \in Kinds, ArchiveFile(p, k) PROVE BackupInv'
    BY <1>16, Types, FileKinds DEF ArchiveFile, diskVars, memVars, cmdVars, histVars, BackupInv,
       BackupAt, HasOriginal
  <1>17. ASSUME Archived PROVE BackupInv'
    BY <1>17, Types, FileKinds DEF Archived, Exit, Goto, diskVars, memVars, cmdVars, histVars,
       BackupInv, BackupAt, HasOriginal
  <1>18. ASSUME BeginRestore PROVE BackupInv'
    <2>1. BeginRestoreDoes
      BY <1>18, BeginRestoreEffect
    <2>2. QED
      BY <2>1, Types, FileKinds DEF BeginRestoreDoes, BackupInv, BackupAt, HasOriginal
  <1>19. ASSUME NEW p \in Profiles, NEW k \in Kinds, Extract(p, k) PROVE BackupInv'
    <2>1. ExtractDoes(p, k)
      BY <1>19, ExtractEffect
    <2>2. BackupAt'
      BY <2>1, Types, FileKinds DEF ExtractDoes, Writes, Fills, BackupInv, BackupAt, PlanInv, PlanAt
    <2>3. ASSUME NEW q \in Profiles \ risked' PROVE HasOriginal(q)'
      BY <2>1, Types, FileKinds DEF ExtractDoes, Writes, Fills, BackupInv, BackupAt, HasOriginal
    <2>4. QED
      BY <2>2, <2>3 DEF BackupInv
  <1>20. ASSUME Extracted PROVE BackupInv'
    <2>1. ExtractedDoes
      BY <1>20, ExtractedEffect
    <2>2. BackupAt'
      BY <2>1, Types, FileKinds DEF ExtractedDoes, Writes, Fills, BackupInv, BackupAt, PlanInv,
         PlanAt
    <2>3. ASSUME NEW q \in Profiles \ risked' PROVE HasOriginal(q)'
      BY <2>1, Types, FileKinds DEF ExtractedDoes, Writes, Fills, BackupInv, BackupAt, HasOriginal,
         RestoreInv, RestoreAt
    <2>4. QED
      BY <2>2, <2>3 DEF BackupInv
  <1>21. ASSUME Restored PROVE BackupInv'
    BY <1>21, Types, FileKinds DEF Restored, Goto, diskVars, memVars, cmdVars, histVars, BackupInv,
       BackupAt, HasOriginal
  <1>22. ASSUME Stop PROVE BackupInv'
    BY <1>22, Types, FileKinds DEF Stop, Exit, Goto, Risk, diskVars, memVars, cmdVars, histVars,
       BackupInv, BackupAt, HasOriginal
  <1>23. CASE UNCHANGED vars
    BY <1>23 DEF vars, diskVars, memVars, cmdVars, histVars, BackupInv, BackupAt, HasOriginal
  <1>24. QED
    BY <1>1, <1>2, <1>3, <1>4, <1>5, <1>6, <1>7, <1>8, <1>9, <1>10, <1>11, <1>12, <1>13, <1>14,
       <1>15, <1>16, <1>17, <1>18, <1>19, <1>20, <1>21, <1>22, <1>23 DEF Next

\* No step overwrites what the server has stored.
LEMMA SavedStep == TypeOK /\ PlanInv /\ RestoreInv /\ SavedInv /\ [Next]_vars => SavedInv'
  <1> SUFFICES ASSUME TypeOK /\ PlanInv /\ RestoreInv /\ SavedInv, [Next]_vars PROVE SavedInv'
    OBVIOUS
  <1>1. ASSUME StartServer PROVE SavedInv'
    BY <1>1 DEF StartServer, diskVars, memVars, cmdVars, histVars, SavedInv, SavedIsKept
  <1>2. ASSUME StopServer PROVE SavedInv'
    BY <1>2 DEF StopServer, diskVars, memVars, cmdVars, histVars, SavedInv, SavedIsKept
  <1>3. ASSUME NEW p \in Profiles, NEW r \in New, Update(p, r) PROVE SavedInv'
    <2>1. PICK c \in Latest : SavesDoes(p, c)
      BY <1>3, SavesEffect DEF Update
    <2>2. QED
      BY <2>1, Types, FileKinds DEF SavesDoes, SavedInv, SavedIsKept
  <1>4. ASSUME NEW p \in Profiles, NEW r \in New, Create(p, r) PROVE SavedInv'
    <2>1. PICK c \in Latest : SavesDoes(p, c)
      BY <1>4, SavesEffect DEF Create
    <2>2. QED
      BY <2>1, Types, FileKinds DEF SavesDoes, SavedInv, SavedIsKept
  <1>5. ASSUME NEW p \in Profiles, Delete(p) PROVE SavedInv'
    <2>1. DeleteDoes(p)
      BY <1>5, DeleteEffect
    <2>2. QED
      BY <2>1, Types, FileKinds DEF DeleteDoes, SavedInv, SavedIsKept
  <1>6. ASSUME BeginMigration PROVE SavedInv'
    <2>1. BeginMigrationDoes
      BY <1>6, BeginMigrationEffect
    <2>2. QED
      BY <2>1, Types, FileKinds DEF BeginMigrationDoes, SavedInv, SavedIsKept
  <1>7. ASSUME NEW p \in Profiles, PlanProfile(p) PROVE SavedInv'
    <2>1. PlanProfileDoes(p)
      BY <1>7, PlanProfileEffect
    <2>2. QED
      BY <2>1, Types, FileKinds DEF PlanProfileDoes, SavedInv, SavedIsKept
  <1>8. ASSUME Planned PROVE SavedInv'
    BY <1>8, Types, FileKinds DEF Planned, Goto, diskVars, memVars, cmdVars, histVars, SavedInv,
       SavedIsKept
  <1>9. ASSUME NEW p \in Profiles, BackUp(p) PROVE SavedInv'
    <2>1. BackUpDoes(p)
      BY <1>9, BackUpEffect
    <2>2. QED
      BY <2>1, Types, FileKinds, ZenonT(60) DEF BackUpDoes, SavedInv, SavedIsKept
  <1>10. ASSUME BackedUp PROVE SavedInv'
    <2>1. BackedUpDoes
      BY <1>10, BackedUpEffect
    <2>2. QED
      BY <2>1, Types, FileKinds DEF BackedUpDoes, SavedInv, SavedIsKept
  <1>11. ASSUME NEW p \in Profiles, HasBackup(p) PROVE SavedInv'
    BY <1>11, Types, FileKinds DEF HasBackup, Goto, diskVars, memVars, cmdVars, histVars, SavedInv,
       SavedIsKept
  <1>12. ASSUME Rewrite PROVE SavedInv'
    <2>1. RewriteDoes
      BY <1>12, RewriteEffect
    <2>2. QED
      BY <2>1, Types, FileKinds DEF RewriteDoes, SavedInv, SavedIsKept, PlanInv, IsAsRead, PlanAt,
         Migrates
  <1>13. ASSUME Rewritten PROVE SavedInv'
    <2>1. PICK c \in Latest : RewrittenDoes(c)
      BY <1>13, RewrittenEffect
    <2>2. QED
      BY <2>1, Types, FileKinds DEF RewrittenDoes, SavedInv, SavedIsKept
  <1>14. ASSUME Migrated PROVE SavedInv'
    BY <1>14, Types, FileKinds DEF Migrated, Goto, diskVars, memVars, cmdVars, histVars, SavedInv,
       SavedIsKept
  <1>15. ASSUME BeginBackup PROVE SavedInv'
    BY <1>15, Types, FileKinds DEF BeginBackup, Begin, diskVars, memVars, cmdVars, histVars,
       SavedInv, SavedIsKept
  <1>16. ASSUME NEW p \in Profiles, NEW k \in Kinds, ArchiveFile(p, k) PROVE SavedInv'
    BY <1>16, Types, FileKinds DEF ArchiveFile, diskVars, memVars, cmdVars, histVars, SavedInv,
       SavedIsKept
  <1>17. ASSUME Archived PROVE SavedInv'
    BY <1>17, Types, FileKinds DEF Archived, Exit, Goto, diskVars, memVars, cmdVars, histVars,
       SavedInv, SavedIsKept
  <1>18. ASSUME BeginRestore PROVE SavedInv'
    <2>1. BeginRestoreDoes
      BY <1>18, BeginRestoreEffect
    <2>2. QED
      BY <2>1, Types, FileKinds DEF BeginRestoreDoes, SavedInv, SavedIsKept
  <1>19. ASSUME NEW p \in Profiles, NEW k \in Kinds, Extract(p, k) PROVE SavedInv'
    <2>1. ExtractDoes(p, k)
      BY <1>19, ExtractEffect
    <2>2. QED
      BY <2>1, Types, FileKinds DEF ExtractDoes, Writes, Fills, SavedInv, SavedIsKept
  <1>20. ASSUME Extracted PROVE SavedInv'
    <2>1. ExtractedDoes
      BY <1>20, ExtractedEffect
    <2>2. QED
      BY <2>1, Types, FileKinds DEF ExtractedDoes, Writes, Fills, SavedInv, SavedIsKept,
         RestoreInv, RestoreAt
  <1>21. ASSUME Restored PROVE SavedInv'
    BY <1>21, Types, FileKinds DEF Restored, Goto, diskVars, memVars, cmdVars, histVars, SavedInv,
       SavedIsKept
  <1>22. ASSUME Stop PROVE SavedInv'
    BY <1>22, Types, FileKinds DEF Stop, Exit, Goto, Risk, diskVars, memVars, cmdVars, histVars,
       SavedInv, SavedIsKept
  <1>23. CASE UNCHANGED vars
    BY <1>23 DEF vars, diskVars, memVars, cmdVars, histVars, SavedInv, SavedIsKept
  <1>24. QED
    BY <1>1, <1>2, <1>3, <1>4, <1>5, <1>6, <1>7, <1>8, <1>9, <1>10, <1>11, <1>12, <1>13, <1>14,
       <1>15, <1>16, <1>17, <1>18, <1>19, <1>20, <1>21, <1>22, <1>23 DEF Next

\* No step of a migration loses sight of a profile.
LEMMA MigrateStep == TypeOK /\ PlanInv /\ MigrateInv /\ [Next]_vars => MigrateInv'
  <1> SUFFICES ASSUME TypeOK /\ PlanInv /\ MigrateInv, [Next]_vars PROVE MigrateInv'
    OBVIOUS
  <1>1. ASSUME StartServer PROVE MigrateInv'
    BY <1>1 DEF StartServer, diskVars, memVars, cmdVars, histVars, PlanInv, PlanAt, MigrateInv,
       Current
  <1>2. ASSUME StopServer PROVE MigrateInv'
    BY <1>2 DEF StopServer, diskVars, memVars, cmdVars, histVars, PlanInv, PlanAt, MigrateInv,
       Current
  <1>3. ASSUME NEW p \in Profiles, NEW r \in New, Update(p, r) PROVE MigrateInv'
    <2>1. PICK c \in Latest : SavesDoes(p, c)
      BY <1>3, SavesEffect DEF Update
    <2>2. QED
      BY <2>1, Types, FileKinds DEF SavesDoes, PlanInv, PlanAt, MigrateInv, Current
  <1>4. ASSUME NEW p \in Profiles, NEW r \in New, Create(p, r) PROVE MigrateInv'
    <2>1. PICK c \in Latest : SavesDoes(p, c)
      BY <1>4, SavesEffect DEF Create
    <2>2. QED
      BY <2>1, Types, FileKinds DEF SavesDoes, PlanInv, PlanAt, MigrateInv, Current
  <1>5. ASSUME NEW p \in Profiles, Delete(p) PROVE MigrateInv'
    <2>1. DeleteDoes(p)
      BY <1>5, DeleteEffect
    <2>2. QED
      BY <2>1, Types, FileKinds DEF DeleteDoes, PlanInv, PlanAt, MigrateInv, Current
  <1>6. ASSUME BeginMigration PROVE MigrateInv'
    <2>1. BeginMigrationDoes
      BY <1>6, BeginMigrationEffect
    <2>2. QED
      BY <2>1, Types, FileKinds DEF BeginMigrationDoes, PlanInv, PlanAt, MigrateInv, Current
  <1>7. ASSUME NEW p \in Profiles, PlanProfile(p) PROVE MigrateInv'
    <2>1. PlanProfileDoes(p)
      BY <1>7, PlanProfileEffect
    <2>2. QED
      BY <2>1, Types, FileKinds DEF PlanProfileDoes, PlanInv, PlanAt, MigrateInv, Current
  <1>8. ASSUME Planned PROVE MigrateInv'
    BY <1>8, Types, FileKinds DEF Planned, Goto, diskVars, memVars, cmdVars, histVars, PlanInv,
       PlanAt, MigrateInv, Current
  <1>9. ASSUME NEW p \in Profiles, BackUp(p) PROVE MigrateInv'
    <2>1. BackUpDoes(p)
      BY <1>9, BackUpEffect
    <2>2. QED
      BY <2>1, Types, FileKinds DEF BackUpDoes, PlanInv, PlanAt, MigrateInv, Current
  <1>10. ASSUME BackedUp PROVE MigrateInv'
    <2>1. BackedUpDoes
      BY <1>10, BackedUpEffect
    <2>2. QED
      BY <2>1, Types, FileKinds DEF BackedUpDoes, PlanInv, PlanAt, MigrateInv, Current
  <1>11. ASSUME NEW p \in Profiles, HasBackup(p) PROVE MigrateInv'
    BY <1>11, Types, FileKinds DEF HasBackup, Goto, diskVars, memVars, cmdVars, histVars, PlanInv,
       PlanAt, MigrateInv, Current
  <1>12. ASSUME Rewrite PROVE MigrateInv'
    <2>1. RewriteDoes
      BY <1>12, RewriteEffect
    <2>2. QED
      BY <2>1, Types, FileKinds DEF RewriteDoes, PlanInv, PlanAt, MigrateInv, Current
  <1>13. ASSUME Rewritten PROVE MigrateInv'
    <2>1. PICK c \in Latest : RewrittenDoes(c)
      BY <1>13, RewrittenEffect
    <2>2. QED
      BY <2>1, Types, FileKinds DEF RewrittenDoes, PlanInv, PlanAt, MigrateInv, Current
  <1>14. ASSUME Migrated PROVE MigrateInv'
    BY <1>14, Types, FileKinds DEF Migrated, Goto, diskVars, memVars, cmdVars, histVars, PlanInv,
       PlanAt, MigrateInv, Current
  <1>15. ASSUME BeginBackup PROVE MigrateInv'
    BY <1>15, Types, FileKinds DEF BeginBackup, Begin, diskVars, memVars, cmdVars, histVars,
       PlanInv, PlanAt, MigrateInv, Current
  <1>16. ASSUME NEW p \in Profiles, NEW k \in Kinds, ArchiveFile(p, k) PROVE MigrateInv'
    BY <1>16, Types, FileKinds DEF ArchiveFile, diskVars, memVars, cmdVars, histVars, PlanInv,
       PlanAt, MigrateInv, Current
  <1>17. ASSUME Archived PROVE MigrateInv'
    BY <1>17, Types, FileKinds DEF Archived, Exit, Goto, diskVars, memVars, cmdVars, histVars,
       PlanInv, PlanAt, MigrateInv, Current
  <1>18. ASSUME BeginRestore PROVE MigrateInv'
    <2>1. BeginRestoreDoes
      BY <1>18, BeginRestoreEffect
    <2>2. QED
      BY <2>1, Types, FileKinds DEF BeginRestoreDoes, PlanInv, PlanAt, MigrateInv, Current
  <1>19. ASSUME NEW p \in Profiles, NEW k \in Kinds, Extract(p, k) PROVE MigrateInv'
    <2>1. ExtractDoes(p, k)
      BY <1>19, ExtractEffect
    <2>2. QED
      BY <2>1, Types, FileKinds DEF ExtractDoes, Writes, Fills, PlanInv, PlanAt, MigrateInv, Current
  <1>20. ASSUME Extracted PROVE MigrateInv'
    <2>1. ExtractedDoes
      BY <1>20, ExtractedEffect
    <2>2. QED
      BY <2>1, Types, FileKinds DEF ExtractedDoes, Writes, Fills, PlanInv, PlanAt, MigrateInv,
         Current
  <1>21. ASSUME Restored PROVE MigrateInv'
    BY <1>21, Types, FileKinds DEF Restored, Goto, diskVars, memVars, cmdVars, histVars, PlanInv,
       PlanAt, MigrateInv, Current
  <1>22. ASSUME Stop PROVE MigrateInv'
    BY <1>22, Types, FileKinds DEF Stop, Exit, Goto, Risk, diskVars, memVars, cmdVars, histVars,
       PlanInv, PlanAt, MigrateInv, Current
  <1>23. CASE UNCHANGED vars
    BY <1>23 DEF vars, diskVars, memVars, cmdVars, histVars, PlanInv, PlanAt, MigrateInv, Current
  <1>24. QED
    BY <1>1, <1>2, <1>3, <1>4, <1>5, <1>6, <1>7, <1>8, <1>9, <1>10, <1>11, <1>12, <1>13, <1>14,
       <1>15, <1>16, <1>17, <1>18, <1>19, <1>20, <1>21, <1>22, <1>23 DEF Next

\* No step of a restore loses sight of an archived file.
LEMMA RestoreStep == TypeOK /\ RestoreInv /\ [Next]_vars => RestoreInv'
  <1> SUFFICES ASSUME TypeOK /\ RestoreInv, [Next]_vars PROVE RestoreInv'
    OBVIOUS
  <1>1. ASSUME StartServer PROVE RestoreInv'
    BY <1>1 DEF StartServer, diskVars, memVars, cmdVars, histVars, RestoreInv, RestoreAt, IsBack
  <1>2. ASSUME StopServer PROVE RestoreInv'
    BY <1>2 DEF StopServer, diskVars, memVars, cmdVars, histVars, RestoreInv, RestoreAt, IsBack
  <1>3. ASSUME NEW p \in Profiles, NEW r \in New, Update(p, r) PROVE RestoreInv'
    <2>1. PICK c \in Latest : SavesDoes(p, c)
      BY <1>3, SavesEffect DEF Update
    <2>2. \A q \in Profiles \ {p}, l \in Kinds : files'[q][l] = files[q][l]
      BY <2>1, JsonBak DEF SavesDoes
    <2>3. p \in touched' /\ touched \subseteq touched' /\ UNCHANGED <<pc, archive, todo, at, risked>>
      BY <2>1 DEF SavesDoes
    <2>4. RestoreAt'
      BY <2>2, <2>3, Types DEF RestoreInv, RestoreAt
    <2>5. ASSUME NEW q \in Profiles \ touched', NEW l \in Kinds PROVE IsBack(q, l)'
      BY <2>2, <2>3 DEF RestoreInv, IsBack
    <2>6. QED
      BY <2>4, <2>5 DEF RestoreInv
  <1>4. ASSUME NEW p \in Profiles, NEW r \in New, Create(p, r) PROVE RestoreInv'
    <2>1. PICK c \in Latest : SavesDoes(p, c)
      BY <1>4, SavesEffect DEF Create
    <2>2. \A q \in Profiles \ {p}, l \in Kinds : files'[q][l] = files[q][l]
      BY <2>1, JsonBak DEF SavesDoes
    <2>3. p \in touched' /\ touched \subseteq touched' /\ UNCHANGED <<pc, archive, todo, at, risked>>
      BY <2>1 DEF SavesDoes
    <2>4. RestoreAt'
      BY <2>2, <2>3, Types DEF RestoreInv, RestoreAt
    <2>5. ASSUME NEW q \in Profiles \ touched', NEW l \in Kinds PROVE IsBack(q, l)'
      BY <2>2, <2>3 DEF RestoreInv, IsBack
    <2>6. QED
      BY <2>4, <2>5 DEF RestoreInv
  <1>5. ASSUME NEW p \in Profiles, Delete(p) PROVE RestoreInv'
    <2>1. DeleteDoes(p)
      BY <1>5, DeleteEffect
    <2>2. \A q \in Profiles \ {p}, l \in Kinds : files'[q][l] = files[q][l]
      BY <2>1, JsonBak DEF DeleteDoes
    <2>3. p \in touched' /\ touched \subseteq touched' /\ UNCHANGED <<pc, archive, todo, at, risked>>
      BY <2>1 DEF DeleteDoes
    <2>4. RestoreAt'
      BY <2>2, <2>3, Types DEF RestoreInv, RestoreAt
    <2>5. ASSUME NEW q \in Profiles \ touched', NEW l \in Kinds PROVE IsBack(q, l)'
      BY <2>2, <2>3 DEF RestoreInv, IsBack
    <2>6. QED
      BY <2>4, <2>5 DEF RestoreInv
  <1>6. ASSUME BeginMigration PROVE RestoreInv'
    <2>1. BeginMigrationDoes
      BY <1>6, BeginMigrationEffect
    <2>2. QED
      BY <2>1, Types, FileKinds, JsonBak DEF BeginMigrationDoes, RestoreInv, RestoreAt, IsBack
  <1>7. ASSUME NEW p \in Profiles, PlanProfile(p) PROVE RestoreInv'
    <2>1. PlanProfileDoes(p)
      BY <1>7, PlanProfileEffect
    <2>2. QED
      BY <2>1, Types, FileKinds, JsonBak DEF PlanProfileDoes, RestoreInv, RestoreAt, IsBack
  <1>8. ASSUME Planned PROVE RestoreInv'
    BY <1>8, Types, FileKinds, JsonBak DEF Planned, Goto, diskVars, memVars, cmdVars, histVars,
       RestoreInv, RestoreAt, IsBack
  <1>9. ASSUME NEW p \in Profiles, BackUp(p) PROVE RestoreInv'
    <2>1. BackUpDoes(p)
      BY <1>9, BackUpEffect
    <2>2. QED
      BY <2>1, Types, FileKinds, JsonBak DEF BackUpDoes, RestoreInv, RestoreAt, IsBack
  <1>10. ASSUME BackedUp PROVE RestoreInv'
    <2>1. BackedUpDoes
      BY <1>10, BackedUpEffect
    <2>2. QED
      BY <2>1, Types, FileKinds, JsonBak DEF BackedUpDoes, RestoreInv, RestoreAt, IsBack
  <1>11. ASSUME NEW p \in Profiles, HasBackup(p) PROVE RestoreInv'
    BY <1>11, Types, FileKinds, JsonBak DEF HasBackup, Goto, diskVars, memVars, cmdVars, histVars,
       RestoreInv, RestoreAt, IsBack
  <1>12. ASSUME Rewrite PROVE RestoreInv'
    <2>1. RewriteDoes
      BY <1>12, RewriteEffect
    <2>2. QED
      BY <2>1, Types, FileKinds, JsonBak DEF RewriteDoes, RestoreInv, RestoreAt, IsBack
  <1>13. ASSUME Rewritten PROVE RestoreInv'
    <2>1. PICK c \in Latest : RewrittenDoes(c)
      BY <1>13, RewrittenEffect
    <2>2. QED
      BY <2>1, Types, FileKinds, JsonBak DEF RewrittenDoes, RestoreInv, RestoreAt, IsBack
  <1>14. ASSUME Migrated PROVE RestoreInv'
    BY <1>14, Types, FileKinds, JsonBak DEF Migrated, Goto, diskVars, memVars, cmdVars, histVars,
       RestoreInv, RestoreAt, IsBack
  <1>15. ASSUME BeginBackup PROVE RestoreInv'
    BY <1>15, Types, FileKinds, JsonBak DEF BeginBackup, Begin, diskVars, memVars, cmdVars,
       histVars, RestoreInv, RestoreAt, IsBack
  <1>16. ASSUME NEW p \in Profiles, NEW k \in Kinds, ArchiveFile(p, k) PROVE RestoreInv'
    BY <1>16, Types, FileKinds, JsonBak DEF ArchiveFile, diskVars, memVars, cmdVars, histVars,
       RestoreInv, RestoreAt, IsBack
  <1>17. ASSUME Archived PROVE RestoreInv'
    BY <1>17, Types, FileKinds, JsonBak DEF Archived, Exit, Goto, diskVars, memVars, cmdVars,
       histVars, RestoreInv, RestoreAt, IsBack
  <1>18. ASSUME BeginRestore PROVE RestoreInv'
    <2>1. BeginRestoreDoes
      BY <1>18, BeginRestoreEffect
    <2>2. QED
      BY <2>1, Types, FileKinds, JsonBak DEF BeginRestoreDoes, RestoreInv, RestoreAt, IsBack
  <1>19. ASSUME NEW p \in Profiles, NEW k \in Kinds, Extract(p, k) PROVE RestoreInv'
    <2>1. ExtractDoes(p, k)
      BY <1>19, ExtractEffect
    <2>2. QED
      BY <2>1, Types, FileKinds, JsonBak DEF ExtractDoes, Writes, Fills, RestoreInv, RestoreAt,
         IsBack
  <1>20. ASSUME Extracted PROVE RestoreInv'
    <2>1. ExtractedDoes
      BY <1>20, ExtractedEffect
    <2>2. QED
      BY <2>1, Types, FileKinds, JsonBak DEF ExtractedDoes, Writes, Fills, RestoreInv, RestoreAt,
         IsBack
  <1>21. ASSUME Restored PROVE RestoreInv'
    BY <1>21, Types, FileKinds, JsonBak DEF Restored, Goto, diskVars, memVars, cmdVars, histVars,
       RestoreInv, RestoreAt, IsBack
  <1>22. ASSUME Stop PROVE RestoreInv'
    BY <1>22, Types, FileKinds, JsonBak DEF Stop, Exit, Goto, Risk, diskVars, memVars, cmdVars,
       histVars, RestoreInv, RestoreAt, IsBack
  <1>23. CASE UNCHANGED vars
    BY <1>23 DEF vars, diskVars, memVars, cmdVars, histVars, RestoreInv, RestoreAt, IsBack
  <1>24. QED
    BY <1>1, <1>2, <1>3, <1>4, <1>5, <1>6, <1>7, <1>8, <1>9, <1>10, <1>11, <1>12, <1>13, <1>14,
       <1>15, <1>16, <1>17, <1>18, <1>19, <1>20, <1>21, <1>22, <1>23 DEF Next

-----------------------------------------------------------------------------
IInv == TypeOK /\ PlanInv /\ BackupInv /\ SavedInv /\ MigrateInv /\ RestoreInv

LEMMA InitType == Init => TypeOK
  <1> SUFFICES ASSUME Init PROVE TypeOK
    OBVIOUS
  <1>1. files \in [Profiles -> [Kinds -> File]] /\ archive \in [Profiles -> [Kinds -> File]]
    <2>1. ({"v1", "odd", "both", "v2"} \X Old) \cup {NoFile} \subseteq File /\ NoFiles \in [Kinds -> File]
      BY FileKinds, MaintenanceAssumption DEF MaintenanceAssumption, Whole, NoFiles
    <2>2. \A c \in File : [NoFiles EXCEPT !["json"] = c] \in [Kinds -> File]
      BY <2>1, JsonBak
    <2>3. QED
      BY <2>1, <2>2 DEF Init
  <1>2. /\ plan \in [Profiles -> Whole \cup {NoFile}] /\ saved \in [Profiles -> Whole \cup {NoFile}]
        /\ mem \in [Profiles -> Whole \cup {NoFile}]
        /\ closed = FALSE /\ up = FALSE /\ pc = "idle" /\ todo = {} /\ at = Nothing /\ commands = 0
        /\ touched = {} /\ risked = {}
    BY DEF Init
  <1>3. 0 \in 0..MaxCommands
    BY MaintenanceAssumption DEF MaintenanceAssumption
  <1>4. QED
    BY <1>1, <1>2, <1>3 DEF TypeOK

LEMMA InitInv == Init => IInv
  <1> SUFFICES ASSUME Init PROVE IInv
    OBVIOUS
  <1>1. \A p \in Profiles : files[p]["bak"] = NoFile /\ files[p]["json"] # Torn
    <2>1. \A c \in ({"v1", "odd", "both", "v2"} \X Old) \cup {NoFile} :
            /\ c # Torn
            /\ [NoFiles EXCEPT !["json"] = c]["json"] = c
            /\ [NoFiles EXCEPT !["json"] = c]["bak"] = NoFile
      BY MaintenanceAssumption, JsonBak DEF MaintenanceAssumption, Whole, NoFiles
    <2>2. \A p \in Profiles :
            \E c \in ({"v1", "odd", "both", "v2"} \X Old) \cup {NoFile} : files[p] = [NoFiles EXCEPT !["json"] = c]
      BY DEF Init
    <2>3. ASSUME NEW p \in Profiles PROVE files[p]["bak"] = NoFile /\ files[p]["json"] # Torn
      <3>1. PICK c \in ({"v1", "odd", "both", "v2"} \X Old) \cup {NoFile} : files[p] = [NoFiles EXCEPT !["json"] = c]
        BY <2>2
      <3>2. QED
        BY <2>1, <3>1
    <2>4. QED
      BY <2>3
  <1>2. PlanInv
    BY DEF Init, PlanInv, PlanAt, IsAsRead
  <1>3. BackupInv
    BY <1>1 DEF Init, BackupInv, BackupAt, HasOriginal
  <1>4. SavedInv /\ MigrateInv /\ RestoreInv
    BY DEF Init, SavedInv, SavedIsKept, MigrateInv, RestoreInv, RestoreAt, IsBack
  <1>5. QED
    BY <1>2, <1>3, <1>4, InitType DEF IInv

LEMMA Invariance == Spec => []IInv
  <1>1. IInv /\ [Next]_vars => IInv'
    BY TypeStep, PlanStep, BackupStep, SavedStep, MigrateStep, RestoreStep DEF IInv
  <1>2. QED
    BY InitInv, <1>1, PTL DEF Spec

-----------------------------------------------------------------------------
\* What a step does to a profile without risks.
Keeps(p) ==
  /\ files'[p]["json"] = Torn => files'[p]["bak"] \in Whole
  /\ files[p]["json"] \in Whole /\ files'[p]["json"] = Torn => files'[p]["bak"] = files[p]["json"]
  /\ files[p]["json"] = Torn /\ files'[p]["json"] = Torn => files'[p]["bak"] = files[p]["bak"]

LEMMA StepKeeps == IInv /\ IInv' /\ [Next]_vars => \A p \in Profiles \ risked' : Keeps(p)
  <1> SUFFICES ASSUME IInv, IInv', [Next]_vars, NEW q \in Profiles \ risked' PROVE Keeps(q)
    OBVIOUS
  <1>a. TypeOK /\ PlanInv /\ BackupInv /\ RestoreInv
    BY DEF IInv
  <1>0. files'[q]["json"] = Torn => files'[q]["bak"] \in Whole
    BY DEF IInv, BackupInv, HasOriginal
  <1>b. UNCHANGED files => Keeps(q)
    BY <1>0, FileKinds DEF Keeps
  <1>1. ASSUME StartServer PROVE Keeps(q)
    BY <1>1, <1>b DEF StartServer, diskVars
  <1>2. ASSUME StopServer PROVE Keeps(q)
    BY <1>2, <1>b DEF StopServer, diskVars
  <1>3. ASSUME NEW p \in Profiles, NEW r \in New, Update(p, r) PROVE Keeps(q)
    <2>1. PICK c \in Latest : SavesDoes(p, c)
      BY <1>3, <1>a, SavesEffect DEF Update
    <2>2. files'[q]["json"] = Torn => UNCHANGED <<files[q]["json"], files[q]["bak"]>>
      BY <2>1, FileKinds DEF SavesDoes
    <2>3. QED
      BY <1>0, <2>2, FileKinds DEF Keeps
  <1>4. ASSUME NEW p \in Profiles, NEW r \in New, Create(p, r) PROVE Keeps(q)
    <2>1. PICK c \in Latest : SavesDoes(p, c)
      BY <1>4, <1>a, SavesEffect DEF Create
    <2>2. files'[q]["json"] = Torn => UNCHANGED <<files[q]["json"], files[q]["bak"]>>
      BY <2>1, FileKinds DEF SavesDoes
    <2>3. QED
      BY <1>0, <2>2, FileKinds DEF Keeps
  <1>5. ASSUME NEW p \in Profiles, Delete(p) PROVE Keeps(q)
    <2>1. DeleteDoes(p)
      BY <1>5, <1>a, DeleteEffect
    <2>2. files'[q]["json"] = Torn => UNCHANGED <<files[q]["json"], files[q]["bak"]>>
      BY <2>1, FileKinds DEF DeleteDoes
    <2>3. QED
      BY <1>0, <2>2, FileKinds DEF Keeps
  <1>6. ASSUME BeginMigration PROVE Keeps(q)
    BY <1>6, <1>b DEF BeginMigration, Begin, diskVars
  <1>7. ASSUME NEW p \in Profiles, PlanProfile(p) PROVE Keeps(q)
    BY <1>7, <1>b DEF PlanProfile, diskVars
  <1>8. ASSUME Planned PROVE Keeps(q)
    BY <1>8, <1>b DEF Planned, diskVars
  <1>9. ASSUME NEW p \in Profiles, BackUp(p) PROVE Keeps(q)
    <2>1. BackUpDoes(p)
      BY <1>9, <1>a, BackUpEffect
    <2>2. q = p => files[q]["json"] # Torn
      BY <1>a, <2>1, FileKinds DEF BackUpDoes, BackupInv, HasOriginal
    <2>3. QED
      BY <1>0, <2>1, <2>2, FileKinds DEF BackUpDoes, Keeps
  <1>10. ASSUME BackedUp PROVE Keeps(q)
    <2>1. BackedUpDoes
      BY <1>10, <1>a, BackedUpEffect
    <2>2. q = at[1] => files[q]["json"] # Torn
      BY <1>a, <2>1, FileKinds DEF BackedUpDoes, BackupInv, BackupAt, HasOriginal
    <2>3. QED
      BY <1>0, <2>1, <2>2, FileKinds DEF BackedUpDoes, Keeps
  <1>11. ASSUME NEW p \in Profiles, HasBackup(p) PROVE Keeps(q)
    BY <1>11, <1>b DEF HasBackup, diskVars
  <1>12. ASSUME Rewrite PROVE Keeps(q)
    <2>1. RewriteDoes
      BY <1>12, <1>a, RewriteEffect
    <2>2. CASE q = at[1] /\ files[q]["json"] \in Whole
      <3>1. q \notin touched /\ q \notin risked
        BY <2>1, <2>2 DEF RewriteDoes
      <3>2. <<q, "json">> \in todo
        BY <1>a, <2>1, <2>2, Types DEF RewriteDoes, PlanInv, PlanAt
      <3>3. plan[q] # NoFile
        BY <1>a, <2>1, <2>2 DEF RewriteDoes, TypeOK
      <3>4. files[q]["json"] = plan[q] /\ Migrates(plan[q])
        BY <1>a, <2>1, <3>1, <3>2, <3>3 DEF RewriteDoes, PlanInv, IsAsRead
      <3>5. files[q]["bak"] = files[q]["json"]
        BY <1>a, <2>1, <2>2, <3>1, <3>4 DEF RewriteDoes, BackupInv, BackupAt, HasOriginal
      <3>6. QED
        BY <1>0, <2>1, <2>2, <3>5, FileKinds DEF RewriteDoes, Keeps
    <2>3. CASE ~(q = at[1] /\ files[q]["json"] \in Whole)
      BY <1>0, <2>1, <2>3, FileKinds DEF RewriteDoes, Keeps
    <2>4. QED
      BY <2>2, <2>3
  <1>13. ASSUME Rewritten PROVE Keeps(q)
    <2>1. PICK c \in Latest : RewrittenDoes(c)
      BY <1>13, <1>a, RewrittenEffect
    <2>2. QED
      BY <1>0, <2>1, FileKinds DEF RewrittenDoes, Keeps
  <1>14. ASSUME Migrated PROVE Keeps(q)
    BY <1>14, <1>b DEF Migrated, diskVars
  <1>15. ASSUME BeginBackup PROVE Keeps(q)
    BY <1>15, <1>b DEF BeginBackup, Begin, diskVars
  <1>16. ASSUME NEW p \in Profiles, NEW k \in Kinds, ArchiveFile(p, k) PROVE Keeps(q)
    BY <1>16, <1>b DEF ArchiveFile, diskVars
  <1>17. ASSUME Archived PROVE Keeps(q)
    BY <1>17, <1>b DEF Archived, diskVars
  <1>18. ASSUME BeginRestore PROVE Keeps(q)
    BY <1>18, <1>b DEF BeginRestore, Begin, diskVars
  <1>19. ASSUME NEW p \in Profiles, NEW k \in Kinds, Extract(p, k) PROVE Keeps(q)
    <2>1. ExtractDoes(p, k)
      BY <1>19, <1>a, ExtractEffect
    <2>2. q # p
      BY <2>1 DEF ExtractDoes
    <2>3. QED
      BY <1>0, <2>1, <2>2, FileKinds DEF ExtractDoes, Writes, Keeps
  <1>20. ASSUME Extracted PROVE Keeps(q)
    <2>1. ExtractedDoes
      BY <1>20, <1>a, ExtractedEffect
    <2>2. q # at[1]
      BY <1>a, <2>1 DEF ExtractedDoes, RestoreInv, RestoreAt
    <2>3. QED
      BY <1>0, <2>1, <2>2, FileKinds DEF ExtractedDoes, Writes, Fills, Keeps
  <1>21. ASSUME Restored PROVE Keeps(q)
    BY <1>21, <1>b DEF Restored, diskVars
  <1>22. ASSUME Stop PROVE Keeps(q)
    BY <1>22, <1>b DEF Stop, diskVars
  <1>23. CASE UNCHANGED vars
    BY <1>23, <1>b DEF vars, diskVars
  <1>24. QED
    BY <1>1, <1>2, <1>3, <1>4, <1>5, <1>6, <1>7, <1>8, <1>9, <1>10, <1>11, <1>12, <1>13, <1>14,
       <1>15, <1>16, <1>17, <1>18, <1>19, <1>20, <1>21, <1>22, <1>23 DEF Next

-----------------------------------------------------------------------------
\* The variables keep their types.
THEOREM TypeCorrect == Spec => []TypeOK
  BY Invariance, PTL DEF IInv

\* Wherever a migration is cut short, and however often it is tried again, nothing tears a
\* profile that is not whole in its .v1.bak, and that backup stays.
THEOREM OriginalsAreKept == Spec => OriginalKept
  <1>1. IInv /\ IInv' /\ [Next]_vars =>
          [\A p \in Profiles \ risked' :
             /\ files'[p]["json"] = Torn => files'[p]["bak"] \in Whole
             /\ files[p]["json"] \in Whole /\ files'[p]["json"] = Torn => files'[p]["bak"] = files[p]["json"]
             /\ files[p]["json"] = Torn /\ files'[p]["json"] = Torn => files'[p]["bak"] = files[p]["bak"]]_vars
    BY StepKeeps DEF Keeps
  <1>2. QED
    BY Invariance, <1>1, PTL DEF Spec, OriginalKept

\* What the server has stored last is what its next start will load, whatever migrations and
\* backups ran, or were cut short, beside it.
THEOREM SavedStays == Spec => []SavedIsKept
  <1>1. IInv => SavedIsKept
    BY DEF IInv, SavedInv
  <1>2. QED
    BY Invariance, <1>1, PTL

\* A migration that reports success leaves only profiles that the server loads.
THEOREM MigratedIsLoadable == Spec => []MigratedLoads
  <1>1. IInv => MigratedLoads
    BY DEF IInv, MigrateInv, MigratedLoads, Current, Latest
  <1>2. QED
    BY Invariance, <1>1, PTL

\* A restore that reports success has brought every archived file back.
THEOREM RestoredMatches == Spec => []RestoredIsArchived
  <1>1. IInv => RestoredIsArchived
    BY DEF IInv, RestoreInv, RestoreAt, IsBack, RestoredIsArchived
  <1>2. QED
    BY Invariance, <1>1, PTL
=============================================================================
