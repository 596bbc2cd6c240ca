---------------------------- MODULE Maintenance ----------------------------
(***************************************************************************)
(* The commands that work on the files of profiles behind the server's     *)
(* back: migrate profiles --apply (cmd/server/cli.go), backup create and   *)
(* backup restore --full (cmd/server/cli_runtime.go), and the server whose *)
(* profile store (profile/store.go) reads the same files when it starts    *)
(* and replaces them while it runs.                                        *)
(*                                                                         *)
(* One command runs at a time.  It may fail or be killed between any two   *)
(* steps, also between the truncation of a file and its new contents,      *)
(* which leaves the file torn.  Of a profile's contents the model keeps    *)
(* the schema and a revision that stands for everything else.              *)
(***************************************************************************)
EXTENDS Naturals

CONSTANTS
  Profiles, NoProfile,
  Revs,         \* revisions of a profile's contents,
  Old,          \* those that an earlier release has left, and
  New,          \* those that the server stores
  MaxCommands,  \* bounds how many commands are run
  NoFile,       \* there is no such file
  Torn          \* the file cannot be decoded

\* v1: engine only; odd: an engine that the migration does not know; both: engine and
\* runtime_id; v2: runtime_id only.
Whole == {"v1", "odd", "both", "v2"} \X Revs
File  == Whole \cup {NoFile, Torn}

ASSUME MaintenanceAssumption ==
  /\ NoProfile \notin Profiles
  /\ Old \subseteq Revs /\ New \subseteq Revs
  /\ MaxCommands \in Nat
  /\ NoFile # Torn
  /\ {NoFile, Torn} \cap Whole = {}

Kinds == {"json", "bak"}   \* profile.json and profile.json.v1.bak

VARIABLES
  files,     \* the two files of each profile's directory
  archive,   \* the full backup that a restore would use
  closed,    \* it was written to its end
  up, mem,   \* whether the server runs, and its profiles
  pc,        \* where the command is
  plan,      \* what migrate has read of the profiles it will rewrite
  todo,      \* the files a command still has to deal with
  at,        \* the file it is writing
  commands,  \* how many commands were run
  saved,     \* history: what the server stored last
  touched,   \* history: profiles the server changed since the command began
  risked     \* history: profiles without a claim, see Risk

diskVars == <<files, archive, closed>>
memVars  == <<up, mem>>
cmdVars  == <<pc, plan, todo, at, commands>>
histVars == <<saved, touched, risked>>
vars     == <<diskVars, memVars, cmdVars, histVars>>

NoFiles == [k \in Kinds |-> NoFile]
Nothing == <<NoProfile, "json">>

TypeOK ==
  /\ files \in [Profiles -> [Kinds -> File]]
  /\ archive \in [Profiles -> [Kinds -> File]]
  /\ closed \in BOOLEAN /\ up \in BOOLEAN
  /\ mem \in [Profiles -> Whole \cup {NoFile}]
  /\ pc \in {"idle", "plan", "migrate", "back up", "rewrite", "write", "migrated", "archive",
             "extract", "unpack", "restored"}
  /\ plan \in [Profiles -> Whole \cup {NoFile}]
  /\ todo \in SUBSET (Profiles \X Kinds)
  /\ at \in (Profiles \X Kinds) \cup {Nothing}
  /\ pc \in {"back up", "rewrite", "write"} => at \in Profiles \X Kinds /\ plan[at[1]] # NoFile
  /\ pc = "unpack" => at \in Profiles \X Kinds
  /\ pc \in {"migrate", "back up", "rewrite", "write"} =>
       \A p \in Profiles : plan[p] = NoFile => <<p, "json">> \notin todo
  /\ commands \in 0..MaxCommands
  /\ saved \in [Profiles -> Whole \cup {NoFile}]
  /\ touched \in SUBSET Profiles /\ risked \in SUBSET Profiles

\* An earlier release has left profiles of any schema.
Init ==
  /\ files \in [Profiles -> {[NoFiles EXCEPT !.json = c] : c \in ({"v1", "odd", "both", "v2"} \X Old) \cup {NoFile}}]
  /\ archive = [p \in Profiles |-> NoFiles] /\ closed = FALSE
  /\ up = FALSE /\ mem = [p \in Profiles |-> NoFile]
  /\ pc = "idle" /\ todo = {} /\ at = Nothing /\ commands = 0
  /\ plan = [p \in Profiles |-> NoFile]
  /\ saved = [p \in Profiles |-> NoFile]
  /\ touched = {} /\ risked = {}

-----------------------------------------------------------------------------
\* validateV2Profile asks for a runtime_id and overlooks an engine beside it.
Loads(c) == c[1] \in {"both", "v2"}

\* One v1 profile keeps the server from starting; a torn one is passed over.
StartServer ==
  /\ ~up
  /\ \A p \in Profiles : files[p]["json"] \in Whole => Loads(files[p]["json"])
  /\ up' = TRUE
  /\ mem' = [p \in Profiles |-> IF files[p]["json"] = Torn THEN NoFile ELSE files[p]["json"]]
  /\ UNCHANGED <<diskVars, cmdVars, histVars>>

StopServer ==
  /\ up
  /\ up' = FALSE
  /\ mem' = [p \in Profiles |-> NoFile]
  /\ UNCHANGED <<diskVars, cmdVars, histVars>>

\* Store.save: a rename puts the whole profile in the place of whatever was there.
Saves(p, r) ==
  /\ mem' = [mem EXCEPT ![p] = <<"v2", r>>]
  /\ files' = [files EXCEPT ![p]["json"] = <<"v2", r>>]
  /\ saved' = [saved EXCEPT ![p] = <<"v2", r>>]
  /\ touched' = touched \cup {p}
  /\ UNCHANGED <<archive, closed, up, cmdVars, risked>>

Update(p, r) ==
  /\ up /\ mem[p] # NoFile
  /\ Saves(p, r)

\* An ID is random: here, one that no file, archive or command knows.
Create(p, r) ==
  /\ up /\ mem[p] = NoFile
  /\ files[p] = NoFiles /\ archive[p] = NoFiles
  /\ plan[p] = NoFile /\ (\A k \in Kinds : <<p, k>> \notin todo)
  /\ Saves(p, r)

\* RemoveAll takes the backup along.
Delete(p) ==
  /\ up /\ mem[p] # NoFile
  /\ mem' = [mem EXCEPT ![p] = NoFile]
  /\ files' = [files EXCEPT ![p] = NoFiles]
  /\ saved' = [saved EXCEPT ![p] = NoFile]
  /\ touched' = touched \cup {p}
  /\ UNCHANGED <<archive, closed, up, cmdVars, risked>>

-----------------------------------------------------------------------------
Goto(l, t, x) == pc' = l /\ todo' = t /\ at' = x /\ UNCHANGED commands

Exit ==
  /\ Goto("idle", {}, Nothing)
  /\ plan' = [p \in Profiles |-> NoFile]

Begin(l, t) ==
  /\ pc = "idle" /\ commands < MaxCommands
  /\ commands' = commands + 1
  /\ pc' = l /\ todo' = t /\ UNCHANGED at
  /\ touched' = {}
  /\ UNCHANGED <<files, memVars, plan, saved, risked>>

\* Opening a file truncates it.
Truncate(p, k) == files' = [files EXCEPT ![p][k] = Torn]

\* The contents go to the file that was opened, which the server may have replaced by
\* another one or removed since.
Fill(p, k, c) == files' = IF files[p][k] = Torn THEN [files EXCEPT ![p][k] = c] ELSE files

\* Mutant: profiles that need no migration are rewritten as well.
Migrates_All(c) == c[1] # "odd"

Migrates(c) == c[1] \in {"v1", "both"}

Existing == {x \in Profiles \X Kinds : files[x[1]][x[2]] # NoFile}

BeginMigration ==
  /\ Begin("plan", {x \in Existing : x[2] = "json"})
  /\ UNCHANGED <<archive, closed>>

\* Mutant: files that cannot be decoded are passed over, as at the start of the server.
PlanProfile_SkipsTorn(p) ==
  /\ pc = "plan"
  /\ <<p, "json">> \in todo
  /\ files[p]["json"] \in Whole => files[p]["json"][1] # "odd"
  /\ todo' = todo \ {<<p, "json">>}
  /\ plan' = IF files[p]["json"] \in Whole /\ Migrates(files[p]["json"])
               THEN [plan EXCEPT ![p] = files[p]["json"]] ELSE plan
  /\ UNCHANGED <<diskVars, memVars, pc, at, commands, histVars>>

\* All profiles are read and checked before any is written; one that is gone by now is
\* passed over.
PlanProfile(p) ==
  /\ pc = "plan"
  /\ <<p, "json">> \in todo
  /\ files[p]["json"] # Torn
  /\ files[p]["json"] \in Whole => files[p]["json"][1] # "odd"
  /\ todo' = todo \ {<<p, "json">>}
  /\ plan' = IF files[p]["json"] \in Whole /\ Migrates(files[p]["json"])
               THEN [plan EXCEPT ![p] = files[p]["json"]] ELSE plan
  /\ UNCHANGED <<diskVars, memVars, pc, at, commands, histVars>>

\* Without --apply the command stops here (Stop).
Planned ==
  /\ pc = "plan" /\ todo = {}
  /\ Goto("migrate", {<<p, "json">> : p \in {q \in Profiles : plan[q] # NoFile}}, Nothing)
  /\ UNCHANGED <<diskVars, memVars, plan, histVars>>

\* os.WriteFile fails where the directory is gone, and so the command stops (Stop).
BackUp(p) ==
  /\ pc = "migrate" /\ <<p, "json">> \in todo
  /\ files[p]["bak"] = NoFile /\ files[p] # NoFiles
  /\ Truncate(p, "bak")
  /\ Goto("back up", todo, <<p, "json">>)
  /\ UNCHANGED <<archive, closed, memVars, plan, histVars>>

BackedUp ==
  /\ pc = "back up"
  /\ Fill(at[1], "bak", plan[at[1]])
  /\ Goto("rewrite", todo, at)
  /\ UNCHANGED <<archive, closed, memVars, plan, histVars>>

\* Mutant: the profile is rewritten without a look at its backup.
HasBackup_Assumed(p) ==
  /\ pc = "migrate" /\ <<p, "json">> \in todo
  /\ Goto("rewrite", todo, <<p, "json">>)
  /\ UNCHANGED <<diskVars, memVars, plan, histVars>>

\* A backup that is there is kept, whatever it holds.
HasBackup(p) ==
  /\ pc = "migrate" /\ <<p, "json">> \in todo
  /\ files[p]["bak"] # NoFile
  /\ Goto("rewrite", todo, <<p, "json">>)
  /\ UNCHANGED <<diskVars, memVars, plan, histVars>>

Rewrite ==
  /\ pc = "rewrite" /\ files[at[1]] # NoFiles
  /\ Truncate(at[1], "json")
  /\ risked' = IF at[1] \in touched THEN risked \cup {at[1]} ELSE risked
  /\ Goto("write", todo, at)
  /\ UNCHANGED <<archive, closed, memVars, plan, saved, touched>>

Rewritten ==
  /\ pc = "write"
  /\ Fill(at[1], "json", <<"v2", plan[at[1]][2]>>)
  /\ Goto("migrate", todo \ {at}, Nothing)
  /\ UNCHANGED <<archive, closed, memVars, plan, histVars>>

Migrated ==
  /\ pc = "migrate" /\ todo = {}
  /\ Goto("migrated", {}, Nothing)
  /\ UNCHANGED <<diskVars, memVars, plan, histVars>>

-----------------------------------------------------------------------------
\* backup create truncates the archive if --output names one that exists.
BeginBackup ==
  /\ Begin("archive", Existing)
  /\ archive' = [p \in Profiles |-> NoFiles]
  /\ closed' = FALSE

\* A file is archived as it is, torn or not; where it is gone by now the command stops.
ArchiveFile(p, k) ==
  /\ pc = "archive" /\ <<p, k>> \in todo
  /\ files[p][k] # NoFile
  /\ archive' = [archive EXCEPT ![p][k] = files[p][k]]
  /\ todo' = todo \ {<<p, k>>}
  /\ UNCHANGED <<files, closed, memVars, pc, plan, at, commands, histVars>>

\* The end of the archive is written by deferred calls whose errors nobody sees, also
\* after a failure.
Archived ==
  /\ pc = "archive"
  /\ closed' \in BOOLEAN
  /\ Exit
  /\ UNCHANGED <<files, archive, memVars, histVars>>

BeginRestore ==
  /\ Begin("extract", {x \in Profiles \X Kinds : archive[x[1]][x[2]] # NoFile})
  /\ UNCHANGED <<archive, closed>>

\* Mutant: what exists already is not overwritten.
Extract_KeepsExisting(p, k) ==
  /\ pc = "extract" /\ <<p, k>> \in todo
  /\ IF files[p][k] = NoFile
       THEN Truncate(p, k) /\ Goto("unpack", todo, <<p, k>>)
       ELSE UNCHANGED files /\ Goto("extract", todo \ {<<p, k>>}, Nothing)
  /\ risked' = risked \cup {p}
  /\ UNCHANGED <<archive, closed, memVars, plan, saved, touched>>

Extract(p, k) ==
  /\ pc = "extract" /\ <<p, k>> \in todo
  /\ Truncate(p, k)
  /\ Goto("unpack", todo, <<p, k>>)
  /\ risked' = risked \cup {p}
  /\ UNCHANGED <<archive, closed, memVars, plan, saved, touched>>

Extracted ==
  /\ pc = "unpack"
  /\ Fill(at[1], at[2], archive[at[1]][at[2]])
  /\ Goto("extract", todo \ {at}, Nothing)
  /\ UNCHANGED <<archive, closed, memVars, plan, histVars>>

\* An archive without its end is noticed only now: the command stops.
Restored ==
  /\ pc = "extract" /\ todo = {}
  /\ closed
  /\ Goto("restored", {}, Nothing)
  /\ UNCHANGED <<diskVars, memVars, plan, histVars>>

\* The profiles about which nothing is claimed any more: those whose .v1.bak was cut
\* short, that were restored, or that migrate rewrote from what it had read before the
\* server changed them.
Risk(p) == risked' = risked \cup {p}

\* The command is done, fails or is killed.
Stop ==
  /\ pc # "idle"
  /\ Exit
  /\ IF pc = "back up" THEN Risk(at[1]) ELSE UNCHANGED risked
  /\ UNCHANGED <<diskVars, memVars, saved, touched>>

Next ==
  \/ StartServer \/ StopServer
  \/ \E p \in Profiles, r \in New : Update(p, r) \/ Create(p, r)
  \/ \E p \in Profiles : Delete(p) \/ PlanProfile(p) \/ BackUp(p) \/ HasBackup(p)
  \/ BeginMigration \/ Planned \/ BackedUp \/ Rewrite \/ Rewritten \/ Migrated
  \/ BeginBackup \/ Archived \/ BeginRestore \/ Extracted \/ Restored
  \/ \E p \in Profiles, k \in Kinds : ArchiveFile(p, k) \/ Extract(p, k)
  \/ Stop

Spec == Init /\ [][Next]_vars

-----------------------------------------------------------------------------
\* CHANGELOG.md:139 "migrate legacy profile JSON safely": wherever a migration is cut
\* short, and however often it is tried again, nothing tears a profile that is not whole in
\* its .v1.bak, and that backup stays as long as the profile is torn.
OriginalKept ==
  [][\A p \in Profiles \ risked' :
       /\ files'[p]["json"] = Torn => files'[p]["bak"] \in Whole
       /\ files[p]["json"] \in Whole /\ files'[p]["json"] = Torn => files'[p]["bak"] = files[p]["json"]
       /\ files[p]["json"] = Torn /\ files'[p]["json"] = Torn => files'[p]["bak"] = files[p]["bak"]]_vars

\* What the server has stored last is what the next start will load, whatever migrations
\* and backups ran, or were cut short, beside it.
SavedIsKept ==
  \A p \in Profiles \ risked : saved[p] # NoFile => files[p]["json"] = saved[p]

\* A migration that reports success leaves no profile that would keep the server from
\* starting or that it would not load, also after others were cut short.
MigratedLoads ==
  pc = "migrated" => \A p \in Profiles : files[p]["json"] \in ({"v2"} \X Revs) \cup {NoFile}

\* A restore that reports success has brought every archived file back, whatever was torn
\* or missing before, unless the server changed the profile meanwhile.
RestoredIsArchived ==
  pc = "restored" => \A p \in Profiles \ touched, k \in Kinds :
    archive[p][k] # NoFile => files[p][k] = archive[p][k]
=============================================================================
