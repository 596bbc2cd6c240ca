--------------------------- MODULE RuntimeInstall ---------------------------
(***************************************************************************)
(* How a browser runtime gets into browsers/<id> and into service: the     *)
(* downloaders of browser/download.go, ensureRuntime and the config it     *)
(* writes in cmd/server/main.go, and the commands init and browsers        *)
(* install.  One process at a time works on the directory; it may fail or  *)
(* be killed between any two steps, and BrowseForge itself may be replaced *)
(* by a version that expects another runtime.                              *)
(*                                                                         *)
(* A place is the directory itself (Top) or the folder that the archive of *)
(* a version wraps its contents in.  Of each part of a runtime a place     *)
(* holds nothing (0), a finished copy of version v (v) or an unfinished    *)
(* one (-v).                                                               *)
(***************************************************************************)
EXTENDS Integers, FiniteSets

CONSTANTS
  MaxVersion,  \* runtime versions are 1..MaxVersion, as BrowseForge comes to expect them
  Parts, Binary, Dirs,   \* what an archive holds; its executable; the parts that are directories
  Runtimes,
  Wrapped,     \* the runtimes whose archives hold one folder
  Default,     \* those enabled when the config does not say
  Listed       \* those that the default config mentions

ASSUME InstallAssumption ==
  /\ MaxVersion \in Nat
  /\ Binary \in Parts
  /\ Dirs \subseteq Parts
  /\ Wrapped \subseteq Runtimes

Versions == 1..MaxVersion
Top == 0
Places == 0..MaxVersion
NoPath == -1
Broken == -2   \* config.json cannot be decoded

VARIABLES
  runtime,     \* which runtime this is about
  files,       \* what is in each place
  marker,      \* the version in .version, 0 without one
  config,      \* binary_path in config.json: the place of the binary
  enabled,     \* enabled in config.json: "unset", "on" or "off"
  pc, mode,    \* what the process does: serve, serve with updates off (pinned), install
  expected,    \* the version it was built for
  todo,        \* the parts it still has to extract, or to move up
  at,          \* the part it is writing, or the folder it is emptying
  path,        \* the binary it will use
  seen,        \* the versions that any process so far was built for
  disturbed    \* a process went back to an earlier version, or somebody removed the binary

diskVars == <<files, marker>>
confVars == <<config, enabled>>
callVars == <<pc, mode, expected, todo, at, path>>
vars     == <<runtime, diskVars, confVars, callVars, seen, disturbed>>

TypeOK ==
  /\ runtime \in Runtimes
  /\ files \in [Places -> [Parts -> -MaxVersion..MaxVersion]]
  /\ marker \in Places
  /\ config \in Places \cup {NoPath, Broken}
  /\ enabled \in {"unset", "on", "off"}
  /\ pc \in {"idle", "decide", "download", "extract", "write", "flatten", "find",
             "configure", "serving"}
  /\ mode \in {"serve", "pinned", "install"}
  /\ expected \in Places
  /\ todo \in SUBSET Parts
  /\ pc = "write" => at \in Parts
  /\ pc = "flatten" => at \in Versions
  /\ path \in Places \cup {NoPath}
  /\ seen \in SUBSET Versions
  /\ disturbed \in BOOLEAN
  /\ pc # "idle" => expected \in seen

Empty == [f \in Parts |-> 0]

Init ==
  /\ runtime \in Runtimes
  /\ files = [q \in Places |-> Empty]
  /\ marker = 0
  /\ config = NoPath
  /\ enabled = "unset"
  /\ pc = "idle"
  /\ mode = "serve"
  /\ expected = 0
  /\ todo = {}
  /\ at = Top
  /\ path = NoPath
  /\ seen = {}
  /\ disturbed = FALSE

-----------------------------------------------------------------------------
\* Mutant: the folders of unflattened archives are not searched.
FindBinary_TopOnly == {q \in {Top} : files[q][Binary] # 0}

\* Where an executable is found, the directory itself before the folders.
FindBinary ==
  IF files[Top][Binary] # 0 THEN {Top} ELSE {v \in Versions : files[v][Binary] # 0}

\* The binary that ensureRuntime takes from the config, or else looks for.
Existing ==
  IF config \in Places /\ files[config][Binary] # 0 THEN {config} ELSE FindBinary

Enabled == IF enabled = "unset" THEN runtime \in Default \/ config # NoPath ELSE enabled = "on"

Target == IF runtime \in Wrapped THEN expected ELSE Top

\* The subdirectories that flattenSingleSubdir counts.
Folders == {v \in Versions : files[v] # Empty}
TopDirs == {f \in Dirs : files[Top][f] # 0}

Exit ==
  /\ pc' = "idle"
  /\ mode' = "serve"
  /\ expected' = 0
  /\ todo' = {}
  /\ at' = Top
  /\ path' = NoPath

-----------------------------------------------------------------------------
\* A BrowseForge built for version v is started or runs a command.
Start(m, v) ==
  /\ pc = "idle"
  /\ m # "install" => config # Broken
  /\ pc' = "decide"
  /\ mode' = m
  /\ expected' = v
  /\ seen' = seen \cup {v}
  /\ disturbed' = (disturbed \/ \E u \in seen : v < u)
  /\ UNCHANGED <<runtime, diskVars, confVars, todo, at, path>>

Disabled ==
  /\ pc = "decide"
  /\ mode # "install"
  /\ ~Enabled
  /\ path' = config
  /\ pc' = "configure"
  /\ UNCHANGED <<runtime, diskVars, confVars, mode, expected, todo, at, seen, disturbed>>

UseInstalled ==
  /\ pc = "decide"
  /\ mode # "install"
  /\ Enabled
  /\ marker = expected \/ mode = "pinned"
  /\ \E q \in Existing : path' = q
  /\ pc' = "configure"
  /\ UNCHANGED <<runtime, diskVars, confVars, mode, expected, todo, at, seen, disturbed>>

PinnedWithoutBinary ==
  /\ pc = "decide"
  /\ mode = "pinned"
  /\ Enabled
  /\ Existing = {}
  /\ Exit
  /\ UNCHANGED <<runtime, diskVars, confVars, seen, disturbed>>

AlreadyInstalled ==
  /\ pc = "decide"
  /\ mode = "install"
  /\ marker = expected
  /\ FindBinary # {}
  /\ Exit
  /\ UNCHANGED <<runtime, diskVars, confVars, seen, disturbed>>

Download ==
  /\ pc = "decide"
  /\ \/ mode = "serve" /\ Enabled /\ (marker # expected \/ Existing = {})
     \/ mode = "install" /\ (marker # expected \/ FindBinary = {})
  /\ pc' = "download"
  /\ UNCHANGED <<runtime, diskVars, confVars, mode, expected, todo, at, path, seen, disturbed>>

\* Mutant: the version marker is written before the archive is extracted.
Downloaded_MarksEarly ==
  /\ pc = "download"
  /\ pc' = "extract"
  /\ todo' = Parts
  /\ marker' = expected
  /\ UNCHANGED <<runtime, files, confVars, mode, expected, at, path, seen, disturbed>>

Downloaded ==
  /\ pc = "download"
  /\ pc' = "extract"
  /\ todo' = Parts
  /\ UNCHANGED <<runtime, diskVars, confVars, mode, expected, at, path, seen, disturbed>>

ExtractPart(f) ==
  /\ pc = "extract"
  /\ f \in todo
  /\ files' = [files EXCEPT ![Target][f] = -expected]
  /\ at' = f
  /\ pc' = "write"
  /\ UNCHANGED <<runtime, marker, confVars, mode, expected, todo, path, seen, disturbed>>

PartExtracted ==
  /\ pc = "write"
  /\ files' = [files EXCEPT ![Target][at] = expected]
  /\ todo' = todo \ {at}
  /\ at' = Top
  /\ pc' = "extract"
  /\ UNCHANGED <<runtime, marker, confVars, mode, expected, path, seen, disturbed>>

\* Mutant: the extraction ends with the first file it could write.
NothingToFlatten_Early ==
  /\ pc = "extract"
  /\ todo # Parts
  /\ runtime \in Wrapped => Cardinality(Folders) + Cardinality(TopDirs) # 1
  /\ pc' = "find"
  /\ UNCHANGED <<runtime, diskVars, confVars, mode, expected, todo, at, path, seen, disturbed>>

\* Only the BrowseForge Chromium archive is flattened, and only when its folder
\* is the one subdirectory there is.
NothingToFlatten ==
  /\ pc = "extract"
  /\ todo = {}
  /\ runtime \in Wrapped => Cardinality(Folders) + Cardinality(TopDirs) # 1
  /\ pc' = "find"
  /\ UNCHANGED <<runtime, diskVars, confVars, mode, expected, todo, at, path, seen, disturbed>>

FlattenFolder(v) ==
  /\ pc = "extract"
  /\ todo = {}
  /\ runtime \in Wrapped
  /\ Folders = {v}
  /\ TopDirs = {}
  /\ at' = v
  /\ todo' = {f \in Parts : files[v][f] # 0}
  /\ pc' = "flatten"
  /\ UNCHANGED <<runtime, diskVars, confVars, mode, expected, path, seen, disturbed>>

\* The rename of the last part and the removal of the folder are one step: a folder
\* without parts counts as gone.
MoveUp(f) ==
  /\ pc = "flatten"
  /\ f \in todo
  /\ files' = [files EXCEPT ![Top][f] = files[at][f], ![at][f] = 0]
  /\ todo' = todo \ {f}
  /\ UNCHANGED <<runtime, marker, confVars, pc, mode, expected, at, path, seen, disturbed>>

\* All is moved, or a rename failed, of which the caller only warns.
Flattened ==
  /\ pc = "flatten"
  /\ pc' = "find"
  /\ todo' = {}
  /\ at' = Top
  /\ UNCHANGED <<runtime, diskVars, confVars, mode, expected, path, seen, disturbed>>

\* The error of writing the marker is ignored, whether the file was truncated or not.
Install ==
  /\ pc = "find"
  /\ marker' \in {expected, marker, 0}
  /\ \/ /\ mode = "install"
        /\ FindBinary # {}
        /\ Exit
     \/ /\ mode # "install"
        /\ \E q \in FindBinary : path' = q
        /\ pc' = "configure"
        /\ UNCHANGED <<mode, expected, todo, at>>
  /\ UNCHANGED <<runtime, files, confVars, seen, disturbed>>

\* The server has decided on every runtime and saves what changed.
WriteConfig ==
  /\ pc = "configure"
  /\ config' = path
  /\ enabled' = IF Enabled THEN "on" ELSE "off"
  /\ pc' = "serving"
  /\ UNCHANGED <<runtime, diskVars, mode, expected, todo, at, path, seen, disturbed>>

\* os.WriteFile truncates the file before it writes.
WriteConfigBreaks ==
  /\ pc = "configure"
  /\ config' = Broken
  /\ Exit
  /\ UNCHANGED <<runtime, diskVars, enabled, seen, disturbed>>

\* An error ends the process, as a kill does.
Stop ==
  /\ pc # "idle"
  /\ Exit
  /\ UNCHANGED <<runtime, diskVars, confVars, seen, disturbed>>

\* The command init writes the default config, here or with --force over another.
WriteDefaultConfig ==
  /\ pc = "idle"
  /\ IF runtime \in Listed
       THEN /\ config' \in IF FindBinary = {} THEN {NoPath} ELSE FindBinary
            /\ enabled' = IF FindBinary = {} THEN "off" ELSE "on"
       ELSE config' = NoPath /\ enabled' = "unset"
  /\ UNCHANGED <<runtime, diskVars, callVars, seen, disturbed>>

\* Something else (a virus scanner, a user) removes the executable.
BinaryRemoved ==
  /\ pc \in {"idle", "serving"}
  /\ \E q \in FindBinary : files' = [files EXCEPT ![q][Binary] = 0]
  /\ disturbed' = TRUE
  /\ UNCHANGED <<runtime, marker, confVars, callVars, seen>>

Next ==
  \/ \E m \in {"serve", "pinned", "install"}, v \in Versions : Start(m, v)
  \/ Disabled \/ UseInstalled \/ PinnedWithoutBinary \/ AlreadyInstalled
  \/ Download \/ Downloaded
  \/ \E f \in Parts : ExtractPart(f) \/ MoveUp(f)
  \/ PartExtracted
  \/ NothingToFlatten \/ \E v \in Versions : FlattenFolder(v)
  \/ Flattened \/ Install
  \/ WriteConfig \/ WriteConfigBreaks
  \/ Stop \/ WriteDefaultConfig \/ BinaryRemoved

Spec == Init /\ [][Next]_vars

-----------------------------------------------------------------------------
\* A server that updates its runtime goes into service with a complete runtime of
\* the version it was built for, whatever downloads, extractions, markers or crashes
\* went wrong before: so it is for camoufox and cloakbrowser, extracted in place, as
\* long as nobody goes back to an earlier version or removes the binary.
ServesWhole ==
  pc \in {"configure", "serving"} /\ mode = "serve" /\ Enabled /\ ~disturbed /\ runtime \notin Wrapped
    => path = Top /\ \A f \in Parts : files[Top][f] = expected

\* As long as no second version was ever expected, the executable it uses is
\* complete, also when an archive was extracted, flattened or both several times.
ServesBinary ==
  pc \in {"configure", "serving"} /\ mode = "serve" /\ Enabled /\ ~disturbed /\ seen = {expected}
    => path \in Places /\ files[path][Binary] = expected

\* An installation that meets no error finds an executable, whatever earlier ones
\* have left in the directory.
FindsBinary == pc = "find" => FindBinary # {}

\* download.go:20 "bump these to trigger auto-update": a server that has served before
\* and updates its runtime goes on with the version it was built for.
UpgradeTakesEffect ==
  pc = "configure" /\ mode = "serve" /\ Enabled /\ ~disturbed /\ config = Top /\ marker = expected
    => path \in Places /\ files[path][Binary] = expected
=============================================================================
