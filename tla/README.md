# BrowseForge in TLA+

BrowseForge runs one browser per *profile* (a persistent user data directory with
a fingerprint and a proxy) and lets a dashboard, a REST API, a workflow engine
and MCP agents drive those browsers. This directory holds TLA+ modules for the
parts of the program where concurrency, failure and retry meet, the TLC
configurations that check them on small instances, and TLAPS proofs that hold for
every number of callers, profiles, browsers, processes and files.

Paths below are relative to `src/internal/` unless they start with another
directory; `cmd/server/` is `src/cmd/server/`.

## Inventory

| Component | State it keeps | Operations | Hard behaviour |
|---|---|---|---|
| Browser manager (`browser/manager.go`) | `sessions` by session ID, the Playwright driver `pw`, one mutex | `LaunchSession`, `CloseSession`, `Close`, look-ups | the mutex is held across launches, retries and driver restarts; a restart takes down every profile's browser |
| Launchers (`browser/launch_*.go`) | none of their own: a context, a relay, files in the profile directory | `launchChromium`, `launchFirefox` | five error paths after something was started; a fallback that restarts the driver inside a retry that restarts the driver |
| SOCKS5 relay (`browser/socks5relay.go`) | a listener, its handlers | `StartSOCKS5Relay`, `Close` | `Close` waits for every open connection |
| Agent session pool (`mcp/web_session_pool.go`, `web_search.go`, `web_tools.go`) | a pool per profile: connection, pages | create, get, search, explore, destroy, collect, close all | three kinds of locks, some held across network calls; decisions used after their lock is gone |
| MCP server, tools, tabs (`mcp/server.go`, `advanced_tools.go`) | `Session.Page`, shared and unlocked | some forty tools | tabs written without a lock; page tools that bypass the session mutex |
| Profile store (`profile/store.go`) | profiles in memory, one directory and `profile.json` each | create, update, delete, duplicate, load | memory changed before the disk; live pointers handed out |
| Group store (`groups/store.go`) | groups in memory and `groups.json` | upsert, clear, import, `EffectiveProxy` | memory changed before the disk; a group deleted in three separate steps |
| REST API (`api/*.go`) | none of its own | profiles, groups, sessions, backup, restore, artifacts | check-then-act over both stores and the manager; partial restores |
| Screenshot artifacts (`mcp/screenshot_artifacts.go`) | items in memory, two files each | save, get, clean up | a kill or an ignored error between the two files; several processes clean up one directory |
| Workflow engine (`workflow/engine.go`) | variables and results of one run | execute, retry, skip | retries of calls that may have taken effect; other clients of the same tabs |
| Runtime registry (`runtime/runtime.go`) | descriptors | resolve, apply defaults | aliases and defaults |
| Runtime installer (`browser/download.go`) | `browsers/<id>` and a version marker | download, extract, flatten, mark, find | a kill between any two steps, leftovers of the previous version |
| Configuration (`config/config.go`) | `config.json` | load, apply defaults, save | a write that truncates first; defaults that depend on what is installed |
| Server process and CLI (`cmd/server`) | the order of start-up and shutdown | run, `init`, `browsers install`, `migrate profiles`, `backup create`, `backup restore --full` | a runtime replaced in place; files rewritten in place beside a running server; handlers that outlive the five seconds of `Shutdown` |
| Fingerprints and geo, humanize | data files, parameters | pick, look up; curves | random draws, network look-ups, floating point |

How they interact. Every tool and handler that needs a browser calls
`Manager.LaunchSession` or looks a session up with `GetSession`. The agent pool
connects to the endpoint of a manager's session and opens its own pages there;
the manager does not know of the pool, so a browser can die, be closed by REST,
or be replaced behind the pool's back. REST page handlers, profile tools and the
workflow engine (which calls REST) share one `Session.Page` per browser. The
launchers ask the group store for the effective proxy. The stores do not know of
running browsers. Relays belong to the manager's sessions. The commands of the
CLI work on the files of the stores and of the installer without asking whether
a server runs.

What makes each correct: one browser per user data directory, nothing left
running that nobody can find, and a mutex that comes back (manager); no page
lost, closed under its user or kept for ever, and a cap that holds (pool); an
active tab that is open (tabs); a result that names what was created and fails
for a reason (workflow); memory, disk and the next start agree (stores,
artifacts, installer); no profile lost by a command that was cut short
(migration, restore); a deleted group leaves nothing behind (API).

## Modules

| Module | Models |
|---|---|
| `ProfileOwnership` | abstract: who holds a profile's user data directory and what is published |
| `SessionTable` | abstract: which profiles have a session, and the one that is being launched |
| `AgentPages` | abstract: the life of an agent page, from its opening to its closing, and who navigates it |
| `StoredMap` | abstract: a map in memory and what of it is on disk |
| `ExpiringStore` | abstract: what can be fetched, and what has expired |
| `BrowserManager` | manager, launchers, driver, relays; implements `ProfileOwnership` and `SessionTable` |
| `SessionPool` | the agent session pool, its tools and collector; implements `AgentPages` |
| `Catalog` | profile store, group store, and the REST and MCP handlers that write to them; implements `StoredMap` twice |
| `RuntimeInstall` | installer, runtime part of the configuration, `ensureRuntime`, `init`, `browsers install` |
| `Artifacts` | the screenshot store, as several processes share its directory; implements `ExpiringStore` |
| `Tabs` | the tabs of running browsers, the tab tools and page operations |
| `Workflow` | the engine, and the profiles, browsers and tabs (`EXTENDS Tabs`) its requests meet |
| `Maintenance` | `migrate profiles`, full backup and restore, beside the server's profile store |
| `Routing` | which proxy a running browser uses: launches against changes of policies, and the deletion of profiles and groups; implements `SessionTable` |
| `BrowserManagerProofs`, `SessionPoolProofs`, `CatalogProofs`, `RuntimeInstallProofs`, `ArtifactsProofs`, `WorkflowProofs`, `MaintenanceProofs`, `RoutingProofs` | the theorems of each |
| `MCBrowserManager`, `MCSessionPool`, `MCCatalog`, `MCRuntimeInstall`, `MCArtifacts`, `MCWorkflow`, `MCMaintenance`, `MCRouting` | model constants and symmetry for TLC |

An operator such as `Replace_Itself`, beside the definition it is named after and
commented as a mutant, is a plausible bug that some property was seen to catch; no
specification uses it.

### BrowserManager

One element of `Browsers` is one persistent context the manager tried to open,
with its process (`proc`), the profile whose directory it runs on (`owner`), the
driver it hangs from (`fresh`: the one `Manager.pw` holds now), its relay and a
connection through that relay (`tunnel`). `sessions` is keyed by profile, since a
session's ID is `"sess_" + profile ID`. A caller's `pc` follows
`LaunchSession`: `existing` (look-up and health check), `launch` (everything
before a browser starts), `open` (`LaunchPersistentContext`), `post` (init
scripts, first page), `discard` (closing the context after the relay), `bind`
(bind and health check), `failed`, `fallback` (safe-GPU path of
`launchChromium`), `retry` (driver restart of `LaunchSession`), `closing` and
`shutdown`. Each disjunct of `CallStep` is one code path between two points
where something else may happen.

`relay.Close` closes the listener and then waits for its handlers. The callers
that wait do so with `Manager.mu` held, so the model needs no list of them:
`Waiting` is the set of closed relays with an open tunnel, and `CallStep` is
disabled while it is not empty. Failures are of three kinds, as far as the code
tells errors apart: `plain`, `transient` (protocol EOF, target closed) and `gpu`.

`LossyClose` covers what the code ignores: `Context.Close` and `Playwright.Stop`
return errors that are only logged, so with `LossyClose = TRUE` a close may leave
the process running. `OneBrowserPerProfile` and `NoOrphanBrowser` hold only where
closing works, and say so; the other properties hold either way.

Two abstract specifications. `ProfileOwnership` is about processes and directories.
`SessionTable` is what everybody else sees: `launching` is the profile of the call
between `existing` and its end, `listed` the keys of `sessions`. `CallsAdvance` orders
the places of a call (`Place`, and `Stage` over its attempts and fallbacks): each step
of a call lowers its `Stage`, or shortens the list of sessions it has to close.

### SessionPool

`pools`, `connectURL`, `browser` (not nil), `members`, `page` and the three kinds of
mutexes (`spMu`, `poolMu`, `sMu`) are the fields of `SessionPool`,
`ProfileSessionPool` and `WebSession`. `idle` stands for "LastAccessed is at
least `idleTTL` old". The manager appears as the pool sees it: `current`, the
endpoint of each profile's session, and `alive`, the endpoints that still answer;
it may crash, be closed by REST and be launched again at any time. A caller's
`pc` follows `CreateSession`/`ensureProfilePool` (`ensure`, `lock`, `connect`,
`create`, `newPage`), `WebSearch`/`WebExplore` (`use`, `navigate`), a page tool
with a `session_id` (`tool`), the closing of pages (`drain`) and the collector
(`scan`). A mutex that is held and released between two steps is a guard that it
is free; one held across a call into the browser is a variable that stays set.

`GetSession` walks a snapshot of the pools, so it can find a session in a pool that
has already left the map: `Found` ranges over every pool. Endpoint addresses,
pool objects and session IDs are random or fresh in the code; here they are
reused once nothing refers to them. `ListSessions` changes nothing and is left
out. `Waits` says which mutex a call is waiting for; `Advances`, that a call gets to a
later place, or has fewer pools to empty, sessions to examine or pages to close. For
`AgentPages` an open page is *offered* while its session is in a pool of the map and
*leaving* once it is not; `user` is the session's mutex. `GetOrCreateDefaultProfile` is one more caller of `Store.Create` in `Catalog`.

### Catalog

`profiles` and `groups` are the maps of the two stores, `files` and `groupsFile` what
a start would load. Of a profile the model keeps the group, which deletion is
about, and the runtime, which updates write back; of a group its mode, `NoMode` for
a group that is not in the map. A store method runs under the store's mutex and
replaces its file by a rename, so it is one step that either saves or does not,
and a crash within it is a crash before or after. What the code does to memory when
the save fails is part of that step: `Create` leaves the map alone (`CreateFailed`),
`Update` has already merged (`UpdateFailed`), `Upsert`, `ClearProxy` and `Import` have
already changed the map, `Delete` forgets the profile although its file is still
there.

The handlers take one step for each call they make, so others run in between:
`GetForUpdate` and `UpdateProfile`, `CopyProfile` and `DuplicateProfile`, `Restore`
(the groups) and `RestoreProfile` (each profile), `DeleteGroup` (list),
`OtherGroup`/`SameGroup` (look at one profile), `Ungroup` (update it), `ClearGroup`.
The deletion holds the profiles it has listed by pointer; `gone` are those that have
left the store or were replaced, whose group it may then see either way. `Restart`
stands for a kill or a shutdown and the next start, at any point. `last`, `stored`,
`failed` and `joined` are history: how the last call about a profile ended and with
what, whether something failed since the start, and whether a profile came into a
group while it was being deleted.

Each store implements `StoredMap`: `shown` is its map, `saved` its files. The profiles are
saved one by one, the groups in one file (`OneFile`), whose next save therefore also
writes what an earlier one could not.

Left out: the refusal to delete a group with active sessions (it is in `Routing`),
bodies that rewrite `id` or `profile_dir` in an update, torn reads of one profile, and files edited by hand.

### RuntimeInstall

A behaviour is about one runtime, any of `Runtimes`. `browsers/<id>` has *places*: the
directory itself (`Top`) and, for each version, the folder that the archive of that
version wraps its contents in (`Wrapped`: BrowseForge Chromium). Of each part of a
runtime (`Binary` is the executable, `Dirs` those that are directories) a place holds
nothing (0), a finished copy of version v (`v`) or an unfinished one (`-v`).
`marker` is `.version`, `config` and `enabled` are what `config.json` says of the
runtime, `Broken` if it was truncated and not written again.

One process at a time runs, for a version `expected` that it was built for: `serve`
(start of the server through `ensureRuntime`), `pinned` (the same with updates
switched off) or `install` (`browsers install`). `Start`, then one of `Disabled`,
`UseInstalled`, `PinnedWithoutBinary`, `AlreadyInstalled` or `Download`; extraction
part by part (`ExtractPart`, `PartExtracted`); `flattenSingleSubdir` as
`FlattenFolder`, a `MoveUp` for each rename and `Flattened`, or `NothingToFlatten`;
`Install` (the marker, whose error is ignored, and `FindBinary`); `WriteConfig`.
`Stop` ends the process at any of these points, `WriteDefaultConfig` is `init`.
`seen` and `disturbed` are history: which versions were ever expected, and whether a
process went back to an earlier one or something else removed the executable.

### Artifacts

`data` and `record` are the IDs with a `.bin` and a `.json` file; each process has its
own `items` map and mutex, and is in at most one call that holds it. Both files are
written aside and renamed, so each is there or not. `Save` fixes the ID and the
reading of the clock (`now`: what has expired for this call), then cleans up as
`cleanupExpiredLocked` does (`ForgetExpired` over the items, `ListRecords`,
`KeepRecord`/`DropRecord` over the directory) and writes both files. A record that is
there and cannot be read or decoded is removed like an expired one (`DropUnread`,
remembered in `unread`). A removal takes the data first and the record in another step
(`victim`); the code ignores the errors of `os.Remove`, so either may stay
(`DeleteData`, `RemoveRecord`), also when a save that could not write its record takes
its data back. `get` is `ServeExpired`, or `ServeFromDisk` and `ReadData`; serving an
item in memory, or failing to read a record, changes nothing. `Kill` ends a process
anywhere. `dataLeft` and `recordLeft` are history: the files that a kill, or a failed
removal of this very file, has left. For `ExpiringStore` a screenshot is `available`
when both of its files are there; it may go once it has expired or was found unreadable.

### Tabs and Workflow

`tabs` is `Context.Pages()` of each running browser and `page` its `Session.Page`.
The tools take the steps that other calls can come between: `NewTab` then `UseTab`;
`SwitchTab` (pick by index) then `UseTab`; `PickToClose`, `CloseTab`, then
`Replace` and `UseTab`, or `NoReplacement`. Every other page operation is `TakePage`
(look up the session, read `Session.Page`) and `Operated`; `TakePageAgain` is the
second read of a click with a timeout and of typing with `clear`. Sites open pop-ups
and close tabs. `lost` are the profiles whose active tab, or a tab about to become
it, was closed by somebody else; `PageIsOpen` claims nothing of those.

`Workflow` adds `Execute`: `NextStep` resolves the profile a step names, each attempt
is one request, served by the server's handler (`ServeCreate`, `ServeOpen`,
`ServePage`/`PageServed`, `ServeClose`), answered by an error (`NotFound`,
`Refused`), or broken off before (`ConnectionBreaks`) or after (`AnswerLost`) it took
effect; then `Succeeded`, `TryAgain` or `Failed`, with `on_error` choosing whether the
run goes on. A workflow is any sequence of steps, so `NextStep` chooses freely.
`Others` are the tab and page tools of other clients and their launches, closings,
creations and deletions. `excuse` becomes true when an answer is lost, the server
refuses, or others take away what the run opened; `made` and `opened` are what the run
has created without naming it, and what it holds open.

### Maintenance

`files` are `profile.json` and `profile.json.v1.bak` of each profile, each absent,
`Torn`, or a schema (`v1`: engine only, `both`: engine and runtime_id, `v2`, `odd`: an
engine the migration does not know) with a revision that stands for the rest of the
contents. The commands write with `os.WriteFile` and `os.OpenFile`, which truncate
first: `BackUp`/`BackedUp`, `Rewrite`/`Rewritten`, `Extract`/`Extracted` are the two
halves of such a write, and `Stop` may come between them. `PlanProfile` reads all
profiles before any is written, `HasBackup` keeps a backup that exists. `ArchiveFile`
and `Archived` write a full backup, whose end is written by deferred calls (`closed`).
The server starts if no whole profile is of v1 (`StartServer`), and its `Update`,
`Create` and `Delete` replace files by renames while a command runs; what a command
then writes goes to the file it has opened (`Fill`). `saved`, `touched` and `risked`
are history, the last one being the profiles of which nothing is claimed: a backup
cut short, a restore in progress or cut short, or a profile that migrate rewrites
after the server changed it.

### Routing

The composition of the manager with the two stores and the handlers that ask both.
A session is reduced to its route, the proxy that the launch has read. A launch
(`pc` = `launch`, `proxy`, `start`) holds `mu` from its look-up to the end; `ReadPolicy`
and `ReadProxy` are the two reads of `EffectiveProxy`, which updates of the profile may
come between, `SafeGpuFallback` goes on with what was read, `RetryLaunch` reads again.
`ChangePolicy`, `ListSessions` and `Answer` are the change of a group's policy and the
`active_sessions` and `restart_required` of its answer; the MCP tools count once more
for the text. `DeleteGroup`, `ListSessions`, `Refuse` or `ListProfiles`,
`OtherGroup`/`SameGroup`, `Ungroup`, `ClearGroup` are deleteGroup. `DeleteTool` and
`Deleted` are delete_profile, which closes the browser first; `DeleteProfile` is the
deletion by REST, which does not.

History: `excused` are the profiles whose browser somebody knows to be outdated, or
could (their proxy or group was changed for them alone, or the answer counted them),
since their last launch began; `late` those whose launch began when the deletion of
their group had already counted sessions (`Deleting`), which nobody is told of;
`overtaken` deleted profiles that another call opened meanwhile, or that REST deleted.
`ChangePolicySilently` covers a restored backup and a failed save, whose answers say
nothing of browsers. How launches fail and what they leave is in `BrowserManager`; that
both modules implement `SessionTable`, the one with contexts, attempts and relays and the
other with policies, is what ties this smaller picture of the manager to the larger one.

## Runs

| Run | Instance | Shows |
|---|---|---|
| `browser_manager` | 2 profiles (one behind an authenticated SOCKS5 proxy, both with the fallback), 2 callers, 3 contexts, closing works | type, `OneBrowserPerProfile`, `NoOrphanBrowser`, `RestartsBounded`, `CallsAdvance`, `ImplementsOwnership`, `ImplementsSessionTable` |
| `browser_manager_liveness` | 2 profiles, 1 caller, 2 contexts, closing may fail | `NoOrphanRelay`, `PublishedIsCurrent`, and `MutexReleased` under fairness |
| `session_pool` | 1 profile, collector and 2 callers, 2 endpoints, 3 pool objects, 2 sessions, cap 1 | type, `CapHeld`, `NoCircularWait`, `NoLostPage`, `LivePoolKept`, `CallsAdvance`, `ImplementsPages` |
| `session_pool_liveness` | 1 profile, collector and 1 caller, 2 pool objects | `CallsReturn`, `IdlePagesCollected` under fairness |
| `session_pool_panic` | 1 profile, 2 callers | violated: `NewPageHasBrowser` |
| `catalog` | 2 profile IDs, 1 group, 2 callers, backups of at most 1 profile | `CompletedIsKept`, `InSyncUntilFailure`, `GroupEmptied`, `ImplementsStores` |
| `runtime_install` | the 3 runtimes, one of them wrapped, 2 versions, 3 parts | `ServesWhole`, `ServesBinary`, `FindsBinary` |
| `runtime_upgrade` | the same with 1 part | violated: `UpgradeTakesEffect` |
| `artifacts` | 3 IDs, 2 processes | `AvailableUntilExpiry`, `OrphansHaveCause`, `ImplementsExpiringStore` |
| `workflow` | the engine and 2 other clients, 2 profiles, 2 pages, 1 variable, 2 attempts | type of the run, `PageIsOpen`, `CreatedIsReported`, `FailureHasCause` |
| `routing` | 1 profile, 1 group, 2 proxies, 3 callers | `OutdatedIsAnnounced`, `DeletedIsClosed`, `ImplementsSessionTable` |
| `maintenance` | 2 profiles, one revision of before and one that the server stores, at most 3 commands | `OriginalKept`, `SavedIsKept`, `MigratedLoads`, `RestoredIsArchived` |

What the manager, the pool, the stores and the artifacts promise is stated by an
abstract specification each, checked as a property of the detailed one, and what follows
from it is not checked again: `ImplementsPages` contains that no page is
closed under a search, `ImplementsExpiringStore` that only what has expired or cannot be
read is removed. The type invariants of the modules without one in the table, and
`MappedIsConnected` and `NavigatedPageOpen`, are theorems.

Why the bounds suffice.

* Manager: the callers exclude each other by one mutex, so a second caller only
  matters for what it finds when it gets the mutex, and a second profile for what a
  driver restart does to somebody else's browser; three contexts let a failed
  attempt, its retry and another profile's browser exist together.
* Pool: profiles share nothing but `sp.mu`, so one profile with two callers and the
  collector has every race over a pool; three pool objects allow one in the map, one
  being emptied and one being connected; two sessions with a cap of 1 put every
  creation next to the cap.
* Catalog: one profile can be in the deleted group and one outside it or joining it,
  each can be created, replaced, deleted and brought back, and two callers run any two
  handlers against each other; a backup of one profile already fails before, at or
  after its creation; one runtime is enough where no property reads it. `Ids` also
  bounds how many profiles `generateID` can name.
* Installer: runtimes do not share files, so each behaviour has one; two versions
  give every update and return, and three parts an archive that is cut short before,
  at and after its executable and has one or several directories.
* Artifacts: `used` makes IDs run out, since the code never reuses one; three let one
  expire, one be served and one be saved at a time, and two processes each clean up
  what the other works on.
* Workflow: two clients are enough for every overlap of two tab tools with the
  engine's page operation; with two attempts there is a retry; a second profile is
  what a repeated creation makes. Pages are reused once nothing refers to them.
* Maintenance: two profiles so that one is torn, odd or unmigrated while the
  other is rewritten or archived; three commands so that one may be cut short, a
  second one may be cut short elsewhere, and a third has to cope with both.

* Routing: whether a browser is outdated depends on its own profile and group only, so
  there is one of each; profiles in other groups are what this one is once it has left
  the group. Two proxies tell the old one from the new one, and three callers let a
  launch, a change of policy and a deletion overlap. That a launch of one profile drops
  the browsers of others needs a second profile, for which the proofs stand.

The proofs remove the bounds for the properties they cover. Deadlock is checked in
every run but `maintenance`, where the commands may be used up while a torn or v1
profile keeps the server down; elsewhere a call can always start.

### What the violated runs show

* `NewPageHasBrowser` - a pool emptied between `ensureProfilePool` and `pool.mu` has a
  nil browser, and `CreateSession` calls `NewPage` on it.
* `UpgradeTakesEffect` - an update of a runtime whose archive has one top-level folder
  extracts beside the files that the previous installation has moved up;
  `flattenSingleSubdir` then sees several directories and does nothing
  (browser/download.go:327), `FindBinary` returns the old executable, and the marker of
  the new version keeps every later start from trying again, unlike what
  browser/download.go:21 says.

## Known weaknesses

What the models contain and no property above claims, because the code does otherwise.
Where a document says something else it is named.

* Page tools given a `session_id` do not take the session's mutex, so they run beside
  a navigation (docs/session-arch-design.md:57). The collector judges a session idle
  under its mutex and closes it later, when it may just have been used
  (docs/session-arch-design.md:108).
* A group clearing whose save failed is answered with an error; the retry finds no
  such group in memory and reports success without saving, so the policy is enforced
  again after the next start (API.md:233).
* An update with a group or a proxy also writes the runtime that its handler read
  before `Update` took the lock, and so undoes a change of the runtime in between
  (API.md:132).
* During a retry the manager closes the other profiles' relays before it stops the
  driver their browsers run on; a tunnel that one of them keeps open blocks
  `relay.Close`, and with it the manager's mutex (CHANGELOG.md:202). `MutexReleased`
  therefore assumes that tunnels end.
* After a driver restart that failed `Manager.pw` is nil. The health check provides for
  that (browser/manager.go:225), the launchers dereference it
  (browser/launch_chromium.go:258, browser/launch_firefox.go:125): every later launch
  panics, and nothing starts the driver again.
* deleteGroup counts sessions once, before it changes anything (api/groups.go:110,
  mcp/server.go:545). A browser launched after the count keeps the proxy of the group
  that is gone, and the answer says that no restart is required (API.md:224). This is
  the exception `late` of `OutdatedIsAnnounced`.
* `init` writes `enabled: false` for a runtime that is not installed yet, and
  cmd/server/main.go:190 then leaves it disabled, so the start that is to download
  it does not (docs/platform-support.md:31).
* Migration (CHANGELOG.md:139): a `.v1.bak` that was cut short is kept for ever, and
  the profile is then rewritten without a copy. A torn `profile.json` makes every
  later migration refuse, while the v1 profiles that remain keep the server from
  starting; a server that does start passes torn profiles over without a word. A
  profile that has both an engine and a runtime_id, and that a running server changes
  after the migration has read it, is overwritten with what was read.
* `backup create` ignores the errors of its deferred closes, so an archive without its
  end is reported as written; a backup that failed leaves a partial archive that may
  be well formed.
* A kill while a wrapped runtime is being moved up leaves parts missing, and the next
  installation of the same version need not bring them up either; a server with
  updates switched off accepts a runtime that was extracted in part. `ServesWhole`
  claims neither.
* `config.json` is truncated before it is written; a kill in between keeps the next
  server from starting until `init --force`.
* Screenshot data without a record is never cleaned up, nor are `.tmp` files. A kill
  before the record is written leaves such data, and so does a removal that failed and
  whose error is ignored, after a save that could not write its record or of an
  expired screenshot (`OrphansHaveCause` says that nothing else does).
* A clean-up removes a screenshot whose record it cannot read, also for want of a file
  descriptor, although its URL is good until `expires_at` (API.md:777).
* `DELETE` of a profile ignores the error of `RemoveAll`: a profile that could not be
  removed is reported deleted and is back after the next start.
* The REST deletion of a profile leaves its browser running on a directory that was
  removed; `close_browser` still finds it, `DeletedIsClosed` excepts it.
* A restored backup changes the policies of groups whose browsers run, and its answer
  does not say so; neither does that of an update of a profile's own proxy or group.
* `open_browser` hands out a running session also if its active tab was closed.
* A tab that another call is making active, or has just made active, can be closed in
  between by `close_tab`, its site or somebody at the window: the active tab is then
  closed. This is the exception `lost` of `PageIsOpen`.
* A retried `create_profile` whose first answer was lost leaves a profile that no
  result names.

Seen while reading, outside what the models distinguish: the platform tables of
runtime/runtime.go and browser/download.go disagree with each other and with
docs/platform-support.md; downloads and the engine's requests have no timeout;
`seconds: 30` in a YAML workflow decodes to an integer, fails its assertion to a
float and sleeps for one second; `result.Error` of the engine stays after a later
success; humanized typing ignores the errors of clicks and keys, and its last mouse
position is a global without a lock.

## Fairness and what is assumed

* `BrowserManager!FairSpec`: weak fairness of each caller's steps. The steps are calls
  into the driver, all of which return, fail or time out (health checks have a
  5 s timeout, launches Playwright's own), and the goroutine that makes them is
  not stopped. Nothing is assumed of the start of calls or of the environment;
  `MutexReleased` therefore carries its own hypothesis that tunnels end.
* `SessionPool!FairSpec`: strong fairness of each caller's steps, because a waiter for a
  mutex is enabled only now and then and Go's mutexes hand over to a waiter that
  has starved for 1 ms; and of the collector's visit to each pool, since its
  ticker fires every minute. Navigation has a 30 s timeout, closing a page and
  opening one return. Browsers need not die, and callers need not call.
* The other modules state safety only. Downloads and the engine's requests have no
  timeout, so nothing in the code justifies that they end.
* External to `src/`: a browser does not outlive its driver's normal stop; a dead
  process's connections end; `Connect` succeeds only with a running browser; two
  browsers never have the same endpoint while somebody remembers either. A panic
  in a handler unwinds through the deferred unlocks and ends the call, as
  `net/http` recovers it per request (in the stdio server it ends the process). An
  archive holds every part of its version. A rename puts all of a file in place, and a
  write that is cut short leaves a file that cannot be decoded. Random IDs are fresh.
  `Context.Pages()` lists the open tabs in the order they were opened.
* One process at a time works on a runtime's directory, and one command at a time on
  the profiles. Clocks do not go back.

## Proofs

`BrowserManagerProofs` proves, for all finite or infinite sets of callers, profiles
and contexts that satisfy `ManagerAssumption`:

| Theorem | Property | Assumes |
|---|---|---|
| `TypeCorrect` | `TypeOK` | |
| `SessionsAreCurrent` | `PublishedIsCurrent` | |
| `RelaysAreOwned` | `NoOrphanRelay` | |
| `RestartsAreBounded` | `RestartsBounded` | |
| `OneProfileOneBrowser` | `OneBrowserPerProfile` | closing works |
| `NoBrowserIsLost` | `NoOrphanBrowser` | closing works |
| `ManagerImplementsOwnership` | `ImplementsOwnership` | closing works |
| `ManagerImplementsTable` | `ImplementsSessionTable` | |
| `EveryCallAdvances` | `CallsAdvance` | |

The argument. None of the invariants is inductive alone. First the lock: a caller
is away from `idle` exactly when it holds `mu`, so at most one call is in progress
and what it refers to (`cur`, `target`) is well defined at each `pc`. On top of it
come a published session's owner, driver and relay (which needs that `fallback` and
`retry` empty the map before the driver is replaced), the place of each
open relay, and the arithmetic of restarts per attempt and fallback. The claim
about processes, "every live browser is a mapped session or the context of the
call in progress", needs that every close ends its process, and gives
both `OneBrowserPerProfile` and `NoOrphanBrowser`; the refinement maps each step
to an `Acquire`, `Publish`, `Withdraw`, `Release` or a stutter. The strengthenings
are proved action by action as lemmas over `Next`, then combined with PTL.
`ManagerImplementsTable` rests on the lock only: the caller between `existing` and its
end is the holder of `mu`, so `launching` is one profile or none, and a step is a
`Begin`, `Finish`, `GiveUp` or `Withdraw` by where it takes that caller (`LaunchingIs`).
`EveryCallAdvances` is arithmetic on `Stage`, with the range of `attempt` from the types
and, for steps that close sessions, that the one they drop was listed; the other calls
are `idle` then, so nobody is set back.

`SessionPoolProofs` proves, for all sets of profiles, callers, endpoints and pool
objects, any finite set of sessions and any cap (`PoolAssumption`):

| Theorem | Property |
|---|---|
| `TypeCorrect` | `TypeOK` |
| `CapIsHeld` | `CapHeld` |
| `MappedPoolsConnected` | `MappedIsConnected` |
| `NavigationKeepsPage` | `NavigatedPageOpen` |
| `PagesAreNotLost` | `NoLostPage` |
| `LivePoolIsKept` | `LivePoolKept` |
| `NobodyWaitsInACircle` | `NoCircularWait` |
| `EveryCallAdvances` | `CallsAdvance` |
| `PagesAreImplemented` | `ImplementsPages` |

The argument. `LockInv` ties each of the three kinds of mutex to the place where the
code holds it, and `CleanInv` says that only a call that is closing has anything left
to close. `CapHeld` needs that between the count in `CreateSession` and the new entry
nobody else adds a page, which is `pool.mu`; `NavigatedPageOpen` is `s.mu`. `NoLostPage`
rests on `PoolInv`: a pool has its browser handle as long as it is in the map or on
the list of a call that empties it, so a page is never opened in a pool that nobody
will look at again. `LivePoolKept` rests on `EndpointInv`: an endpoint that answers
is the current one of exactly one profile, so a caller under `sp.mu` that was given
a running browser's URL would have found the pool connected to it in its second look.

`PagesAreImplemented` needs two invariants of its own. `PlaceInv`: no session is in two
pools, or in a pool and on somebody's list to close, so that a page that has left the
pool of the map is offered by no other one. `ScanInv`: what the collector has still to
look at is in the pool whose mutex it holds, so that what it takes out was offered until
then. A page opened in a pool that was taken out of the map meanwhile starts as leaving.

`NobodyWaitsInACircle` orders the mutexes. A call that holds `s.mu` navigates, and waits
for nothing, so if every call waited all of those would be free. Then the holder of a
`pool.mu`, which opens a page or is the collector, and the holder of `sp.mu`, which
connects, would wait for nothing; so these are free too, and there is nothing left to
wait for. With `EveryCallAdvances`, by which each step of a call brings it nearer to its end
and no other step sets it back, this is the part of `CallsReturn` that does not depend
on fairness: there is always a call that can go on, and none can go on for ever.

`CatalogProofs` proves, for all sets of profile IDs, groups, runtimes, modes and
callers (`CatalogAssumption`, `AbsentAssumption`):

| Theorem | Property |
|---|---|
| `TypeCorrect` | `TypeOK` |
| `CompletedStays` | `CompletedIsKept` |
| `MemoryMatchesDisk` | `InSyncUntilFailure` |
| `DeletedGroupIsEmpty` | `GroupEmptied` |
| `StoresAreImplemented` | `ImplementsStores` |

The argument. `InSyncUntilFailure` is inductive alone. `CompletedIsKept` is not: a
restart takes the profiles from the files, so `StoredInv` adds that what was stored is
a profile. `GroupEmptied` speaks only of the end of a deletion; `Remembers` says of every
point of it that a profile in the group is still on its list and was not replaced
there, or is the one being taken out, unless one joined; that the list starts with
nothing marked as gone is `ListInv`. Created and updated profiles keep `Remembers` of
the other callers by a lemma each. For `StoresAreImplemented`, `StoresChange` sorts the
actions of all handlers into the four things a step can do to a store, and a lemma for
each store turns those into steps of `StoredMap`; the new map is one by `TypeCorrect`.

`RuntimeInstallProofs` proves, for any number of versions, any parts, and any choice
of the runtimes that are wrapped, default or listed (`InstallAssumption`):

| Theorem | Property |
|---|---|
| `TypeCorrect` | `TypeOK` |
| `ServersAreWhole` | `ServesWhole` |
| `BinariesAreWhole` | `ServesBinary` |
| `BinariesAreFound` | `FindsBinary` |

The argument. `WholeInv` gives the marker its meaning: for a runtime extracted in
place (`FlatInv`: nothing of it is in a folder) that nothing has disturbed, a marker
that is the newest version seen is only found with all the parts of that version, and
during an extraction what is no longer on the list is of the version in progress.
`VersionInv` makes the present version the newest one. `FindInv` follows the
executable through extraction and renames, so that every installation finds one;
`BinaryInv` says, as long as there is one version, that an unfinished executable is
only where the next extraction writes over it. `ConfigInv` and `PathInv` tie the path
in use to a place that has the executable.

`ArtifactsProofs` proves, for any sets of IDs and processes (`ArtifactsAssumption`):

| Theorem | Property |
|---|---|
| `TypeCorrect` | `TypeOK` |
| `StaysAvailable` | `AvailableUntilExpiry` |
| `OrphansHaveCauses` | `OrphansHaveCause` |
| `StoreIsImplemented` | `ImplementsExpiringStore` |

The argument. Call doomed what has expired or could not be read. `ExpiryInv` says that
what a call takes for expired has expired, that what is being removed is doomed and its
data is gone unless their removal failed, and that a listed record is there unless it
is doomed: a removal stays justified until it is made, by whichever process.
`PrivateInv` says that nobody else knows the ID under which a process is saving, so
that no clean-up takes what another process is writing. `UsedInv` keeps everything
that is in files, maps and lists among the IDs that were drawn, and says that what has a record
was announced. `StoreIsImplemented` needs all three: both files of an ID become one
entry in the step that writes the record and is answered, and the first of them to go
takes the entry with it, the record if the data could not be removed.

`WorkflowProofs` begins with lemmas about the actions of `Tabs` (what each preserves of
the sessions' types, of the calls that hold a session (`HoldInv`), of the tab lists
(`ListInv`) and of the active tab (`ActiveInv`)) and proves, for any number of clients,
profiles, pages, variables and attempts (`TabsAssumption`, `WorkflowAssumption`):

| Theorem | Property |
|---|---|
| `TabsTypeCorrect` | `TabTypeOK` |
| `RunTypeCorrect` | `RunTypeOK` |
| `ActiveTabIsOpen` | `PageIsOpen` |
| `CreatedAreReported` | `CreatedIsReported` |
| `FailuresHaveCauses` | `FailureHasCause` |

The argument. `PageIsOpen` speaks of the moments between tab tools; `ActiveInv` of all of
them: the active tab is open, or some call is closing it and will replace it, or is
about to put an open one in its place. `HandlerInv` says where the handler of the
engine's request is, `AnswerInv` what an answer stands for, `NameInv` that a name
without a value was never set, and `CauseInv` that without an excuse each browser the
run has opened runs with an open active tab.

`MaintenanceProofs` proves, for any number of profiles, revisions and commands
(`MaintenanceAssumption`):

| Theorem | Property |
|---|---|
| `TypeCorrect` | `TypeOK` |
| `OriginalsAreKept` | `OriginalKept` |
| `SavedStays` | `SavedIsKept` |
| `MigratedIsLoadable` | `MigratedLoads` |
| `RestoredMatches` | `RestoredIsArchived` |

The argument. A lemma for each action that changes a file says once what it does to
the files (`BackUpDoes` and so on); the invariants are then proved from those, one
lemma each. `PlanInv` says that a profile on the plan is as it was read, unless the
server touched it; `BackupInv` that the backup of a profile which is torn or has yet
to be rewritten holds the original, unless it is being written or the profile is at
risk. They give `OriginalKept`. `SavedInv` adds to `SavedIsKept` that what the server
stores needs no migration. `MigrateInv` and `RestoreInv` say of every point of a
migration or a restore that a profile or file is dealt with or still on the list.
`IInv` is their conjunction with the types.

`RoutingProofs` proves, for any sets of profiles, groups, proxies and callers
(`RoutingAssumption`):

| Theorem | Property |
|---|---|
| `RoutingTypeCorrect` | `TypeOK` |
| `OutdatedAreAnnounced` | `OutdatedIsAnnounced` |
| `DeletedAreClosed` | `DeletedIsClosed` |
| `RoutingKeepsTheTable` | `ImplementsSessionTable` |

The argument. A launch has no session yet, so `OutdatedIsAnnounced` says nothing of it;
`ReadInv` does: what it has read of policy and proxy is what a new launch would read, or
the profile is excused, or some caller has still to count sessions, which it cannot do
before the launch gives `Manager.mu` back. When the browser comes up `StaleInv` takes
over: it is up to date, known, or on the list of a count. For deletions `CountInv` says
that once one has counted, no profile it is about to change has a browser, unless
somebody knows of it or its launch began `late`. `LaunchInv` says that the
launching profile has no other session, so that forgetting its excuse is sound.
`OpenInv` and `DeleteInv` follow a profile that is opened and deleted at once.

`TabTypeOK` is proved only: the lemmas on tabs need it. Model-checked only: `MutexReleased`,
`CallsReturn` and `IdlePagesCollected`, since fairness and `ENABLED` are outside what TLAPS
proves here; `NoCircularWait` and `CallsAdvance` are what of them can be proved. The
properties of the runs that expect a violation are false and have no proof.

## Plan

What is left, most important first:

1. `Teardown`: manager and pool composed: shutdown with handlers still running, and
   agent pages of a profile that is deleted.
2. An abstract specification of what a migration and a restore promise for each profile,
   and of a run of the engine as its caller sees it, and that `Maintenance` and
   `Workflow` implement them.
3. Pure algorithms as operators checked against reference definitions: runtime
   resolution, argument merging, `Pool.Pick`.

## Not modelled

* Personas, fingerprints and launch arguments: pure functions of profile and config.
* The SOCKS5 byte exchange, page scripting and extraction, JSON-RPC and HTTP framing,
  authentication, flag parsing, `doctor` and `status`: input and output.
* Runtime resolution (`runtime/runtime.go`): part 3 of the plan. `RuntimeInstall` has
  the descriptors that the start of the server changes, not unsupported platforms.
* Two installers, or two commands of the CLI, at once: nothing in the code expects
  it. An earlier release running again after a migration.
* Torn reads of one profile through the pointers that the store hands out.
* The dashboard, the extension, scripts and Docker files: clients and packaging.
* Humanized input, whose curves are floating point and random.
* An error of the `out.Close` that a restore of a full backup ignores
  (cmd/server/cli_runtime.go:654): `RestoredIsArchived` takes a file that was copied
  without an error for written.
