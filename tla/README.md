# Formal models of signalk-backup

TLA+ specifications of the Signal K backup plugin: state machines written from
the source, checked by TLC on small instances, and theorems about them checked
by TLAPS. `PROJECT.json` lists every run, the source lines behind every
definition, the hazards and the properties that cover them.

Source paths below are relative to the repository root (`src/index.ts` is the
plugin's own `src` directory).

## 1. Inventory

The plugin is a single Node process inside Signal K. It manages one container
(the *backup server*) through a container helper, proxies that server's API to
a webapp, exports databases into a directory the server backs up, sends the
server's events into Signal K as deltas, and restores parts of a backup onto
the host. There are no threads: everything that can interleave does so at an
`await`, a timer or a callback.

| Part | Source | State | Operations | What makes it hard | What makes it correct |
|---|---|---|---|---|---|
| Host restore | `src/restore-host-write.ts` | single-flight status (state, backup id, paths); the disk: target and `.safety-` sibling | `POST /restore-partial-host`, `GET status`, `POST reset`; background `runRestore` | the slot is reserved before an await; any of eight file or network operations fails, the rollback included; the process dies between stash and rollback; reset races a run | one restore at a time, the slot is always given back, no content lost, no overwrite without consent, outcome says what is on disk |
| Plugin lifecycle | `src/index.ts`, `src/config/resolve-auto-tag.ts` | `lifecycleGeneration`, `client`, `containerAddress`, `currentSettings`, `resolvedAutoTag`, timers, abort controller | `start`, `stop`, `asyncStart`, `finishStartup`, `finishExternal`, `persistResolvedTag` | Signal K does not await `start()` and calls it again without `stop()` on a configuration save, so several startups are under way; each await may be overtaken | a superseded startup publishes nothing; a stopped plugin is quiet; ready means the current upstream answered; a started plugin reaches its server |
| Server updates | `src/index.ts`, `src/server-update.ts` | `serverInstalling`, `serverUpdateTimer`, `failedServerVersions`, saved tag | timer check, `POST /update/apply`, install, readiness wait, rollback, save | checks, apply requests, restarts and saves race; an install outlives the lifecycle that began it; the idle answer is old when used | one install at a time; the updater survives every outcome; no downgrade; a pin is kept; rollback returns; a restart undoes nothing |
| Export settings | `src/index.ts` (`/db-export/config`) | `currentSettings.databaseExport`, `dbExportTimer`, saved options | change, save, restart the timer | memory changes before the save; start or another save in between | memory, disk and timer agree once things settle |
| Uplink reporter | `src/uplink-state.ts` | last value, wait and resend timers, last report, send under way, queued flag, generation | `start`, `stop`, `report`, `currentState` | sends outlive stop and start; the server is replaced or restarts unseen; PUT answers are lost | the server knows the state when things are quiet; a hold is not lifted early |
| Delta emitter | `src/signalk-deltas.ts` | stream, reconnect timer, raised notifications, last backup per type | `start`, `stop`, `connect`, `handleEvent`, overdue and storage checks | breaks of the stream, stop before reconnect, hysteresis of alarms | one stream, none after stop; alarms raised are cleared |
| Database export | `src/index.ts`, `src/database-export/` | run under way, next manual waiters; QuestDB shards and manifest; staging directory | tick, manual backup, QuestDB/Grafana/SignalK exporters, cleanup | a tick and a manual backup share a run; death between shard and manifest; retention; an exporter switched off | a backup waits for a fresh export; each closed week exported once; staged file is whole |
| ISO weeks, image tags | `src/database-export/iso-week.ts`, `src/config/image-tag.ts` | none | pure functions | year boundaries; tag grammar | weeks partition time; versions are ordered totally |
| Staging routes, paths | `src/database-export/staging-routes.ts`, `restore-host-write.ts` | none | listing and download of staged files; `resolveHostTarget`, `resolveZipEntryPath`, `resolveStagingFile` | the listing walks while exports remove and replace files; `..`, absolute and foreign roots | a listing is never a part of the directory; every result is under its root |
| Backup client | `src/backup-client.ts` | base URL | requests with timeouts, ready poll, `isIdle` | timeouts | errors are reported, polls end |
| Reverse proxy | `src/proxy.ts` | none | forward | streaming | reads the current address |
| Webapp | `webapp/src/` | per view: polled data, drafts, the request a dialog waits for | `useApi`, restore page and modal, settings forms, connect flow | polls overlap and their answers overtake each other; other browsers; a view is left with requests under way | no typed edit, consent or confirmed save is lost to a late answer; the page unlocks |
| SMB discovery, base URL, schema, errors | `src/*.ts` | none | formatting and one query | - | - |

Interactions: `index.ts` owns the lifecycle and hands the same `client` to the
proxy, the routes, the reporter and the emitter. Updates replace the container
under all of them; `adoptServerAddress` moves them. The host restore reads from
the server, so replacing the container breaks it: `isHostRestoreRunning` and
the server's `isIdle` are asked before an install. Everything that is saved
goes through one `savePluginOptions` call that writes all options at once. The
exports and the backup server share the staging directory without a lock: the
server snapshots it whenever a schedule is due. The webapp learns of all of this
by polling, and nothing but its page keeps a host restore and a restore on the
server apart.

## 2. Plan

Order of work, most important first. All of the modules below exist.

1. `HostRestore`, `AtomicRestore`: the only part that can destroy a user's data.
2. `PluginState`, `Lifecycle`, `ServerUpdate`, `ExportSettings`, composed by
   `BackupPlugin`: the lifecycle and everything that races with it;
   `UpdateHistory`, what updates mean for later lifecycles.
3. `UplinkReporter`.
4. `DbExport`, extended by `StagingRoutes`: exports, manual backups, snapshots
   and listings around one directory; `QuestDbExport` over `IsoWeek`: shards
   and manifest, with failures and process death.
5. `DeltaEmitter`: reconnects, notifications and hysteresis.
6. `AutoTag` over `ImageTag`: the version over starts, checks and upgrades.
7. `RetentionCard` and `RestorePage` over `UseApi`, composed by `App`.
8. The proofs, one module per specification.

Left, in this order: `PinKept` and `StoppedIsQuiet` with tasks that were
not overtaken told apart; the ready poll of `BackupClient`, the other settings
cards and the connect flow of the Cloud view.

## 3. Modules

### HostRestore

A request is a process; `pc[r]` names the await it is at.

| Specification | Code |
|---|---|
| `status`, `owner` | `HostRestoreState.status` (`owner` stands for its backup id and paths) |
| `Reject`, `Reserve`, `Refuse`, `Probe`, `Launch` | the POST handler: 400 for a body that is no request, 409 while one runs, the reservation, the conflict probe, the early returns that give the slot back |
| `Reset` | the reset route |
| `Stat` ... `Cleanup` | `runRestore`: stat, rename to the safety path, fetch, first bytes, end of the download, removal of the safety copy |
| `Scrub`, `Rollback` | the catch block |
| `held[t]`, `stash[r]` | what is at a path and at the safety path of a request |
| `good[t]` | history: the last content a user relied on |
| `Crash` | death of the Signal K process: module state lost, disk kept |
| `Faults` | which operations may fail in a run |

An awaited file operation and the code that runs when it settles are one step,
except that a download in progress is visible (`Partial`). Several targets per
request, the ZIP reader and the path checks are abstracted to one target per
request; two restores whose targets contain each other are not modelled.

`AtomicRestore` is what a caller is promised: one job at a time and a target
that changes with the outcome. `HostRestore!View` is the refinement mapping:
while a target is stashed it still counts as holding the stashed content.

### PluginState, Lifecycle, ServerUpdate, ExportSettings, BackupPlugin

`PluginState` declares the variables of `index.ts` (`settings` =
`currentSettings`, `client`, `containerAddress`, `dbTimer`, `updateTimer`, ...),
of the disk (`saved`) and of the container (`live`), and the functions the other
three share. `BackupPlugin` composes them: `Next` interleaves

* `Start`, `Stop` and, for each generation, the steps of its `asyncStart`
  (`startup[g]` names the await);
* for each overlapping `checkServerUpdate` and each apply request, the steps of
  `update[k]`: answer of the lookup, link state, pull, idle answer, decision,
  readiness of the new server, rollback, save;
* each export-settings request;
* restores that begin and end on their own.

Decisions worth knowing:

* `settings = None` only before the first `start()`: `stop()` keeps
  `currentSettings`.
* An apply request therefore passes its first check also after `stop()`.
* The container helper runs its operations in the order of the calls, so an
  operation's effect on `live` belongs to the step that calls it and the answer
  arrives later. Recreating removes the old container first, so a recreation
  that fails may leave none.
* Versions are numbers of one major release: the updater and the resolver only
  compare them. Version 1 is the bundled floor.
* A port is chosen freely at each recreation; the address is the port.
* `WaitForReady(answered)` is the client's ready poll by its outcome: it can
  succeed only if the server at the address is there and answers. `Ready` is
  what `/status` reports: a published client and, if managed, a running
  container.

`UpdateHistory` adds one history variable. `crossed` holds in a lifecycle
from the moment an install or apply request is under way before its startup has
ended, and until the next `start()` or `stop()`. There the startup and the
install act on one container and one set of options, each from what it read
before, and neither keeps what the other did (section 7); what
`RestartKeepsVersion` and `AutoNeverDowngrades` promise holds in all the
other lifecycles, those after a crossed one included.

### UplinkReporter

`send` is the one send under way: waiting for the server to list its plugins
(`ask`), for the list to arrive (`enabled` or `absent`, what it says of
signalk-internet), PUT not yet taken by the server (`put`), taken but not
answered (`told`). `report()`
takes effect in the step that calls it (`Report`), and the queued report runs in
the step that ends a send (`Finish`). An await of a promise that is settled
already is no interleaving point. `Up`, `Adopt`, `Down` and `Start` are the uses
`index.ts` makes of the reporter; clients are numbered, since the code compares
them by identity. `known[c]` is what the server behind a client was told;
`unsure` and `waited` are history variables for the properties.

### DeltaEmitter

`stream[g]` is what the `connect()` of the g-th emitter is doing; `current` is
the emitter the module's state belongs to, since `startSignalKEmitter` makes a
new state and `stopSignalKEmitter` aborts the old one.

| Specification | Code |
|---|---|
| `Start`, `Stop` | `startSignalKEmitter`, `stopSignalKEmitter` |
| `Connect`, `Lose`, `Reconnect`, `Abandon` | `connect`: the answer, a failed request or an ended stream with `scheduleReconnect`, the timer, the catch of an aborted request |
| `Handle` with `Raised`, `Cleared`, `Level` | `handleEvent`: what is published, and the alarms raised and cleared |
| `last`, `active` | `lastSuccessByTier`, `activeNotifications`, forgotten at a stop |
| `metrics`, `shown` | what Signal K shows, which no stop clears |
| `done`, `missed`, `judged` | history: what the server's runs really were |

`Run` is a scheduled run on the server, heard only by an emitter whose stream is
read. One event is one step: `handleEvent` awaits nothing. The one-time metadata
and the numbers beside the status are left out.

### DbExport and StagingRoutes

A staged file is known by the run that wrote it (`tree[section][file]`), which
is all that a snapshot's consistency depends on. `run` is `dbExportInFlight`
together with the place its run has reached: exporters left (`todo`), sections
left of the present one (`work`), steps left of the present section. What is
left is a set; the order in which the code takes it is `FirstExporter` and
`FirstSection`.

| Specification | Code |
|---|---|
| `Tick`, `Request`, `Call` | the interval, the interceptor of `POST /api/backups`, `runDbExportTick`, which joins a run under way |
| `Detect` | the probe of one exporter in the orchestrator |
| `List`, `ResetTree`, `Download`, `SectionEnds` | `grafana.ts` and `signalk-database.ts`: each awaited request or removal |
| `Steps(s)` | which of them a section takes, in which order |
| `Finish` | the end of the run, which lets the waiting backups through |
| `Crash` | death of the Signal K process: the run and its waiting requests are lost, the directory is kept |

`provisioning` takes the same steps as `dashboards`; the run has one of the
two. A removal that fails ends its section with any part of the tree left,
except that of `grafana.db`, whose error the code swallows: its download goes on
beside the old file (`KeepDb`), and the history variable `stale` says that the
file outlived its removal and has not been replaced since. `lists` is history
too: what the run was told to export, section by section.
`StagingRoutes` extends this with the walk of the listing: a directory is read
in one step, its files are looked at in the next, and exports go on in between.

### IsoWeek and QuestDbExport

`IsoWeek` is the arithmetic of `iso-week.ts` on days since 1970. In
`QuestDbExport` one step is the download of one shard or the replacement of the
manifest, both of which are renamed into place. `Begin` reads the manifest,
which counts as none when it cannot be read or parsed (`ReadManifest`), and
chooses the weeks (`FromWeek`, `churnCutoffWeek`); `Shard` skips or writes one (`MustWrite`),
`WriteManifest` lists them all, `Abort` is a failed download or the death of the
process at any point. `Arrive` puts data into this or an earlier week: a shard
that exists then holds a part only, and `due` says whether an export that
succeeds has to take it. Data that arrives while an export runs is due for the
next one.

### ImageTag and AutoTag

`ImageTag` has `compareSemver`, `resolveAutoTag` and `pickServerUpdate` on
records of a core and prerelease identifiers; a name is its rank among names.
`AutoTag` puts them into a life: `Boot` with any answer of the lookup and a save
that may fail, `Check` with a release that comes up or not, `Upgrade` of the
plugin. `BackupPlugin` has the interleavings of these steps, on versions that
are numbers; here a step is atomic and the versions have all their parts.

### UseApi, RetentionCard, RestorePage, App

`UseApi` makes the polling hook a value: `asked` are the requests of its current
effect, each on its way or answered; a refresh and an unmount forget them, which
is the `cancelled` flag of the code. Ticks do not wait for earlier answers.

* `RetentionCard`: `Poll` ... `Arrive` are the hook, `Sync` the effect that
  follows its data, `Type`, `Submit`, `Confirm` the form, `Store` and
  `OthersSave` the server.
* `RestorePage`: three hooks on the three status endpoints; `StartRestore` ...
  `RestoreLost` are `onRestore` and its request, `OpenModal` ... `ModalLost` the
  browser and its modal. `running` is what really runs, on the server (`"full"`,
  `"partial"`, one at a time) and in the plugin (`"host"`). The page does not
  look at a hook's error. `DatabaseExports.tsx` is the same page without row
  actions.
* `App` mounts one view at a time. What the server keeps is not followed while
  no view shows it: a mount finds any policy and any restores it allows, those
  that this browser left behind included.

The type invariants stand in the modules and are proved; the runs are left to what a type does not say.

## 4. Runs

| Run | Question | Bounds, and why they are enough |
|---|---|---|
| `host_restore` | one restore at a time, nothing lost, consent, slot freed, refinement | two requests and two paths: two requests on one path and on different paths; every failure but those of the stash |
| `plugin_lifecycle` | superseded startups publish nothing; the plugin comes to report ready | four generations: two superseded startups, a current one and a stop; managed "auto", managed pinned and external configurations |
| `auto_updates` | restarts keep the version, exports follow settings, no downgrade | three generations, three versions (running, failed, newer), one check and one apply request of any tag, which changes what runs while the check waits; one edit; "auto", a tag pinned above the bundled version, and external mode; servers that do not answer and failing pulls |
| `one_lifecycle` | the updater goes on, rollback returns, the lock is given back | one lifecycle, two checks that may overlap, two ports, failing pulls, saves and servers |
| `manual_updates` | one install at a time; client and emitter follow; a pin is kept | two apply requests, two checks, three versions, two ports, failing recreations |
| `uplink_reporter` | no state lost, holds kept, the server learns | six events from outside, two clients, two states |
| `delta_emitter` | one listener, true alarms, a stream in the end | two emitters, so that a stopped one's request is still ending when the next starts; the server away once; five hours with tiers of one and two hours, so that both can be two intervals late; free space on both sides of 5, 10 and 12 |
| `db_export` | consistent snapshots, whole listings, a backup waits for its run | two runs (a shared one and the one after), two files, one of which may go, one listing, failures at every step, one process death per run |
| `questdb_export` | weeks, manifest and shards agree with the data | 10 December 2020 to February 2021: a year with 53 weeks; passes of 12 and 35 days, within the churn window and beyond it; data up to five weeks late |
| `auto_tag` | order of versions, the version only moves up | three cores in two majors, each with a final release and five prereleases (`beta`, `beta.2`, `beta.11`, `rc.1`, `7`), and a tag that is no version |
| `webapp` | consents, edits and saves survive late answers; the page unlocks | two fields of two values, two polls of the form under way at once and one per status endpoint, two targets, one lost request or change by others |

`host_restore_stash` expects a violation and shows a disagreement between the
code and its comment; see section 7.

`CHECK_DEADLOCK FALSE` stands where `start()`, `stop()` and events are bounded:
a behaviour may then end. `host_restore` is checked for deadlock (reset and
process death are always possible).

### What the runs leave aside

* `host_restore` excludes failures of the probe, stat and rename that make the
  safety copy: with them the property fails (`host_restore_stash`), and so does
  consent, since `safeStat` answers "nothing there" for any error.
* `manual_updates` has servers that answer once recreated: when both the new and
  the previous one miss the deadline, there is no address to follow.
* `auto_updates` has no failing save and no failing recreation: with either a
  restart finds another version saved than runs, and a rollback that cannot
  recreate the container lets the updater go down (section 7). `crossed`
  lifecycles are exempt from two of its properties. Restores are left out by a
  constraint: one under way ends a check, as the answers that `one_lifecycle`
  and `manual_updates` also give do.
* The runs of one lifecycle (`one_lifecycle`, `manual_updates`) have no restart
  while an install is under way; with one, `PinKept` and `StoppedIsQuiet` fail
  (section 7: the tag and the reporter of an overtaken install).
* `delta_emitter` relates the failure alarm to the last run Signal K shows;
  that a run clears an alarm which an earlier emitter raised does not hold
  (section 7). Overdue is judged on what was heard.
* `db_export` compares `grafana.db` with the dashboards in one direction: after
  a failed list the dashboards are older than the database, never newer. A
  `grafana.db` that could neither be removed nor replaced (`stale`) is exempt:
  newer dashboards do stand beside it (section 7).
* `questdb_export`: a manifest that cannot be read loses the weeks before the
  churn window (section 7); `HistoryKept` is about all other exports, and about
  the window in those.
* `uplink_reporter`: a list that says signalk-internet is absent may be stale
  when it arrives, and the null is then sent; `HoldKept` excludes it by name.
* `webapp` says nothing on full and host restores that run together: a second
  browser can start one (section 7).

`BackupForwarded` is checked over process deaths: `"lost"` is the answer a
client sees then.

## 5. Fairness

Weak fairness on the steps that settle an await, per request, per generation
and per task; none on requests, on `start()` and `stop()`, on restores or on
failures.

* `HostRestore`: file operations settle, and `fetch` aborts a response that
  stalls.
* `BackupPlugin`: lookups, pulls and probes have timeouts. `StartRetried` is the
  container helper's retry loop; fairness of `StartupProceeds` says that a
  server that is retried for ever comes up at last, which is what
  `ServerReached` needs and what the code cannot guarantee by itself.
* `UplinkReporter`: both timers fire, the plugin list arrives and a PUT that
  does not fail is taken and answered. Failures are events, which are bounded, so
  `Learned` reads "once nothing goes wrong any more".
* `DeltaEmitter`: for each emitter, a request is answered or fails and the
  reconnect timer fires. The server need not come back: `Reconnects` is about
  behaviours in which it stays.
* `DbExport`: a run makes progress, since each of its requests has a timeout.
  Which of the failures happen is free.
* `App`: a request of the page is answered, polls go on and restores end, as
  long as the page is there. Requests are lost at most `MaxTroubles` times.

## 6. Proofs

Every theorem below holds for every value of the constants that its
assumptions admit: any numbers of requests, tasks, generations, files, tiers,
clients and years, where a run has two or three. Assumptions on constants are
those the modules declare (`... Assumption`, evaluated by TLC in each run) and
the ones named here, which say what a theorem leaves out; the run of the same
property assumes no less (section 4), and section 7 says what happens without
them. The inductive invariants were checked by TLC, on the
runs or on samples of their states, before they were proved.

### HostRestoreProofs

* `TypeCorrect`: `Spec => []TypeOK`, action by action.
* `SingleFlightHolds`: `SingleFlight` is inductive together with `TypeOK`. A
  request becomes busy only in `Reserve`, which finds the slot free and takes it
  in the same step; that the status is "running" exactly while a request is busy
  is what lets `Reserve` conclude that there is no second one. Needs
  `NoneAssumption`.
* `ContentIsRecoverable`: under the assumption that the stat and the rename
  cannot fail (`"stat"`, `"stash"` not in `Faults`), `ContentRecoverable`
  holds. It is not inductive: a request about to write, scrub or roll back
  could destroy a content that was never stashed. `RecoverInv` adds that nothing
  is stashed before the stash step (`NoStashYet`), that the path of a request
  past it is empty or half written (`PathEmptied`), that what a request has yet
  to write is nowhere (`Fresh`), that a safety copy about to be removed is no
  longer relied on (`StashOutlived`) and that only whole contents are relied on
  (`GoodIsWhole`). The single flight shows that no other run touches the path
  meanwhile.
* `ConsentIsNeeded` (`"probe"` not in `Faults`): `ConsentInv` follows a request
  without consent: its path was empty when it was probed, stays empty until it
  is looked at again, and so nothing is stashed and nothing is replaced.
* `HostRestoreIsAtomic` (`"stat"`, `"stash"` not in `Faults`): the refinement
  `Spec => ImplementsAtomicRestore`. `BusyView` computes what a caller sees while
  a request is busy (the stash while the target is hidden, the disk otherwise);
  with it each action is a stutter or one step of `AtomicRestore`.

### BackupPluginProofs

`LifeInv` underlies all of them: the types, the shape of a task at each of its
places (`TasksSound`), and `Order`, which puts lifecycles, startups and tasks in
order: later generations have not begun, a client is published by the finished
startup of the current one only, a timer is armed for the current one only. It
is proved once for every task's step by saying what a step may do to the task
(`Moves`), to the lock (`Lock`) and to the timer (`TaskTimers`).

* `PluginTypeCorrect`, and `ClientIsCurrent`, the part of `ReadyMeansAnswered`
  that needs no assumption.
* `OneInstallHolds`: no assumption; a task in the section that swaps the
  container is the one the lock was taken for.
* `ReadyIsAnswered` (`Task = {}`) and `StopIsQuiet` (`Task = {}`, `Edit = {}`).
  `Modes` relates the place of a startup to the mode of its configuration. With
  tasks and edits the properties do not hold, by the disagreements of section 7.
* `ExportsFollow` (`"save"` not in `Faults`): `Saved`, disk and memory agree, and
  `Armed`, the timer agrees with them unless an edit has still to arm it.
* `EmitterFollows` (`MaxGen = 1`), `ClientFollows` (`"answer"` not in `Faults`).
  `ClientInv` says that while the client is not where the container is some task
  is between moving the container and moving the client (`Moving`); such a task
  holds the lock.
* `UpdaterLives` (`Apply = {}`, and one lifecycle or no pinned tags): `CheckInv`,
  checks and timer exist only where they are wanted, and `AliveInv`, where they
  are wanted one of them exists. With pins an install that a restart overtook
  writes its tag into the new lifecycle.
* `PinIsKept` (`MaxGen = 1`): `PinInv`, an install of the current lifecycle
  finds `"auto"` until it completes.
* `RollbackIsRight` (`Apply = {}`, `MaxGen = 1`, `"recreate"` not in `Faults`):
  from `RunsInv`: what `"auto"` stands for is what runs, installs under way
  included.
* `RestartKeeps` (`"save"` and `"recreate"` not in `Faults`) and `UpdatesMoveUp`
  (`"recreate"` not in `Faults`): theorems of `HSpec`, over any number of
  lifecycles, checks, requests and edits, with any pinned tags. A task is in
  between (`Mid`) from its recreation of the container until it has saved the tag
  or put the old version back. `TrackInv` says of a lifecycle that nothing crossed
  what it was brought up with, step by step of the startup, and once it is up
  (`Runs`): there is a container, and settings and `resolvedAutoTag` name its
  version unless a task is in between; a task in between knows the version that
  runs and which one the settings still name (`Knows`), so that it leaves
  `Consistent` behind however it ends. `OneInstall` makes that task the only one,
  and a task of any kind takes one of the eight steps of `TaskIs`. `UpInv` gives the
  updater's checks a lifecycle that is up. What the check compares its release with
  once more before it installs is then the version that runs, and what is saved
  is what is in memory (`Saved`).

### UplinkReporterProofs and DeltaEmitterProofs

* `UplinkTypeCorrect`, `EmitterTypeCorrect`.
* `QuietIsKnown`: `QuietInv` relates the send under way, the record of the last
  send and what the server knows: a send with nothing queued behind it speaks of
  the present (`SendIsCurrent`), one that `stop()` overtook leaves no record
  (`OldSendUnrecorded`), a record is known unless a PUT is on its way
  (`RecordIsKnown`), and nobody names a client or generation to come
  (`NothingAhead`).
* `HoldIsKept`: an action property, from `WaitInv`: the wait is armed or over; a
  null that is sent while it is armed follows a list without signalk-internet.
* `OneListens`: `OneListener` is inductive given the types: `Start` and `Stop`
  change stream and `current` together.
* `FailureIsAlarmed`, `StorageHasHysteresis`: inductive; the second by the three
  bands of free space.
* `OverdueIsTrue`: `Remembered`, the emitter knows of no run that never was, and
  of all of them if it missed none. The alarm itself is compared with real runs.

### DbExportProofs and QuestDbExportProofs

* `ExportTypeCorrect`: with `RunShape`, where a run may be; without it the steps
  left have no type.
* `SnapshotsConsistent`: `TreeInv`. From its removal on the tree at hand has
  only what this run wrote (`Fresh`), no tree is of a run to come, and while the
  dashboards are exported `grafana.db` is of this run, gone, or known to be
  stale (`DbOfRun`), since the code exports it first (`FirstSection`).
* `BackupsSeeTheRun`: `DoneInv`, each section of the run failed, is to come, or
  has exactly the files of the list it was given, written by this run.
* `ListingsComplete`: a theorem of `SSpec`; `WatchInv`, a file that stays was
  found or is ahead of the walk.
* `DaysLieInWeeks`: the calendar for every day since 1970. The lemmas number the
  weeks by their Thursdays: the year of `7 * i` is found between two New Years
  (`YearHolds`, with the least-number principle), and `weekStartUtc`,
  `isoWeekOf` and `compareIsoWeek` are `7 * i - 3`, `i` and the order of
  numbers (`WeekBegins`, `WeekIndex`, `WeekOrder`). After that no proof about
  the exporter mentions years.
* `QuestTypeCorrect`, `CalendarHolds`, `ManifestIsSound`, `ShardsAreWhole`,
  `HistoryIsKept`: all from `QuestInv`. The manifest is an interval of weeks, and
  so is the plan of an export (`Exporting(i, c, j)`), which covers the manifest;
  what the export has passed has a shard, and a whole one from the cutoff on
  unless data arrived meanwhile. An export that could not read the manifest plans
  the churn window alone, so `HistoryIsKept` has that case as its exception. Any
  calendar, pauses of any length.

### AutoTagProofs

* `SemverIsOrdered`: `compareSemver` on all versions with a core of three numbers
  and a finite prerelease (`VersionAssumption`; numbers are exact, as those of the
  code are below 2^53). `Key` spells the order of SemVer out as one of sequences
  of pairs, without the code's case distinctions. The lemmas find the first pair
  in which two versions differ, by their cores (`CoreDecides`), by being a release
  (`ReleaseDecides`) or by the prereleases (`PrereleaseDecides`), and show that
  the sign of the comparison is what that pair says; the first of several
  differences is `LeastIs`, the least-number principle.
* `TagTypeCorrect`, `VersionsMoveUp`: `TagInv` adds to the types that the server of
  a started plugin is not below the floor (`RunsAtFloor`), which is why a restart
  within one version of the plugin keeps what is saved. That nothing goes down
  over a start that replaces a saved version below the floor is the transitivity of
  the order (`NotOlder`): saved, floor, release found.

### AppProofs

* `EditsAreKept`, `ConfirmedIsShown`: from `CardInv`, with the operations on
  hooks as lemmas (`HookSteps`, `FreshHooks`). A form in step has no edits
  (`InStep`); once a save is confirmed no answer waits that is older than it
  (`NoneStale`), since the refresh has forgotten all of them and every answer
  that comes later was given later.
* `ConsentIsShown`: `ModalInv`, the conflict on show and the request under way
  are those of the target chosen.

### Model-checked only

* Liveness: `ServerReached`, `InstallEnds`, `SlotFreed`, `Learned`, `Reconnects`,
  `BackupForwarded`, `ActionsReturn`. It rests on fairness and `ENABLED`, which
  the provers do not take.

## 7. Disagreements between code and documentation

`host_restore_stash` shows one as a violation: when the rename to the safety
path fails, the catch block removes the original although nothing was stashed.

Seen while modelling, without a run of their own. Of the plugin:

* An apply request in external mode recreates the managed container and moves
  the plugin to it (`index.ts:628`), and so does an install that a start in
  external mode overtook.
* An export-settings request that comes after `stop()` arms the export timer of
  a stopped plugin (`index.ts:469`).
* An install that a configuration save overtook saves `"auto"` over the tag the
  user has just pinned; one that `stop()` overtook starts the uplink reporter in
  a stopped plugin (`index.ts:620`, `index.ts:622`).
* Installs that cross a startup (`crossed`). The startup recreates the container on
  the version that the options named when it began, and the overtaken install
  then saves its own and makes `"auto"` stand for it: disk and memory name a
  version that does not run. If the configuration save pinned a newer version, the overtaken
  install puts `"auto"` and its older one over it, and the next check may
  replace the running server by a release older than that. `RestartKeepsVersion`
  and `AutoNeverDowngrades` exclude these lifecycles by name.
* `swap` sets `resolvedAutoTag` before it recreates (`index.ts:606`). When the
  new server does not answer and the rollback cannot recreate the container, the
  new version stays while `"auto"` stands for the old one: the next check may
  install a release between the two, and a restart finds the old one saved.
* An apply request before the first `start()` (or with the settings not loaded)
  recreates the container and saves nothing, as the code logs (`index.ts:712`).
* A restore that begins between the idle answer and the install, or during it
  when it rolls back, loses its server (`index.ts:689`).
* `start()` does not stop the delta emitter and the emitter ignores a second
  start, so after a `start()` without `stop()` that switches servers it stays on
  the former one (`index.ts:264`, `signalk-deltas.ts:77`).
* An apply of `"auto"` whose server is slow to answer saves the tag and never
  arms the updater (`index.ts:571`).
* Under a pinned tag `resolvedAutoTag` is null, so an apply of `"auto"` that
  pulls a newer release would roll back to the bundled version (`index.ts:601`).
* An install that `stop()` aborts puts a good release into
  `failedServerVersions` (`index.ts:617`).
* A start with no saved version takes the newest release of any major, while
  the updater stays within one (`resolve-auto-tag.ts:18`).

Of the uplink reporter and the delta emitter:

* A send that is reading the plugin list when the reporter is stopped reports
  "no state" to the former server (`uplink-state.ts:123`).
* After a PUT that the server took but whose answer was lost, a link that
  returns to its former state is not reported until the next resend
  (`uplink-state.ts:161`); `QuietMeansKnown` excludes this case by name.
* An alarm that an earlier emitter raised is not cleared by the runs that follow
  a restart of the emitter, although the README says that it clears
  (`signalk-deltas.ts:359`).

Of the exports:

* One file that vanishes during the listing empties the whole listing, although
  the comment speaks of a missing root only (`staging-routes.ts:129`). The
  length of a download is that of the file before a replacement.
* A manual backup that joins a run under way gets what that run was to export
  when it began: an exporter enabled since is missing. Once all exporters are
  off, a backup passes while the run still writes (`index.ts:949`).
* A process death leaves `.partial` files in the staging directory.
* `grafana.db` is dropped first so that a failure "leaves no stale grafana.db
  beside fresh dashboards" (`grafana.ts:129`), but a failed `unlink` is swallowed:
  if the download fails too, the old file stays and the dashboards are exported.
* A manifest that cannot be read is treated as missing "so the exporter rebuilds
  from scratch idempotently" (`manifest.ts:32`). It rebuilds the churn window
  only: the weeks before it are not listed again, though their shards are there.
* A week that was open at the last export and is older than the churn window at
  the next keeps what it held in mid-week (`questdb.ts:154`); `ShardsWhole` is
  about data an export found within the window.

Of the webapp:

* Between the answer to a restore request and the refreshed status the rows are
  enabled again (`Backups.tsx:174`, against the comment at 213).
* A host restore and a restore on the server have no lock in common, although a
  comment trusts a global one to answer 409 (`BackupBrowser.tsx:34`).
* After an apply the container card means to poll until the check no longer says
  'unknown' (comment at `Settings.tsx:20`). It still shows the answer from
  before the apply, whose reason is not 'unknown', so the effect at
  `Settings.tsx:48` ends the polling at once, and a check that comes too early
  stays on show.
* `RetentionCard` saves all tiers, so a save undoes what another browser changed
  in a tier that the user did not touch.
* The export interval in `DbExportCard` is overwritten by each poll, although
  the comment says that it can be edited freely (`Settings.tsx:837`).
* In the Cloud view the late answer about a cancelled authorisation ends the
  next attempt, and the one `busy` flag is cleared by whichever operation ends
  first.

## 8. Not modelled

* The Cloud view with its connect flow and forms: its state machine is the
  backup server's, which is not in this repository; the view polls it with the
  hook of `UseApi`.
* The other settings cards (exclusions, password, scheduler, container, export):
  the hook with a form simpler than `RetentionCard`'s.
* The one-shot move of the flat file of older versions and manifests of another
  schema version in the QuestDB exporter; a run starts with neither.
* The one-time metadata of the delta emitter, the download of one staged file
  and the resolution of its path, the paths and ZIP entries of a host restore:
  no state, and data the properties do not tell apart.
* The client's ready poll beyond its outcome (`WaitForReady`).
* The reverse proxy, SMB discovery, base URL and schema (no state or pure I/O),
  rendering, and the container helper's and the backup server's own code
  (modelled from how `index.ts` uses them).
