---------------------------- MODULE PluginState ----------------------------
(***************************************************************************)
(* The module-level state of src/index.ts, the state outside it that the   *)
(* plugin drives (the saved options and the server's container), and the   *)
(* small functions that Lifecycle, ServerUpdate and ExportSettings share.  *)
(***************************************************************************)
EXTENDS Naturals

CONSTANTS
  MaxGen,       \* bound on start() and stop() calls
  MaxVersion,   \* server releases are 1..MaxVersion, all of one major
  Port,         \* host ports a recreated container may be published on
  Url,          \* the external server's URL
  AUTO,         \* the tag "auto"
  Config,       \* the configurations a user saves
  Apply,        \* POST /api/update/apply requests, each sent at most once
  Check,        \* runs of checkServerUpdate that may overlap
  Edit,         \* POST .../config requests of the database export
  Faults,       \* the operations of the environment that may fail
  None

Gen == 0..MaxGen
Version == 1..MaxVersion
Tag == Version \cup {AUTO}
Address == Port \cup {Url}
Floor == 1
Task == Apply \cup Check

Settings == [managed : BOOLEAN, url : {Url, None}, tag : Tag, auto : BOOLEAN,
             exports : BOOLEAN, deltas : BOOLEAN,
             resolved : Version \cup {None}]

FaultKind == {"save", "pull", "recreate", "answer", "address"}

ASSUME BoundsAssumption == MaxGen \in Nat /\ MaxVersion \in Nat \ {0}
ASSUME ConfigAssumption ==
  /\ Config \subseteq {s \in Settings : s.resolved = None}
  /\ Faults \subseteq FaultKind
ASSUME TasksDisjoint == Apply \cap Check = {}
ASSUME NamesDistinct ==
  None \notin Gen \cup Tag \cup Address \cup Settings /\ AUTO \notin Version

VARIABLES
  gen,               \* lifecycleGeneration
  enabled,           \* Signal K has started the plugin and not stopped it
  settings,          \* currentSettings
  saved,             \* the plugin options on disk
  resolvedAutoTag,
  client,            \* the address the published BackupClient talks to
  containerAddress,
  emitter,           \* the address the delta emitter subscribes to
  dbTimer,           \* dbExportTimer is armed
  updateTimer,       \* the generation serverUpdateTimer was armed for
  uplink,            \* uplinkReporter is started
  failed,            \* failedServerVersions
  serverInstalling,
  live,              \* the container: its version and its address
  startup,           \* where the asyncStart of each generation is
  update,            \* where each checkServerUpdate and apply request is
  edits,             \* where each export-settings request is
  restoring          \* the restores under way: "host", "server"

published == <<client, containerAddress, emitter>>
timers == <<dbTimer, updateTimer, uplink>>
tags == <<settings, saved, resolvedAutoTag>>
outside == <<live, restoring>>

vars == <<gen, enabled, tags, published, timers, failed, serverInstalling,
          startup, update, edits, outside>>

NoContainer == [version |-> None, addr |-> None]
Container == [version : Version, addr : Port]

MayFail(op) == op \in Faults

(* BackupClient.waitForReady: it asks /api/health until the server answers *)
(* or the deadline is over; a server that is not there never answers.      *)
WaitForReady(answered) ==
  IF answered THEN live # NoContainer ELSE live = NoContainer \/ MayFail("answer")

(* "ready" of GET /status *)
Ready == client # None /\ (~settings.managed \/ live # NoContainer)

-----------------------------------------------------------------------------
(* Shared functions of src/index.ts.                                       *)

(* Faulty variants: the guard is missing; the generation was read before   *)
(* it was bumped.                                                          *)
AnyGeneration(g) == TRUE

GenerationBefore(g) == g + 1 = gen

(* The guard that code which awaited something uses to see that start() or *)
(* stop() ran meanwhile.                                                   *)
Current(g) == g = gen

(* Faulty variant: "auto" is passed on as it is. *)
ResolveNothing(tag, auto) == tag

(* resolveImageTag: "auto" is what was resolved, else the bundled floor.   *)
Resolve(tag, auto) ==
  IF tag # AUTO THEN tag ELSE IF auto # None THEN auto ELSE Floor

(* The emitter is started once: a second start while it runs is ignored.   *)
Emitting(current, addr) ==
  IF current = None /\ settings.deltas THEN addr ELSE current

(* Faulty variants: the client stays behind; the emitter stays behind. *)
AdoptAddressOnly(addr) ==
  /\ containerAddress' = IF client = None THEN containerAddress ELSE addr
  /\ UNCHANGED <<client, emitter>>

AdoptWithoutEmitter(addr) ==
  /\ IF client = None
       THEN UNCHANGED <<client, containerAddress>>
       ELSE client' = addr /\ containerAddress' = addr
  /\ UNCHANGED emitter

(* adoptServerAddress: only a lifecycle that is already up follows the     *)
(* container to its new address, and the emitter moves with it.            *)
Adopt(addr) ==
  IF client = None \/ addr = containerAddress
    THEN UNCHANGED published
    ELSE /\ client' = addr
         /\ containerAddress' = addr
         /\ emitter' = Emitting(None, addr)

(* The tag the helper is given; "auto" before the first start(). *)
CurrentTag == IF settings = None THEN AUTO ELSE settings.tag

AutoUpdateEnabled(s) == s.tag = AUTO /\ s.auto

(* scheduleServerUpdate *)
ScheduleUpdate(s, g) ==
  updateTimer' = IF AutoUpdateEnabled(s) THEN g ELSE None

(* startDbExportTimer *)
DbTimerFor(s) == s.managed /\ s.exports

(* savePluginOptions writes all options at once; whether it succeeds is    *)
(* known to the code that awaits it.                                       *)
Save(s, ok) == /\ ok \/ MayFail("save")
               /\ saved' = IF ok THEN s ELSE saved

(* Faulty variant: the version is not pinned along with the tag. *)
PersistTagOnly(tag, version, ok) ==
  IF settings = None
    THEN ok /\ UNCHANGED tags
    ELSE /\ settings' = [settings EXCEPT !.tag = tag]
         /\ resolvedAutoTag' = version
         /\ Save(settings', ok)

(* persistAppliedTag, up to its await: nothing before the first start().   *)
PersistAppliedTag(tag, version, ok) ==
  IF settings = None
    THEN ok /\ UNCHANGED tags
    ELSE /\ settings' = [settings EXCEPT !.tag = tag, !.resolved = version]
         /\ resolvedAutoTag' = version
         /\ Save(settings', ok)

(* The container helper runs its operations in the order they were called, *)
(* so their effect on the container is part of the call.  Recreating       *)
(* removes the old container first.                                        *)
Recreate(version, ok) ==
  IF ok
    THEN live' \in [version : {version}, addr : Port]
    ELSE MayFail("recreate") /\ live' \in {live, NoContainer}
=============================================================================
