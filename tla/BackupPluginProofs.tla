------------------------- MODULE BackupPluginProofs -------------------------
(***************************************************************************)
(* Proofs about BackupPlugin, for any configurations, requests, checks,    *)
(* versions, ports and lifecycles.                                         *)
(***************************************************************************)
EXTENDS UpdateHistory, TLAPS

-----------------------------------------------------------------------------
(* What the shared functions do. *)

(* The bundled version is one of the versions.                             *)
LEMMA FloorIs == Floor \in Version
BY BoundsAssumption DEF Floor, Version

(* A tag always stands for a version: itself, the choice of auto or the    *)
(* floor.                                                                  *)
LEMMA ResolveIs ==
  ASSUME NEW tag \in Tag, NEW auto \in Version \cup {None}
  PROVE  Resolve(tag, auto) \in Version
BY FloorIs DEF Resolve, Tag

(* None is no version, address, generation, tag or settings. *)
LEMMA NoneIs ==
  /\ None \notin Version /\ None \notin Port /\ None \notin Address
  /\ None \notin Gen /\ None \notin Tag /\ None \notin Settings
  /\ NoContainer \notin Container /\ NoContainer.version = None
<1>1. None \notin Version /\ None \notin Port /\ None \notin Address
  BY NamesDistinct DEF Tag, Address
<1>2. None \notin Gen /\ None \notin Tag /\ None \notin Settings
  BY NamesDistinct
<1>3. NoContainer.version = None
  BY DEF NoContainer
<1>4. NoContainer \notin Container
  BY <1>1, <1>3 DEF Container
<1> QED
  BY <1>1, <1>2, <1>3, <1>4

(* What container.start() and a recreation leave. *)
LEMMA EnsureIs ==
  ASSUME live \in Container \cup {NoContainer}, NEW v \in Version, Ensure(v)
  PROVE  live' \in Container /\ live'.version = v
BY NoneIs DEF Ensure, Container

(* A recreation leaves the new container, or the old one, or none.         *)
LEMMA RecreateIs ==
  ASSUME live \in Container \cup {NoContainer}, NEW v \in Version,
         NEW ok \in BOOLEAN, Recreate(v, ok)
  PROVE  /\ live' \in Container \cup {NoContainer}
         /\ ok => live' \in Container /\ live'.version = v
         /\ ~ok => live' \in {live, NoContainer} /\ MayFail("recreate")
BY DEF Recreate, Container

(* Saving an applied tag changes the tag and the version, in memory and,   *)
(* unless the save fails, on disk.                                         *)
LEMMA PersistIs ==
  ASSUME settings \in Settings, saved \in Settings, NEW tag \in Tag,
         NEW v \in Version, NEW ok \in BOOLEAN, PersistAppliedTag(tag, v, ok)
  PROVE  /\ settings' \in Settings /\ saved' \in Settings
         /\ resolvedAutoTag' = v
         /\ settings'.tag = tag /\ settings'.resolved = v
         /\ settings'.managed = settings.managed /\ settings'.url = settings.url
         /\ settings'.auto = settings.auto /\ settings'.exports = settings.exports
         /\ settings'.deltas = settings.deltas
         /\ saved' = IF ok THEN settings' ELSE saved
         /\ ~ok => MayFail("save")
<1>1. /\ settings' = [settings EXCEPT !.tag = tag, !.resolved = v]
      /\ resolvedAutoTag' = v /\ Save(settings', ok)
  BY NoneIs DEF PersistAppliedTag
<1> QED
  BY <1>1 DEF Save, Settings

(* Before the first start there are no settings to save. *)
LEMMA PersistNothing ==
  ASSUME settings = None, NEW tag, NEW v, NEW ok, PersistAppliedTag(tag, v, ok)
  PROVE  ok /\ UNCHANGED tags
BY DEF PersistAppliedTag

(* Either way what is saved is typed, and settings stay.                   *)
LEMMA PersistTyped ==
  ASSUME settings \in Settings \cup {None}, saved \in Settings,
         resolvedAutoTag \in Version \cup {None}, NEW tag \in Tag,
         NEW v \in Version, NEW ok \in BOOLEAN, PersistAppliedTag(tag, v, ok)
  PROVE  /\ settings' \in Settings \cup {None} /\ saved' \in Settings
         /\ settings # None => settings' # None
         /\ resolvedAutoTag' \in Version \cup {None}
<1>1. CASE settings = None
  BY <1>1, PersistNothing DEF tags
<1>2. CASE settings \in Settings
  BY <1>2, PersistIs, NoneIs
<1> QED
  BY <1>1, <1>2

(* Saving what auto stands for changes nothing but that.                   *)
LEMMA PersistResolvedIs ==
  ASSUME settings \in Settings, saved \in Settings, NEW v \in Version,
         PersistResolvedTag(v)
  PROVE  /\ settings' \in Settings /\ saved' \in Settings
         /\ settings'.tag = settings.tag /\ settings'.resolved = v
         /\ settings'.managed = settings.managed /\ settings'.url = settings.url
         /\ settings'.auto = settings.auto /\ settings'.exports = settings.exports
         /\ settings'.deltas = settings.deltas
         /\ saved' \in {saved, settings'}
         /\ saved' # settings' => settings' = settings \/ MayFail("save")
BY DEF PersistResolvedTag, Save, Settings

(* An address is adopted only while a client is published, and the emitter *)
(* follows it.                                                             *)
LEMMA AdoptIs ==
  ASSUME NEW addr \in Address, Adopt(addr)
  PROVE  /\ client = None => published' = published
         /\ client # None /\ addr # containerAddress =>
              /\ client' = addr /\ containerAddress' = addr
              /\ emitter' = IF settings.deltas THEN addr ELSE None
         /\ client # None /\ addr = containerAddress => published' = published
BY DEF Adopt, Emitting, published

-----------------------------------------------------------------------------
(* The tasks. *)

(* What a check or request knows where it is. *)
Sound(k, u) ==
  /\ k \in Check => u.pc \notin {"new", "applied", "persisted", "waiting"}
  /\ k \in Apply => u.pc \notin {"link", "idle", "decide"}
  /\ u.pc \notin {"new", "off", "check"} => u.target \in Version
  /\ u.pc = "ready" => u.previous \in Version
  /\ u.pc \in {"applied", "persisted", "waiting"} => u.tag \in Tag

TasksSound == /\ update \in [Task -> TaskShape]
              /\ \A k \in Task : Sound(k, update[k])

(* Task k goes on, the other tasks stay where they are. *)
Moves(k) == /\ update' \in [Task -> TaskShape]
            /\ Sound(k, update'[k])
            /\ \A j \in Task \ {k} : update'[j] = update[j]

(* A task that moves one step keeps the shape of all tasks.                *)
LEMMA MovesSound ==
  ASSUME TasksSound, NEW k \in Task, Moves(k)
  PROVE  TasksSound'
BY DEF TasksSound, Moves

(* A task that is off, and one that has just begun, have the shape of a    *)
(* task.                                                                   *)
LEMMA IdleIs ==
  /\ Idle \in TaskShape /\ [Idle EXCEPT !.pc = "new"] \in TaskShape
  /\ Idle.pc = "off" /\ [Idle EXCEPT !.pc = "new"].pc = "new"
<1>1. 0 \in Gen
  BY BoundsAssumption DEF Gen
<1>2. Idle \in TaskShape /\ Idle.pc = "off"
  BY <1>1 DEF Idle, TaskShape, TaskStep
<1> QED
  BY <1>2 DEF TaskShape, TaskStep

(* A task ends. *)
LEMMA EndsIdle ==
  ASSUME TasksSound, NEW k \in Task, update' = [update EXCEPT ![k] = Idle]
  PROVE  Moves(k) /\ update'[k] = Idle /\ update'[k].pc = "off"
BY IdleIs DEF TasksSound, Moves, Sound

(* A task that ends is idle; it may arm the timer for its own or the       *)
(* current lifecycle.                                                      *)
LEMMA EndIs ==
  ASSUME NEW k, NEW success,
         EndTask(k, success) \/ EndCheck(k) \/ EndApply(k, success)
  PROVE  /\ update' = [update EXCEPT ![k] = Idle]
         /\ updateTimer' \in {updateTimer, None, update[k].gen, gen}
BY DEF EndTask, EndCheck, EndApply, ScheduleUpdate

(* The changes that the steps make to a task, field by field. *)
Others(k) == /\ update' \in [Task -> TaskShape]
             /\ \A j \in Task \ {k} : update'[j] = update[j]

(* A task that takes another value leaves the other tasks.                 *)
LEMMA SetTask ==
  ASSUME update \in [Task -> TaskShape], NEW k \in Task, NEW r \in TaskShape,
         update' = [update EXCEPT ![k] = r]
  PROVE  Others(k) /\ update'[k] = r
BY DEF Others

(* A step that changes only the place of a task leaves its other fields,   *)
(* and all other tasks.                                                    *)
LEMMA SetPc ==
  ASSUME update \in [Task -> TaskShape], NEW k \in Task, NEW pc \in TaskStep,
         update' = [update EXCEPT ![k].pc = pc]
  PROVE  /\ Others(k)
         /\ update'[k].pc = pc /\ update'[k].gen = update[k].gen
         /\ update'[k].tag = update[k].tag /\ update'[k].target = update[k].target
         /\ update'[k].previous = update[k].previous /\ update'[k].back = update[k].back
         /\ update'[k].ok = update[k].ok
<1>1. Others(k)
  <2>1. update' \in [Task -> TaskShape]
    BY DEF TaskShape
  <2>2. \A j \in Task \ {k} : update'[j] = update[j]
    OBVIOUS
  <2> QED
    BY <2>1, <2>2 DEF Others
<1>2. /\ update'[k].pc = pc
      /\ update'[k].gen = update[k].gen
      /\ update'[k].tag = update[k].tag
      /\ update'[k].target = update[k].target
      /\ update'[k].previous = update[k].previous
      /\ update'[k].back = update[k].back
      /\ update'[k].ok = update[k].ok
  BY DEF TaskShape
<1> QED
  BY <1>1, <1>2

(* The same for a step that also takes a lifecycle.                        *)
LEMMA SetGen ==
  ASSUME update \in [Task -> TaskShape], NEW k \in Task, NEW pc \in TaskStep, NEW g \in Gen,
         update' = [update EXCEPT ![k].pc = pc, ![k].gen = g]
  PROVE  /\ Others(k)
         /\ update'[k].pc = pc /\ update'[k].gen = g
         /\ update'[k].tag = update[k].tag /\ update'[k].target = update[k].target
         /\ update'[k].previous = update[k].previous /\ update'[k].back = update[k].back
         /\ update'[k].ok = update[k].ok
<1>1. Others(k)
  <2>1. [update[k] EXCEPT !.pc = pc, !.gen = g] \in TaskShape
    BY DEF TaskShape, Tag
  <2>2. update' = [update EXCEPT ![k] = [update[k] EXCEPT !.pc = pc, !.gen = g]]
    OBVIOUS
  <2> QED
    BY <2>1, <2>2, SetTask
<1>2. /\ update'[k].pc = pc
      /\ update'[k].gen = g
      /\ update'[k].tag = update[k].tag
      /\ update'[k].target = update[k].target
      /\ update'[k].previous = update[k].previous
      /\ update'[k].back = update[k].back
      /\ update'[k].ok = update[k].ok
  BY DEF TaskShape
<1> QED
  BY <1>1, <1>2

(* The same for a step that also takes a target.                           *)
LEMMA SetTarget ==
  ASSUME update \in [Task -> TaskShape], NEW k \in Task, NEW pc \in TaskStep, NEW t \in Version,
         update' = [update EXCEPT ![k].pc = pc, ![k].target = t]
  PROVE  /\ Others(k)
         /\ update'[k].pc = pc /\ update'[k].gen = update[k].gen
         /\ update'[k].tag = update[k].tag /\ update'[k].target = t
         /\ update'[k].previous = update[k].previous /\ update'[k].back = update[k].back
         /\ update'[k].ok = update[k].ok
<1>1. Others(k)
  <2>1. [update[k] EXCEPT !.pc = pc, !.target = t] \in TaskShape
    BY DEF TaskShape, Tag
  <2>2. update' = [update EXCEPT ![k] = [update[k] EXCEPT !.pc = pc, !.target = t]]
    OBVIOUS
  <2> QED
    BY <2>1, <2>2, SetTask
<1>2. /\ update'[k].pc = pc
      /\ update'[k].gen = update[k].gen
      /\ update'[k].tag = update[k].tag
      /\ update'[k].target = t
      /\ update'[k].previous = update[k].previous
      /\ update'[k].back = update[k].back
      /\ update'[k].ok = update[k].ok
  BY DEF TaskShape
<1> QED
  BY <1>1, <1>2

(* The same for a step that also takes a tag.                              *)
LEMMA SetTag ==
  ASSUME update \in [Task -> TaskShape], NEW k \in Task, NEW pc \in TaskStep, NEW tag \in Tag,
         update' = [update EXCEPT ![k].pc = pc, ![k].tag = tag]
  PROVE  /\ Others(k)
         /\ update'[k].pc = pc /\ update'[k].gen = update[k].gen
         /\ update'[k].tag = tag /\ update'[k].target = update[k].target
         /\ update'[k].previous = update[k].previous /\ update'[k].back = update[k].back
         /\ update'[k].ok = update[k].ok
<1>1. Others(k)
  <2>1. [update[k] EXCEPT !.pc = pc, !.tag = tag] \in TaskShape
    BY DEF TaskShape, Tag
  <2>2. update' = [update EXCEPT ![k] = [update[k] EXCEPT !.pc = pc, !.tag = tag]]
    OBVIOUS
  <2> QED
    BY <2>1, <2>2, SetTask
<1>2. /\ update'[k].pc = pc
      /\ update'[k].gen = update[k].gen
      /\ update'[k].tag = tag
      /\ update'[k].target = update[k].target
      /\ update'[k].previous = update[k].previous
      /\ update'[k].back = update[k].back
      /\ update'[k].ok = update[k].ok
  BY DEF TaskShape
<1> QED
  BY <1>1, <1>2

(* The same for a step that also takes an outcome.                         *)
LEMMA SetOk ==
  ASSUME update \in [Task -> TaskShape], NEW k \in Task, NEW pc \in TaskStep,
         NEW ok \in BOOLEAN,
         update' = [update EXCEPT ![k].pc = pc, ![k].ok = ok]
  PROVE  /\ Others(k)
         /\ update'[k].pc = pc /\ update'[k].gen = update[k].gen
         /\ update'[k].tag = update[k].tag /\ update'[k].target = update[k].target
         /\ update'[k].previous = update[k].previous /\ update'[k].back = update[k].back
         /\ update'[k].ok = ok
<1>1. Others(k)
  <2>1. [update[k] EXCEPT !.pc = pc, !.ok = ok] \in TaskShape
    BY DEF TaskShape, Tag
  <2>2. update' = [update EXCEPT ![k] = [update[k] EXCEPT !.pc = pc, !.ok = ok]]
    OBVIOUS
  <2> QED
    BY <2>1, <2>2, SetTask
<1>2. /\ update'[k].pc = pc
      /\ update'[k].gen = update[k].gen
      /\ update'[k].tag = update[k].tag
      /\ update'[k].target = update[k].target
      /\ update'[k].previous = update[k].previous
      /\ update'[k].back = update[k].back
      /\ update'[k].ok = ok
  BY DEF TaskShape
<1> QED
  BY <1>1, <1>2

(* The same for a step that also takes an address.                         *)
LEMMA SetAddr ==
  ASSUME update \in [Task -> TaskShape], NEW k \in Task, NEW pc \in TaskStep,
         NEW a \in Port \cup {None},
         update' = [update EXCEPT ![k].pc = pc, ![k].addr = a]
  PROVE  /\ Others(k)
         /\ update'[k].pc = pc /\ update'[k].gen = update[k].gen
         /\ update'[k].tag = update[k].tag /\ update'[k].target = update[k].target
         /\ update'[k].previous = update[k].previous /\ update'[k].back = update[k].back
         /\ update'[k].ok = update[k].ok /\ update'[k].addr = a
<1>1. Others(k)
  <2>1. [update[k] EXCEPT !.pc = pc, !.addr = a] \in TaskShape
    BY DEF TaskShape, Tag
  <2>2. update' = [update EXCEPT ![k] = [update[k] EXCEPT !.pc = pc, !.addr = a]]
    OBVIOUS
  <2> QED
    BY <2>1, <2>2, SetTask
<1>2. /\ update'[k].pc = pc
      /\ update'[k].gen = update[k].gen
      /\ update'[k].tag = update[k].tag
      /\ update'[k].target = update[k].target
      /\ update'[k].previous = update[k].previous
      /\ update'[k].back = update[k].back
      /\ update'[k].ok = update[k].ok
      /\ update'[k].addr = a
  BY DEF TaskShape
<1> QED
  BY <1>1, <1>2

(* The same for a step that turns back to the previous version.            *)
LEMMA SetBack ==
  ASSUME update \in [Task -> TaskShape], NEW k \in Task, NEW pc \in TaskStep,
         NEW ok \in BOOLEAN, NEW a \in Port \cup {None},
         update' = [update EXCEPT ![k] =
           [[update[k] EXCEPT !.back = TRUE] EXCEPT !.pc = pc, !.ok = ok, !.addr = a]]
  PROVE  /\ Others(k)
         /\ update'[k].pc = pc /\ update'[k].gen = update[k].gen
         /\ update'[k].tag = update[k].tag /\ update'[k].target = update[k].target
         /\ update'[k].previous = update[k].previous /\ update'[k].back = TRUE
         /\ update'[k].ok = ok /\ update'[k].addr = a
<1>1. Others(k)
  <2>1. update' \in [Task -> TaskShape]
    BY DEF TaskShape
  <2>2. \A j \in Task \ {k} : update'[j] = update[j]
    OBVIOUS
  <2> QED
    BY <2>1, <2>2 DEF Others
<1>2. /\ update'[k].pc = pc
      /\ update'[k].gen = update[k].gen
      /\ update'[k].tag = update[k].tag
      /\ update'[k].target = update[k].target
      /\ update'[k].previous = update[k].previous
      /\ update'[k].back = TRUE
      /\ update'[k].ok = ok
      /\ update'[k].addr = a
  BY DEF TaskShape
<1> QED
  BY <1>1, <1>2

(* The lock and task k: a task outside stays there, one that takes the lock *)
(* finds it free, one inside gives it back when it leaves.                  *)
Lock(k) ==
  /\ serverInstalling' \in BOOLEAN
  /\ \/ serverInstalling' = serverInstalling /\ ~Exclusive(k) /\ ~Exclusive(k)'
     \/ ~serverInstalling /\ serverInstalling' /\ Exclusive(k)'
     \/ Exclusive(k) /\ Exclusive(k)' /\ serverInstalling' = serverInstalling
     \/ Exclusive(k) /\ ~Exclusive(k)' /\ ~serverInstalling'

(* A check on its way to the install. *)
LEMMA CheckMoves ==
  ASSUME TasksSound, updateTimer \in Gen \cup {None}, NEW k \in Task,
         TimerFires(k) \/ CheckAnswered(k) \/ LinkRead(k) \/ CheckPulled(k)
           \/ IdleRead(k)
  PROVE  /\ Moves(k) /\ k \in Check
         /\ {update[k].pc, update'[k].pc} \subseteq
              {"off", "check", "link", "pull", "idle", "decide"}
<1> USE DEF Moves, Others, Sound, TaskAt, TaskGoto
<1>0. /\ k \in Check /\ k \notin Apply
      /\ update \in [Task -> TaskShape] /\ Sound(k, update[k])
      /\ {"off", "check", "link", "pull", "idle", "decide"} \subseteq TaskStep
      /\ update[k].pc \in {"off", "check", "link", "pull", "idle", "decide"}
  BY TasksDisjoint DEF TimerFires, CheckAnswered, LinkRead, CheckPulled, IdleRead,
     TasksSound, TaskStep
<1>1. CASE TimerFires(k)
  <2>1. CASE update' = update
    BY <1>0, <1>1, <2>1 DEF TimerFires
  <2>2. CASE Wanted(updateTimer)
    <3>1. /\ updateTimer \in Gen /\ "check" \in TaskStep
          /\ update' = [update EXCEPT ![k].pc = "check", ![k].gen = updateTimer]
      BY <1>0, <1>1, <2>2 DEF TimerFires
    <3>2. Others(k) /\ update'[k].pc = "check"
      BY <1>0, <3>1, SetGen
    <3> QED
      BY <1>0, <3>2
  <2> QED
    BY <1>1, <2>1, <2>2 DEF TimerFires
<1>2. CASE EndCheck(k)
  BY <1>0, <1>2, EndsIdle DEF EndCheck
<1>3. CASE CheckAnswered(k)
  BY <1>0, <1>2, <1>3, SetTarget DEF CheckAnswered
<1>4. CASE LinkRead(k)
  BY <1>0, <1>2, <1>4, SetPc DEF LinkRead
<1>5. CASE CheckPulled(k)
  BY <1>0, <1>2, <1>5, SetPc DEF CheckPulled
<1>6. CASE IdleRead(k)
  <2>1. PICK ok \in BOOLEAN :
          update' = [update EXCEPT ![k].pc = "decide", ![k].ok = ok]
    BY <1>6 DEF IdleRead
  <2>2. Others(k) /\ update'[k].pc = "decide" /\ update'[k].target = update[k].target
    BY <1>0, <2>1, SetOk
  <2> QED
    BY <1>0, <1>6, <2>2 DEF IdleRead
<1> QED
  BY <1>1, <1>3, <1>4, <1>5, <1>6

(* What is known of a task at one of the steps that checks and requests     *)
(* share, or requests alone have.                                          *)
LEMMA AtTask ==
  ASSUME TasksSound, NEW k \in Task
  PROVE  /\ k \in Check => k \notin Apply
         /\ k \notin Check => k \in Apply
         /\ update[k].gen \in Gen
         /\ TaskAt(k, "decide") => k \in Check /\ update[k].target \in Version
         /\ TaskAt(k, "ready") => Exclusive(k) /\ update[k].target \in Version
                                 /\ update[k].previous \in Version
         /\ TaskAt(k, "saving") => Exclusive(k) /\ update[k].target \in Version
         /\ update[k].pc \in {"applied", "persisted", "waiting"} =>
              /\ k \in Apply /\ Exclusive(k)
              /\ update[k].target \in Version /\ update[k].tag \in Tag
         /\ TaskAt(k, "pull") => update[k].target \in Version
         /\ k \in Apply /\ update[k].pc \in {"check", "pull"} => Exclusive(k)
<1>1. Sound(k, update[k]) /\ update[k] \in TaskShape
  BY DEF TasksSound
<1>2. update[k].gen \in Gen
  BY <1>1 DEF TaskShape
<1> QED
  BY <1>1, <1>2, TasksDisjoint DEF Sound, TaskAt, Exclusive, Task

(* The container is recreated for task k. *)
LEMMA SwapIs ==
  ASSUME TasksSound, live \in Container \cup {NoContainer}, NEW k \in Task,
         NEW v \in Version, NEW t \in Version, NEW p \in Version, NEW g \in Gen,
         k \in Apply \/ k \in Check,
         \/ SwapTo(k, v, [update[k] EXCEPT !.target = t, !.gen = g,
                                           !.previous = p, !.back = FALSE])
         \/ SwapTo(k, v, [update[k] EXCEPT !.back = TRUE]) /\ TaskAt(k, "ready")
  PROVE  /\ Moves(k) /\ update'[k].pc = "ready" /\ resolvedAutoTag' = v
         /\ live' \in Container \cup {NoContainer}
<1> DEFINE a == live'.addr
<1>1. PICK ok \in BOOLEAN :
        /\ resolvedAutoTag' = v /\ Recreate(v, ok)
        /\ \/ update' = [update EXCEPT ![k] =
                 [[update[k] EXCEPT !.target = t, !.gen = g, !.previous = p,
                                    !.back = FALSE] EXCEPT !.pc = "ready", !.ok = ok, !.addr = a]]
           \/ /\ TaskAt(k, "ready")
              /\ update' = [update EXCEPT ![k] =
                   [[update[k] EXCEPT !.back = TRUE] EXCEPT !.pc = "ready", !.ok = ok, !.addr = a]]
  BY DEF SwapTo
<1>2. live' \in Container \cup {NoContainer}
  BY <1>1, RecreateIs
<1>6. a \in Port \cup {None}
  BY <1>2 DEF Container, NoContainer
<1> HIDE DEF a
<1>3. "ready" \in TaskStep /\ update \in [Task -> TaskShape]
  BY DEF TaskStep, TasksSound
<1>4. /\ Others(k) /\ update'[k].pc = "ready"
      /\ update'[k].target \in Version /\ update'[k].previous \in Version
  <2>1. CASE update' = [update EXCEPT ![k] =
                 [[update[k] EXCEPT !.target = t, !.gen = g, !.previous = p,
                                    !.back = FALSE] EXCEPT !.pc = "ready", !.ok = ok, !.addr = a]]
    <3>1. update[k] \in TaskShape
      BY <1>3
    <3> DEFINE r == [[update[k] EXCEPT !.target = t, !.gen = g, !.previous = p,
                                       !.back = FALSE] EXCEPT !.pc = "ready", !.ok = ok, !.addr = a]
    <3>2. r \in TaskShape /\ r.pc = "ready" /\ r.target = t /\ r.previous = p
      BY <1>3, <1>6, <3>1 DEF TaskShape
    <3>3. update' = [update EXCEPT ![k] = r]
      BY <2>1
    <3> HIDE DEF r
    <3>4. Others(k) /\ update'[k] = r
      BY <1>3, <3>2, <3>3, SetTask
    <3> QED
      BY <3>2, <3>4
  <2>2. CASE /\ TaskAt(k, "ready")
             /\ update' = [update EXCEPT ![k] =
                   [[update[k] EXCEPT !.back = TRUE] EXCEPT !.pc = "ready", !.ok = ok, !.addr = a]]
    BY <1>3, <1>6, <2>2, AtTask, SetBack
  <2> QED
    BY <1>1, <2>1, <2>2
<1>5. Sound(k, update'[k])
  BY <1>4 DEF Sound
<1> QED
  BY <1>1, <1>2, <1>4, <1>5 DEF Moves, Others

-----------------------------------------------------------------------------
(* The order of lifecycles, startups and tasks. *)
Order ==
  /\ enabled <=> startup[gen] # "none"
  /\ \A g \in Gen : g > gen => startup[g] = "none"
  /\ enabled => settings # None
  /\ \A g \in Gen : startup[g] # "none" => settings # None
  /\ updateTimer # None => enabled /\ updateTimer = gen
  /\ client # None => enabled /\ startup[gen] = "done"
  /\ \A k \in Check : update[k].pc # "off" => settings # None
  /\ \A k \in Check : update[k].pc # "off" =>
       update[k].gen <= gen /\ (update[k].gen = gen => enabled)

LifeInv == TypeOK /\ TasksSound /\ Order

(* An install begins: its target is what auto stands for, and the task     *)
(* knows the version before and where the new container is.                *)
LEMMA InstallBegins ==
  ASSUME LifeInv, NEW k \in Task, NEW g \in Gen, update[k].target \in Version,
         BeginInstall(k, update[k].target, g)
  PROVE  \E ok \in BOOLEAN :
           /\ resolvedAutoTag' = update[k].target /\ Recreate(update[k].target, ok)
           /\ Others(k)
           /\ update'[k].pc = "ready" /\ update'[k].gen = g
           /\ update'[k].tag = update[k].tag /\ update'[k].target = update[k].target
           /\ update'[k].previous = Previous /\ update'[k].back = FALSE
           /\ update'[k].ok = ok /\ update'[k].addr = live'.addr
<1> DEFINE a == live'.addr
           u == update[k]
<1>1. PICK ok \in BOOLEAN :
        /\ resolvedAutoTag' = u.target /\ Recreate(u.target, ok)
        /\ update' = [update EXCEPT ![k] =
             [[u EXCEPT !.target = u.target, !.gen = g, !.previous = Previous,
                        !.back = FALSE] EXCEPT !.pc = "ready", !.ok = ok, !.addr = a]]
  BY DEF BeginInstall, SwapTo
<1>2. /\ update \in [Task -> TaskShape] /\ "ready" \in TaskStep
      /\ Previous \in Version /\ live \in Container \cup {NoContainer}
  BY FloorIs DEF LifeInv, TypeOK, TaskStep, Previous
<1>3. a \in Port \cup {None}
  <2>1. live' \in Container \cup {NoContainer}
    BY <1>1, <1>2, RecreateIs
  <2> QED
    BY <2>1 DEF Container, NoContainer
<1>4. u \in TaskShape
  BY <1>2
<1> HIDE DEF a, u
<1> DEFINE r == [[u EXCEPT !.target = u.target, !.gen = g, !.previous = Previous,
                           !.back = FALSE] EXCEPT !.pc = "ready", !.ok = ok, !.addr = a]
<1>5. /\ r \in TaskShape
      /\ r.pc = "ready" /\ r.gen = g /\ r.tag = u.tag /\ r.target = u.target
      /\ r.previous = Previous /\ r.back = FALSE /\ r.ok = ok /\ r.addr = a
  BY <1>2, <1>3, <1>4 DEF TaskShape, u
<1>6. update' = [update EXCEPT ![k] = r]
  BY <1>1
<1> HIDE DEF r
<1>7. Others(k) /\ update'[k] = r
  BY <1>2, <1>5, <1>6, SetTask
<1> QED
  BY <1>1, <1>5, <1>7 DEF a, u

(* An install turns back: the previous version is what auto stands for.    *)
LEMMA InstallReturns ==
  ASSUME LifeInv, NEW k \in Task, TaskAt(k, "ready"),
         SwapTo(k, update[k].previous, [update[k] EXCEPT !.back = TRUE])
  PROVE  \E ok \in BOOLEAN :
           /\ resolvedAutoTag' = update[k].previous /\ Recreate(update[k].previous, ok)
           /\ Others(k)
           /\ update'[k].pc = "ready" /\ update'[k].gen = update[k].gen
           /\ update'[k].tag = update[k].tag /\ update'[k].target = update[k].target
           /\ update'[k].previous = update[k].previous /\ update'[k].back = TRUE
           /\ update'[k].ok = ok /\ update'[k].addr = live'.addr
<1> DEFINE a == live'.addr
           u == update[k]
<1>1. PICK ok \in BOOLEAN :
        /\ resolvedAutoTag' = u.previous /\ Recreate(u.previous, ok)
        /\ update' = [update EXCEPT ![k] =
             [[u EXCEPT !.back = TRUE] EXCEPT !.pc = "ready", !.ok = ok, !.addr = a]]
  BY DEF SwapTo
<1>2. /\ update \in [Task -> TaskShape] /\ "ready" \in TaskStep
      /\ u.previous \in Version /\ live \in Container \cup {NoContainer}
  BY AtTask DEF LifeInv, TypeOK, TaskStep
<1>3. a \in Port \cup {None}
  <2>1. live' \in Container \cup {NoContainer}
    BY <1>1, <1>2, RecreateIs
  <2> QED
    BY <2>1 DEF Container, NoContainer
<1>4. u \in TaskShape
  BY <1>2
<1> HIDE DEF a, u
<1> DEFINE r == [[u EXCEPT !.back = TRUE] EXCEPT !.pc = "ready", !.ok = ok, !.addr = a]
<1>5. /\ r \in TaskShape
      /\ r.pc = "ready" /\ r.gen = u.gen /\ r.tag = u.tag /\ r.target = u.target
      /\ r.previous = u.previous /\ r.back = TRUE /\ r.ok = ok /\ r.addr = a
  BY <1>2, <1>3, <1>4 DEF TaskShape
<1>6. update' = [update EXCEPT ![k] = r]
  BY <1>1
<1> HIDE DEF r
<1>7. Others(k) /\ update'[k] = r
  BY <1>2, <1>5, <1>6, SetTask
<1> QED
  BY <1>1, <1>5, <1>7 DEF a, u

(* What the steps of tasks leave alone, and the types of what they set. *)
TaskTypes ==
  /\ UNCHANGED <<gen, enabled, dbTimer, startup, edits, restoring>>
  /\ settings' \in Settings \cup {None} /\ saved' \in Settings
  /\ settings # None => settings' # None
  /\ resolvedAutoTag' \in Version \cup {None}
  /\ live' \in Container \cup {NoContainer}
  /\ failed' \subseteq Version

(* The updater is armed for a lifecycle that is current, if at all; the    *)
(* client moves, but neither comes nor goes.                               *)
TaskTimers(k) ==
  /\ \/ updateTimer' = updateTimer \/ updateTimer' = None
     \/ updateTimer' = gen /\ k \in Check /\ update[k].gen = gen /\ update[k].pc # "off"
     \/ updateTimer' = gen /\ client # None
  /\ uplink' \in BOOLEAN
  /\ client' \in Address \cup {None} /\ (client' = None <=> client = None)
  /\ containerAddress' \in Address \cup {None}
  /\ emitter' \in Address \cup {None}
  /\ client = None => containerAddress' = containerAddress /\ emitter' = emitter

(* A task that ends arms the timer only for a lifecycle that goes on.      *)
LEMMA TimerEnds ==
  ASSUME NEW k \in Task, NEW success,
         \/ EndApply(k, success)
         \/ EndCheck(k) /\ k \in Check /\ update[k].pc # "off"
         \/ EndTask(k, success) /\ update[k].pc # "off"
  PROVE  \/ updateTimer' = updateTimer \/ updateTimer' = None
         \/ updateTimer' = gen /\ k \in Check /\ update[k].gen = gen /\ update[k].pc # "off"
         \/ updateTimer' = gen /\ client # None
BY DEF EndApply, EndCheck, EndTask, ScheduleUpdate, Current

(* The steps of a check before its decision move one task, respect the     *)
(* lock and keep types and timers.                                         *)
LEMMA CheckStep ==
  ASSUME LifeInv, NEW k \in Task,
         TimerFires(k) \/ CheckAnswered(k) \/ LinkRead(k) \/ CheckPulled(k)
           \/ IdleRead(k)
  PROVE  Moves(k) /\ Lock(k) /\ TaskTypes /\ TaskTimers(k)
<1>1. /\ Moves(k) /\ k \in Check
      /\ {update[k].pc, update'[k].pc} \subseteq
           {"off", "check", "link", "pull", "idle", "decide"}
  BY CheckMoves DEF LifeInv, TypeOK
<1>2. Lock(k)
  <2>1. serverInstalling' = serverInstalling /\ serverInstalling \in BOOLEAN
    BY DEF TimerFires, CheckAnswered, LinkRead, CheckPulled, IdleRead, LifeInv, TypeOK
  <2>2. ~Exclusive(k) /\ ~Exclusive(k)'
    BY <1>1, TasksDisjoint DEF Exclusive
  <2> QED
    BY <2>1, <2>2 DEF Lock
<1>3. TaskTypes
  <2>1. UNCHANGED <<gen, enabled, tags, dbTimer, failed, startup, edits, outside>>
    BY DEF TimerFires, CheckAnswered, LinkRead, CheckPulled, IdleRead, timers
  <2> QED
    BY <2>1 DEF TaskTypes, tags, outside, LifeInv, TypeOK
<1>4. TaskTimers(k)
  <2>1. /\ published' = published /\ uplink' = uplink /\ uplink \in BOOLEAN
    BY DEF TimerFires, CheckAnswered, LinkRead, CheckPulled, IdleRead, timers,
       LifeInv, TypeOK
  <2>2. \/ updateTimer' = updateTimer \/ updateTimer' = None
        \/ updateTimer' = gen /\ k \in Check /\ update[k].gen = gen /\ update[k].pc # "off"
        \/ updateTimer' = gen /\ client # None
    BY <1>1, TimerEnds DEF TimerFires, CheckAnswered, LinkRead, CheckPulled,
       IdleRead, timers, TaskAt
  <2> QED
    BY <2>1, <2>2 DEF TaskTimers, published, LifeInv, TypeOK
<1> QED
  BY <1>1, <1>2, <1>3, <1>4

(* What an end of the task comes to, with the lock given back. *)
LEMMA Leaves ==
  ASSUME TasksSound, NEW k \in Task, NEW success, Exclusive(k),
         EndTask(k, success) \/ EndApply(k, success), serverInstalling' = FALSE
  PROVE  /\ Moves(k) /\ Lock(k)
         /\ \/ updateTimer' = updateTimer \/ updateTimer' = None
            \/ updateTimer' = gen /\ k \in Check /\ update[k].gen = gen
                 /\ update[k].pc # "off"
            \/ updateTimer' = gen /\ client # None
<1>1. Moves(k) /\ update'[k].pc = "off"
  BY EndsIdle, EndIs
<1>2. ~Exclusive(k)'
  BY <1>1 DEF Exclusive
<1>3. update[k].pc # "off"
  BY DEF Exclusive
<1> QED
  BY <1>1, <1>2, <1>3, TimerEnds DEF Lock

(* A task that gives up the install moves on and gives back the lock.      *)
LEMMA GiveUpIs ==
  ASSUME LifeInv, NEW k \in Task, TaskAt(k, "ready"), GiveUp(k)
  PROVE  /\ Moves(k) /\ Lock(k) /\ failed' \subseteq Version
         /\ \/ updateTimer' = updateTimer \/ updateTimer' = None
            \/ updateTimer' = gen /\ k \in Check /\ update[k].gen = gen
                 /\ update[k].pc # "off"
            \/ updateTimer' = gen /\ client # None
<1>1. Exclusive(k) /\ update[k].target \in Version
  BY AtTask DEF LifeInv
<1> QED
  BY <1>1, Leaves DEF GiveUp, LifeInv, TypeOK

(* A task that goes on inside the lock. *)
LEMMA StaysInside ==
  ASSUME NEW k \in Task,
         \/ update'[k].pc \in {"ready", "saving"}
         \/ /\ k \in Apply
            /\ update'[k].pc \in {"check", "pull", "applied", "persisted", "waiting"}
  PROVE  Exclusive(k)'
BY DEF Exclusive

(* Adopting an address keeps what is published typed, and publishes        *)
(* nothing new.                                                            *)
LEMMA AdoptTyped ==
  ASSUME LifeInv, live # NoContainer, Adopt(live.addr)
  PROVE  /\ client' \in Address \cup {None} /\ (client' = None <=> client = None)
         /\ containerAddress' \in Address \cup {None}
         /\ emitter' \in Address \cup {None}
         /\ client = None => containerAddress' = containerAddress /\ emitter' = emitter
<1>1. live.addr \in Address
  BY DEF LifeInv, TypeOK, Container, Address
<1> QED
  BY <1>1, AdoptIs, NoneIs DEF published, LifeInv, TypeOK

(* Nor does a step that changes nothing published.                         *)
LEMMA PublishedStays ==
  ASSUME LifeInv, published' = published
  PROVE  /\ client' \in Address \cup {None} /\ (client' = None <=> client = None)
         /\ containerAddress' \in Address \cup {None}
         /\ emitter' \in Address \cup {None}
         /\ client = None => containerAddress' = containerAddress /\ emitter' = emitter
BY DEF published, LifeInv, TypeOK

(* The decision and the steps of an install do the same as CheckStep.      *)
LEMMA InstallStep ==
  ASSUME LifeInv, NEW k \in Task, Decide(k) \/ InstallProceeds(k)
  PROVE  Moves(k) /\ Lock(k) /\ TaskTypes /\ TaskTimers(k)
<1>1. /\ TasksSound /\ settings \in Settings \cup {None} /\ saved \in Settings
      /\ resolvedAutoTag \in Version \cup {None} /\ gen \in Gen
      /\ live \in Container \cup {NoContainer} /\ failed \subseteq Version
      /\ uplink \in BOOLEAN /\ serverInstalling \in BOOLEAN
  BY DEF LifeInv, TypeOK
<1>3. AUTO \in Tag /\ Previous \in Version
  <2>1. CASE resolvedAutoTag = None
    BY <2>1, FloorIs DEF Tag, Previous
  <2>2. CASE resolvedAutoTag # None
    BY <1>1, <2>2 DEF Tag, Previous
  <2> QED
    BY <2>1, <2>2
<1>4. k \in Check \/ k \in Apply
  BY DEF Task
<1>5. CASE Decide(k)
  <2>1. k \in Check /\ k \notin Apply /\ update[k].target \in Version /\ ~Exclusive(k)
    BY <1>1, <1>5, AtTask DEF Decide, TaskAt, Exclusive
  <2>2. /\ published' = published
        /\ UNCHANGED <<gen, enabled, dbTimer, uplink, failed, startup, edits, restoring>>
    BY <1>5 DEF Decide, published
  <2>3. CASE MayInstall(k)
    <3>1. /\ serverInstalling' = TRUE /\ ~serverInstalling
          /\ BeginInstall(k, update[k].target, update[k].gen)
          /\ UNCHANGED <<settings, saved, updateTimer>>
      BY <1>5, <2>3 DEF Decide, MayInstall, Busy
    <3>2. /\ Moves(k) /\ update'[k].pc = "ready"
          /\ resolvedAutoTag' \in Version /\ live' \in Container \cup {NoContainer}
      <4>1. update[k].gen \in Gen
        BY <1>1, AtTask
      <4>2. SwapTo(k, update[k].target,
                   [update[k] EXCEPT !.target = update[k].target, !.gen = update[k].gen,
                                     !.previous = Previous, !.back = FALSE])
        BY <3>1 DEF BeginInstall
      <4> QED
        BY <1>1, <1>3, <1>4, <2>1, <4>1, <4>2, SwapIs
    <3>3. Lock(k)
      BY <3>1, <3>2, StaysInside DEF Lock
    <3> QED
      BY <1>1, <2>2, <3>1, <3>2, <3>3, PublishedStays DEF TaskTypes, TaskTimers
  <2>4. CASE ~MayInstall(k)
    <3>1. /\ EndCheck(k) /\ UNCHANGED <<serverInstalling, tags, live>>
          /\ TaskAt(k, "decide")
      BY <1>5, <2>4 DEF Decide
    <3>2. Moves(k) /\ update'[k].pc = "off"
      BY <1>1, <3>1, EndsIdle, EndIs
    <3>3. Lock(k)
      BY <1>1, <2>1, <3>1, <3>2 DEF Lock, Exclusive
    <3>4. TaskTimers(k)
      BY <1>1, <2>1, <2>2, <3>1, TimerEnds, PublishedStays DEF TaskTimers, TaskAt
    <3> QED
      BY <1>1, <2>2, <3>1, <3>2, <3>3, <3>4 DEF TaskTypes, tags
  <2> QED
    BY <2>3, <2>4
<1>6. CASE NewServerReady(k)
  <2>1. /\ TaskAt(k, "ready") /\ Exclusive(k) /\ update[k].target \in Version
    BY <1>1, <1>6, AtTask DEF NewServerReady, TaskAt
  <2>2. /\ UNCHANGED <<gen, enabled, timers, failed, serverInstalling, startup,
                       edits, outside>>
        /\ live # NoContainer /\ Adopt(live.addr)
    BY <1>6 DEF NewServerReady, HealthPoll, WaitForReady
  <2>3. PICK ok \in BOOLEAN :
          /\ PersistAppliedTag(AUTO, update[k].target, ok)
          /\ update' = [update EXCEPT ![k].pc = "saving", ![k].ok = ok]
    BY <1>6 DEF NewServerReady
  <2>4. /\ settings' \in Settings \cup {None} /\ saved' \in Settings
        /\ settings # None => settings' # None
        /\ resolvedAutoTag' \in Version \cup {None}
    BY <1>1, <1>3, <2>1, <2>3, PersistTyped
  <2>5. Others(k) /\ update'[k].pc = "saving" /\ update'[k].target = update[k].target
    BY <1>1, <2>3, SetOk DEF TasksSound, TaskStep
  <2>6. Moves(k)
    BY <2>1, <2>5 DEF Moves, Others, Sound
  <2>7. Lock(k)
    BY <1>1, <2>1, <2>2, <2>5, StaysInside DEF Lock
  <2>8. TaskTypes
    BY <1>1, <2>1, <2>2, <2>4, NoneIs DEF TaskTypes, timers, outside
  <2>9. TaskTimers(k)
    BY <1>1, <2>2, AdoptTyped DEF TaskTimers, timers
  <2> QED
    BY <2>6, <2>7, <2>8, <2>9
<1>7. CASE NewServerFailed(k)
  <2>1. /\ TaskAt(k, "ready") /\ Exclusive(k) /\ update[k].previous \in Version
        /\ published' = published
        /\ UNCHANGED <<gen, enabled, settings, saved, dbTimer, uplink, startup,
                       edits, restoring>>
    BY <1>1, <1>7, AtTask DEF NewServerFailed, published
  <2>2. CASE Current(update[k].gen)
    <3>1. /\ SwapTo(k, update[k].previous, [update[k] EXCEPT !.back = TRUE])
          /\ UNCHANGED <<updateTimer, failed, serverInstalling>>
      BY <1>7, <2>2 DEF NewServerFailed
    <3>2. /\ Moves(k) /\ update'[k].pc = "ready"
          /\ resolvedAutoTag' \in Version /\ live' \in Container \cup {NoContainer}
      BY <1>1, <1>4, <2>1, <3>1, FloorIs, SwapIs
    <3>3. Lock(k)
      BY <1>1, <2>1, <3>1, <3>2, StaysInside DEF Lock
    <3> QED
      BY <1>1, <2>1, <3>1, <3>2, <3>3, PublishedStays DEF TaskTypes, TaskTimers
  <2>3. CASE ~Current(update[k].gen)
    <3>1. GiveUp(k) /\ UNCHANGED <<resolvedAutoTag, live>>
      BY <1>7, <2>3 DEF NewServerFailed
    <3> QED
      BY <1>1, <2>1, <3>1, GiveUpIs, PublishedStays DEF TaskTypes, TaskTimers
  <2> QED
    BY <2>2, <2>3
<1>8. CASE OldServerBack(k)
  <2>1. /\ TaskAt(k, "ready") /\ GiveUp(k)
        /\ UNCHANGED <<gen, enabled, tags, dbTimer, uplink, startup, edits, outside>>
        /\ (live # NoContainer /\ Adopt(live.addr)) \/ published' = published
    BY <1>8 DEF OldServerBack, HealthPoll, WaitForReady, published
  <2>2. TaskTypes
    BY <1>1, <2>1, GiveUpIs DEF TaskTypes, tags, outside
  <2>3. TaskTimers(k)
    BY <1>1, <2>1, GiveUpIs, AdoptTyped, PublishedStays DEF TaskTimers
  <2> QED
    BY <2>1, <2>2, <2>3, GiveUpIs
<1>9. CASE InstallSaved(k)
  <2>1. /\ TaskAt(k, "saving") /\ Exclusive(k) /\ serverInstalling' = FALSE
        /\ EndTask(k, update[k].ok) /\ published' = published
        /\ UNCHANGED <<gen, enabled, tags, dbTimer, failed, startup, edits, outside>>
    BY <1>1, <1>9, AtTask DEF InstallSaved, published
  <2>2. uplink' \in BOOLEAN
    BY <1>9 DEF InstallSaved
  <2>3. TaskTypes
    BY <1>1, <2>1 DEF TaskTypes, tags, outside
  <2>4. TaskTimers(k)
    BY <1>1, <2>1, <2>2, Leaves, PublishedStays DEF TaskTimers
  <2> QED
    BY <1>1, <2>1, <2>3, <2>4, Leaves
<1> QED
  BY <1>5, <1>6, <1>7, <1>8, <1>9 DEF InstallProceeds

(* The container is recreated on a requested tag. *)
LEMMA ApplyTagIs ==
  ASSUME LifeInv, NEW k \in Apply, NEW tag \in Tag, ApplyTag(k, tag),
         TaskAt(k, "new") \/ TaskAt(k, "check")
  PROVE  /\ Moves(k) /\ Exclusive(k)'
         /\ live' \in Container \cup {NoContainer}
<1>1. /\ update \in [Task -> TaskShape] /\ k \in Task /\ "applied" \in TaskStep
      /\ live \in Container \cup {NoContainer} /\ k \notin Check
      /\ resolvedAutoTag \in Version \cup {None}
  BY TasksDisjoint DEF LifeInv, TypeOK, Task, TaskStep
<1> DEFINE v == Resolve(tag, resolvedAutoTag)
<1>2. v \in Version
  BY <1>1, ResolveIs
<1> HIDE DEF v
<1>3. PICK ok \in BOOLEAN :
        /\ Recreate(v, ok)
        /\ update' = [update EXCEPT ![k].pc = "applied", ![k].tag = tag,
                                    ![k].ok = ok, ![k].target = v]
  BY DEF ApplyTag, v
<1>4. live' \in Container \cup {NoContainer}
  BY <1>1, <1>2, <1>3, RecreateIs
<1>5. /\ Others(k) /\ update'[k].pc = "applied" /\ update'[k].tag = tag
      /\ update'[k].target = v
  <2> DEFINE u == [update[k] EXCEPT !.pc = "applied", !.tag = tag, !.ok = ok,
                                    !.target = v]
  <2>1. update' = [update EXCEPT ![k] = u]
    BY <1>1, <1>3
  <2>2. u \in TaskShape
    BY <1>1, <1>2 DEF TaskShape
  <2>3. u.pc = "applied" /\ u.tag = tag /\ u.target = v
    BY <1>1 DEF TaskShape
  <2> HIDE DEF u
  <2> QED
    BY <1>1, <2>1, <2>2, <2>3 DEF Others
<1> QED
  BY <1>1, <1>2, <1>4, <1>5, StaysInside DEF Moves, Others, Sound

(* And so do the steps of an apply request.                                *)
LEMMA ApplyStep ==
  ASSUME LifeInv, NEW k \in Task,
         ApplyRefused(k) \/ (\E t \in Tag : ApplyRequested(k, t)) \/ ApplyProceeds(k)
  PROVE  Moves(k) /\ Lock(k) /\ TaskTypes /\ TaskTimers(k)
<1>1. /\ TasksSound /\ update \in [Task -> TaskShape]
      /\ settings \in Settings \cup {None} /\ saved \in Settings
      /\ resolvedAutoTag \in Version \cup {None} /\ gen \in Gen
      /\ live \in Container \cup {NoContainer} /\ failed \subseteq Version
      /\ uplink \in BOOLEAN /\ serverInstalling \in BOOLEAN
      /\ TaskStep = {"new", "off", "check", "link", "pull", "idle", "decide", "ready",
                     "saving", "applied", "persisted", "waiting"}
  BY DEF LifeInv, TypeOK, TaskStep
<1>3. AUTO \in Tag /\ Previous \in Version
  <2>1. CASE resolvedAutoTag = None
    BY <2>1, FloorIs DEF Tag, Previous
  <2>2. CASE resolvedAutoTag # None
    BY <1>1, <2>2 DEF Tag, Previous
  <2> QED
    BY <2>1, <2>2
<1>4. CASE ApplyRefused(k)
  <2>1. /\ k \in Apply /\ k \notin Check /\ ~Exclusive(k) /\ published' = published
        /\ update' = [update EXCEPT ![k] = Idle]
        /\ UNCHANGED <<gen, enabled, tags, timers, failed, serverInstalling, startup,
                       edits, outside>>
    BY <1>1, <1>4, AtTask DEF ApplyRefused, TaskAt, Exclusive, published
  <2>2. Moves(k) /\ ~Exclusive(k)'
    BY <1>1, <2>1, EndsIdle DEF Exclusive
  <2> QED
    BY <1>1, <2>1, <2>2, PublishedStays DEF Lock, TaskTypes, TaskTimers, tags, timers, outside
<1>5. ASSUME NEW t \in Tag, ApplyRequested(k, t)
      PROVE  Moves(k) /\ Lock(k) /\ TaskTypes /\ TaskTimers(k)
  <2>1. /\ k \in Apply /\ TaskAt(k, "new")
        /\ ~serverInstalling /\ serverInstalling' = TRUE /\ published' = published
        /\ UNCHANGED <<gen, enabled, tags, timers, failed, startup, edits, restoring>>
    BY <1>5 DEF ApplyRequested, InstallLockFree, published
  <2>2. /\ Moves(k) /\ Exclusive(k)' /\ live' \in Container \cup {NoContainer}
    <3>1. CASE t = AUTO
      <4>1. Others(k) /\ update'[k].pc = "check" /\ live' = live
        BY <1>1, <1>5, <3>1, SetTag DEF ApplyRequested
      <4> QED
        BY <1>1, <2>1, <4>1, TasksDisjoint, StaysInside DEF Moves, Others, Sound
    <3>2. CASE t # AUTO
      BY <1>5, <2>1, <3>2, ApplyTagIs DEF ApplyRequested
    <3> QED
      BY <3>1, <3>2
  <2> QED
    BY <1>1, <2>1, <2>2, PublishedStays DEF Lock, TaskTypes, TaskTimers, tags, timers
<1>6. CASE ApplyAnswered(k)
  <2>1. /\ k \in Apply /\ TaskAt(k, "check") /\ Exclusive(k) /\ published' = published
        /\ UNCHANGED <<gen, enabled, tags, dbTimer, uplink, failed, startup, edits,
                       restoring>>
    BY <1>1, <1>6, AtTask DEF ApplyAnswered, published, TaskAt
  <2>2. CASE ApplyTag(k, AUTO) /\ UNCHANGED <<serverInstalling, updateTimer>>
    <3>1. /\ Moves(k) /\ Exclusive(k)' /\ live' \in Container \cup {NoContainer}
      BY <1>3, <2>1, <2>2, ApplyTagIs
    <3> QED
      BY <1>1, <2>1, <2>2, <3>1, PublishedStays DEF Lock, TaskTypes, TaskTimers, tags
  <2>3. ASSUME NEW v \in Version, UNCHANGED <<serverInstalling, updateTimer, live>>,
               update' = [update EXCEPT ![k].pc = "pull", ![k].target = v]
        PROVE  Moves(k) /\ Lock(k) /\ TaskTypes /\ TaskTimers(k)
    <3>1. Others(k) /\ update'[k].pc = "pull" /\ update'[k].target = v
      <4>1. update \in [Task -> TaskShape] /\ "pull" \in TaskStep
        BY <1>1
      <4> QED
        BY <2>3, <4>1, SetTarget
    <3>2. Moves(k) /\ Exclusive(k)'
      BY <1>1, <2>1, <3>1, TasksDisjoint, StaysInside DEF Moves, Others, Sound
    <3> QED
      BY <1>1, <2>1, <2>3, <3>2, PublishedStays DEF Lock, TaskTypes, TaskTimers, tags
  <2>4. CASE serverInstalling' = FALSE /\ EndApply(k, FALSE) /\ UNCHANGED live
    BY <1>1, <2>1, <2>4, Leaves, PublishedStays DEF TaskTypes, TaskTimers, tags
  <2> QED
    BY <1>6, <2>2, <2>3, <2>4 DEF ApplyAnswered
<1>7. CASE ApplyPulled(k)
  <2>1. /\ k \in Apply /\ TaskAt(k, "pull") /\ Exclusive(k) /\ published' = published
        /\ update[k].target \in Version
        /\ UNCHANGED <<gen, enabled, settings, saved, dbTimer, uplink, failed, startup,
                       edits, restoring>>
    BY <1>1, <1>7, AtTask DEF ApplyPulled, published, TaskAt
  <2>2. CASE /\ BeginInstall(k, update[k].target, gen)
             /\ UNCHANGED <<serverInstalling, updateTimer>>
    <3>1. SwapTo(k, update[k].target,
                 [update[k] EXCEPT !.target = update[k].target, !.gen = gen,
                                   !.previous = Previous, !.back = FALSE])
      BY <2>2 DEF BeginInstall
    <3>2. /\ Moves(k) /\ update'[k].pc = "ready"
          /\ resolvedAutoTag' \in Version /\ live' \in Container \cup {NoContainer}
      BY <1>1, <1>3, <2>1, <3>1, SwapIs
    <3>3. Lock(k)
      BY <1>1, <2>1, <2>2, <3>2, StaysInside DEF Lock
    <3> QED
      BY <1>1, <2>1, <2>2, <3>2, <3>3, PublishedStays DEF TaskTypes, TaskTimers
  <2>3. CASE /\ serverInstalling' = FALSE /\ EndApply(k, FALSE)
             /\ UNCHANGED <<resolvedAutoTag, live>>
    BY <1>1, <2>1, <2>3, Leaves, PublishedStays DEF TaskTypes, TaskTimers
  <2> QED
    BY <1>7, <2>2, <2>3 DEF ApplyPulled
<1>8. CASE TagApplied(k)
  <2>1. /\ k \in Apply /\ TaskAt(k, "applied") /\ Exclusive(k) /\ published' = published
        /\ update[k].target \in Version /\ update[k].tag \in Tag
        /\ UNCHANGED <<gen, enabled, dbTimer, uplink, failed, startup, edits, outside>>
    BY <1>1, <1>8, AtTask DEF TagApplied, published, TaskAt
  <2>2. CASE update[k].ok
    <3>1. UNCHANGED <<serverInstalling, updateTimer>>
      BY <1>8, <2>2 DEF TagApplied
    <3>2. PICK ok \in BOOLEAN :
            /\ PersistAppliedTag(update[k].tag, update[k].target, ok)
            /\ update' = [update EXCEPT ![k].pc = "persisted", ![k].ok = ok]
      BY <1>8, <2>2 DEF TagApplied
    <3>3. /\ settings' \in Settings \cup {None} /\ saved' \in Settings
          /\ settings # None => settings' # None
          /\ resolvedAutoTag' \in Version \cup {None}
      BY <1>1, <2>1, <3>2, PersistTyped
    <3>4. /\ Others(k) /\ update'[k].pc = "persisted"
          /\ update'[k].target = update[k].target /\ update'[k].tag = update[k].tag
      BY <1>1, <3>2, SetOk
    <3>5. Moves(k) /\ Lock(k)
      BY <1>1, <2>1, <3>1, <3>4, TasksDisjoint, StaysInside DEF Moves, Others, Sound, Lock
    <3>6. TaskTypes
      BY <1>1, <2>1, <3>3, NoneIs DEF TaskTypes, outside
    <3> QED
      BY <1>1, <2>1, <3>1, <3>5, <3>6, PublishedStays DEF TaskTimers
  <2>3. CASE ~update[k].ok
    <3>1. serverInstalling' = FALSE /\ EndApply(k, FALSE) /\ UNCHANGED tags
      BY <1>8, <2>3 DEF TagApplied
    <3> QED
      BY <1>1, <2>1, <3>1, Leaves, PublishedStays DEF TaskTypes, TaskTimers, tags, outside
  <2> QED
    BY <2>2, <2>3
<1>9. CASE AppliedTagSaved(k)
  <2>1. /\ k \in Apply /\ TaskAt(k, "persisted") /\ Exclusive(k)
        /\ update[k].target \in Version /\ update[k].tag \in Tag
        /\ UNCHANGED <<gen, enabled, tags, dbTimer, uplink, failed, startup, edits, outside>>
    BY <1>1, <1>9, AtTask DEF AppliedTagSaved, TaskAt
  <2>2. TaskTypes
    BY <1>1, <2>1 DEF TaskTypes, tags, outside
  <2>3. CASE live # NoContainer
    <3>1. Adopt(live.addr) /\ UNCHANGED <<serverInstalling, updateTimer>>
      BY <1>9, <2>3 DEF AppliedTagSaved
    <3>2. /\ Others(k) /\ update'[k].pc = "waiting"
          /\ update'[k].target = update[k].target /\ update'[k].tag = update[k].tag
      <4>1. live.addr \in Port \cup {None} /\ "waiting" \in TaskStep
        BY <1>1, <2>3 DEF Container
      <4>2. update' = [update EXCEPT ![k].pc = "waiting", ![k].addr = live.addr]
        BY <1>9, <2>3 DEF AppliedTagSaved
      <4>3. update \in [Task -> TaskShape]
        BY <1>1
      <4> QED
        BY <4>1, <4>2, <4>3, SetAddr
    <3>3. Sound(k, update'[k]) /\ k \notin Check
      BY <2>1, <3>2, TasksDisjoint DEF Sound
    <3>4. Exclusive(k)'
      BY <2>1, <3>2, StaysInside
    <3>5. Moves(k) /\ Lock(k)
      BY <1>1, <2>1, <3>1, <3>2, <3>3, <3>4 DEF Moves, Others, Lock
    <3> QED
      BY <1>1, <2>1, <2>2, <2>3, <3>1, <3>5, AdoptTyped DEF TaskTimers
  <2>4. CASE live = NoContainer
    <3>1. /\ serverInstalling' = FALSE /\ EndApply(k, FALSE) /\ published' = published
      BY <1>9, <2>4 DEF AppliedTagSaved, published
    <3> QED
      BY <1>1, <2>1, <2>2, <3>1, Leaves, PublishedStays DEF TaskTimers
  <2> QED
    BY <2>3, <2>4
<1>10. CASE AppliedServerReady(k)
  <2>1. /\ k \in Apply /\ TaskAt(k, "waiting") /\ Exclusive(k)
        /\ serverInstalling' = FALSE /\ published' = published
        /\ UNCHANGED <<gen, enabled, tags, dbTimer, failed, startup, edits, outside>>
        /\ uplink' \in BOOLEAN /\ \E success \in BOOLEAN : EndApply(k, success)
    <3>1. \E success \in BOOLEAN : EndApply(k, success)
      <4>1. update[k].ok \in BOOLEAN
        BY <1>1 DEF TaskShape
      <4> QED
        BY <1>10, <4>1 DEF AppliedServerReady
    <3> QED
      BY <1>1, <1>10, <3>1, AtTask DEF AppliedServerReady, TaskAt, published
  <2> QED
    BY <1>1, <2>1, Leaves, PublishedStays DEF TaskTypes, TaskTimers, tags, outside
<1> QED
  BY <1>4, <1>5, <1>6, <1>7, <1>8, <1>9, <1>10 DEF ApplyProceeds

(* A check keeps the lifecycle that its timer was armed for.               *)
Goes(k) ==
  \/ update'[k].pc \in {"new", "off"}
  \/ /\ update[k].pc \notin {"new", "off"}
     /\ k \in Check => update'[k].gen = update[k].gen
  \/ k \in Apply
  \/ k \in Check /\ updateTimer # None /\ update'[k].gen = updateTimer

TaskActs(k) == \/ TimerFires(k) \/ ApplyRefused(k) \/ TaskProceeds(k)
               \/ \E t \in Tag : ApplyRequested(k, t)

(* Its timer had fired when it began, and it keeps its lifecycle.          *)
LEMMA TaskGoes ==
  ASSUME LifeInv, NEW k \in Task, TaskActs(k)
  PROVE  Goes(k)
<1>1. /\ update \in [Task -> TaskShape] /\ TasksSound
      /\ TaskStep = {"new", "off", "check", "link", "pull", "idle", "decide", "ready",
                     "saving", "applied", "persisted", "waiting"}
      /\ updateTimer \in Gen \cup {None}
  BY DEF LifeInv, TypeOK, TaskStep
<1>2. ASSUME update' = [update EXCEPT ![k] = Idle]
      PROVE  Goes(k)
  BY <1>1, <1>2, EndsIdle DEF Goes
<1>3. ASSUME NEW s, EndTask(k, s) \/ EndCheck(k) \/ EndApply(k, s)
      PROVE  Goes(k)
  BY <1>2, <1>3, EndIs
<1>4. ASSUME update[k].pc \notin {"new", "off"}, update'[k].gen = update[k].gen
      PROVE  Goes(k)
  BY <1>4 DEF Goes
<1>5. CASE TimerFires(k)
  <2>1. CASE update' = update
    BY <1>5, <2>1 DEF TimerFires, TaskAt, Goes
  <2>2. CASE Wanted(updateTimer)
    <3>1. /\ updateTimer \in Gen /\ k \in Check /\ "check" \in TaskStep
          /\ update' = [update EXCEPT ![k].pc = "check", ![k].gen = updateTimer]
      BY <1>1, <1>5, <2>2 DEF TimerFires
    <3>2. update'[k].gen = updateTimer
      BY <1>1, <3>1 DEF TaskShape
    <3> QED
      BY <3>1, <3>2, NoneIs DEF Goes
  <2> QED
    BY <1>5, <2>1, <2>2 DEF TimerFires
<1>6. CASE CheckAnswered(k)
  BY <1>1, <1>3, <1>4, <1>6, SetTarget DEF CheckAnswered, TaskAt
<1>7. CASE LinkRead(k) \/ CheckPulled(k)
  BY <1>1, <1>3, <1>4, <1>7, SetPc DEF LinkRead, CheckPulled, TaskAt, TaskGoto
<1>8. CASE IdleRead(k)
  <2>1. PICK ok \in BOOLEAN :
          update' = [update EXCEPT ![k].pc = "decide", ![k].ok = ok]
    BY <1>8 DEF IdleRead
  <2> QED
    BY <1>1, <1>4, <1>8, <2>1, SetOk DEF IdleRead, TaskAt
<1>9. CASE Decide(k)
  <2>1. CASE MayInstall(k)
    <3>1. /\ update[k].gen \in Gen /\ update[k].target \in Version
          /\ BeginInstall(k, update[k].target, update[k].gen)
      BY <1>1, <1>9, <2>1, AtTask DEF Decide
    <3>2. update'[k].gen = update[k].gen
      BY <3>1, InstallBegins
    <3> QED
      BY <1>4, <1>9, <3>2 DEF Decide, TaskAt
  <2>2. CASE ~MayInstall(k)
    BY <1>3, <1>9, <2>2 DEF Decide
  <2> QED
    BY <2>1, <2>2
<1>10. CASE NewServerReady(k)
  <2>1. PICK ok \in BOOLEAN :
          update' = [update EXCEPT ![k].pc = "saving", ![k].ok = ok]
    BY <1>10 DEF NewServerReady
  <2> QED
    BY <1>1, <1>4, <1>10, <2>1, SetOk DEF NewServerReady, TaskAt
<1>11. CASE NewServerFailed(k)
  <2>1. CASE Current(update[k].gen)
    <3>1. SwapTo(k, update[k].previous, [update[k] EXCEPT !.back = TRUE])
      BY <1>11, <2>1 DEF NewServerFailed
    <3>2. update'[k].gen = update[k].gen
      BY <1>11, <3>1, InstallReturns DEF NewServerFailed
    <3> QED
      BY <1>4, <1>11, <3>2 DEF NewServerFailed, TaskAt
  <2>2. CASE ~Current(update[k].gen)
    BY <1>3, <1>11, <2>2 DEF NewServerFailed, GiveUp
  <2> QED
    BY <2>1, <2>2
<1>12. CASE OldServerBack(k) \/ InstallSaved(k)
  BY <1>3, <1>12 DEF OldServerBack, InstallSaved, GiveUp
<1>13. CASE ApplyRefused(k)
  BY <1>2, <1>13 DEF ApplyRefused
<1>14. CASE (\E t \in Tag : ApplyRequested(k, t)) \/ ApplyProceeds(k)
  <2>1. k \in Apply
    BY <1>1, <1>14, AtTask DEF ApplyRequested, ApplyProceeds, ApplyAnswered,
       ApplyPulled, TagApplied, AppliedTagSaved, AppliedServerReady, TaskAt
  <2> QED
    BY <2>1 DEF Goes
<1> QED
  BY <1>5, <1>6, <1>7, <1>8, <1>9, <1>10, <1>11, <1>12, <1>13, <1>14
  DEF TaskActs, TaskProceeds, CheckProceeds, InstallProceeds

(* All of that for any step of any task.                                   *)
LEMMA TaskStepIs ==
  ASSUME LifeInv, NEW k \in Task, TaskActs(k)
  PROVE  Moves(k) /\ Lock(k) /\ TaskTypes /\ TaskTimers(k) /\ Goes(k)
<1>1. Goes(k)
  BY TaskGoes
<1>2. CASE \/ TimerFires(k) \/ CheckAnswered(k) \/ LinkRead(k) \/ CheckPulled(k)
           \/ IdleRead(k)
  BY <1>1, <1>2, CheckStep
<1>3. CASE Decide(k) \/ InstallProceeds(k)
  BY <1>1, <1>3, InstallStep
<1>4. CASE ApplyRefused(k) \/ (\E t \in Tag : ApplyRequested(k, t)) \/ ApplyProceeds(k)
  BY <1>1, <1>4, ApplyStep
<1> QED
  BY <1>2, <1>3, <1>4 DEF TaskActs, TaskProceeds, CheckProceeds

(* A step of a task keeps the invariant. *)
LEMMA TaskKeeps ==
  ASSUME LifeInv, NEW k \in Task, TaskActs(k)
  PROVE  LifeInv'
<1>1. Moves(k) /\ Lock(k) /\ TaskTypes /\ TaskTimers(k) /\ Goes(k)
  BY TaskStepIs
<1>2. TasksSound'
  BY <1>1, MovesSound DEF LifeInv
<1>3. TypeOK'
  <2>1. updateTimer' \in Gen \cup {None}
    BY <1>1 DEF TaskTimers, LifeInv, TypeOK
  <2>2. serverInstalling' \in BOOLEAN
    BY <1>1 DEF Lock
  <2>3. update' \in [Task -> TaskShape]
    BY <1>1 DEF Moves
  <2>4. /\ UNCHANGED <<gen, enabled, dbTimer, startup, edits, restoring>>
        /\ settings' \in Settings \cup {None} /\ saved' \in Settings
        /\ resolvedAutoTag' \in Version \cup {None}
        /\ live' \in Container \cup {NoContainer}
        /\ failed' \subseteq Version
    BY <1>1 DEF TaskTypes
  <2>5. /\ uplink' \in BOOLEAN /\ client' \in Address \cup {None}
        /\ containerAddress' \in Address \cup {None}
        /\ emitter' \in Address \cup {None}
    BY <1>1 DEF TaskTimers
  <2> QED
    BY <2>1, <2>2, <2>3, <2>4, <2>5 DEF LifeInv, TypeOK
<1>4. Order'
  <2>1. /\ gen' = gen /\ enabled' = enabled /\ startup' = startup
        /\ settings # None => settings' # None
    BY <1>1 DEF TaskTypes
  <2>2. updateTimer' # None => enabled' /\ updateTimer' = gen'
    BY <1>1, <2>1 DEF TaskTimers, LifeInv, Order
  <2>3. client' # None => enabled' /\ startup'[gen'] = "done"
    BY <1>1, <2>1 DEF TaskTimers, LifeInv, Order
  <2>5. ASSUME NEW j \in Check, update'[j].pc # "off"
        PROVE  /\ update'[j].gen <= gen' /\ (update'[j].gen = gen' => enabled')
               /\ settings' # None
    <3>1. j \in Task /\ j \notin Apply /\ gen \in Nat
      BY TasksDisjoint, BoundsAssumption DEF Task, LifeInv, TypeOK, Gen
    <3>2. update'[j].pc # "new"
      BY <1>2, <2>5, <3>1 DEF TasksSound, Sound
    <3>3. CASE j # k
      BY <1>1, <2>1, <2>5, <3>1, <3>3 DEF Moves, LifeInv, Order
    <3>4. CASE j = k
      BY <1>1, <2>1, <2>5, <3>1, <3>2, <3>4 DEF Goes, LifeInv, Order
    <3> QED
      BY <3>3, <3>4
  <2> QED
    BY <2>1, <2>2, <2>3, <2>5 DEF LifeInv, Order
<1> QED
  BY <1>2, <1>3, <1>4 DEF LifeInv

-----------------------------------------------------------------------------
(* Starts, stops, startups, edits and restores. *)

(* start() keeps the lifecycle invariant.                                  *)
LEMMA StartKeeps ==
  ASSUME LifeInv, NEW c \in Config, Start(c)
  PROVE  LifeInv'
<1> DEFINE s == [c EXCEPT !.resolved = saved.resolved]
<1>1. /\ s \in Settings /\ s.tag = c.tag /\ s.managed = c.managed /\ s.url = c.url
  <2>1. c \in Settings /\ saved \in Settings
    BY ConfigAssumption DEF LifeInv, TypeOK
  <2> QED
    BY <2>1 DEF Settings
<1>2. /\ gen \in Gen /\ gen' = gen + 1 /\ gen' \in Gen /\ gen \in Nat
  BY BoundsAssumption DEF Start, LifeInv, TypeOK, Gen
<1> HIDE DEF s
<1>3. FirstAwait(s) \in {"manager", "ready", "probe", "done"}
  BY DEF FirstAwait
<1>4. /\ enabled' = TRUE /\ settings' = s /\ saved' = s /\ client' = None
      /\ containerAddress' = IF s.managed THEN None ELSE s.url
      /\ updateTimer' = None /\ uplink' = FALSE
      /\ startup' = [startup EXCEPT ![gen'] = FirstAwait(s)]
      /\ UNCHANGED <<emitter, dbTimer, failed, serverInstalling, update, edits,
                     restoring>>
  BY DEF Start, Retract, s
<1>5. resolvedAutoTag' \in Version \cup {None} /\ live' \in Container \cup {NoContainer}
  <2>1. CASE FirstAwait(s) = "ready"
    <3>1. resolvedAutoTag' = None /\ Ensure(s.tag)
      BY <2>1 DEF Start, s
    <3>2. s.tag \in Version
      BY <1>1, <2>1 DEF FirstAwait, Settings, Tag
    <3> QED
      BY <3>1, <3>2, EnsureIs DEF LifeInv, TypeOK
  <2>2. CASE FirstAwait(s) # "ready"
    BY <2>2 DEF Start, s, LifeInv, TypeOK
  <2> QED
    BY <2>1, <2>2
<1>6. TypeOK'
  <2>1. containerAddress' \in Address \cup {None}
    BY <1>1, <1>4 DEF Settings, Address
  <2>2. startup' \in [Gen -> StartupStep]
    BY <1>2, <1>3, <1>4 DEF LifeInv, TypeOK, StartupStep
  <2> QED
    BY <1>1, <1>2, <1>4, <1>5, <2>1, <2>2 DEF LifeInv, TypeOK
<1>7. TasksSound'
  BY <1>4 DEF LifeInv, TasksSound
<1>8. Order'
  <2>1. settings' # None
    BY <1>1, <1>4, NoneIs
  <2>2. startup'[gen'] = FirstAwait(s) /\ \A g \in Gen \ {gen'} : startup'[g] = startup[g]
    BY <1>2, <1>4 DEF LifeInv, TypeOK
  <2>3. \A g \in Gen : g > gen' => startup'[g] = "none"
    <3>1. \A g \in Gen : g \in Nat /\ (g > gen => startup[g] = "none")
      BY DEF Gen, LifeInv, Order
    <3> QED
      BY <1>2, <2>2, <3>1
  <2>4. ASSUME NEW k \in Check, update[k].pc # "off"
        PROVE  update[k].gen <= gen' /\ update[k].gen # gen'
    <3>1. update[k].gen \in Nat
      BY AtTask DEF LifeInv, Task, Gen
    <3> QED
      BY <1>2, <2>4, <3>1 DEF LifeInv, Order
  <2> QED
    BY <1>2, <1>3, <1>4, <2>1, <2>2, <2>3, <2>4 DEF Order
<1> QED
  BY <1>6, <1>7, <1>8 DEF LifeInv

(* stop() keeps it.                                                        *)
LEMMA StopKeeps ==
  ASSUME LifeInv, Stop
  PROVE  LifeInv'
<1>1. /\ gen \in Gen /\ gen' = gen + 1 /\ gen' \in Gen /\ gen \in Nat
  BY BoundsAssumption DEF Stop, LifeInv, TypeOK, Gen
<1>2. /\ enabled' = FALSE /\ client' = None /\ containerAddress' = None
      /\ emitter' = None /\ dbTimer' = FALSE /\ updateTimer' = None /\ uplink' = FALSE
      /\ live' \in {live, NoContainer}
      /\ UNCHANGED <<tags, failed, serverInstalling, startup, update, edits, restoring>>
  BY DEF Stop
<1>3. TypeOK'
  BY <1>1, <1>2 DEF LifeInv, TypeOK, tags
<1>4. TasksSound'
  BY <1>2 DEF LifeInv, TasksSound
<1>5. Order'
  <2>1. startup[gen'] = "none" /\ \A g \in Gen : g > gen' => startup[g] = "none"
    <3>1. \A g \in Gen : g \in Nat
      BY DEF Gen
    <3> QED
      BY <1>1, <3>1 DEF LifeInv, Order
  <2>2. ASSUME NEW k \in Check, update[k].pc # "off"
        PROVE  update[k].gen <= gen' /\ update[k].gen # gen'
    <3>1. update[k].gen \in Nat
      BY AtTask DEF LifeInv, Task, Gen
    <3> QED
      BY <1>1, <2>2, <3>1 DEF LifeInv, Order
  <2> QED
    BY <1>1, <1>2, <2>1, <2>2 DEF LifeInv, Order, tags
<1> QED
  BY <1>3, <1>4, <1>5 DEF LifeInv

(* A startup goes from a step to another that is not the first. *)
LEMMA GotoIs ==
  ASSUME LifeInv, NEW g \in Gen, startup[g] # "none",
         NEW step \in StartupStep \ {"none"}, StartupGoto(g, step)
  PROVE  /\ startup' \in [Gen -> StartupStep] /\ startup'[g] = step
         /\ \A h \in Gen : startup'[h] = "none" <=> startup[h] = "none"
         /\ \A h \in Gen \ {g} : startup'[h] = startup[h]
BY DEF StartupGoto, LifeInv, TypeOK

(* While startups, edits and restores go on the lifecycle stays. *)
LEMMA OrderKept ==
  ASSUME LifeInv, UNCHANGED <<gen, enabled, update>>,
         startup' \in [Gen -> StartupStep],
         \A h \in Gen : startup'[h] = "none" <=> startup[h] = "none",
         settings # None => settings' # None,
         updateTimer' = updateTimer \/ updateTimer' = None
           \/ (updateTimer' = gen /\ enabled),
         client' # None => enabled /\ startup'[gen] = "done"
  PROVE  Order'
BY DEF LifeInv, TypeOK, Order

(* The steps of every startup, superseded ones included, keep it.          *)
LEMMA StartupKeeps ==
  ASSUME LifeInv, NEW g \in Gen, StartupProceeds(g) \/ StartRetried(g)
  PROVE  LifeInv'
<1>1. /\ startup[g] # "none" /\ settings \in Settings /\ saved \in Settings
      /\ gen \in Gen /\ live \in Container \cup {NoContainer}
      /\ resolvedAutoTag \in Version \cup {None}
      /\ startup \in [Gen -> StartupStep]
  BY DEF LifeInv, TypeOK, Order, StartupProceeds, ManagerFound, TagResolved,
     ResolvedTagSaved, ContainerReady, ExternalReady, StartRetried, StartupAt
<1>2. {"manager", "resolve", "save", "ready", "probe", "done"} \subseteq
        StartupStep \ {"none"}
  BY DEF StartupStep
<1>3. Current(g) => enabled
  BY <1>1 DEF Current, LifeInv, Order
<1>4. client # None => Current(g) \/ startup[gen] = "done"
  BY DEF LifeInv, Order
<1>5. client # None /\ Current(g) => startup[g] = "done"
  BY DEF LifeInv, Order, Current
<1>6. UNCHANGED <<gen, enabled, failed, serverInstalling, update, edits, restoring>>
  BY DEF StartupProceeds, ManagerFound, TagResolved, ResolvedTagSaved, ContainerReady,
     ExternalReady, StartRetried, outside
<1>7. TasksSound'
  BY <1>6 DEF LifeInv, TasksSound
<1>8. Resolve(settings.tag, resolvedAutoTag) \in Version
  <2>1. settings.tag \in Tag
    BY <1>1 DEF Settings
  <2> QED
    BY <1>1, <2>1, ResolveIs
<1>9. CASE ManagerFound(g) \/ TagResolved(g)
  <2>1. StartupAt(g, "manager") \/ StartupAt(g, "resolve")
    BY <1>9 DEF ManagerFound, TagResolved
  <2>2. UNCHANGED <<published, timers, live>>
    BY <1>9 DEF ManagerFound, TagResolved, outside
  <2>3. /\ settings' \in Settings /\ saved' \in Settings
        /\ resolvedAutoTag' \in Version \cup {None}
        /\ \E step \in StartupStep \ {"none"} : StartupGoto(g, step)
    <3>1. ASSUME NEW v \in Version, AutoTagIs(g, v)
          PROVE  /\ settings' \in Settings /\ saved' \in Settings
                 /\ resolvedAutoTag' \in Version \cup {None}
                 /\ \E step \in StartupStep \ {"none"} : StartupGoto(g, step)
      BY <1>1, <1>2, <3>1, PersistResolvedIs DEF AutoTagIs
    <3>2. settings.resolved # None => settings.resolved \in Version
      BY <1>1 DEF Settings
    <3> QED
      BY <1>1, <1>2, <1>9, <3>1, <3>2 DEF ManagerFound, TagResolved, tags
  <2>4. /\ startup' \in [Gen -> StartupStep]
        /\ \A h \in Gen : startup'[h] = "none" <=> startup[h] = "none"
        /\ \A h \in Gen \ {g} : startup'[h] = startup[h]
    BY <1>1, <2>3, GotoIs
  <2>5. TypeOK'
    BY <1>6, <2>2, <2>3, <2>4 DEF LifeInv, TypeOK, published, timers
  <2>6. Order'
    <3>1. client' # None => enabled /\ startup'[gen] = "done"
      BY <1>1, <1>4, <1>5, <2>1, <2>2, <2>4 DEF published, StartupAt, LifeInv, Order, Current
    <3> QED
      BY <1>6, <2>2, <2>3, <2>4, <3>1, NoneIs, OrderKept DEF timers
  <2> QED
    BY <1>7, <2>5, <2>6 DEF LifeInv
<1>10. CASE ResolvedTagSaved(g) \/ StartRetried(g)
  <2>1. StartupAt(g, "save") \/ (StartupAt(g, "ready") /\ startup' = startup)
    BY <1>10 DEF ResolvedTagSaved, StartRetried
  <2>2. UNCHANGED <<published, timers, tags>>
    BY <1>10 DEF ResolvedTagSaved, StartRetried
  <2>3. /\ live' \in Container \cup {NoContainer}
        /\ \/ startup' = startup
           \/ \E step \in StartupStep \ {"none"} : StartupGoto(g, step)
    BY <1>1, <1>2, <1>8, <1>10, EnsureIs DEF ResolvedTagSaved, StartRetried
  <2>4. /\ startup' \in [Gen -> StartupStep]
        /\ \A h \in Gen : startup'[h] = "none" <=> startup[h] = "none"
        /\ \A h \in Gen \ {g} : startup'[h] = startup[h]
    BY <1>1, <2>3, GotoIs
  <2>5. TypeOK'
    BY <1>6, <2>2, <2>3, <2>4 DEF LifeInv, TypeOK, published, timers, tags
  <2>6. Order'
    <3>1. client' # None => enabled /\ startup'[gen] = "done"
      BY <1>1, <1>4, <1>5, <2>1, <2>2, <2>4 DEF published, StartupAt, LifeInv, Order, Current
    <3> QED
      BY <1>6, <2>2, <2>4, <3>1, OrderKept DEF timers, tags
  <2> QED
    BY <1>7, <2>5, <2>6 DEF LifeInv
<1>11. CASE ContainerReady(g) \/ ExternalReady(g)
  <2>1. StartupGoto(g, "done") /\ UNCHANGED <<tags, live>>
    BY <1>11 DEF ContainerReady, ExternalReady, outside
  <2>2. /\ startup' \in [Gen -> StartupStep] /\ startup'[g] = "done"
        /\ \A h \in Gen : startup'[h] = "none" <=> startup[h] = "none"
        /\ \A h \in Gen \ {g} : startup'[h] = startup[h]
    BY <1>1, <1>2, <2>1, GotoIs
  <2>3. \/ UNCHANGED <<published, timers>>
        \/ Current(g) /\ live # NoContainer /\ FinishStartup(g)
        \/ /\ Current(g) /\ client' = settings.url
           /\ emitter' = Emitting(emitter, settings.url) /\ uplink' = TRUE
           /\ UNCHANGED <<containerAddress, dbTimer, updateTimer>>
    BY <1>11 DEF ContainerReady, ExternalReady, published, timers
  <2>4. /\ settings.url \in Address \cup {None}
        /\ live # NoContainer => live.addr \in Address
    BY <1>1 DEF Settings, Address, Container
  <2>5. /\ client' \in Address \cup {None} /\ containerAddress' \in Address \cup {None}
        /\ emitter' \in Address \cup {None}
    BY <2>3, <2>4 DEF FinishStartup, Emitting, published, LifeInv, TypeOK
  <2>6. dbTimer' \in BOOLEAN /\ uplink' \in BOOLEAN
    BY <2>3 DEF FinishStartup, DbTimerFor, timers, LifeInv, TypeOK
  <2>7. \/ updateTimer' = updateTimer \/ updateTimer' = None
        \/ updateTimer' = gen /\ Current(g)
    BY <2>3 DEF FinishStartup, ScheduleUpdate, timers, Current
  <2>8. TypeOK'
    BY <1>1, <1>6, <2>1, <2>2, <2>5, <2>6, <2>7 DEF LifeInv, TypeOK, tags
  <2>9. Order'
    <3>1. client' # None => enabled /\ startup'[gen] = "done"
      <4>1. CASE Current(g)
        BY <1>3, <2>2, <4>1 DEF Current
      <4>2. CASE ~Current(g)
        BY <1>1, <2>2, <2>3, <4>2 DEF published, LifeInv, Order, Current
      <4> QED
        BY <4>1, <4>2
    <3> QED
      BY <1>3, <1>6, <2>1, <2>2, <2>7, <3>1, OrderKept DEF tags
  <2> QED
    BY <1>7, <2>8, <2>9 DEF LifeInv
<1> QED
  BY <1>9, <1>10, <1>11 DEF StartupProceeds

(* Settings requests, restores and stuttering keep it.                     *)
LEMMA OthersKeep ==
  ASSUME LifeInv,
         \/ \E e \in Edit : EditSaved(e) \/ \E on \in BOOLEAN : EditRequested(e, on)
         \/ \E kind \in {"host", "server"} : RestoreBegins(kind) \/ RestoreEnds(kind)
         \/ UNCHANGED vars
  PROVE  LifeInv'
<1>1. CASE UNCHANGED vars
  <2> USE <1>1 DEF vars, tags, published, timers, outside, LifeInv
  <2>1. TypeOK'
    BY DEF TypeOK
  <2>2. TasksSound'
    BY DEF TasksSound
  <2>3. Order'
    BY DEF Order
  <2> QED
    BY <2>1, <2>2, <2>3
<1>2. ASSUME NEW kind \in {"host", "server"}, RestoreBegins(kind) \/ RestoreEnds(kind)
      PROVE  LifeInv'
  <2> USE <1>2 DEF RestoreBegins, RestoreEnds, tags, published, timers, LifeInv
  <2>1. TypeOK'
    BY DEF TypeOK
  <2>2. TasksSound'
    BY DEF TasksSound
  <2>3. Order'
    BY DEF Order
  <2> QED
    BY <2>1, <2>2, <2>3
<1>3. ASSUME NEW e \in Edit, EditSaved(e) \/ \E on \in BOOLEAN : EditRequested(e, on)
      PROVE  LifeInv'
  <2>1. /\ UNCHANGED <<gen, enabled, resolvedAutoTag, published, updateTimer, uplink,
                       failed, serverInstalling, startup, update, outside>>
        /\ edits' \in [Edit -> {"new", "saved", "unsaved", "done"}]
    BY <1>3 DEF EditSaved, EditRequested, timers, tags, LifeInv, TypeOK
  <2>2. dbTimer' \in BOOLEAN
    BY <1>3 DEF EditSaved, EditRequested, DbTimerFor, timers, LifeInv, TypeOK
  <2>3. /\ settings' \in Settings \cup {None} /\ saved' \in Settings
        /\ settings # None => settings' # None
    <3>1. CASE EditSaved(e)
      BY <3>1 DEF EditSaved, tags, LifeInv, TypeOK
    <3>2. ASSUME NEW on \in BOOLEAN, EditRequested(e, on)
          PROVE  settings' \in Settings /\ saved' \in Settings
      <4>1. settings \in Settings /\ saved \in Settings
        BY <3>2 DEF EditRequested, LifeInv, TypeOK
      <4>2. settings' \in Settings
        BY <3>2, <4>1 DEF EditRequested, Settings
      <4> QED
        BY <3>2, <4>1, <4>2 DEF EditRequested, Save
    <3> QED
      BY <1>3, <3>1, <3>2, NoneIs
  <2>4. TypeOK'
    BY <2>1, <2>2, <2>3 DEF LifeInv, TypeOK, published, outside
  <2>5. TasksSound'
    BY <2>1 DEF LifeInv, TasksSound
  <2>6. Order'
    BY <2>1, <2>3, OrderKept DEF LifeInv, Order, TypeOK, published
  <2> QED
    BY <2>4, <2>5, <2>6 DEF LifeInv
<1> QED
  BY <1>1, <1>2, <1>3

-----------------------------------------------------------------------------
(* The invariant. *)

(* The lifecycle invariant holds at first.                                 *)
LEMMA LifeInvInit ==
  ASSUME Init
  PROVE  LifeInv
<1>1. 0 \in Gen /\ Config \subseteq Settings
  BY BoundsAssumption, ConfigAssumption DEF Gen
<1>2. /\ update \in [Task -> TaskShape]
      /\ \A k \in Task : /\ k \in Apply => update[k].pc = "new"
                         /\ k \notin Apply => update[k].pc = "off"
  BY IdleIs DEF Init
<1>3. TypeOK
  BY <1>1, <1>2 DEF Init, TypeOK, StartupStep
<1>4. TasksSound
  BY <1>2, TasksDisjoint DEF TasksSound, Sound, Task
<1>5. Order
  <2>1. \A k \in Task : update[k].pc \in {"new", "off"}
    BY <1>2
  <2>2. \A k \in Check : update[k].pc = "off"
    BY <1>2, TasksDisjoint DEF Task
  <2> QED
    BY <1>1, <2>1, <2>2 DEF Init, Order
<1> QED
  BY <1>3, <1>4, <1>5 DEF LifeInv

(* The actions of Next by what they are about. *)
LEMMA NextIs ==
  ASSUME [Next]_vars
  PROVE  \/ \E c \in Config : Start(c)
         \/ Stop
         \/ \E g \in Gen : StartupProceeds(g) \/ StartRetried(g)
         \/ \E k \in Task : TaskActs(k)
         \/ \E e \in Edit : EditSaved(e) \/ \E on \in BOOLEAN : EditRequested(e, on)
         \/ \E kind \in {"host", "server"} : RestoreBegins(kind) \/ RestoreEnds(kind)
         \/ UNCHANGED vars
BY DEF Next, TaskActs, Task

(* Every step keeps the lifecycle invariant.                               *)
LEMMA LifeInvStep ==
  ASSUME LifeInv, [Next]_vars
  PROVE  LifeInv'
BY NextIs, StartKeeps, StopKeeps, StartupKeeps, TaskKeeps, OthersKeep

(* The lifecycle invariant holds throughout.                               *)
LEMMA LifeInvHolds == Spec => []LifeInv
BY LifeInvInit, LifeInvStep, PTL DEF Spec

(* The plugin's variables keep the types the code gives them, whatever     *)
(* startups, stops, checks, requests and edits interleave: no startup that *)
(* was superseded publishes None as an address, and no container runs      *)
(* "auto".                                                                 *)
THEOREM PluginTypeCorrect == Spec => []TypeOK
BY LifeInvHolds, PTL DEF LifeInv

-----------------------------------------------------------------------------
(* One install at a time. *)

(* What a task does to the lock it shares. *)
LEMMA LockKept ==
  ASSUME OneInstall, NEW k \in Task, Moves(k), Lock(k)
  PROVE  OneInstall'
<1>1. \A j \in Task \ {k} : Exclusive(j)' <=> Exclusive(j)
  BY DEF Moves, Exclusive
<1>2. CASE serverInstalling' = serverInstalling /\ ~Exclusive(k) /\ ~Exclusive(k)'
  BY <1>1, <1>2 DEF OneInstall
<1>3. CASE ~serverInstalling /\ serverInstalling' /\ Exclusive(k)'
  BY <1>1, <1>3 DEF OneInstall
<1>4. CASE Exclusive(k) /\ Exclusive(k)' /\ serverInstalling' = serverInstalling
  BY <1>1, <1>4 DEF OneInstall
<1>5. CASE Exclusive(k) /\ ~Exclusive(k)' /\ ~serverInstalling'
  BY <1>1, <1>5 DEF OneInstall
<1> QED
  BY <1>2, <1>3, <1>4, <1>5 DEF Lock

(* The actions that are no task's leave the tasks and the lock alone. *)
LEMMA NoTaskActs ==
  ASSUME \/ \E c \in Config : Start(c)
         \/ Stop
         \/ \E g \in Gen : StartupProceeds(g) \/ StartRetried(g)
         \/ \E e \in Edit : EditSaved(e) \/ \E on \in BOOLEAN : EditRequested(e, on)
         \/ \E kind \in {"host", "server"} : RestoreBegins(kind) \/ RestoreEnds(kind)
         \/ UNCHANGED vars
  PROVE  update' = update /\ serverInstalling' = serverInstalling
<1>1. ASSUME NEW g \in Gen, StartupProceeds(g)
      PROVE  update' = update /\ serverInstalling' = serverInstalling
  BY <1>1 DEF StartupProceeds, ManagerFound, TagResolved, ResolvedTagSaved,
     ContainerReady, ExternalReady
<1> QED
  BY <1>1 DEF Start, Stop, StartRetried, EditSaved, EditRequested, RestoreBegins,
     RestoreEnds, vars

(* Nothing installs at first.                                              *)
LEMMA OneInstallInit ==
  ASSUME Init
  PROVE  OneInstall
<1>1. \A k \in Task : /\ k \in Apply => update[k].pc = "new"
                      /\ k \notin Apply => update[k].pc = "off"
  BY IdleIs DEF Init
<1> QED
  BY <1>1 DEF Init, OneInstall, Exclusive

(* No step begins a second install.                                        *)
LEMMA OneInstallStep ==
  ASSUME LifeInv, OneInstall, [Next]_vars
  PROVE  OneInstall'
<1>1. ASSUME NEW k \in Task, TaskActs(k)
      PROVE  OneInstall'
  BY <1>1, TaskStepIs, LockKept
<1>2. CASE update' = update /\ serverInstalling' = serverInstalling
  BY <1>2 DEF OneInstall, Exclusive
<1> QED
  BY <1>1, <1>2, NextIs, NoTaskActs

(* serverInstalling is held exactly while a request, or a check that       *)
(* installs, is between its first container operation and its end, and at  *)
(* most one is, for any number of requests, checks and lifecycles: the     *)
(* lock is read and taken in one turn, and every way out gives it back.    *)
THEOREM OneInstallHolds == Spec => []OneInstall
BY LifeInvHolds, OneInstallInit, OneInstallStep, PTL DEF Spec

-----------------------------------------------------------------------------
(* What the steps of a task save and publish. *)

(* Task k saves that the tag it installed is wanted. *)
Persists(k) ==
  /\ settings # None
  /\ \/ NewServerReady(k) /\ \E ok \in BOOLEAN : PersistAppliedTag(AUTO, update[k].target, ok)
     \/ /\ TagApplied(k)
        /\ \E ok \in BOOLEAN : PersistAppliedTag(update[k].tag, update[k].target, ok)

(* A task changes the options only where it persists a tag.                *)
LEMMA TaskSaves ==
  ASSUME NEW k \in Task, TaskActs(k)
  PROVE  UNCHANGED <<settings, saved>> \/ Persists(k)
<1>1. CASE NewServerReady(k)
  BY <1>1, PersistNothing DEF NewServerReady, Persists, tags
<1>2. CASE TagApplied(k)
  BY <1>2, PersistNothing DEF TagApplied, Persists, tags
<1>3. CASE CheckProceeds(k) \/ TimerFires(k)
  BY <1>3 DEF CheckProceeds, TimerFires, CheckAnswered, LinkRead, CheckPulled, IdleRead,
     Decide, tags
<1>4. CASE NewServerFailed(k) \/ OldServerBack(k) \/ InstallSaved(k)
  BY <1>4 DEF NewServerFailed, OldServerBack, InstallSaved, tags
<1>5. CASE \/ ApplyRefused(k) \/ (\E t \in Tag : ApplyRequested(k, t))
           \/ ApplyAnswered(k) \/ ApplyPulled(k) \/ AppliedTagSaved(k)
           \/ AppliedServerReady(k)
  BY <1>5 DEF ApplyRefused, ApplyRequested, ApplyAnswered, ApplyPulled, AppliedTagSaved,
     AppliedServerReady, tags
<1> QED
  BY <1>1, <1>2, <1>3, <1>4, <1>5
  DEF TaskActs, TaskProceeds, InstallProceeds, ApplyProceeds

(* What it saves. *)
LEMMA PersistsIs ==
  ASSUME LifeInv, NEW k \in Task, Persists(k)
  PROVE  /\ settings \in Settings /\ settings' \in Settings
         /\ \/ NewServerReady(k) /\ settings'.tag = AUTO
            \/ TagApplied(k) /\ settings'.tag = update[k].tag
         /\ settings'.resolved = update[k].target
         /\ resolvedAutoTag' = update[k].target /\ update[k].target \in Version
         /\ settings'.managed = settings.managed /\ settings'.url = settings.url
         /\ settings'.auto = settings.auto /\ settings'.exports = settings.exports
         /\ settings'.deltas = settings.deltas
         /\ saved' = settings' \/ (saved' = saved /\ MayFail("save"))
<1>1. /\ update[k].pc \in {"ready", "applied"} /\ TasksSound /\ saved \in Settings
      /\ settings \in Settings \cup {None} /\ AUTO \in Tag
  BY DEF Persists, NewServerReady, TagApplied, TaskAt, LifeInv, TypeOK, Tag
<1>2. settings \in Settings
  BY <1>1 DEF Persists
<1>3. update[k].target \in Version /\ (TagApplied(k) => update[k].tag \in Tag)
  BY <1>1, AtTask DEF TagApplied, TaskAt
<1>4. ASSUME NEW tag \in Tag, NEW ok \in BOOLEAN,
             PersistAppliedTag(tag, update[k].target, ok)
      PROVE  /\ settings' \in Settings /\ settings'.tag = tag
             /\ settings'.resolved = update[k].target
             /\ resolvedAutoTag' = update[k].target
             /\ settings'.managed = settings.managed /\ settings'.url = settings.url
             /\ settings'.auto = settings.auto /\ settings'.exports = settings.exports
             /\ settings'.deltas = settings.deltas
             /\ saved' = settings' \/ (saved' = saved /\ MayFail("save"))
  BY <1>1, <1>2, <1>3, <1>4, PersistIs
<1>5. PICK tag \in Tag, ok \in BOOLEAN :
        /\ PersistAppliedTag(tag, update[k].target, ok)
        /\ \/ NewServerReady(k) /\ tag = AUTO
           \/ TagApplied(k) /\ tag = update[k].tag
  BY <1>1, <1>3 DEF Persists
<1> QED
  BY <1>2, <1>3, <1>4, <1>5

(* Tasks change the tag and the version of the settings alone. *)
LEMMA TaskSettings ==
  ASSUME LifeInv, NEW k \in Task, TaskActs(k)
  PROVE  settings # None =>
           /\ settings \in Settings /\ settings' \in Settings
           /\ settings'.managed = settings.managed /\ settings'.url = settings.url
           /\ settings'.auto = settings.auto /\ settings'.exports = settings.exports
           /\ settings'.deltas = settings.deltas
<1>1. settings # None => settings \in Settings
  BY DEF LifeInv, TypeOK
<1> QED
  BY <1>1, TaskSaves, PersistsIs

(* Tasks publish what adoptServerAddress does and nothing else. *)
LEMMA TaskPublishes ==
  ASSUME NEW k \in Task, TaskActs(k)
  PROVE  published' = published \/ (live # NoContainer /\ Adopt(live.addr))
<1>1. CASE CheckProceeds(k) \/ TimerFires(k)
  BY <1>1 DEF CheckProceeds, TimerFires, CheckAnswered, LinkRead, CheckPulled, IdleRead,
     Decide
<1>2. CASE InstallProceeds(k)
  BY <1>2 DEF InstallProceeds, NewServerReady, NewServerFailed, OldServerBack,
     InstallSaved, HealthPoll, WaitForReady
<1>3. CASE ApplyRefused(k) \/ (\E t \in Tag : ApplyRequested(k, t)) \/ ApplyProceeds(k)
  BY <1>3 DEF ApplyRefused, ApplyRequested, ApplyProceeds, ApplyAnswered, ApplyPulled,
     TagApplied, AppliedTagSaved, AppliedServerReady
<1> QED
  BY <1>1, <1>2, <1>3 DEF TaskActs, TaskProceeds

-----------------------------------------------------------------------------
(* Startups, one step at a time. *)

(* Settings that differ in the resolved version alone. *)
SameChoices(s, t) ==
  /\ s.managed = t.managed /\ s.url = t.url /\ s.tag = t.tag
  /\ s.auto = t.auto /\ s.exports = t.exports /\ s.deltas = t.deltas

(* The startup of g ends without effect. *)
Ends(g) == /\ g # gen \/ (StartupAt(g, "ready") /\ live = NoContainer)
           /\ StartupGoto(g, "done") /\ UNCHANGED <<tags, published, timers, live>>

(* The one that is current looks for a release, ... *)
Looks(g) == /\ g = gen /\ StartupAt(g, "manager") /\ StartupGoto(g, "resolve")
            /\ settings.resolved = None
            /\ UNCHANGED <<tags, published, timers, live>>

(* ... knows its version, ... *)
Resolves(g) == /\ g = gen /\ (StartupAt(g, "manager") \/ StartupAt(g, "resolve"))
               /\ \E v \in Version : /\ AutoTagIs(g, v)
                                     /\ StartupAt(g, "manager") => v = settings.resolved
               /\ UNCHANGED <<published, timers, live>>

(* ... starts its container, perhaps again, ... *)
Launches(g) == /\ g = gen
               /\ \/ StartupAt(g, "save") /\ StartupGoto(g, "ready")
                  \/ StartupAt(g, "ready") /\ MayFail("answer") /\ UNCHANGED startup
               /\ Ensure(Resolve(settings.tag, resolvedAutoTag))
               /\ UNCHANGED <<tags, published, timers>>

(* ... and is up, *)
ComesUp(g) == /\ g = gen /\ StartupAt(g, "ready") /\ StartupGoto(g, "done")
              /\ live # NoContainer /\ FinishStartup(g) /\ UNCHANGED <<tags, live>>

(* or uses the configured server. *)
Connects(g) == /\ g = gen /\ StartupAt(g, "probe") /\ StartupGoto(g, "done")
               /\ client' = settings.url
               /\ emitter' = Emitting(emitter, settings.url) /\ uplink' = TRUE
               /\ UNCHANGED <<tags, live, containerAddress, dbTimer, updateTimer>>

(* A step of a startup is one of six, and leaves tasks, edits and restores *)
(* alone.                                                                  *)
LEMMA StartupIs ==
  ASSUME LifeInv, NEW g \in Gen, StartupProceeds(g) \/ StartRetried(g)
  PROVE  /\ UNCHANGED <<gen, enabled, failed, serverInstalling, update, edits,
                        restoring>>
         /\ settings \in Settings /\ saved \in Settings
         /\ startup[g] # "none" /\ startup \in [Gen -> StartupStep]
         /\ g = gen => enabled
         /\ \/ Ends(g) \/ Looks(g) \/ Resolves(g) \/ Launches(g) \/ ComesUp(g)
            \/ Connects(g)
<1>1. /\ startup[g] # "none" /\ settings \in Settings /\ saved \in Settings
      /\ startup \in [Gen -> StartupStep]
  BY DEF LifeInv, TypeOK, Order, StartupProceeds, ManagerFound, TagResolved,
     ResolvedTagSaved, ContainerReady, ExternalReady, StartRetried, StartupAt
<1>2. UNCHANGED <<gen, enabled, failed, serverInstalling, update, edits, restoring>>
  BY DEF StartupProceeds, ManagerFound, TagResolved, ResolvedTagSaved, ContainerReady,
     ExternalReady, StartRetried, outside
<1>3. g = gen => enabled
  BY <1>1 DEF LifeInv, Order
<1>4. settings.resolved # None => settings.resolved \in Version
  BY <1>1 DEF Settings
<1>5. Ends(g) \/ Looks(g) \/ Resolves(g) \/ Launches(g) \/ ComesUp(g) \/ Connects(g)
  <2>1. CASE ManagerFound(g)
    BY <1>4, <2>1 DEF ManagerFound, Ends, Looks, Resolves, Current, outside
  <2>2. CASE TagResolved(g)
    BY <2>2 DEF TagResolved, Ends, Resolves, Current, StartupAt, outside
  <2>3. CASE ResolvedTagSaved(g)
    BY <2>3 DEF ResolvedTagSaved, Ends, Launches, Current
  <2>4. CASE StartRetried(g)
    BY <2>4 DEF StartRetried, Launches, Current
  <2>5. CASE ContainerReady(g)
    BY <2>5 DEF ContainerReady, Ends, ComesUp, Current, outside
  <2>6. CASE ExternalReady(g)
    BY <2>6 DEF ExternalReady, Ends, Connects, Current, outside, published, timers
  <2> QED
    BY <2>1, <2>2, <2>3, <2>4, <2>5, <2>6 DEF StartupProceeds
<1> QED
  BY <1>1, <1>2, <1>3, <1>5

(* Where a startup step leaves the startups, and which settings it changes. *)
LEMMA StartupEffect ==
  ASSUME LifeInv, NEW g \in Gen,
         StartupProceeds(g) \/ StartRetried(g)
  PROVE  /\ \A h \in Gen \ {g} : startup'[h] = startup[h]
         /\ Ends(g) => startup'[g] = "done"
         /\ Looks(g) => startup'[g] = "resolve"
         /\ Resolves(g) => startup'[g] = "save"
         /\ Launches(g) => startup'[g] = "ready"
         /\ ComesUp(g) \/ Connects(g) => startup'[g] = "done"
         /\ settings' \in Settings /\ SameChoices(settings', settings)
<1>1. /\ settings \in Settings /\ saved \in Settings
      /\ startup \in [Gen -> StartupStep]
      /\ Ends(g) \/ Looks(g) \/ Resolves(g) \/ Launches(g) \/ ComesUp(g) \/ Connects(g)
  BY StartupIs
<1>2. /\ settings' \in Settings /\ SameChoices(settings', settings)
  <2>1. CASE Resolves(g)
    <3>1. PICK v \in Version : AutoTagIs(g, v)
      BY <2>1 DEF Resolves
    <3> QED
      BY <1>1, <3>1, PersistResolvedIs DEF AutoTagIs, SameChoices
  <2>2. CASE settings' = settings
    BY <1>1, <2>2 DEF SameChoices
  <2> QED
    BY <1>1, <2>1, <2>2 DEF Ends, Looks, Launches, ComesUp, Connects, tags
<1>3. ASSUME NEW step, StartupGoto(g, step)
      PROVE  startup'[g] = step /\ \A h \in Gen \ {g} : startup'[h] = startup[h]
  BY <1>1, <1>3 DEF StartupGoto
<1>4. Ends(g) => startup'[g] = "done" /\ \A h \in Gen \ {g} : startup'[h] = startup[h]
  BY <1>3 DEF Ends
<1>5. Looks(g) => startup'[g] = "resolve" /\ \A h \in Gen \ {g} : startup'[h] = startup[h]
  BY <1>3 DEF Looks
<1>6. Resolves(g) => startup'[g] = "save" /\ \A h \in Gen \ {g} : startup'[h] = startup[h]
  <2>1. Resolves(g) => StartupGoto(g, "save")
    BY DEF Resolves, AutoTagIs
  <2> QED
    BY <1>3, <2>1
<1>7. Launches(g) => startup'[g] = "ready" /\ \A h \in Gen \ {g} : startup'[h] = startup[h]
  BY <1>3 DEF Launches, StartupAt
<1>8. ComesUp(g) \/ Connects(g) =>
        startup'[g] = "done" /\ \A h \in Gen \ {g} : startup'[h] = startup[h]
  BY <1>3 DEF ComesUp, Connects
<1> QED
  BY <1>1, <1>2, <1>4, <1>5, <1>6, <1>7, <1>8

(* What start() leaves. *)
LEMMA StartIs ==
  ASSUME LifeInv, NEW c \in Config, Start(c)
  PROVE  /\ gen' = gen + 1 /\ gen' \in Gen /\ enabled' = TRUE /\ gen' # gen
         /\ settings' \in Settings /\ saved' = settings' /\ SameChoices(settings', c)
         /\ settings'.resolved = saved.resolved
         /\ client' = None /\ updateTimer' = None /\ uplink' = FALSE
         /\ containerAddress' = IF settings'.managed THEN None ELSE settings'.url
         /\ startup'[gen'] = FirstAwait(settings')
         /\ \A h \in Gen \ {gen'} : startup'[h] = startup[h]
         /\ IF FirstAwait(settings') = "ready"
              THEN resolvedAutoTag' = None /\ Ensure(settings'.tag)
              ELSE UNCHANGED <<resolvedAutoTag, live>>
         /\ UNCHANGED <<emitter, dbTimer, failed, serverInstalling, update, edits,
                        restoring>>
<1> DEFINE s == [c EXCEPT !.resolved = saved.resolved]
<1>1. s \in Settings /\ SameChoices(s, c) /\ s.resolved = saved.resolved
  <2>1. c \in Settings /\ saved \in Settings
    BY ConfigAssumption DEF LifeInv, TypeOK
  <2> QED
    BY <2>1 DEF Settings, SameChoices
<1>2. /\ gen \in Gen /\ gen' = gen + 1 /\ gen' \in Gen /\ gen \in Nat
      /\ startup \in [Gen -> StartupStep]
  BY BoundsAssumption DEF Start, LifeInv, TypeOK, Gen
<1>3. gen' # gen
  BY <1>2
<1>4. /\ settings' = s /\ saved' = s /\ enabled' = TRUE /\ client' = None
      /\ updateTimer' = None /\ uplink' = FALSE
      /\ containerAddress' = IF s.managed THEN None ELSE s.url
      /\ startup' = [startup EXCEPT ![gen'] = FirstAwait(s)]
      /\ IF FirstAwait(s) = "ready"
           THEN resolvedAutoTag' = None /\ Ensure(s.tag)
           ELSE UNCHANGED <<resolvedAutoTag, live>>
      /\ UNCHANGED <<emitter, dbTimer, failed, serverInstalling, update, edits,
                     restoring>>
  BY DEF Start, Retract
<1> HIDE DEF s
<1>5. /\ startup'[gen'] = FirstAwait(s)
      /\ \A h \in Gen \ {gen'} : startup'[h] = startup[h]
  BY <1>2, <1>4
<1> QED
  BY <1>1, <1>2, <1>3, <1>4, <1>5

-----------------------------------------------------------------------------
(* Who publishes. *)

(* A startup takes the steps of its mode, ... *)
Modes ==
  /\ enabled /\ startup[gen] \in {"manager", "resolve", "save", "ready"} =>
       settings.managed
  /\ enabled /\ startup[gen] = "probe" => ~settings.managed

(* ... and in external mode the server is the one configured. *)
OwnServer == enabled /\ ~settings.managed => /\ client \in {None, settings.url}
                                            /\ containerAddress = settings.url

(* The modes agree at first.                                               *)
LEMMA ModesInit ==
  ASSUME Init
  PROVE  Modes /\ OwnServer
BY DEF Init, Modes, OwnServer

(* start() makes the modes agree with its configuration.                   *)
LEMMA StartModes ==
  ASSUME LifeInv, NEW c \in Config, Start(c)
  PROVE  Modes' /\ OwnServer'
<1>1. /\ settings' \in Settings /\ client' = None
      /\ containerAddress' = IF settings'.managed THEN None ELSE settings'.url
      /\ startup'[gen'] = FirstAwait(settings')
  BY StartIs
<1>2. FirstAwait(settings') \in {"manager", "resolve", "save", "ready"} => settings'.managed
  BY DEF FirstAwait
<1>3. FirstAwait(settings') = "probe" => ~settings'.managed
  BY DEF FirstAwait
<1> QED
  BY <1>1, <1>2, <1>3 DEF Modes, OwnServer

(* A startup keeps the modes, and publishes the server of its own          *)
(* configuration.                                                          *)
LEMMA StartupModes ==
  ASSUME LifeInv, Modes, NEW g \in Gen, StartupProceeds(g) \/ StartRetried(g)
  PROVE  Modes' /\ (OwnServer => OwnServer')
<1>1. /\ UNCHANGED <<gen, enabled>> /\ gen \in Gen /\ startup[g] # "none"
      /\ g = gen => enabled
      /\ Ends(g) \/ Looks(g) \/ Resolves(g) \/ Launches(g) \/ ComesUp(g) \/ Connects(g)
  BY StartupIs DEF LifeInv, TypeOK
<1>2. /\ settings'.managed = settings.managed /\ settings'.url = settings.url
      /\ \A h \in Gen \ {g} : startup'[h] = startup[h]
  BY StartupEffect DEF SameChoices
<1>3. CASE Ends(g)
  <2>1. startup'[g] = "done" /\ published' = published
    BY <1>3, StartupEffect DEF Ends
  <2> QED
    BY <1>1, <1>2, <2>1 DEF Modes, OwnServer, published
<1>4. CASE Looks(g) \/ Resolves(g) \/ Launches(g)
  <2>1. /\ g = gen /\ startup'[g] \in {"resolve", "save", "ready"}
        /\ startup[g] \in {"manager", "resolve", "save", "ready"}
        /\ published' = published
    BY <1>4, StartupEffect DEF Looks, Resolves, Launches, StartupAt
  <2> QED
    BY <1>1, <1>2, <2>1 DEF Modes, OwnServer, published
<1>5. CASE ComesUp(g)
  <2>1. g = gen /\ startup'[g] = "done" /\ startup[g] = "ready"
    BY <1>5, StartupEffect DEF ComesUp, StartupAt
  <2> QED
    BY <1>1, <1>2, <2>1 DEF Modes, OwnServer
<1>6. CASE Connects(g)
  <2>1. /\ g = gen /\ startup'[g] = "done" /\ startup[g] = "probe"
        /\ client' = settings.url /\ containerAddress' = containerAddress
    BY <1>6, StartupEffect DEF Connects, StartupAt
  <2> QED
    BY <1>1, <1>2, <2>1 DEF Modes, OwnServer
<1> QED
  BY <1>1, <1>3, <1>4, <1>5, <1>6

(* Edits and restores leave the lifecycle, the mode and the addresses. *)
LEMMA OthersLeave ==
  ASSUME LifeInv,
         \/ \E e \in Edit : EditSaved(e) \/ \E on \in BOOLEAN : EditRequested(e, on)
         \/ \E kind \in {"host", "server"} : RestoreBegins(kind) \/ RestoreEnds(kind)
         \/ UNCHANGED vars
  PROVE  /\ UNCHANGED <<gen, enabled, resolvedAutoTag, client, containerAddress,
                        emitter, updateTimer, uplink, failed, startup, live>>
         /\ settings = None => settings' = None
         /\ settings # None =>
              /\ settings \in Settings /\ settings' \in Settings
              /\ settings'.managed = settings.managed /\ settings'.url = settings.url
              /\ settings'.tag = settings.tag /\ settings'.auto = settings.auto
              /\ settings'.deltas = settings.deltas
              /\ settings'.resolved = settings.resolved
<1>1. settings # None => settings \in Settings
  BY DEF LifeInv, TypeOK
<1>2. ASSUME settings' = settings
      PROVE  /\ settings = None => settings' = None
             /\ settings # None =>
                  /\ settings \in Settings /\ settings' \in Settings
                  /\ settings'.managed = settings.managed /\ settings'.url = settings.url
                  /\ settings'.tag = settings.tag /\ settings'.auto = settings.auto
                  /\ settings'.deltas = settings.deltas
                  /\ settings'.resolved = settings.resolved
  BY <1>1, <1>2
<1>3. ASSUME NEW e \in Edit, NEW on \in BOOLEAN, EditRequested(e, on)
      PROVE  /\ settings # None /\ settings' \in Settings
             /\ settings'.managed = settings.managed /\ settings'.url = settings.url
             /\ settings'.tag = settings.tag /\ settings'.auto = settings.auto
             /\ settings'.deltas = settings.deltas
             /\ settings'.resolved = settings.resolved
  <2>1. settings \in Settings /\ settings' = [settings EXCEPT !.exports = on]
    BY <1>1, <1>3 DEF EditRequested
  <2> QED
    BY <1>3, <2>1, NoneIs DEF Settings
<1>4. UNCHANGED <<gen, enabled, resolvedAutoTag, client, containerAddress,
                  emitter, updateTimer, uplink, failed, startup, live>>
  BY DEF EditSaved, EditRequested, RestoreBegins, RestoreEnds, vars, published,
     timers, tags, outside
<1>5. settings' = settings \/ \E e \in Edit, on \in BOOLEAN : EditRequested(e, on)
  BY DEF EditSaved, RestoreBegins, RestoreEnds, vars, tags
<1> QED
  BY <1>1, <1>2, <1>3, <1>4, <1>5

(* Every step keeps the modes.                                             *)
LEMMA ModesStep ==
  ASSUME LifeInv, Modes, [Next]_vars
  PROVE  Modes' /\ (Task = {} /\ OwnServer => OwnServer')
<1>1. ASSUME NEW c \in Config, Start(c)
      PROVE  Modes' /\ OwnServer'
  BY <1>1, StartModes
<1>2. CASE Stop
  BY <1>2 DEF Stop, Modes, OwnServer
<1>3. ASSUME NEW g \in Gen, StartupProceeds(g) \/ StartRetried(g)
      PROVE  Modes' /\ (OwnServer => OwnServer')
  BY <1>3, StartupModes
<1>4. enabled => settings # None
  BY DEF LifeInv, Order
<1>5. ASSUME NEW k \in Task, TaskActs(k)
      PROVE  Modes'
  <2>1. UNCHANGED <<gen, enabled, startup>>
    BY <1>5, TaskStepIs DEF TaskTypes
  <2> QED
    BY <1>4, <1>5, <2>1, TaskSettings DEF Modes
<1>6. CASE \/ \E e \in Edit : EditSaved(e) \/ \E on \in BOOLEAN : EditRequested(e, on)
           \/ \E kind \in {"host", "server"} : RestoreBegins(kind) \/ RestoreEnds(kind)
           \/ UNCHANGED vars
  BY <1>4, <1>6, OthersLeave DEF Modes, OwnServer
<1> QED
  BY <1>1, <1>2, <1>3, <1>5, <1>6, NextIs

(* The modes agree throughout.                                             *)
LEMMA ModesHold == Spec => []Modes
BY LifeInvHolds, ModesInit, ModesStep, PTL DEF Spec

(* A client is published for the current lifecycle alone, once its startup *)
(* is done, also while checks and requests move the server.                *)
THEOREM ClientIsCurrent ==
  Spec => [](client # None => enabled /\ startup[gen] = "done")
BY LifeInvHolds, PTL DEF LifeInv, Order

(* /status is ready only for an upstream that answered the lifecycle that  *)
(* is current, for any number of saved configurations and of superseded    *)
(* startups in flight.  An apply request in external mode, and an install  *)
(* that a start in external mode overtook, do move the plugin to the       *)
(* managed container: hence no checks and requests.                        *)
THEOREM ReadyIsAnswered ==
  ASSUME Task = {}
  PROVE  Spec => []ReadyMeansAnswered
<1>1. LifeInv /\ OwnServer => ReadyMeansAnswered
  BY DEF LifeInv, Order, OwnServer, ReadyMeansAnswered
<1>2. ASSUME LifeInv, Modes, OwnServer, [Next]_vars
      PROVE  OwnServer'
  BY <1>2, ModesStep
<1>3. Spec => []OwnServer
  BY LifeInvHolds, ModesHold, ModesInit, <1>2, PTL DEF Spec
<1> QED
  BY LifeInvHolds, <1>1, <1>3, PTL

(* No superseded startup publishes a client or starts a reporter, an       *)
(* emitter or a timer after stop(), whatever it was waiting for when       *)
(* stop() ran.  Export-settings requests and installs that stop() overtook *)
(* do start something: hence none of either.                               *)
THEOREM StopIsQuiet ==
  ASSUME Task = {}, Edit = {}
  PROVE  Spec => []StoppedIsQuiet
<1>1. ASSUME Init
      PROVE  StoppedIsQuiet
  BY <1>1 DEF Init, StoppedIsQuiet, published, timers
<1>2. ASSUME LifeInv, StoppedIsQuiet, [Next]_vars
      PROVE  StoppedIsQuiet'
  <2> USE <1>2 DEF StoppedIsQuiet
  <2>1. ASSUME NEW c \in Config, Start(c)
        PROVE  StoppedIsQuiet'
    BY <2>1, StartIs
  <2>2. CASE Stop
    BY <2>2 DEF Stop, published, timers
  <2>3. ASSUME NEW g \in Gen, StartupProceeds(g) \/ StartRetried(g)
        PROVE  StoppedIsQuiet'
    <3>1. /\ enabled' = enabled /\ (g = gen => enabled)
          /\ Ends(g) \/ Looks(g) \/ Resolves(g) \/ Launches(g) \/ ComesUp(g)
             \/ Connects(g)
      BY <2>3, StartupIs
    <3>2. ~enabled => published' = published /\ timers' = timers
      BY <3>1 DEF Ends, Looks, Resolves, Launches, ComesUp, Connects
    <3> QED
      BY <3>1, <3>2
  <2>4. CASE \/ \E kind \in {"host", "server"} : RestoreBegins(kind) \/ RestoreEnds(kind)
             \/ UNCHANGED vars
    BY <2>4 DEF RestoreBegins, RestoreEnds, vars, published, timers
  <2> QED
    BY <2>1, <2>2, <2>3, <2>4, NextIs
<1> QED
  BY LifeInvHolds, <1>1, <1>2, PTL DEF Spec

-----------------------------------------------------------------------------
(***************************************************************************)
(* Where the plugin, its settings and its updater are when checks and      *)
(* requests have moved the server.                                         *)
(***************************************************************************)

(* While saving succeeds the options on disk are the settings in use, and  *)
(* the export timer follows them or is about to.                           *)
Saved == settings # None => saved = settings

Armed ==
  /\ \A e \in Edit : edits[e] # "unsaved"
  /\ client # None /\ settings.managed =>
       dbTimer = settings.exports \/ \E e \in Edit : edits[e] = "saved"

(* Disk, memory and timer agree at first.                                  *)
LEMMA SavedInit ==
  ASSUME Init
  PROVE  Saved /\ Armed
BY DEF Init, Saved, Armed

(* Where saves succeed, every step leaves the disk with what the memory    *)
(* has.                                                                    *)
LEMMA SavedStep ==
  ASSUME "save" \notin Faults, LifeInv, Saved, [Next]_vars
  PROVE  Saved'
<1>1. ASSUME NEW c \in Config, Start(c)
      PROVE  Saved'
  BY <1>1, StartIs DEF Saved
<1>2. ASSUME NEW g \in Gen, StartupProceeds(g) \/ StartRetried(g)
      PROVE  Saved'
  <2>1. /\ settings \in Settings /\ saved \in Settings
        /\ Ends(g) \/ Looks(g) \/ Resolves(g) \/ Launches(g) \/ ComesUp(g) \/ Connects(g)
    BY <1>2, StartupIs
  <2>2. CASE Resolves(g)
    <3>1. PICK v \in Version : AutoTagIs(g, v)
      BY <2>2 DEF Resolves
    <3> QED
      BY <2>1, <3>1, PersistResolvedIs, NoneIs DEF AutoTagIs, MayFail, Saved
  <2>3. CASE tags' = tags
    BY <2>3 DEF tags, Saved
  <2> QED
    BY <2>1, <2>2, <2>3 DEF Ends, Looks, Launches, ComesUp, Connects
<1>3. ASSUME NEW k \in Task, TaskActs(k)
      PROVE  Saved'
  BY <1>3, TaskSaves, PersistsIs DEF MayFail, Saved
<1>4. ASSUME NEW e \in Edit, NEW on \in BOOLEAN, EditRequested(e, on)
      PROVE  Saved'
  BY <1>4 DEF EditRequested, Save, MayFail, Saved
<1>5. CASE UNCHANGED <<settings, saved>>
  BY <1>5 DEF Saved
<1> QED
  BY <1>1, <1>2, <1>3, <1>4, <1>5, NextIs
  DEF Stop, EditSaved, RestoreBegins, RestoreEnds, vars, tags

(* Where saves succeed, every step leaves the timer that of the settings,  *)
(* but for edits under way.                                                *)
LEMMA ArmedStep ==
  ASSUME "save" \notin Faults, LifeInv, Modes, Armed, [Next]_vars
  PROVE  Armed'
<1>0. edits \in [Edit -> {"new", "saved", "unsaved", "done"}]
  BY DEF LifeInv, TypeOK
<1>1. ASSUME NEW c \in Config, Start(c)
      PROVE  Armed'
  BY <1>1, StartIs DEF Armed
<1>2. CASE Stop
  BY <1>2 DEF Stop, Armed
<1>3. ASSUME NEW g \in Gen, StartupProceeds(g) \/ StartRetried(g)
      PROVE  Armed'
  <2>1. /\ edits' = edits
        /\ Ends(g) \/ Looks(g) \/ Resolves(g) \/ Launches(g) \/ ComesUp(g) \/ Connects(g)
    BY <1>3, StartupIs
  <2>2. settings'.managed = settings.managed /\ settings'.exports = settings.exports
    BY <1>3, StartupEffect DEF SameChoices
  <2>3. CASE published' = published /\ timers' = timers
    BY <2>1, <2>2, <2>3 DEF Armed, published, timers
  <2>4. CASE ComesUp(g)
    <3>1. dbTimer' = (settings.managed /\ settings.exports)
      BY <2>4 DEF ComesUp, FinishStartup, DbTimerFor
    <3>2. settings \in Settings
      BY <1>3, StartupIs
    <3>3. settings'.managed => dbTimer' = settings'.exports
      BY <2>2, <3>1, <3>2 DEF Settings
    <3> QED
      BY <2>1, <3>3 DEF Armed
  <2>5. CASE Connects(g)
    <3>1. startup[gen] = "probe" /\ enabled
      BY <1>3, <2>5, StartupIs DEF Connects, StartupAt
    <3>2. ~settings.managed
      BY <3>1 DEF Modes
    <3> QED
      BY <2>1, <2>2, <3>2 DEF Armed
  <2> QED
    BY <2>1, <2>3, <2>4, <2>5 DEF Ends, Looks, Resolves, Launches
<1>4. ASSUME NEW k \in Task, TaskActs(k)
      PROVE  Armed'
  <2>1. edits' = edits /\ dbTimer' = dbTimer /\ (client' = None <=> client = None)
    BY <1>4, TaskStepIs DEF TaskTypes, TaskTimers
  <2>2. client # None => settings # None
    BY DEF LifeInv, Order
  <2> QED
    BY <1>4, <2>1, <2>2, TaskSettings DEF Armed
<1>5. ASSUME NEW e \in Edit, NEW on \in BOOLEAN, EditRequested(e, on)
      PROVE  Armed'
  <2>1. edits' = [edits EXCEPT ![e] = "saved"]
    BY <1>5 DEF EditRequested, Save, MayFail
  <2> QED
    BY <1>0, <2>1 DEF Armed
<1>6. ASSUME NEW e \in Edit, EditSaved(e)
      PROVE  Armed'
  <2>1. /\ edits' = [edits EXCEPT ![e] = "done"] /\ edits[e] \in {"saved", "unsaved"}
        /\ edits[e] = "saved"
        /\ dbTimer' = (settings.managed /\ settings.exports)
        /\ client' = client /\ settings' = settings
    BY <1>6 DEF EditSaved, DbTimerFor, Armed, tags, published
  <2>2. client # None => settings \in Settings
    BY DEF LifeInv, Order, TypeOK
  <2>3. client' # None /\ settings'.managed => dbTimer' = settings'.exports
    BY <2>1, <2>2 DEF Settings
  <2> QED
    BY <1>0, <2>1, <2>3 DEF Armed
<1>7. CASE UNCHANGED <<edits, dbTimer, client, settings>>
  BY <1>7 DEF Armed
<1> QED
  BY <1>1, <1>2, <1>3, <1>4, <1>5, <1>6, <1>7, NextIs
  DEF RestoreBegins, RestoreEnds, vars, tags, published, timers

(* Once the plugin is up and no edit is being saved, exports run as the    *)
(* settings say, and the next start reads the same settings, for any edits *)
(* of them that overlap with each other, with starts and stops, and with   *)
(* updates that save the same options, as long as saving succeeds: every   *)
(* edit restarts the timer after its save, from the settings of then.      *)
THEOREM ExportsFollow ==
  ASSUME "save" \notin Faults
  PROVE  Spec => []ExportsFollowSettings
<1>1. LifeInv /\ Saved /\ Armed => ExportsFollowSettings
  BY DEF LifeInv, Order, Saved, Armed, ExportsFollowSettings
<1>2. ASSUME LifeInv, Modes, Saved, Armed, [Next]_vars
      PROVE  Saved' /\ Armed'
  BY <1>2, SavedStep, ArmedStep
<1>3. Spec => [](Saved /\ Armed)
  BY LifeInvHolds, ModesHold, SavedInit, <1>2, PTL DEF Spec
<1> QED
  BY LifeInvHolds, <1>1, <1>3, PTL

-----------------------------------------------------------------------------
(* The emitter within one lifecycle. *)

(* The lifecycles are numbered from one. *)
Began == enabled => gen # 0

(* A plugin that is enabled has been started.                              *)
LEMMA BeganHolds == Spec => []Began
<1>1. Init => Began
  BY DEF Init, Began
<1>2. ASSUME LifeInv, Began, [Next]_vars
      PROVE  Began'
  <2>1. ASSUME NEW c \in Config, Start(c)
        PROVE  Began'
    <3>1. gen \in Nat /\ gen' = gen + 1
      BY <1>2, <2>1, BoundsAssumption DEF Start, LifeInv, TypeOK, Gen
    <3>2. gen' # 0
      BY <3>1
    <3> QED
      BY <3>2 DEF Began
  <2>2. CASE Stop
    BY <2>2 DEF Stop, Began
  <2>3. CASE UNCHANGED <<gen, enabled>>
    BY <1>2, <2>3 DEF Began
  <2>4. ASSUME NEW g \in Gen, StartupProceeds(g) \/ StartRetried(g)
        PROVE  UNCHANGED <<gen, enabled>>
    BY <1>2, <2>4, StartupIs
  <2>5. ASSUME NEW k \in Task, TaskActs(k)
        PROVE  UNCHANGED <<gen, enabled>>
    BY <1>2, <2>5, TaskStepIs DEF TaskTypes
  <2> QED
    BY <1>2, <2>1, <2>2, <2>3, <2>4, <2>5, NextIs, OthersLeave
<1> QED
  BY LifeInvHolds, <1>1, <1>2, PTL DEF Spec

EmitterInv == /\ client = None => emitter = None
              /\ EmitterFollowsClient

(* Within one lifecycle every step leaves the emitter on the client's      *)
(* server.                                                                 *)
LEMMA EmitterStep ==
  ASSUME MaxGen = 1, LifeInv, Began, EmitterInv, [Next]_vars
  PROVE  EmitterInv'
<1> USE DEF EmitterInv, EmitterFollowsClient
<1>1. client # None => enabled /\ startup[gen] = "done" /\ settings # None
  BY DEF LifeInv, Order
<1>2. gen < MaxGen => ~enabled
  BY DEF Began, LifeInv, TypeOK, Gen
<1>3. ASSUME NEW c \in Config, Start(c)
      PROVE  EmitterInv'
  <2>1. client = None
    BY <1>1, <1>2, <1>3 DEF Start
  <2> QED
    BY <1>3, <2>1, StartIs
<1>4. ~Stop
  BY <1>2 DEF Stop
<1>5. ASSUME NEW g \in Gen, StartupProceeds(g) \/ StartRetried(g)
      PROVE  EmitterInv'
  <2>1. Ends(g) \/ Looks(g) \/ Resolves(g) \/ Launches(g) \/ ComesUp(g) \/ Connects(g)
    BY <1>5, StartupIs
  <2>2. settings'.deltas = settings.deltas
    BY <1>5, StartupEffect DEF SameChoices
  <2>3. CASE published' = published
    BY <2>2, <2>3 DEF published
  <2>4. CASE ComesUp(g) \/ Connects(g)
    <3>1. startup[gen] # "done"
      BY <2>4 DEF ComesUp, Connects, StartupAt
    <3>2. client' # None => emitter' = IF settings.deltas THEN client' ELSE None
      BY <1>1, <2>4, <3>1 DEF ComesUp, FinishStartup, Connects, Emitting
    <3>3. client' = None => emitter' = None
      BY <1>1, <2>4, <3>1 DEF ComesUp, FinishStartup, Connects, Emitting
    <3> QED
      BY <2>2, <3>2, <3>3
  <2> QED
    BY <2>1, <2>3, <2>4 DEF Ends, Looks, Resolves, Launches
<1>6. ASSUME NEW k \in Task, TaskActs(k)
      PROVE  EmitterInv'
  <2>1. client # None => settings'.deltas = settings.deltas
    BY <1>1, <1>6, TaskSettings
  <2>2. CASE published' = published
    BY <2>1, <2>2 DEF published
  <2>3. CASE live # NoContainer /\ Adopt(live.addr)
    <3>1. live.addr \in Address /\ live.addr # None
      BY <2>3, NoneIs DEF LifeInv, TypeOK, Container, Address
    <3> QED
      BY <2>1, <2>3, <3>1, AdoptIs DEF published
  <2> QED
    BY <1>6, <2>2, <2>3, TaskPublishes
<1>7. CASE \/ \E e \in Edit : EditSaved(e) \/ \E on \in BOOLEAN : EditRequested(e, on)
           \/ \E kind \in {"host", "server"} : RestoreBegins(kind) \/ RestoreEnds(kind)
           \/ UNCHANGED vars
  BY <1>1, <1>7, OthersLeave
<1> QED
  BY <1>3, <1>4, <1>5, <1>6, <1>7, NextIs

(* Until the configuration is saved again the emitter, if wanted, is       *)
(* subscribed to the server the plugin talks to, and to none otherwise,    *)
(* however requests and checks move that server.  A start without a stop   *)
(* leaves it on the former server, hence the one lifecycle.                *)
THEOREM EmitterFollows ==
  ASSUME MaxGen = 1
  PROVE  Spec => []EmitterFollowsClient
<1>1. Init => EmitterInv
  BY DEF Init, EmitterInv, EmitterFollowsClient
<1> QED
  BY LifeInvHolds, BeganHolds, <1>1, EmitterStep, PTL DEF Spec, EmitterInv

-----------------------------------------------------------------------------
(* The client and the container. *)

(* Task k has moved the container and the plugin does not follow yet. *)
Moving(k) == \/ update[k].pc = "ready" /\ update[k].ok /\ update[k].addr = live.addr
             \/ update[k].pc = "applied" /\ update[k].ok
             \/ update[k].pc = "persisted"

(* The new container, or what a failed recreation leaves. *)
Recreated(k) == \/ live' \in Container /\ Moving(k)'
                \/ live' \in {live, NoContainer}

(* A swap of the container is a recreation by one task.                    *)
LEMMA SwapMoves ==
  ASSUME LifeInv, NEW k \in Task,
         \/ /\ TaskAt(k, "ready")
            /\ SwapTo(k, update[k].previous, [update[k] EXCEPT !.back = TRUE])
         \/ /\ update[k].target \in Version
            /\ \E g \in Gen : BeginInstall(k, update[k].target, g)
  PROVE  Recreated(k)
<1>1. live \in Container \cup {NoContainer} /\ TasksSound
  BY DEF LifeInv, TypeOK
<1>2. PICK v \in Version, ok \in BOOLEAN :
        /\ Recreate(v, ok) /\ update'[k].pc = "ready" /\ update'[k].ok = ok
        /\ update'[k].addr = live'.addr
  <2>1. CASE TaskAt(k, "ready") /\ SwapTo(k, update[k].previous, [update[k] EXCEPT !.back = TRUE])
    <3>1. update[k].previous \in Version
      BY <1>1, <2>1, AtTask
    <3> QED
      BY <2>1, <3>1, InstallReturns
  <2>2. ASSUME NEW g \in Gen, update[k].target \in Version,
               BeginInstall(k, update[k].target, g)
        PROVE  \E v \in Version, ok \in BOOLEAN :
                 /\ Recreate(v, ok) /\ update'[k].pc = "ready" /\ update'[k].ok = ok
                 /\ update'[k].addr = live'.addr
    BY <2>2, InstallBegins
  <2> QED
    BY <2>1, <2>2
<1>3. ok => live' \in Container
  BY <1>1, <1>2, RecreateIs
<1>4. ~ok => live' \in {live, NoContainer}
  BY <1>1, <1>2, RecreateIs
<1> QED
  BY <1>2, <1>3, <1>4 DEF Recreated, Moving

(* The beginning of an apply is a recreation by one task.                  *)
LEMMA ApplyMoves ==
  ASSUME LifeInv, NEW k \in Apply, NEW tag \in Tag, ApplyTag(k, tag)
  PROVE  Recreated(k)
<1>1. /\ update \in [Task -> TaskShape] /\ k \in Task /\ "applied" \in TaskStep
      /\ live \in Container \cup {NoContainer}
      /\ resolvedAutoTag \in Version \cup {None}
  BY DEF LifeInv, TypeOK, Task, TaskStep
<1> DEFINE v == Resolve(tag, resolvedAutoTag)
<1>2. v \in Version
  BY <1>1, ResolveIs
<1> HIDE DEF v
<1>3. PICK ok \in BOOLEAN :
        /\ Recreate(v, ok)
        /\ update' = [update EXCEPT ![k].pc = "applied", ![k].tag = tag,
                                    ![k].ok = ok, ![k].target = v]
  BY DEF ApplyTag, v
<1>4. update'[k].pc = "applied" /\ update'[k].ok = ok
  BY <1>1, <1>3 DEF TaskShape
<1>5. ok => live' \in Container
  BY <1>1, <1>2, <1>3, RecreateIs
<1>6. ~ok => live' \in {live, NoContainer}
  BY <1>1, <1>2, <1>3, RecreateIs
<1> QED
  BY <1>4, <1>5, <1>6 DEF Recreated, Moving

(* A step of a task adopts the container that runs, or replaces it, or     *)
(* leaves the plugin with it or without one.                               *)
LEMMA TaskMoves ==
  ASSUME "answer" \notin Faults, LifeInv, NEW k \in Task, TaskActs(k)
  PROVE  \/ live' = live /\ live # NoContainer /\ Adopt(live.addr)
         \/ published' = published /\ live' \in Container /\ Moving(k)'
         \/ /\ published' = published /\ live' \in {live, NoContainer}
            /\ Moving(k) => Moving(k)' \/ live = NoContainer
<1> DEFINE Goal == \/ live' = live /\ live # NoContainer /\ Adopt(live.addr)
                   \/ published' = published /\ live' \in Container /\ Moving(k)'
                   \/ /\ published' = published /\ live' \in {live, NoContainer}
                      /\ Moving(k) => Moving(k)' \/ live = NoContainer
<1>1. /\ TasksSound /\ update \in [Task -> TaskShape] /\ gen \in Gen
      /\ resolvedAutoTag \in Version \cup {None} /\ AUTO \in Tag
      /\ TaskStep = {"new", "off", "check", "link", "pull", "idle", "decide", "ready",
                     "saving", "applied", "persisted", "waiting"}
      /\ WaitForReady(FALSE) <=> live = NoContainer
      /\ WaitForReady(TRUE) <=> live # NoContainer
  BY DEF LifeInv, TypeOK, Tag, TaskStep, WaitForReady, MayFail
<1>2. ASSUME ~Moving(k) \/ live = NoContainer, published' = published,
             live' = live \/ Recreated(k)
      PROVE  Goal
  BY <1>2 DEF Recreated
<1>3. CASE CheckProceeds(k) \/ TimerFires(k)
  <2>1. ~Moving(k)
    BY <1>3 DEF CheckProceeds, TimerFires, CheckAnswered, LinkRead, CheckPulled, IdleRead,
       Decide, TaskAt, Moving
  <2>2. live' = live \/ Recreated(k)
    <3>1. CASE TaskAt(k, "decide") /\ BeginInstall(k, update[k].target, update[k].gen)
      <4>1. update[k].target \in Version /\ update[k].gen \in Gen
        BY <1>1, <3>1, AtTask
      <4> QED
        BY <3>1, <4>1, SwapMoves
    <3> QED
      BY <1>3, <3>1 DEF CheckProceeds, TimerFires, CheckAnswered, LinkRead, CheckPulled,
         IdleRead, Decide, outside
  <2>3. published' = published
    BY <1>3 DEF CheckProceeds, TimerFires, CheckAnswered, LinkRead, CheckPulled, IdleRead,
       Decide
  <2> QED
    BY <1>2, <2>1, <2>2, <2>3
<1>4. CASE NewServerReady(k)
  BY <1>1, <1>4 DEF NewServerReady, HealthPoll, outside
<1>5. CASE NewServerFailed(k)
  <2>1. /\ TaskAt(k, "ready") /\ published' = published
        /\ ~update[k].ok \/ live = NoContainer \/ live.addr # update[k].addr
    BY <1>1, <1>5 DEF NewServerFailed, HealthPoll
  <2>2. ~Moving(k) \/ live = NoContainer
    BY <2>1 DEF Moving, TaskAt
  <2>3. live' = live \/ Recreated(k)
    <3>1. update[k].previous \in Version
      BY <1>1, <2>1, AtTask
    <3> QED
      BY <1>5, <2>1, <3>1, SwapMoves DEF NewServerFailed
  <2> QED
    BY <1>2, <2>1, <2>2, <2>3
<1>6. CASE OldServerBack(k)
  <2>1. live' = live
    BY <1>6 DEF OldServerBack, outside
  <2>2. CASE live # NoContainer /\ Adopt(live.addr)
    BY <1>1, <2>1, <2>2
  <2>3. CASE /\ ~update[k].ok \/ live = NoContainer \/ live.addr # update[k].addr
             /\ published' = published
    <3>1. ~Moving(k) \/ live = NoContainer
      BY <1>1, <1>6, <2>3 DEF Moving, OldServerBack, TaskAt
    <3> QED
      BY <1>2, <2>1, <2>3, <3>1
  <2> QED
    BY <1>1, <1>6, <2>2, <2>3 DEF OldServerBack, HealthPoll
<1>7. CASE InstallSaved(k)
  BY <1>7 DEF InstallSaved, TaskAt, Moving, outside
<1>8. CASE ApplyRefused(k) \/ AppliedServerReady(k)
  BY <1>8 DEF ApplyRefused, AppliedServerReady, TaskAt, Moving, outside
<1>9. CASE ApplyAnswered(k) \/ \E t \in Tag : ApplyRequested(k, t)
  <2>1. ~Moving(k) /\ published' = published
    BY <1>9 DEF ApplyAnswered, ApplyRequested, TaskAt, Moving
  <2>2. live' = live \/ Recreated(k)
    BY <1>1, <1>9, ApplyMoves DEF ApplyAnswered, ApplyRequested
  <2> QED
    BY <1>2, <2>1, <2>2
<1>10. CASE ApplyPulled(k)
  <2>1. ~Moving(k) /\ published' = published
    BY <1>10 DEF ApplyPulled, TaskAt, Moving
  <2>2. live' = live \/ Recreated(k)
    <3>1. update[k].target \in Version
      BY <1>1, <1>10, AtTask DEF ApplyPulled
    <3> QED
      BY <1>1, <1>10, <3>1, SwapMoves DEF ApplyPulled
  <2> QED
    BY <1>2, <2>1, <2>2
<1>11. CASE TagApplied(k)
  <2>1. live' = live /\ published' = published /\ TaskAt(k, "applied")
    BY <1>11 DEF TagApplied, outside
  <2>2. Moving(k) => Moving(k)'
    <3>1. ASSUME NEW ok \in BOOLEAN,
                 update' = [update EXCEPT ![k].pc = "persisted", ![k].ok = ok]
          PROVE  Moving(k)'
      BY <1>1, <3>1, SetOk DEF Moving
    <3> QED
      BY <1>11, <2>1, <3>1 DEF TagApplied, Moving, TaskAt
  <2> QED
    BY <2>1, <2>2
<1>12. CASE AppliedTagSaved(k)
  <2>1. live' = live
    BY <1>12 DEF AppliedTagSaved, outside
  <2> QED
    BY <1>12, <2>1 DEF AppliedTagSaved
<1> QED
  BY <1>3, <1>4, <1>5, <1>6, <1>7, <1>8, <1>9, <1>10, <1>11, <1>12
  DEF TaskActs, TaskProceeds, InstallProceeds, ApplyProceeds

(* A managed plugin that is up talks to the container that runs, unless a  *)
(* task has just moved it.                                                 *)
ClientInv == client # None /\ settings.managed =>
  /\ containerAddress = client
  /\ \/ live = NoContainer \/ client = live.addr
     \/ \E k \in Task : Moving(k)

(* Every step keeps the relation of client, address and container.         *)
LEMMA ClientStep ==
  ASSUME "answer" \notin Faults, LifeInv, Modes, ClientInv, [Next]_vars
  PROVE  ClientInv'
<1>1. client # None => enabled /\ startup[gen] = "done" /\ settings # None
  BY DEF LifeInv, Order
<1>2. ASSUME NEW c \in Config, Start(c)
      PROVE  ClientInv'
  BY <1>2, StartIs DEF ClientInv
<1>3. CASE Stop
  BY <1>3 DEF Stop, ClientInv
<1>4. ASSUME NEW g \in Gen, StartupProceeds(g) \/ StartRetried(g)
      PROVE  ClientInv'
  <2>1. /\ update' = update
        /\ Ends(g) \/ Looks(g) \/ Resolves(g) \/ Launches(g) \/ ComesUp(g) \/ Connects(g)
    BY <1>4, StartupIs
  <2>2. settings'.managed = settings.managed
    BY <1>4, StartupEffect DEF SameChoices
  <2>3. CASE published' = published /\ live' = live
    BY <2>1, <2>2, <2>3 DEF ClientInv, Moving, published
  <2>4. CASE Launches(g)
    <3>1. client = None /\ published' = published
      BY <1>1, <2>4 DEF Launches, StartupAt
    <3> QED
      BY <3>1 DEF ClientInv, published
  <2>5. CASE ComesUp(g)
    BY <2>5 DEF ComesUp, FinishStartup, ClientInv
  <2>6. CASE Connects(g)
    <3>1. ~settings.managed
      BY <1>4, <2>6, StartupIs DEF Connects, StartupAt, Modes
    <3> QED
      BY <2>2, <3>1 DEF ClientInv
  <2> QED
    BY <2>1, <2>3, <2>4, <2>5, <2>6 DEF Ends, Looks, Resolves
<1>5. ASSUME NEW k \in Task, TaskActs(k)
      PROVE  ClientInv'
  <2>1. client # None => settings'.managed = settings.managed
    BY <1>1, <1>5, TaskSettings
  <2>2. client' = None <=> client = None
    BY <1>5, TaskStepIs DEF TaskTimers
  <2>3. live' = live => \A j \in Task \ {k} : Moving(j)' <=> Moving(j)
    BY <1>5, TaskStepIs DEF Moves, Moving
  <2>4. CASE live' = live /\ live # NoContainer /\ Adopt(live.addr)
    <3>1. live.addr \in Address /\ live.addr # None
      BY <2>4, NoneIs DEF LifeInv, TypeOK, Container, Address
    <3>2. CASE client # None /\ live.addr # containerAddress
      BY <2>4, <3>1, <3>2, AdoptIs DEF ClientInv
    <3>3. CASE client # None /\ live.addr = containerAddress
      <4>1. client' = client /\ containerAddress' = containerAddress
        BY <2>4, <3>1, <3>3, AdoptIs DEF published
      <4> QED
        BY <2>1, <2>4, <3>3, <4>1 DEF ClientInv
    <3> QED
      BY <2>2, <3>2, <3>3 DEF ClientInv
  <2>5. CASE published' = published /\ live' \in Container /\ Moving(k)'
    BY <2>1, <2>5 DEF ClientInv, published
  <2>6. CASE /\ published' = published /\ live' \in {live, NoContainer}
             /\ Moving(k) => Moving(k)' \/ live = NoContainer
    BY <2>1, <2>3, <2>6 DEF ClientInv, published
  <2> QED
    BY <1>5, <2>4, <2>5, <2>6, TaskMoves
<1>6. CASE \/ \E e \in Edit : EditSaved(e) \/ \E on \in BOOLEAN : EditRequested(e, on)
           \/ \E kind \in {"host", "server"} : RestoreBegins(kind) \/ RestoreEnds(kind)
           \/ UNCHANGED vars
  <2>1. update' = update
    BY <1>6, NoTaskActs
  <2> QED
    BY <1>1, <1>6, <2>1, OthersLeave DEF ClientInv, Moving
<1> QED
  BY <1>2, <1>3, <1>4, <1>5, <1>6, NextIs

(* Up, in managed mode and with no install under way, the plugin talks to  *)
(* the container where it runs, after any sequence of starts, stops,       *)
(* requests, installs and rollbacks, whichever of them pulls, recreations  *)
(* and saves fail, as long as every container that runs answers in time.   *)
THEOREM ClientFollows ==
  ASSUME "answer" \notin Faults
  PROVE  Spec => []ClientFollowsContainer
<1>1. Init => ClientInv
  BY DEF Init, ClientInv
<1>2. LifeInv /\ OneInstall /\ ClientInv => ClientFollowsContainer
  <2> SUFFICES ASSUME LifeInv, OneInstall, ClientInv, Settled, live # NoContainer
               PROVE  client = live.addr
    BY DEF ClientFollowsContainer
  <2>1. ASSUME NEW k \in Task, Moving(k)
        PROVE  Exclusive(k)
    BY <2>1, AtTask DEF Moving, TaskAt, LifeInv
  <2> QED
    BY <2>1 DEF Settled, OneInstall, ClientInv
<1> QED
  BY LifeInvHolds, ModesHold, OneInstallHolds, <1>1, <1>2, ClientStep, PTL DEF Spec

-----------------------------------------------------------------------------
(* The updater. *)

On(k) == update[k].pc # "off"

(* A check begins, ends, or goes on in its lifecycle. *)
LEMMA CheckGoes ==
  ASSUME LifeInv, NEW k \in Check, TaskActs(k)
  PROVE  \/ TimerFires(k)
         \/ On(k) /\ EndCheck(k) /\ settings' = settings
         \/ /\ On(k) /\ On(k)' /\ update'[k].gen = update[k].gen
            /\ updateTimer' = updateTimer
<1>1. /\ update \in [Task -> TaskShape] /\ TasksSound /\ k \in Task /\ k \notin Apply
      /\ TaskStep = {"new", "off", "check", "link", "pull", "idle", "decide", "ready",
                     "saving", "applied", "persisted", "waiting"}
      /\ update[k].pc \notin {"new", "applied", "persisted", "waiting"}
  BY TasksDisjoint DEF LifeInv, TypeOK, TaskStep, Task, TasksSound, Sound
<1>2. CASE CheckAnswered(k)
  BY <1>1, <1>2, SetTarget DEF CheckAnswered, TaskAt, On, tags
<1>3. CASE LinkRead(k) \/ CheckPulled(k)
  BY <1>1, <1>3, SetPc DEF LinkRead, CheckPulled, TaskAt, TaskGoto, On, tags
<1>4. CASE IdleRead(k)
  <2>1. PICK ok \in BOOLEAN :
          update' = [update EXCEPT ![k].pc = "decide", ![k].ok = ok]
    BY <1>4 DEF IdleRead
  <2> QED
    BY <1>1, <1>4, <2>1, SetOk DEF IdleRead, TaskAt, On, timers
<1>5. CASE Decide(k)
  <2>1. CASE MayInstall(k)
    <3>1. /\ update[k].gen \in Gen /\ update[k].target \in Version
          /\ BeginInstall(k, update[k].target, update[k].gen)
      BY <1>1, <1>5, <2>1, AtTask DEF Decide
    <3>2. update'[k].pc = "ready" /\ update'[k].gen = update[k].gen
      BY <1>1, <3>1, InstallBegins
    <3> QED
      BY <1>5, <2>1, <3>2 DEF Decide, TaskAt, On
  <2>2. CASE ~MayInstall(k)
    BY <1>5, <2>2 DEF Decide, TaskAt, On, tags
  <2> QED
    BY <2>1, <2>2
<1>6. CASE NewServerReady(k)
  <2>1. PICK ok \in BOOLEAN :
          update' = [update EXCEPT ![k].pc = "saving", ![k].ok = ok]
    BY <1>6 DEF NewServerReady
  <2> QED
    BY <1>1, <1>6, <2>1, SetOk DEF NewServerReady, TaskAt, On, timers
<1>7. CASE NewServerFailed(k)
  <2>1. CASE Current(update[k].gen)
    <3>1. SwapTo(k, update[k].previous, [update[k] EXCEPT !.back = TRUE])
      BY <1>7, <2>1 DEF NewServerFailed
    <3>2. update'[k].pc = "ready" /\ update'[k].gen = update[k].gen
      BY <1>1, <1>7, <3>1, InstallReturns DEF NewServerFailed
    <3> QED
      BY <1>7, <2>1, <3>2 DEF NewServerFailed, TaskAt, On
  <2>2. CASE ~Current(update[k].gen)
    BY <1>7, <2>2 DEF NewServerFailed, GiveUp, EndTask, TaskAt, On
  <2> QED
    BY <2>1, <2>2
<1>8. CASE OldServerBack(k) \/ InstallSaved(k)
  BY <1>8 DEF OldServerBack, InstallSaved, GiveUp, EndTask, TaskAt, On, tags
<1>9. ~ApplyRefused(k) /\ ~ApplyProceeds(k) /\ ~\E t \in Tag : ApplyRequested(k, t)
  BY <1>1 DEF ApplyRefused, ApplyRequested, ApplyProceeds, ApplyAnswered, ApplyPulled,
     TagApplied, AppliedTagSaved, AppliedServerReady, TaskAt
<1> QED
  BY <1>2, <1>3, <1>4, <1>5, <1>6, <1>7, <1>8, <1>9
  DEF TaskActs, TaskProceeds, CheckProceeds, InstallProceeds

(* A check belongs to a lifecycle. *)
Born == \A k \in Check : On(k) => update[k].gen # 0

(* Without requests the timer is armed, and checks of the current          *)
(* lifecycle run, while it is up and the updater is wanted, ...            *)
CheckInv ==
  /\ updateTimer # None => client # None /\ settings.managed
  /\ \A k \in Check : On(k) /\ update[k].gen = gen =>
       AutoUpdateEnabled(settings) /\ client # None /\ settings.managed

(* ... and while it is wanted in a lifecycle that is up, its timer is      *)
(* armed or a check of that lifecycle runs.                                *)
Updating == \/ updateTimer # None
            \/ \E k \in Check : On(k) /\ update[k].gen = gen

AliveInv == client # None /\ settings.managed /\ AutoUpdateEnabled(settings) => Updating

NoPins == \A c \in Config : c.managed => c.tag = AUTO

AllAuto == settings # None /\ settings.managed => settings.tag = AUTO

Unpinned == NoPins => AllAuto

(* Requests are what sets another tag. *)
LEMMA CheckSettings ==
  ASSUME LifeInv, NEW k \in Check, TaskActs(k)
  PROVE  settings # None =>
           /\ settings'.managed = settings.managed /\ settings'.auto = settings.auto
           /\ settings'.tag = settings.tag \/ (settings'.tag = AUTO /\ On(k))
<1>1. k \in Task /\ k \notin Apply
  BY TasksDisjoint DEF Task
<1>2. ~TagApplied(k)
  BY <1>1, AtTask DEF TagApplied, TaskAt, LifeInv
<1>3. Persists(k) => On(k)
  BY <1>2 DEF Persists, NewServerReady, TaskAt, On
<1> QED
  BY <1>1, <1>2, <1>3, TaskSaves, TaskSettings, PersistsIs

(* Every step leaves checks belonging to lifecycles that have begun.       *)
LEMMA BornStep ==
  ASSUME LifeInv, Began, Born, [Next]_vars
  PROVE  Born'
<1>1. ASSUME NEW k \in Task, TaskActs(k), NEW j \in Check, On(j)'
      PROVE  update'[j].gen # 0
  <2>1. CASE j # k
    <3>1. update'[j] = update[j]
      BY <1>1, <2>1, TaskStepIs DEF Moves, Task
    <3> QED
      BY <1>1, <3>1 DEF Born, On
  <2>2. CASE j = k
    <3>1. CASE TimerFires(k)
      <4>1. updateTimer = gen /\ enabled /\ updateTimer \in Gen
        BY <3>1 DEF TimerFires, LifeInv, TypeOK, Order
      <4>2. CASE update' = update
        BY <1>1, <2>2, <3>1, <4>2 DEF TimerFires, TaskAt, On
      <4>3. CASE update' = [update EXCEPT ![k].pc = "check", ![k].gen = updateTimer]
        <5>1. update'[k].gen = updateTimer
          BY <1>1, <4>1, <4>3 DEF LifeInv, TypeOK, TaskShape
        <5> QED
          BY <2>2, <4>1, <5>1 DEF Began
      <4> QED
        BY <3>1, <4>2, <4>3 DEF TimerFires
    <3>2. CASE On(k) /\ update'[k].gen = update[k].gen
      BY <1>1, <2>2, <3>2 DEF Born
    <3>3. CASE EndCheck(k)
      <4>1. update'[k].pc = "off"
        BY <1>1, <3>3, EndsIdle, EndIs DEF LifeInv
      <4> QED
        BY <1>1, <2>2, <4>1 DEF On
    <3> QED
      BY <1>1, <2>2, <3>1, <3>2, <3>3, CheckGoes
  <2> QED
    BY <2>1, <2>2
<1>2. CASE update' = update
  BY <1>2 DEF Born, On
<1> QED
  BY <1>1, <1>2, NextIs, NoTaskActs DEF Born

(* A new lifecycle has no check yet. *)
LEMMA NewGenNoCheck ==
  ASSUME LifeInv, Stop \/ \E c \in Config : Start(c)
  PROVE  \A k \in Check : update' = update /\ (On(k) => update[k].gen # gen')
<1>1. update' = update /\ gen' = gen + 1 /\ gen \in Nat
  <2>1. gen \in Nat
    BY BoundsAssumption DEF LifeInv, TypeOK, Gen
  <2>2. ASSUME NEW c \in Config, Start(c)
        PROVE  update' = update /\ gen' = gen + 1
    BY <2>2 DEF Start
  <2> QED
    BY <2>1, <2>2 DEF Stop
<1>2. \A k \in Check : update[k].gen \in Nat
  BY AtTask DEF LifeInv, Task, Gen
<1>3. \A k \in Check : On(k) => update[k].gen <= gen
  BY DEF LifeInv, Order, On
<1> QED
  BY <1>1, <1>2, <1>3

(* Without requests every step leaves checks and their timer to a plugin   *)
(* that is up and wants them.                                              *)
LEMMA CheckInvStep ==
  ASSUME Apply = {}, LifeInv, Modes, CheckInv, [Next]_vars
  PROVE  CheckInv'
<1>0. /\ client # None => enabled /\ settings # None
      /\ \A k \in Check : On(k) => settings # None
  BY TasksDisjoint DEF LifeInv, Order, TasksSound, Sound, On, Task
<1>1. ASSUME Stop \/ \E c \in Config : Start(c)
      PROVE  CheckInv'
  <2>1. updateTimer' = None
    BY <1>1 DEF Start, Stop
  <2>2. \A k \in Check : On(k)' => update'[k].gen # gen'
    BY <1>1, NewGenNoCheck DEF On
  <2> QED
    BY <2>1, <2>2 DEF CheckInv
<1>2. ASSUME NEW g \in Gen, StartupProceeds(g) \/ StartRetried(g)
      PROVE  CheckInv'
  <2>1. /\ UNCHANGED <<update, gen>> /\ settings \in Settings /\ (g = gen => enabled)
        /\ Ends(g) \/ Looks(g) \/ Resolves(g) \/ Launches(g) \/ ComesUp(g) \/ Connects(g)
    BY <1>2, StartupIs
  <2>2. SameChoices(settings', settings)
    BY <1>2, StartupEffect
  <2>3. CASE published' = published /\ timers' = timers
    BY <2>1, <2>2, <2>3 DEF CheckInv, On, SameChoices, AutoUpdateEnabled, published, timers
  <2>4. CASE ComesUp(g)
    <3>1. client' = live.addr /\ live.addr \in Address
      BY <2>4 DEF ComesUp, FinishStartup, LifeInv, TypeOK, Container, Address
    <3>2. settings.managed
      BY <2>1, <2>4 DEF ComesUp, StartupAt, Modes
    <3> QED
      BY <2>1, <2>2, <3>1, <3>2, NoneIs DEF CheckInv, On, SameChoices, AutoUpdateEnabled
  <2>5. CASE Connects(g)
    <3>1. startup[gen] = "probe" /\ enabled
      BY <2>1, <2>5 DEF Connects, StartupAt
    <3>2. ~settings.managed /\ updateTimer' = updateTimer
      BY <2>5, <3>1 DEF Modes, Connects
    <3> QED
      BY <2>1, <2>2, <3>2 DEF CheckInv, On, SameChoices, AutoUpdateEnabled
  <2> QED
    BY <2>1, <2>3, <2>4, <2>5 DEF Ends, Looks, Resolves, Launches
<1>3. ASSUME NEW k \in Task, TaskActs(k)
      PROVE  CheckInv'
  <2>1. k \in Check /\ k \notin Apply
    BY DEF Task
  <2>2. /\ gen' = gen /\ (client' = None <=> client = None)
        /\ \A j \in Task \ {k} : update'[j] = update[j]
    BY <1>3, TaskStepIs DEF TaskTypes, TaskTimers, Moves
  <2>3. settings # None =>
          /\ settings'.managed = settings.managed
          /\ AutoUpdateEnabled(settings) => AutoUpdateEnabled(settings')
    BY <1>3, <2>1, CheckSettings DEF AutoUpdateEnabled
  <2>4. updateTimer' # None => client # None /\ settings.managed
    <3>1. CASE TimerFires(k)
      BY <3>1 DEF TimerFires
    <3>2. CASE On(k) /\ EndCheck(k)
      BY <2>1, <3>2 DEF EndCheck, ScheduleUpdate, Current, CheckInv
    <3>3. CASE updateTimer' = updateTimer
      BY <3>3 DEF CheckInv
    <3> QED
      BY <1>3, <2>1, <3>1, <3>2, <3>3, CheckGoes
  <2>5. ASSUME NEW j \in Check \ {k}, On(j)', update'[j].gen = gen'
        PROVE  AutoUpdateEnabled(settings') /\ client # None /\ settings.managed
    <3>1. update'[j] = update[j] /\ On(j)
      BY <2>2, <2>5 DEF Task, On
    <3> QED
      BY <1>0, <2>2, <2>3, <2>5, <3>1 DEF CheckInv
  <2>6. ASSUME On(k)', update'[k].gen = gen'
        PROVE  AutoUpdateEnabled(settings') /\ client # None /\ settings.managed
    <3>1. CASE TimerFires(k)
      <4>1. update[k].pc = "off" /\ (~Wanted(updateTimer) => update' = update)
        BY <3>1 DEF TimerFires, TaskAt
      <4>2. Wanted(updateTimer) /\ settings' = settings /\ updateTimer # None
        BY <2>6, <3>1, <4>1 DEF TimerFires, On, tags
      <4> QED
        BY <4>2 DEF Wanted, CheckInv
    <3>2. CASE On(k) /\ update'[k].gen = update[k].gen
      BY <1>0, <2>1, <2>2, <2>3, <2>6, <3>2 DEF CheckInv
    <3>3. CASE EndCheck(k)
      <4>1. update'[k].pc = "off"
        BY <1>3, <3>3, EndsIdle, EndIs DEF LifeInv
      <4> QED
        BY <2>6, <4>1 DEF On
    <3> QED
      BY <1>3, <2>1, <3>1, <3>2, <3>3, CheckGoes
  <2> QED
    BY <1>0, <2>1, <2>2, <2>3, <2>4, <2>5, <2>6 DEF CheckInv
<1>4. CASE \/ \E e \in Edit : EditSaved(e) \/ \E on \in BOOLEAN : EditRequested(e, on)
           \/ \E kind \in {"host", "server"} : RestoreBegins(kind) \/ RestoreEnds(kind)
           \/ UNCHANGED vars
  <2>1. update' = update
    BY <1>4, NoTaskActs
  <2> QED
    BY <1>0, <1>4, <2>1, OthersLeave DEF CheckInv, On, AutoUpdateEnabled
<1> QED
  BY <1>1, <1>2, <1>3, <1>4, NextIs

(* The invariants of checks hold at first.                                 *)
LEMMA CheckInvInit ==
  ASSUME Init
  PROVE  Born /\ CheckInv /\ AliveInv /\ AllAuto
<1>1. \A k \in Check : update[k].pc = "off"
  BY IdleIs, TasksDisjoint DEF Init, Task
<1> QED
  BY <1>1 DEF Init, Born, CheckInv, AliveInv, AllAuto, On

(* Without pins in the configurations every options record says auto.      *)
LEMMA AllAutoStep ==
  ASSUME Apply = {}, NoPins, LifeInv, AllAuto, [Next]_vars
  PROVE  AllAuto'
<1>1. ASSUME NEW c \in Config, Start(c)
      PROVE  AllAuto'
  BY <1>1, StartIs DEF NoPins, SameChoices, AllAuto
<1>2. ASSUME NEW g \in Gen, StartupProceeds(g) \/ StartRetried(g)
      PROVE  AllAuto'
  BY <1>2, StartupIs, StartupEffect, NoneIs DEF SameChoices, AllAuto
<1>3. ASSUME NEW k \in Task, TaskActs(k)
      PROVE  AllAuto'
  <2>1. settings = None => settings' = settings
    <3>1. ~Persists(k) \/ settings # None
      BY <1>3, PersistsIs, NoneIs
    <3> QED
      BY <1>3, <3>1, TaskSaves
  <2> QED
    BY <1>3, <2>1, CheckSettings DEF AllAuto, Task
<1>4. CASE \/ Stop
           \/ \E e \in Edit : EditSaved(e) \/ \E on \in BOOLEAN : EditRequested(e, on)
           \/ \E kind \in {"host", "server"} : RestoreBegins(kind) \/ RestoreEnds(kind)
           \/ UNCHANGED vars
  BY <1>4, OthersLeave DEF AllAuto, Stop, tags
<1> QED
  BY <1>1, <1>2, <1>3, <1>4, NextIs

(* Without requests every step leaves the updater armed or at work.        *)
LEMMA AliveStep ==
  ASSUME Apply = {}, MaxGen = 1 \/ AllAuto, LifeInv, Modes, Born, CheckInv, AliveInv,
         [Next]_vars
  PROVE  AliveInv'
<1>0. client # None => enabled /\ startup[gen] = "done" /\ settings # None
  BY DEF LifeInv, Order
<1>1. CASE Stop \/ \E c \in Config : Start(c)
  BY <1>1, StartIs DEF Stop, AliveInv
<1>2. ASSUME NEW g \in Gen, StartupProceeds(g) \/ StartRetried(g)
      PROVE  AliveInv'
  <2>1. /\ UNCHANGED <<update, gen>>
        /\ Ends(g) \/ Looks(g) \/ Resolves(g) \/ Launches(g) \/ ComesUp(g) \/ Connects(g)
    BY <1>2, StartupIs
  <2>2. SameChoices(settings', settings)
    BY <1>2, StartupEffect
  <2>3. CASE published' = published /\ timers' = timers
    BY <2>1, <2>2, <2>3 DEF AliveInv, Updating, On, SameChoices, AutoUpdateEnabled,
       published, timers
  <2>4. CASE ComesUp(g)
    <3>1. AutoUpdateEnabled(settings') => AutoUpdateEnabled(settings)
      BY <2>2 DEF SameChoices, AutoUpdateEnabled
    <3>2. AutoUpdateEnabled(settings) => updateTimer' = g
      BY <2>4 DEF ComesUp, FinishStartup, ScheduleUpdate
    <3>3. g # None
      BY NoneIs
    <3> QED
      BY <3>1, <3>2, <3>3 DEF AliveInv, Updating
  <2>5. CASE Connects(g)
    <3>1. ~settings.managed
      BY <1>2, <2>5, StartupIs DEF Connects, StartupAt, Modes
    <3> QED
      BY <2>2, <3>1 DEF AliveInv, SameChoices
  <2> QED
    BY <2>1, <2>3, <2>4, <2>5 DEF Ends, Looks, Resolves, Launches
<1>3. ASSUME NEW k \in Task, TaskActs(k)
      PROVE  AliveInv'
  <2> SUFFICES ASSUME client' # None, settings'.managed, AutoUpdateEnabled(settings')
               PROVE  Updating'
    BY DEF AliveInv
  <2>1. /\ k \in Check /\ k \notin Apply /\ gen \in Gen /\ gen \in Nat
        /\ update[k].gen \in Gen /\ update[k].gen \in Nat
    BY AtTask, BoundsAssumption DEF Task, LifeInv, TypeOK, Gen
  <2>2. /\ gen' = gen /\ client # None /\ settings # None
        /\ \A j \in Task \ {k} : update'[j] = update[j]
    BY <1>0, <1>3, TaskStepIs DEF TaskTypes, TaskTimers, Moves
  <2>3. settings.managed /\ settings'.auto = settings.auto
    BY <1>3, <2>1, <2>2, CheckSettings
  <2>4. ASSUME On(k), update[k].gen # gen
        PROVE  settings.tag = AUTO
    <3>1. CASE AllAuto
      BY <2>2, <2>3, <3>1 DEF AllAuto
    <3>2. CASE MaxGen = 1
      <4>1. update[k].gen # 0
        BY <2>1, <2>4 DEF Born
      <4>2. gen # 0
        BY <2>1, <2>4, <4>1 DEF LifeInv, Order, On
      <4> QED
        BY <2>1, <2>4, <3>2, <4>1, <4>2 DEF Gen
    <3> QED
      BY <3>1, <3>2
  <2>5. AutoUpdateEnabled(settings)
    <3>1. settings'.tag = settings.tag \/ (settings'.tag = AUTO /\ On(k))
      BY <1>3, <2>1, <2>2, CheckSettings
    <3>2. On(k) /\ update[k].gen = gen => AutoUpdateEnabled(settings)
      BY <2>1 DEF CheckInv
    <3> QED
      BY <2>3, <2>4, <3>1, <3>2 DEF AutoUpdateEnabled
  <2>6. Updating
    BY <2>2, <2>3, <2>5 DEF AliveInv
  <2>7. ASSUME NEW j \in Check \ {k}, On(j), update[j].gen = gen
        PROVE  Updating'
    BY <2>2, <2>7 DEF Updating, On, Task
  <2>8. CASE TimerFires(k)
    <3>1. /\ ~On(k) /\ updateTimer = gen /\ updateTimer \in Gen
          /\ k \in Task
      BY <2>8 DEF TimerFires, TaskAt, On, LifeInv, TypeOK, Order
    <3>2. Wanted(updateTimer)
      BY <2>5, <3>1 DEF Wanted, Current
    <3>3. update' = [update EXCEPT ![k].pc = "check", ![k].gen = updateTimer]
      BY <2>8, <3>2 DEF TimerFires
    <3>4. update'[k].pc = "check" /\ update'[k].gen = gen
      BY <3>1, <3>3 DEF LifeInv, TypeOK, TaskShape
    <3> QED
      BY <2>1, <2>2, <3>4 DEF Updating, On
  <2>9. CASE On(k) /\ EndCheck(k) /\ settings' = settings
    <3>1. CASE Current(update[k].gen)
      BY <2>1, <2>5, <2>9, <3>1, NoneIs DEF EndCheck, ScheduleUpdate, Updating
    <3>2. CASE ~Current(update[k].gen)
      BY <2>6, <2>7, <2>9, <3>2 DEF EndCheck, Updating, Current
    <3> QED
      BY <3>1, <3>2
  <2>10. CASE /\ On(k) /\ On(k)' /\ update'[k].gen = update[k].gen
              /\ updateTimer' = updateTimer
    BY <2>1, <2>2, <2>6, <2>7, <2>10 DEF Updating
  <2> QED
    BY <1>3, <2>1, <2>8, <2>9, <2>10, CheckGoes
<1>4. CASE \/ \E e \in Edit : EditSaved(e) \/ \E on \in BOOLEAN : EditRequested(e, on)
           \/ \E kind \in {"host", "server"} : RestoreBegins(kind) \/ RestoreEnds(kind)
           \/ UNCHANGED vars
  <2>1. update' = update
    BY <1>4, NoTaskActs
  <2> QED
    BY <1>0, <1>4, <2>1, OthersLeave DEF AliveInv, Updating, On, AutoUpdateEnabled
<1> QED
  BY <1>1, <1>2, <1>3, <1>4, NextIs

(* The updater never dies: while it is wanted and the plugin is up, its    *)
(* timer is armed or a check of this lifecycle is under way, for checks of *)
(* superseded lifecycles that still run, and for installs that fail or are *)
(* rolled back.  That holds within one lifecycle, and across any number of *)
(* them if the user pins no version: an install that a save of a pinned    *)
(* tag overtook makes "auto" of it without arming the updater.  A request  *)
(* may do so too, hence none.                                              *)
THEOREM UpdaterLives ==
  ASSUME Apply = {}, MaxGen = 1 \/ NoPins
  PROVE  Spec => []UpdaterAlive
<1>0. Init => Unpinned
  BY CheckInvInit DEF Unpinned
<1>1. LifeInv /\ AliveInv => UpdaterAlive
  BY DEF AliveInv, UpdaterAlive, Settled, Updating, On, TaskAt
<1>2. ASSUME LifeInv, Unpinned, [Next]_vars
      PROVE  Unpinned'
  BY <1>2, AllAutoStep DEF Unpinned, NoPins
<1>3. Spec => []Unpinned
  BY LifeInvHolds, <1>0, <1>2, PTL DEF Spec
<1>4. ASSUME LifeInv, Modes, Began, Unpinned, Born, CheckInv, AliveInv, [Next]_vars
      PROVE  Born' /\ CheckInv' /\ AliveInv'
  BY <1>4, BornStep, CheckInvStep, AliveStep DEF Unpinned
<1>5. Spec => [](CheckInv /\ AliveInv)
  BY LifeInvHolds, ModesHold, BeganHolds, CheckInvInit, <1>3, <1>4, PTL DEF Spec
<1> QED
  BY LifeInvHolds, <1>1, <1>5, PTL

-----------------------------------------------------------------------------
(* What a check does to the tag and the container: nothing, ... *)
Waits(k) == /\ ~TaskAt(k, "ready") /\ update'[k].pc # "ready"
            /\ UNCHANGED <<settings, resolvedAutoTag, live>>

(* ... or it installs its target, ... *)
Installs(k) ==
  /\ TaskAt(k, "decide") /\ MayInstall(k)
  /\ update'[k].pc = "ready" /\ update'[k].gen = update[k].gen /\ ~update'[k].back
  /\ update'[k].target = update[k].target /\ update'[k].previous = Previous
  /\ resolvedAutoTag' = update[k].target
  /\ \E ok \in BOOLEAN : Recreate(update[k].target, ok)
  /\ UNCHANGED <<settings, saved>>

(* ... saves what it installed, ... *)
Completes(k) ==
  /\ TaskAt(k, "ready") /\ ~update[k].back /\ update'[k].pc \notin {"ready", "applied"}
  /\ Persists(k) /\ live # NoContainer /\ UNCHANGED live

(* ... goes back, ... *)
SwapsBack(k) ==
  /\ TaskAt(k, "ready") /\ ~update[k].back /\ update[k].gen = gen
  /\ update'[k].pc = "ready" /\ update'[k].gen = update[k].gen /\ update'[k].back
  /\ update'[k].target = update[k].target /\ update'[k].previous = update[k].previous
  /\ resolvedAutoTag' = update[k].previous
  /\ \E ok \in BOOLEAN : Recreate(update[k].previous, ok)
  /\ UNCHANGED <<settings, saved>>

(* ... or gives up: the current lifecycle's only once it went back. *)
GivesUp(k) ==
  /\ TaskAt(k, "ready")
  /\ update[k].gen = gen => update[k].back
  /\ update'[k].pc = "off"
  /\ UNCHANGED <<settings, saved, resolvedAutoTag, live>>

(* A step of a check is one of five.                                       *)
LEMMA CheckIs ==
  ASSUME LifeInv, NEW k \in Check, TaskActs(k)
  PROVE  Waits(k) \/ Installs(k) \/ Completes(k) \/ SwapsBack(k) \/ GivesUp(k)
<1>1. /\ update \in [Task -> TaskShape] /\ TasksSound /\ k \in Task /\ k \notin Apply
      /\ TaskStep = {"new", "off", "check", "link", "pull", "idle", "decide", "ready",
                     "saving", "applied", "persisted", "waiting"}
  BY TasksDisjoint DEF LifeInv, TypeOK, TaskStep, Task
<1>2. CASE TimerFires(k) \/ CheckAnswered(k) \/ LinkRead(k) \/ CheckPulled(k) \/ IdleRead(k)
  <2>1. {update[k].pc, update'[k].pc} \subseteq
              {"off", "check", "link", "pull", "idle", "decide"}
    BY <1>1, <1>2, CheckMoves DEF LifeInv, TypeOK
  <2>2. UNCHANGED <<settings, resolvedAutoTag, live>>
    BY <1>2 DEF TimerFires, CheckAnswered, LinkRead, CheckPulled, IdleRead, tags, outside
  <2> QED
    BY <2>1, <2>2 DEF Waits, TaskAt
<1>3. CASE Decide(k)
  <2>1. CASE MayInstall(k)
    <3>1. /\ update[k].gen \in Gen /\ update[k].target \in Version
          /\ BeginInstall(k, update[k].target, update[k].gen)
      BY <1>1, <1>3, <2>1, AtTask DEF Decide
    <3> QED
      BY <1>1, <1>3, <2>1, <3>1, InstallBegins DEF Decide, Installs
  <2>2. CASE ~MayInstall(k)
    <3>1. update'[k].pc = "off"
      BY <1>1, <1>3, <2>2, EndsIdle, EndIs DEF Decide
    <3> QED
      BY <1>3, <2>2, <3>1 DEF Decide, Waits, TaskAt, tags
  <2> QED
    BY <2>1, <2>2
<1>4. CASE NewServerReady(k)
  <2>1. PICK ok \in BOOLEAN :
          update' = [update EXCEPT ![k].pc = "saving", ![k].ok = ok]
    BY <1>4 DEF NewServerReady
  <2>2. update'[k].pc = "saving"
    BY <1>1, <2>1, SetOk
  <2> QED
    BY <1>4, <2>2 DEF NewServerReady, Completes, Persists, HealthPoll, WaitForReady,
       outside, LifeInv, Order, TaskAt
<1>5. CASE NewServerFailed(k)
  <2>1. CASE Current(update[k].gen)
    <3>1. SwapTo(k, update[k].previous, [update[k] EXCEPT !.back = TRUE])
      BY <1>5, <2>1 DEF NewServerFailed
    <3> QED
      BY <1>1, <1>5, <2>1, <3>1, InstallReturns DEF NewServerFailed, SwapsBack, Current
  <2>2. CASE ~Current(update[k].gen)
    <3>1. update'[k].pc = "off"
      BY <1>1, <1>5, <2>2, EndsIdle, EndIs DEF NewServerFailed, GiveUp
    <3> QED
      BY <1>5, <2>2, <3>1 DEF NewServerFailed, GivesUp, Current
  <2> QED
    BY <2>1, <2>2
<1>6. CASE OldServerBack(k)
  <2>1. update'[k].pc = "off"
    BY <1>1, <1>6, EndsIdle, EndIs DEF OldServerBack, GiveUp
  <2> QED
    BY <1>6, <2>1 DEF OldServerBack, GivesUp, tags, outside
<1>7. CASE InstallSaved(k)
  <2>1. update'[k].pc = "off"
    BY <1>1, <1>7, EndsIdle, EndIs DEF InstallSaved
  <2> QED
    BY <1>7, <2>1 DEF InstallSaved, Waits, TaskAt, tags, outside
<1>8. ~ApplyRefused(k) /\ ~ApplyProceeds(k) /\ ~\E t \in Tag : ApplyRequested(k, t)
  BY <1>1, AtTask DEF ApplyRefused, ApplyRequested, ApplyProceeds, ApplyAnswered,
     ApplyPulled, TagApplied, AppliedTagSaved, AppliedServerReady, TaskAt
<1> QED
  BY <1>2, <1>3, <1>4, <1>5, <1>6, <1>7, <1>8
  DEF TaskActs, TaskProceeds, CheckProceeds, InstallProceeds

(* A task that installs is alone. *)
LEMMA Alone ==
  ASSUME LifeInv, OneInstall, NEW j \in Check, TaskAt(j, "ready"), NEW k \in Task
  PROVE  /\ TaskAt(k, "ready") \/ TaskAt(k, "applied") => j = k
         /\ ~MayInstall(k)
<1>1. j \in Task /\ Exclusive(j) /\ serverInstalling
  BY AtTask DEF LifeInv, Task, OneInstall
<1>2. TaskAt(k, "ready") \/ TaskAt(k, "applied") => Exclusive(k)
  BY AtTask DEF LifeInv, TaskAt
<1> QED
  BY <1>1, <1>2 DEF OneInstall, MayInstall, Busy

-----------------------------------------------------------------------------
(* A pinned tag. *)

(* A check that installs for the current lifecycle finds "auto" wanted. *)
PinInv == \A k \in Check :
  TaskAt(k, "ready") /\ update[k].gen = gen => settings.tag = AUTO

(* Every step leaves installs of the current lifecycle to "auto".          *)
LEMMA PinStep ==
  ASSUME LifeInv, OneInstall, PinInv, [Next]_vars
  PROVE  PinInv'
<1>0. \A k \in Check : TaskAt(k, "ready") => settings # None
  BY DEF LifeInv, Order, TaskAt, Task
<1>1. ASSUME Stop \/ \E c \in Config : Start(c)
      PROVE  PinInv'
  BY <1>1, NewGenNoCheck DEF PinInv, TaskAt, On
<1>2. ASSUME NEW g \in Gen, StartupProceeds(g) \/ StartRetried(g)
      PROVE  PinInv'
  BY <1>2, StartupIs, StartupEffect DEF PinInv, TaskAt, SameChoices
<1>3. ASSUME NEW k \in Task, TaskActs(k)
      PROVE  PinInv'
  <2> SUFFICES ASSUME NEW j \in Check, TaskAt(j, "ready")', update'[j].gen = gen'
               PROVE  settings'.tag = AUTO
    BY DEF PinInv
  <2>1. /\ gen' = gen /\ (j # k => update'[j] = update[j]) /\ j \in Task
    BY <1>3, TaskStepIs DEF TaskTypes, Moves, Task
  <2>2. CASE TaskAt(j, "ready") /\ update[j].gen = gen
    <3>1. ~(TagApplied(k) /\ TaskAt(k, "applied"))
      BY <2>2, Alone DEF TaskAt
    <3>2. settings' = settings \/ settings'.tag = AUTO
      BY <1>3, <3>1, TaskSaves, PersistsIs DEF TagApplied
    <3> QED
      BY <2>2, <3>2 DEF PinInv
  <2>3. CASE j = k
    <3>1. CASE Installs(k)
      BY <3>1 DEF Installs, MayInstall, Wanted, AutoUpdateEnabled
    <3>2. CASE SwapsBack(k)
      BY <2>2, <2>3, <3>2 DEF SwapsBack
    <3> QED
      BY <1>3, <2>3, <3>1, <3>2, CheckIs DEF Waits, Completes, GivesUp, TaskAt
  <2> QED
    BY <2>1, <2>2, <2>3 DEF TaskAt
<1>4. CASE \/ \E e \in Edit : EditSaved(e) \/ \E on \in BOOLEAN : EditRequested(e, on)
           \/ \E kind \in {"host", "server"} : RestoreBegins(kind) \/ RestoreEnds(kind)
           \/ UNCHANGED vars
  <2>1. update' = update
    BY <1>4, NoTaskActs
  <2> QED
    BY <1>0, <1>4, <2>1, OthersLeave DEF PinInv, TaskAt
<1> QED
  BY <1>1, <1>2, <1>3, <1>4, NextIs

(* Within one lifecycle the updater never completes an install over a tag  *)
(* that a request has pinned meanwhile: what it checked before the swap    *)
(* still holds after the health wait, since requests wait for the lock.    *)
(* A save of the configuration does not: hence the one lifecycle.          *)
THEOREM PinIsKept ==
  ASSUME MaxGen = 1
  PROVE  Spec => PinKept
<1>1. ASSUME Init
      PROVE  Born /\ PinInv
  <2>1. \A k \in Check : update[k].pc = "off"
    BY <1>1, IdleIs, TasksDisjoint DEF Init, Task
  <2> QED
    BY <2>1 DEF Born, PinInv, On, TaskAt
<1>2. ASSUME LifeInv, Began, Born, OneInstall, PinInv, [Next]_vars
      PROVE  Born' /\ PinInv'
  BY <1>2, BornStep, PinStep
<1>3. ASSUME LifeInv, Born, PinInv
      PROVE  [\A k \in Check : TaskAt(k, "ready") /\ update'[k].pc = "saving"
                => settings.tag = AUTO]_vars
  <2> SUFFICES ASSUME NEW k \in Check, TaskAt(k, "ready")
               PROVE  settings.tag = AUTO
    OBVIOUS
  <2>1. /\ gen \in 0..1 /\ update[k].gen \in 0..1 /\ update[k].gen <= gen
        /\ update[k].gen # 0
    BY <1>3, AtTask DEF LifeInv, TypeOK, Gen, Order, Born, On, TaskAt, Task
  <2>2. update[k].gen = gen
    BY <2>1
  <2> QED
    BY <1>3, <2>2 DEF PinInv
<1>4. Spec => [](Born /\ PinInv)
  BY LifeInvHolds, BeganHolds, OneInstallHolds, <1>1, <1>2, PTL DEF Spec
<1> QED
  BY LifeInvHolds, <1>3, <1>4, PTL DEF PinKept

-----------------------------------------------------------------------------
(* The current startup knows its version. *)
Resolved == /\ enabled /\ settings.managed
            /\ startup[gen] \in {"save", "ready", "done"}

-----------------------------------------------------------------------------
(* The version that runs. *)

(* Where recreations do not fail the new version runs.                     *)
LEMMA RecreateSucceeds ==
  ASSUME "recreate" \notin Faults, LifeInv, NEW v \in Version, NEW ok \in BOOLEAN,
         Recreate(v, ok)
  PROVE  live' \in Container /\ live'.version = v
BY RecreateIs DEF LifeInv, TypeOK, MayFail

(* The container of the current startup runs what "auto" stands for, also  *)
(* while a check installs. *)
RunsInv ==
  /\ Resolved /\ settings.tag = AUTO =>
       /\ resolvedAutoTag # None
       /\ startup[gen] # "save" /\ live # NoContainer => live.version = resolvedAutoTag
  /\ \A k \in Check : TaskAt(k, "ready") /\ ~update[k].back => resolvedAutoTag = update[k].target

(* Within one lifecycle a check that runs is of that lifecycle. *)
LEMMA OneGen ==
  ASSUME MaxGen = 1, LifeInv, Born, NEW k \in Check, On(k)
  PROVE  update[k].gen = gen
<1>1. /\ gen \in 0..1 /\ update[k].gen \in 0..1 /\ update[k].gen <= gen
      /\ update[k].gen # 0
  BY AtTask DEF LifeInv, TypeOK, Gen, Order, Born, On, Task
<1> QED
  BY <1>1

(* A startup keeps what is known of the version that runs.                 *)
LEMMA StartupRuns ==
  ASSUME LifeInv, Modes, CheckInv, MaxGen = 1, Born, RunsInv, NEW g \in Gen,
         StartupProceeds(g) \/ StartRetried(g)
  PROVE  RunsInv'
<1>1. /\ UNCHANGED <<gen, enabled, update>> /\ settings \in Settings
      /\ saved \in Settings /\ gen \in Gen /\ live \in Container \cup {NoContainer}
      /\ resolvedAutoTag \in Version \cup {None}
      /\ Ends(g) \/ Looks(g) \/ Resolves(g) \/ Launches(g) \/ ComesUp(g) \/ Connects(g)
  BY StartupIs DEF LifeInv, TypeOK
<1>2. /\ settings'.managed = settings.managed /\ settings'.tag = settings.tag
      /\ \A h \in Gen \ {g} : startup'[h] = startup[h]
  BY StartupEffect DEF SameChoices
<1>3. ASSUME startup[gen] # "done"
      PROVE  \A k \in Check : ~TaskAt(k, "ready")
  BY <1>3, OneGen DEF CheckInv, LifeInv, Order, On, TaskAt
<1>4. CASE Resolves(g)
  <2>1. PICK v \in Version : AutoTagIs(g, v)
    BY <1>4 DEF Resolves
  <2>2. resolvedAutoTag' = v /\ v # None
    BY <2>1, NoneIs DEF AutoTagIs
  <2>3. g = gen /\ startup[gen] # "done" /\ startup'[gen] = "save"
    BY <1>4, StartupEffect DEF Resolves, StartupAt
  <2> QED
    BY <1>1, <1>3, <2>2, <2>3 DEF RunsInv, TaskAt
<1>5. CASE Launches(g)
  <2>1. g = gen /\ startup[gen] \in {"save", "ready"} /\ startup'[gen] = "ready"
    BY <1>5, StartupEffect DEF Launches, StartupAt
  <2>2. Ensure(Resolve(settings.tag, resolvedAutoTag)) /\ tags' = tags
    BY <1>5 DEF Launches
  <2>3. Resolved' /\ settings'.tag = AUTO =>
          resolvedAutoTag # None /\ live'.version = resolvedAutoTag
    <3>1. SUFFICES ASSUME Resolved', settings'.tag = AUTO
                   PROVE  resolvedAutoTag # None /\ live'.version = resolvedAutoTag
      OBVIOUS
    <3>2. resolvedAutoTag # None
      BY <1>1, <1>2, <2>1, <3>1 DEF Resolved, RunsInv
    <3>3. Resolve(settings.tag, resolvedAutoTag) = resolvedAutoTag
      BY <1>2, <3>1, <3>2 DEF Resolve
    <3> QED
      BY <1>1, <2>2, <3>2, <3>3, EnsureIs
  <2> QED
    BY <1>1, <1>3, <2>1, <2>2, <2>3 DEF RunsInv, TaskAt, tags
<1>6. CASE tags' = tags /\ live' = live
  <2>1. CASE Ends(g)
    <3>1. startup'[g] = "done" /\ (g = gen => startup[g] = "ready")
      BY <2>1, StartupEffect DEF Ends, StartupAt
    <3> QED
      BY <1>1, <1>2, <1>6, <3>1 DEF RunsInv, Resolved, TaskAt, tags
  <2>2. CASE Looks(g)
    <3>1. g = gen /\ startup'[g] = "resolve"
      BY <2>2, StartupEffect DEF Looks
    <3> QED
      BY <1>1, <1>2, <1>6, <3>1 DEF RunsInv, Resolved, TaskAt, tags
  <2>3. CASE ComesUp(g)
    <3>1. g = gen /\ startup[g] = "ready"
      BY <2>3 DEF ComesUp, StartupAt
    <3> QED
      BY <1>1, <1>2, <1>6, <3>1 DEF RunsInv, Resolved, TaskAt, tags
  <2>4. CASE Connects(g)
    <3>1. g = gen /\ ~(enabled /\ settings.managed)
      BY <1>1, <2>4 DEF Connects, StartupAt, Modes
    <3> QED
      BY <1>1, <1>2, <1>6, <3>1 DEF RunsInv, Resolved, TaskAt, tags
  <2> QED
    BY <1>1, <2>1, <2>2, <2>3, <2>4, <1>4, <1>5
<1> QED
  BY <1>1, <1>4, <1>5, <1>6 DEF Ends, Looks, ComesUp, Connects

(* So does a check.                                                        *)
LEMMA CheckRuns ==
  ASSUME "recreate" \notin Faults, Apply = {}, MaxGen = 1, LifeInv, OneInstall, Born,
         CheckInv, RunsInv, NEW k \in Check, TaskActs(k)
  PROVE  RunsInv'
<1>1. /\ UNCHANGED <<gen, enabled, startup>> /\ k \in Task
      /\ \A j \in Check \ {k} : update'[j] = update[j]
      /\ enabled => settings # None
  BY TaskStepIs DEF TaskTypes, Moves, Task, LifeInv, Order
<1>2. settings # None => settings'.managed = settings.managed
  BY TaskSettings, <1>1
<1>3. \A j \in Check \ {k} : TaskAt(j, "ready")' <=> TaskAt(j, "ready")
  BY <1>1 DEF TaskAt
<1>4. CASE Waits(k)
  BY <1>1, <1>3, <1>4 DEF RunsInv, Waits, Resolved, TaskAt
<1>5. CASE Installs(k)
  <2>1. \A j \in Check : ~TaskAt(j, "ready")
    BY <1>1, <1>5, Alone DEF Installs
  <2>2. update[k].target \in Version
    BY <1>1, <1>5, AtTask DEF Installs, LifeInv
  <2>3. /\ resolvedAutoTag' = update[k].target /\ resolvedAutoTag' = update'[k].target
        /\ live'.version = update[k].target
    BY <1>5, <2>2, RecreateSucceeds DEF Installs
  <2> QED
    BY <1>3, <2>1, <2>2, <2>3, NoneIs DEF RunsInv
<1>6. CASE Completes(k)
  <2>1. \A j \in Check : ~TaskAt(j, "ready")'
    BY <1>1, <1>3, <1>6, Alone DEF Completes, TaskAt
  <2>2. resolvedAutoTag' = resolvedAutoTag /\ live' = live
    BY <1>1, <1>6, PersistsIs DEF Completes, RunsInv
  <2>3. settings.tag = AUTO /\ settings # None
    <3>1. On(k) /\ update[k].gen = gen
      BY <1>6, OneGen DEF Completes, On, TaskAt
    <3> QED
      BY <1>1, <3>1 DEF CheckInv, AutoUpdateEnabled, LifeInv, Order
  <2> QED
    BY <1>1, <1>2, <2>1, <2>2, <2>3 DEF RunsInv, Resolved
<1>7. CASE SwapsBack(k)
  <2>1. \A j \in Check \ {k} : ~TaskAt(j, "ready")'
    BY <1>1, <1>3, <1>7, Alone DEF SwapsBack
  <2>2. update[k].previous \in Version
    BY <1>1, <1>7, AtTask DEF SwapsBack, LifeInv
  <2>3. /\ resolvedAutoTag' = update[k].previous /\ update'[k].back
        /\ live'.version = update[k].previous
    BY <1>7, <2>2, RecreateSucceeds DEF SwapsBack
  <2> QED
    BY <2>1, <2>2, <2>3, NoneIs DEF RunsInv
<1>8. CASE GivesUp(k)
  <2>1. \A j \in Check : ~TaskAt(j, "ready")'
    BY <1>1, <1>3, <1>8, Alone DEF GivesUp, TaskAt
  <2> QED
    BY <1>1, <1>8, <2>1 DEF RunsInv, GivesUp, Resolved
<1> QED
  BY <1>4, <1>5, <1>6, <1>7, <1>8, CheckIs

(* So does every step.                                                     *)
LEMMA RunsStep ==
  ASSUME "recreate" \notin Faults, Apply = {}, MaxGen = 1, LifeInv, Modes, OneInstall,
         Born, CheckInv, RunsInv, [Next]_vars
  PROVE  RunsInv'
<1>1. ASSUME NEW c \in Config, Start(c)
      PROVE  RunsInv'
  <2>1. \A k \in Check : ~TaskAt(k, "ready")'
    <3>1. gen = 0
      BY <1>1 DEF Start, LifeInv, TypeOK, Gen
    <3>2. \A k \in Check : ~On(k)
      BY <3>1, OneGen DEF Born
    <3> QED
      BY <1>1, <3>2, StartIs DEF TaskAt, On
  <2>2. startup'[gen'] = FirstAwait(settings')
    BY <1>1, StartIs
  <2>3. ~(Resolved' /\ settings'.tag = AUTO)
    BY <2>2 DEF Resolved, FirstAwait
  <2> QED
    BY <2>1, <2>3 DEF RunsInv
<1>2. CASE Stop
  BY <1>2 DEF Stop, RunsInv, Resolved, TaskAt, tags
<1>3. ASSUME NEW g \in Gen, StartupProceeds(g) \/ StartRetried(g)
      PROVE  RunsInv'
  BY <1>3, StartupRuns
<1>4. ASSUME NEW k \in Task, TaskActs(k)
      PROVE  RunsInv'
  BY <1>4, CheckRuns DEF Task
<1>5. CASE \/ \E e \in Edit : EditSaved(e) \/ \E on \in BOOLEAN : EditRequested(e, on)
           \/ \E kind \in {"host", "server"} : RestoreBegins(kind) \/ RestoreEnds(kind)
           \/ UNCHANGED vars
  <2>1. update' = update
    BY <1>5, NoTaskActs
  <2>2. enabled => settings # None
    BY DEF LifeInv, Order
  <2>3. /\ UNCHANGED <<gen, enabled, startup, resolvedAutoTag, live>>
        /\ settings # None =>
             settings'.managed = settings.managed /\ settings'.tag = settings.tag
    BY <1>5, OthersLeave
  <2> QED
    BY <2>1, <2>2, <2>3 DEF RunsInv, Resolved, TaskAt
<1> QED
  BY <1>1, <1>2, <1>3, <1>4, <1>5, NextIs

(* A task that brings the container forward is a check that installs. *)
LEMMA SwapInstalls ==
  ASSUME LifeInv, [Next]_vars, NEW k \in Check, Swaps(k), ~update'[k].back
  PROVE  Installs(k)
<1>1. ASSUME NEW j \in Task, TaskActs(j)
      PROVE  Installs(k)
  <2>1. j = k
    BY <1>1, TaskStepIs DEF Moves, Swaps, Task
  <2> QED
    BY <1>1, <2>1, CheckIs DEF Waits, Completes, SwapsBack, GivesUp, Swaps
<1> QED
  BY <1>1, NextIs, NoTaskActs DEF Swaps

(* What a check finds when it installs. *)
LEMMA InstallFinds ==
  ASSUME LifeInv, CheckInv, NEW k \in Check, Installs(k)
  PROVE  /\ Resolved /\ startup[gen] = "done" /\ settings.tag = AUTO
         /\ resolvedAutoTag \in Version /\ update[k].target \in Version
         /\ update[k].target > resolvedAutoTag
         /\ update'[k].previous = resolvedAutoTag
<1>1. /\ update[k].gen = gen /\ On(k) /\ resolvedAutoTag # None
      /\ update[k].target > resolvedAutoTag
  BY DEF Installs, MayInstall, Wanted, Current, Picks, On, TaskAt
<1>2. client # None /\ settings.managed /\ settings.tag = AUTO
  BY <1>1 DEF CheckInv, AutoUpdateEnabled
<1>3. update[k].target \in Version /\ resolvedAutoTag \in Version
  BY <1>1, AtTask DEF Installs, LifeInv, TypeOK, Task
<1> QED
  BY <1>1, <1>2, <1>3 DEF Resolved, LifeInv, Order, Installs, Previous

(* Within one lifecycle the version that a failed install goes back to is  *)
(* the one that ran when the install replaced it, whatever was resolved,   *)
(* installed or rolled back before.  A container that cannot be recreated  *)
(* breaks the invariant, since the tag is set first.                       *)
THEOREM RollbackIsRight ==
  ASSUME Apply = {}, MaxGen = 1, "recreate" \notin Faults
  PROVE  Spec => RollbackReturns
<1>1. ASSUME Init
      PROVE  Born /\ CheckInv /\ RunsInv
  <2>1. \A k \in Check : update[k].pc = "off"
    BY <1>1, IdleIs, TasksDisjoint DEF Init, Task
  <2> QED
    BY <1>1, <2>1, CheckInvInit DEF Init, RunsInv, Resolved, TaskAt
<1>2. ASSUME LifeInv, Modes, Began, OneInstall, Born, CheckInv, RunsInv, [Next]_vars
      PROVE  Born' /\ CheckInv' /\ RunsInv'
  BY <1>2, BornStep, CheckInvStep, RunsStep
<1>3. Spec => [](Born /\ CheckInv /\ RunsInv)
  BY LifeInvHolds, ModesHold, BeganHolds, OneInstallHolds, <1>1, <1>2, PTL DEF Spec
<1>4. ASSUME LifeInv, CheckInv, RunsInv, [Next]_vars, NEW k \in Check, Swaps(k),
             ~update'[k].back, live # NoContainer
      PROVE  update'[k].previous = live.version
  BY <1>4, SwapInstalls, InstallFinds DEF RunsInv
<1>5. ASSUME LifeInv, CheckInv, RunsInv, [Next]_vars
      PROVE  [\A k \in Task : Swaps(k) /\ ~update'[k].back /\ live # NoContainer
                => update'[k].previous = live.version]_vars
  BY <1>4, <1>5 DEF Task
<1> QED
  BY LifeInvHolds, <1>3, <1>5, PTL DEF Spec, RollbackReturns

-----------------------------------------------------------------------------
(* Updates over any number of lifecycles and requests. *)

(* What a request does besides installing as a check does: it recreates    *)
(* the container on its tag, ...                                           *)
Applies(k) ==
  /\ ~TaskAt(k, "ready") /\ ~TaskAt(k, "applied")
  /\ update'[k].pc = "applied" /\ update'[k].target \in Version
  /\ \E ok \in BOOLEAN : Recreate(update'[k].target, ok) /\ update'[k].ok = ok
  /\ UNCHANGED <<settings, resolvedAutoTag>>

(* ... and saves the tag or fails.                                         *)
Pins(k) == /\ TaskAt(k, "applied") /\ update'[k].pc \notin {"ready", "applied"}
           /\ Persists(k) /\ UNCHANGED live

Fails(k) == /\ TaskAt(k, "applied") /\ ~update[k].ok
            /\ UNCHANGED <<settings, resolvedAutoTag, live>>

(* An install for the lifecycle that is current begins.                    *)
Begins(k) ==
  /\ ~TaskAt(k, "ready") /\ ~TaskAt(k, "applied")
  /\ update'[k].pc = "ready" /\ update'[k].gen = gen /\ ~update'[k].back
  /\ update'[k].target = update[k].target /\ update'[k].previous = Previous
  /\ update[k].target \in Version
  /\ resolvedAutoTag' = update[k].target
  /\ \E ok \in BOOLEAN : Recreate(update[k].target, ok)
  /\ UNCHANGED settings

(* A task between its container operation and the end of the install or,   *)
(* for a given tag, its save: the settings do not name what runs.          *)
Mid(k) == TaskAt(k, "ready") \/ TaskAt(k, "applied")

(* A task elsewhere that leaves versions alone.                            *)
Rests(k) == /\ ~Mid(k) /\ update'[k].pc \notin {"ready", "applied"}
            /\ UNCHANGED <<settings, resolvedAutoTag, live>>

(* The container is recreated on a tag: what the request notes.            *)
LEMMA ApplyTagApplies ==
  ASSUME LifeInv, NEW k \in Apply, NEW tag \in Tag, ApplyTag(k, tag), ~Mid(k),
         UNCHANGED <<settings, resolvedAutoTag>>
  PROVE  Applies(k)
<1>1. /\ update \in [Task -> TaskShape] /\ k \in Task
      /\ resolvedAutoTag \in Version \cup {None}
  BY DEF LifeInv, TypeOK, Task
<1> DEFINE v == Resolve(tag, resolvedAutoTag)
<1>2. v \in Version
  BY <1>1, ResolveIs
<1> HIDE DEF v
<1>3. PICK ok \in BOOLEAN :
        /\ Recreate(v, ok)
        /\ update' = [update EXCEPT ![k].pc = "applied", ![k].tag = tag,
                                    ![k].ok = ok, ![k].target = v]
  BY DEF ApplyTag, v
<1>4. update'[k].pc = "applied" /\ update'[k].ok = ok /\ update'[k].target = v
  BY <1>1, <1>3 DEF TaskShape
<1> QED
  BY <1>2, <1>3, <1>4 DEF Applies, Mid

(* A step of a request is one of eight.                                    *)
LEMMA RequestIs ==
  ASSUME LifeInv, settings # None, NEW k \in Apply, TaskActs(k)
  PROVE  \/ Rests(k) \/ Begins(k) \/ Completes(k) \/ SwapsBack(k) \/ GivesUp(k)
         \/ Applies(k) \/ Pins(k) \/ Fails(k)
<1>1. /\ update \in [Task -> TaskShape] /\ TasksSound /\ k \in Task /\ k \notin Check
      /\ AUTO \in Tag /\ gen \in Gen
      /\ TaskStep = {"new", "off", "check", "link", "pull", "idle", "decide", "ready",
                     "saving", "applied", "persisted", "waiting"}
  BY TasksDisjoint DEF LifeInv, TypeOK, TaskStep, Task, Tag
<1>2. ASSUME update' = [update EXCEPT ![k] = Idle]
      PROVE  update'[k].pc = "off"
  BY <1>1, <1>2, EndsIdle
<1>3. ASSUME NEW s, EndTask(k, s) \/ EndApply(k, s)
      PROVE  update'[k].pc = "off"
  BY <1>2, <1>3, EndIs
<1>4. CASE ApplyRefused(k)
  BY <1>2, <1>4 DEF ApplyRefused, Rests, Mid, TaskAt, tags, outside
<1>5. ASSUME NEW t \in Tag, ApplyRequested(k, t)
      PROVE  Rests(k) \/ Applies(k)
  <2>1. TaskAt(k, "new") /\ UNCHANGED <<settings, resolvedAutoTag>> /\ ~Mid(k)
    BY <1>5 DEF ApplyRequested, tags, Mid, TaskAt
  <2>2. CASE t = AUTO
    <3>1. update'[k].pc = "check" /\ live' = live
      BY <1>1, <1>5, <2>2, SetTag DEF ApplyRequested
    <3> QED
      BY <2>1, <3>1 DEF Rests
  <2>3. CASE t # AUTO
    <3>1. ApplyTag(k, t)
      BY <1>5, <2>3 DEF ApplyRequested
    <3> QED
      BY <2>1, <3>1, ApplyTagApplies
  <2> QED
    BY <2>2, <2>3
<1>6. CASE ApplyAnswered(k)
  <2>1. ~Mid(k) /\ UNCHANGED <<settings, resolvedAutoTag>>
    BY <1>6 DEF ApplyAnswered, Mid, TaskAt, tags
  <2>2. CASE ApplyTag(k, AUTO)
    BY <1>1, <2>1, <2>2, ApplyTagApplies
  <2>3. ASSUME NEW v \in Version, live' = live,
               update' = [update EXCEPT ![k].pc = "pull", ![k].target = v]
        PROVE  Rests(k)
    <3>1. "pull" \in TaskStep
      BY <1>1
    <3>2. update'[k].pc = "pull"
      BY <1>1, <2>3, <3>1, SetTarget
    <3> QED
      BY <2>1, <2>3, <3>2 DEF Rests
  <2>4. CASE EndApply(k, FALSE) /\ live' = live
    <3>1. update'[k].pc = "off"
      BY <1>3, <2>4
    <3> QED
      BY <2>1, <2>4, <3>1 DEF Rests
  <2> QED
    BY <1>6, <2>2, <2>3, <2>4 DEF ApplyAnswered
<1>7. CASE ApplyPulled(k)
  <2>1. /\ ~Mid(k) /\ UNCHANGED <<settings, saved>>
        /\ update[k].target \in Version
    BY <1>1, <1>7, AtTask DEF ApplyPulled, Mid, TaskAt
  <2>2. CASE BeginInstall(k, update[k].target, gen)
    BY <1>1, <2>1, <2>2, InstallBegins DEF Begins, Mid
  <2>3. CASE EndApply(k, FALSE) /\ UNCHANGED <<resolvedAutoTag, live>>
    <3>1. update'[k].pc = "off"
      BY <1>3, <2>3
    <3> QED
      BY <2>1, <2>3, <3>1 DEF Rests
  <2> QED
    BY <1>7, <2>2, <2>3 DEF ApplyPulled
<1>8. CASE NewServerReady(k)
  <2>1. PICK ok \in BOOLEAN :
          update' = [update EXCEPT ![k].pc = "saving", ![k].ok = ok]
    BY <1>8 DEF NewServerReady
  <2>2. update'[k].pc = "saving"
    BY <1>1, <2>1, SetOk
  <2> QED
    BY <1>8, <2>2 DEF NewServerReady, Completes, Persists, HealthPoll, WaitForReady,
       outside, TaskAt
<1>9. CASE NewServerFailed(k)
  <2>1. CASE Current(update[k].gen)
    <3>1. SwapTo(k, update[k].previous, [update[k] EXCEPT !.back = TRUE])
      BY <1>9, <2>1 DEF NewServerFailed
    <3> QED
      BY <1>1, <1>9, <2>1, <3>1, InstallReturns DEF NewServerFailed, SwapsBack, Current
  <2>2. CASE ~Current(update[k].gen)
    <3>1. update'[k].pc = "off"
      BY <1>3, <1>9, <2>2 DEF NewServerFailed, GiveUp
    <3> QED
      BY <1>9, <2>2, <3>1 DEF NewServerFailed, GivesUp, Current
  <2> QED
    BY <2>1, <2>2
<1>10. CASE OldServerBack(k)
  <2>1. update'[k].pc = "off"
    BY <1>3, <1>10 DEF OldServerBack, GiveUp
  <2> QED
    BY <1>10, <2>1 DEF OldServerBack, GivesUp, tags, outside
<1>11. CASE InstallSaved(k)
  <2>1. update'[k].pc = "off"
    BY <1>3, <1>11 DEF InstallSaved
  <2> QED
    BY <1>11, <2>1 DEF InstallSaved, Rests, Mid, TaskAt, tags, outside
<1>12. CASE TagApplied(k)
  <2>1. TaskAt(k, "applied") /\ live' = live
    BY <1>12 DEF TagApplied, outside
  <2>2. CASE update[k].ok
    <3>1. PICK ok \in BOOLEAN :
            /\ PersistAppliedTag(update[k].tag, update[k].target, ok)
            /\ update' = [update EXCEPT ![k].pc = "persisted", ![k].ok = ok]
      BY <1>12, <2>2 DEF TagApplied
    <3>2. update'[k].pc = "persisted"
      BY <1>1, <3>1, SetOk
    <3> QED
      BY <1>12, <2>1, <3>1, <3>2 DEF Pins, Persists
  <2>3. CASE ~update[k].ok
    BY <1>12, <2>1, <2>3 DEF TagApplied, Fails, tags
  <2> QED
    BY <2>2, <2>3
<1>13. CASE AppliedTagSaved(k)
  <2>1. /\ ~Mid(k) /\ UNCHANGED <<settings, resolvedAutoTag, live>>
    BY <1>13 DEF AppliedTagSaved, Mid, TaskAt, tags, outside
  <2>2. update'[k].pc \in {"waiting", "off"}
    <3>1. CASE live # NoContainer
      <4>1. /\ live.addr \in Port \cup {None} /\ "waiting" \in TaskStep
            /\ update' = [update EXCEPT ![k].pc = "waiting", ![k].addr = live.addr]
        BY <1>1, <1>13, <3>1 DEF AppliedTagSaved, Container, LifeInv, TypeOK
      <4> QED
        BY <1>1, <4>1, SetAddr
    <3>2. CASE live = NoContainer
      BY <1>3, <1>13, <3>2 DEF AppliedTagSaved
    <3> QED
      BY <3>1, <3>2
  <2> QED
    BY <2>1, <2>2 DEF Rests
<1>14. CASE AppliedServerReady(k)
  <2>1. update'[k].pc = "off"
    BY <1>3, <1>14 DEF AppliedServerReady
  <2> QED
    BY <1>14, <2>1 DEF AppliedServerReady, Rests, Mid, TaskAt, tags, outside
<1>15. ~TimerFires(k) /\ ~CheckProceeds(k)
  BY <1>1 DEF TimerFires, CheckProceeds, CheckAnswered, LinkRead, CheckPulled, IdleRead,
     Decide
<1> QED
  BY <1>4, <1>5, <1>6, <1>7, <1>8, <1>9, <1>10, <1>11, <1>12, <1>13, <1>14, <1>15
  DEF TaskActs, TaskProceeds, InstallProceeds, ApplyProceeds

(* The timer is armed, and checks of the current lifecycle run, only once  *)
(* it is up.                                                               *)
UpInv == /\ updateTimer # None => client # None
         /\ \A k \in Check : On(k) /\ update[k].gen = gen => client # None

(* Every step keeps that.                                                  *)
LEMMA UpStep ==
  ASSUME LifeInv, UpInv, [Next]_vars
  PROVE  UpInv'
<1>1. CASE Stop \/ \E c \in Config : Start(c)
  <2>1. updateTimer' = None
    BY <1>1 DEF Start, Stop
  <2>2. \A k \in Check : On(k)' => update'[k].gen # gen'
    BY <1>1, NewGenNoCheck DEF On
  <2> QED
    BY <2>1, <2>2 DEF UpInv
<1>2. ASSUME NEW g \in Gen, StartupProceeds(g) \/ StartRetried(g)
      PROVE  UpInv'
  <2>1. /\ UNCHANGED <<gen, update>>
        /\ Ends(g) \/ Looks(g) \/ Resolves(g) \/ Launches(g) \/ ComesUp(g) \/ Connects(g)
    BY <1>2, StartupIs
  <2>2. CASE published' = published /\ timers' = timers
    BY <2>1, <2>2 DEF UpInv, On, published, timers
  <2>3. CASE ComesUp(g)
    <3>1. client' # None
      BY <2>3, NoneIs DEF ComesUp, FinishStartup, LifeInv, TypeOK, Container
    <3> QED
      BY <3>1 DEF UpInv
  <2>4. CASE Connects(g)
    <3>1. client = None
      BY <2>4 DEF Connects, StartupAt, LifeInv, Order
    <3>2. updateTimer = None /\ \A k \in Check : ~(On(k) /\ update[k].gen = gen)
      BY <3>1 DEF UpInv
    <3> QED
      BY <2>1, <2>4, <3>2 DEF UpInv, Connects, On
  <2> QED
    BY <2>1, <2>2, <2>3, <2>4 DEF Ends, Looks, Resolves, Launches
<1>3. ASSUME NEW k \in Task, TaskActs(k)
      PROVE  UpInv'
  <2>1. Moves(k) /\ TaskTimers(k) /\ Goes(k) /\ gen' = gen
    BY <1>3, TaskStepIs DEF TaskTypes
  <2>2. client' = None <=> client = None
    BY <2>1 DEF TaskTimers
  <2>3. updateTimer' # None => client' # None
    BY <2>1, <2>2 DEF TaskTimers, UpInv, On
  <2>4. ASSUME NEW j \in Check, On(j)', update'[j].gen = gen'
        PROVE  client' # None
    <3>1. CASE j # k
      BY <2>1, <2>2, <2>4, <3>1 DEF Moves, UpInv, On, Task
    <3>2. CASE j = k
      <4>1. j \notin Apply /\ update[j].pc # "new" /\ update'[j].pc # "new"
        BY <2>1, <2>4, <3>2, TasksDisjoint DEF Moves, Sound, LifeInv, TasksSound, Task
      <4>2. CASE update[k].pc \notin {"new", "off"} /\ update'[k].gen = update[k].gen
        BY <2>1, <2>2, <2>4, <3>2, <4>2 DEF UpInv, On
      <4>3. CASE updateTimer # None
        BY <2>2, <4>3 DEF UpInv
      <4> QED
        BY <2>1, <2>4, <3>2, <4>1, <4>2, <4>3 DEF Goes, On
    <3> QED
      BY <3>1, <3>2
  <2> QED
    BY <2>3, <2>4 DEF UpInv
<1>4. CASE \/ \E e \in Edit : EditSaved(e) \/ \E on \in BOOLEAN : EditRequested(e, on)
           \/ \E kind \in {"host", "server"} : RestoreBegins(kind) \/ RestoreEnds(kind)
           \/ UNCHANGED vars
  <2>1. update' = update
    BY <1>4, NoTaskActs
  <2> QED
    BY <1>4, <2>1, OthersLeave DEF UpInv, On
<1> QED
  BY <1>1, <1>2, <1>3, <1>4, NextIs

(* The settings and the choice of "auto" name the version that runs.       *)
Consistent == settings.tag = AUTO =>
                resolvedAutoTag = live.version /\ settings.resolved = live.version

(* A task in between knows which version runs, and an install which        *)
(* version the settings still name.                                        *)
Knows(k) ==
  /\ TaskAt(k, "ready") =>
       /\ update[k].gen = gen
       /\ resolvedAutoTag = live.version
       /\ live.version = IF update[k].back THEN update[k].previous ELSE update[k].target
       /\ settings.tag = AUTO => settings.resolved = update[k].previous
  /\ TaskAt(k, "applied") => update[k].ok /\ live.version = update[k].target

(* What runs in a lifecycle that is up: a container whose version the      *)
(* settings name, unless a task is in between.                             *)
Runs == /\ live # NoContainer
        /\ (\A k \in Task : ~Mid(k)) => Consistent
        /\ \A k \in Task : Knows(k)

(* Unless an install has crossed it, a lifecycle starts up with no install *)
(* under way, its container runs what it resolved, and from then on tasks  *)
(* change version and settings together.                                   *)
TrackInv ==
  enabled /\ settings.managed /\ ~crossed =>
    /\ startup[gen] # "done" => ~serverInstalling
    /\ startup[gen] = "save" => /\ resolvedAutoTag \in Version
                                /\ settings.resolved = resolvedAutoTag
    /\ startup[gen] = "ready" => live # NoContainer /\ Consistent
    /\ client # None => Runs

(* A task that is in between holds the lock. *)
LEMMA MidExclusive ==
  ASSUME TasksSound
  PROVE  \A k \in Task : Mid(k) => Exclusive(k)
BY DEF Mid, TaskAt, TasksSound, Sound, Exclusive, Task

(* Hence at most one task is. *)
LEMMA MidAlone ==
  ASSUME TasksSound, OneInstall
  PROVE  \A j, k \in Task : Mid(j) /\ (Mid(k) \/ Exclusive(k)) => j = k
BY MidExclusive DEF OneInstall

(* A step of any task is one of eight.                                     *)
LEMMA TaskIs ==
  ASSUME LifeInv, settings # None, NEW k \in Task, TaskActs(k)
  PROVE  \/ Rests(k) \/ Begins(k) \/ Completes(k) \/ SwapsBack(k) \/ GivesUp(k)
         \/ Applies(k) \/ Pins(k) \/ Fails(k)
<1>1. CASE k \in Check
  <2>1. ~TaskAt(k, "applied") /\ update'[k].pc # "applied"
    BY <1>1, TaskStepIs DEF LifeInv, TasksSound, Moves, Sound, TaskAt
  <2>2. Waits(k) => Rests(k)
    BY <2>1 DEF Waits, Rests, Mid
  <2>3. Installs(k) => Begins(k)
    <3>1. TaskAt(k, "decide") => update[k].target \in Version
      BY AtTask DEF LifeInv
    <3> QED
      BY <2>1, <3>1 DEF Installs, Begins, MayInstall, Wanted, Current, TaskAt
  <2> QED
    BY <1>1, <2>2, <2>3, CheckIs
<1>2. CASE k \in Apply
  BY <1>2, RequestIs
<1> QED
  BY <1>1, <1>2 DEF Task

(* A task that stays outside the lock leaves versions alone. *)
LEMMA OutsideRests ==
  ASSUME LifeInv, settings # None, NEW k \in Task, TaskActs(k), ~Exclusive(k),
         ~Exclusive(k)'
  PROVE  Rests(k)
<1>1. TasksSound /\ TasksSound'
  BY TaskStepIs, MovesSound DEF LifeInv
<1>2. ~Mid(k) /\ update'[k].pc \notin {"ready", "applied"}
  <2>1. ~Mid(k)
    BY <1>1, MidExclusive
  <2>2. Sound(k, update'[k])
    BY <1>1 DEF TasksSound
  <2> QED
    BY <2>1, <2>2 DEF Sound, Exclusive, Task
<1> QED
  BY <1>2, TaskIs
  DEF Begins, Completes, SwapsBack, GivesUp, Applies, Pins, Fails, Rests, Mid

(* What a task leaves of a lifecycle that is up. *)
LEMMA TaskRuns ==
  ASSUME "recreate" \notin Faults, LifeInv, OneInstall, OneInstall', settings # None,
         Runs, NEW k \in Task, TaskActs(k)
  PROVE  Runs'
<1>1. /\ TasksSound /\ TasksSound' /\ gen' = gen /\ LifeInv'
      /\ \A j \in Task \ {k} : update'[j] = update[j]
      /\ live \in Container \cup {NoContainer}
  BY TaskStepIs, TaskKeeps DEF TaskTypes, Moves, LifeInv, TypeOK
<1>0. \A j \in Task : Mid(j)' => Exclusive(j)'
  BY <1>1 DEF Mid, TaskAt, TasksSound, Sound, Exclusive, Task
<1>2. \A j \in Task \ {k} : /\ Mid(j)' <=> Mid(j)
                            /\ TaskAt(j, "ready")' <=> TaskAt(j, "ready")
                            /\ TaskAt(j, "applied")' <=> TaskAt(j, "applied")
  BY <1>1 DEF Mid, TaskAt
<1>3. ASSUME ~Mid(k), ~Mid(k)', UNCHANGED <<settings, resolvedAutoTag, live>>
      PROVE  Runs'
  <2>1. (\A j \in Task : ~Mid(j)') <=> \A j \in Task : ~Mid(j)
    BY <1>2, <1>3
  <2>2. ASSUME NEW j \in Task
        PROVE  Knows(j)'
    <3>1. CASE j = k
      BY <1>3, <3>1 DEF Knows, Mid
    <3>2. CASE j # k
      BY <1>1, <1>3, <3>2 DEF Knows, TaskAt, Runs
    <3> QED
      BY <3>1, <3>2
  <2> QED
    BY <1>3, <2>1, <2>2 DEF Runs, Consistent
<1>4. ASSUME \A j \in Task : ~Mid(j)', live' # NoContainer, Consistent'
      PROVE  Runs'
  BY <1>4 DEF Runs, Knows, Mid
<1>5. ASSUME Mid(k)', live' # NoContainer, Knows(k)'
      PROVE  Runs'
  <2>1. \A j \in Task \ {k} : ~Mid(j)'
    BY <1>0, <1>5 DEF OneInstall
  <2> QED
    BY <1>5, <2>1 DEF Runs, Knows, Mid
<1>6. ASSUME Mid(k), ~Mid(k)'
      PROVE  \A j \in Task : ~Mid(j)'
  BY <1>1, <1>2, <1>6, MidAlone
<1>7. CASE Rests(k)
  BY <1>3, <1>7 DEF Rests, Mid, TaskAt
<1>8. CASE Begins(k)
  <2>1. \A j \in Task : ~Mid(j)
    <3>1. ~Mid(k) /\ Mid(k)'
      BY <1>8 DEF Begins, Mid, TaskAt
    <3>2. \A j \in Task \ {k} : ~Mid(j)'
      BY <1>0, <3>1 DEF OneInstall
    <3> QED
      BY <1>2, <3>1, <3>2
  <2>2. Consistent
    BY <2>1 DEF Runs
  <2>3. /\ resolvedAutoTag' = update[k].target /\ update'[k].target = update[k].target
        /\ live' \in Container /\ live'.version = update[k].target
        /\ settings' = settings /\ ~update'[k].back /\ update'[k].gen = gen'
        /\ update'[k].pc = "ready"
    BY <1>1, <1>8, RecreateSucceeds DEF Begins
  <2>4. settings.tag = AUTO => settings.resolved = update'[k].previous
    <3>1. live.version # None
      BY <1>1, NoneIs DEF Runs, Container
    <3> QED
      BY <1>8, <2>2, <3>1 DEF Begins, Previous, Consistent
  <2> QED
    BY <1>5, <2>3, <2>4, NoneIs DEF Knows, Mid, TaskAt
<1>9. CASE Completes(k) \/ Pins(k)
  <2>1. Mid(k) /\ ~Mid(k)' /\ Persists(k) /\ live' = live
    BY <1>9 DEF Completes, Pins, Mid, TaskAt
  <2>2. live.version = update[k].target
    BY <1>9 DEF Completes, Pins, Runs, Knows
  <2>3. Consistent'
    BY <1>1, <2>1, <2>2, PersistsIs DEF Consistent
  <2> QED
    BY <1>4, <1>6, <2>1, <2>3 DEF Runs
<1>10. CASE SwapsBack(k)
  <2>1. update[k].previous \in Version
    BY <1>1, <1>10, AtTask DEF SwapsBack
  <2>2. /\ resolvedAutoTag' = update[k].previous /\ update'[k].pc = "ready"
        /\ live' \in Container /\ live'.version = update[k].previous
        /\ settings' = settings /\ update'[k].back /\ update'[k].gen = gen'
        /\ update'[k].previous = update[k].previous
    BY <1>1, <1>10, <2>1, RecreateSucceeds DEF SwapsBack
  <2>3. settings.tag = AUTO => settings.resolved = update[k].previous
    BY <1>10 DEF SwapsBack, Runs, Knows
  <2> QED
    BY <1>5, <2>2, <2>3, NoneIs DEF Knows, Mid, TaskAt
<1>11. CASE GivesUp(k)
  <2>1. /\ Mid(k) /\ ~Mid(k)' /\ UNCHANGED <<settings, resolvedAutoTag, live>>
        /\ TaskAt(k, "ready") /\ (update[k].gen = gen => update[k].back)
    BY <1>11 DEF GivesUp, Mid, TaskAt
  <2>2. Knows(k) /\ live # NoContainer
    BY DEF Runs
  <2>3. Consistent
    BY <2>1, <2>2 DEF Knows, Consistent
  <2> QED
    BY <1>4, <1>6, <2>1, <2>2, <2>3 DEF Consistent
<1>12. CASE Applies(k)
  <2>1. /\ update'[k].pc = "applied" /\ update'[k].ok
        /\ live' \in Container /\ live'.version = update'[k].target
    BY <1>12, RecreateSucceeds, RecreateIs DEF Applies, MayFail, LifeInv, TypeOK
  <2> QED
    BY <1>5, <2>1, NoneIs DEF Knows, Mid, TaskAt
<1>13. ~Fails(k)
  BY DEF Fails, Runs, Knows
<1> QED
  BY <1>7, <1>8, <1>9, <1>10, <1>11, <1>12, <1>13, TaskIs

(* A startup that no install crosses brings up what it resolved. *)
LEMMA StartupTracks ==
  ASSUME LifeInv, OneInstall, Modes, TrackInv, NEW g \in Gen,
         StartupProceeds(g) \/ StartRetried(g), enabled, settings.managed, ~crossed
  PROVE  TrackInv'
<1>1. /\ UNCHANGED <<gen, enabled, update, serverInstalling>> /\ settings \in Settings
      /\ saved \in Settings /\ gen \in Gen /\ startup \in [Gen -> StartupStep]
      /\ live \in Container \cup {NoContainer}
      /\ resolvedAutoTag \in Version \cup {None}
      /\ Ends(g) \/ Looks(g) \/ Resolves(g) \/ Launches(g) \/ ComesUp(g) \/ Connects(g)
  BY StartupIs DEF LifeInv, TypeOK
<1>2. /\ settings'.managed = settings.managed /\ settings'.tag = settings.tag
      /\ \A h \in Gen \ {g} : startup'[h] = startup[h]
  BY StartupEffect DEF SameChoices
<1>3. startup[gen] # "done" => ~serverInstalling /\ client = None
  BY DEF TrackInv, LifeInv, Order
<1>4. CASE Ends(g)
  <2>1. /\ startup'[g] = "done" /\ UNCHANGED <<tags, live, published>>
        /\ g = gen => startup[g] = "ready"
    BY <1>4, StartupEffect DEF Ends, StartupAt
  <2>2. Runs' <=> Runs
    BY <1>1, <2>1 DEF Runs, Mid, Consistent, Knows, TaskAt, tags
  <2> QED
    BY <1>1, <1>2, <1>3, <2>1, <2>2 DEF TrackInv, Consistent, tags, published
<1>5. CASE Looks(g)
  <2>1. /\ g = gen /\ startup'[g] = "resolve" /\ startup[g] = "manager"
        /\ published' = published
    BY <1>5, StartupEffect DEF Looks, StartupAt
  <2> QED
    BY <1>1, <1>3, <2>1 DEF TrackInv, published
<1>6. CASE Resolves(g)
  <2>1. PICK v \in Version : AutoTagIs(g, v)
    BY <1>6 DEF Resolves
  <2>2. settings'.resolved = v /\ resolvedAutoTag' = v
    BY <1>1, <2>1, PersistResolvedIs DEF AutoTagIs
  <2>3. /\ g = gen /\ startup[gen] # "done" /\ startup'[gen] = "save"
        /\ published' = published
    BY <1>6, StartupEffect DEF Resolves, StartupAt
  <2> QED
    BY <1>1, <1>3, <2>2, <2>3 DEF TrackInv, published
<1>7. CASE Launches(g)
  <2>1. /\ g = gen /\ startup[gen] \in {"save", "ready"} /\ startup'[gen] = "ready"
        /\ tags' = tags /\ published' = published
        /\ Ensure(Resolve(settings.tag, resolvedAutoTag))
    BY <1>7, StartupEffect DEF Launches, StartupAt
  <2>2. Resolve(settings.tag, resolvedAutoTag) \in Version
    BY <1>1, ResolveIs DEF Settings
  <2>3. live' \in Container /\ live'.version = Resolve(settings.tag, resolvedAutoTag)
    BY <1>1, <2>1, <2>2, EnsureIs
  <2>4. ASSUME settings.tag = AUTO
        PROVE  resolvedAutoTag = live'.version /\ settings.resolved = live'.version
    <3>1. resolvedAutoTag # None /\ settings.resolved = resolvedAutoTag
      <4>1. CASE startup[gen] = "save"
        BY <4>1, NoneIs DEF TrackInv
      <4>2. CASE startup[gen] = "ready"
        <5>1. live \in Container /\ live.version \in Version
          BY <1>1, <4>2 DEF TrackInv, Container
        <5> QED
          BY <2>4, <4>2, <5>1, NoneIs DEF TrackInv, Consistent
      <4> QED
        BY <2>1, <4>1, <4>2
    <3> QED
      BY <2>3, <2>4, <3>1 DEF Resolve
  <2> QED
    BY <1>1, <1>3, <2>1, <2>3, <2>4, NoneIs DEF TrackInv, Consistent, tags, published
<1>8. CASE ComesUp(g)
  <2>1. /\ g = gen /\ startup[gen] = "ready" /\ startup'[gen] = "done"
        /\ UNCHANGED <<tags, live>>
    BY <1>8, StartupEffect DEF ComesUp, StartupAt
  <2>2. Consistent /\ live # NoContainer /\ ~serverInstalling
    BY <1>3, <2>1 DEF TrackInv
  <2>3. \A k \in Task : ~Mid(k)
    BY <2>2, MidExclusive DEF OneInstall, LifeInv
  <2>4. Runs'
    BY <1>1, <2>1, <2>2, <2>3 DEF Runs, Mid, Consistent, Knows, TaskAt, tags
  <2> QED
    BY <1>1, <2>1, <2>2, <2>4 DEF TrackInv
<1>9. ~Connects(g)
  BY <1>1, StartupIs DEF Connects, StartupAt, Modes
<1> QED
  BY <1>1, <1>4, <1>5, <1>6, <1>7, <1>8, <1>9

(* Every step keeps it. *)
LEMMA TrackStep ==
  ASSUME "recreate" \notin Faults, LifeInv, OneInstall, OneInstall', Modes, TrackInv,
         [HNext]_hvars
  PROVE  TrackInv'
<1>1. /\ [Next]_vars
      /\ HNext => crossed' = (\/ serverInstalling' /\ startup'[gen'] # "done"
                              \/ crossed /\ gen' = gen)
      /\ ~HNext => UNCHANGED hvars
  BY DEF HNext, hvars
<1>2. ASSUME NEW c \in Config, Start(c)
      PROVE  TrackInv'
  <2>1. /\ startup'[gen'] = FirstAwait(settings') /\ gen' # gen /\ client' = None
        /\ IF FirstAwait(settings') = "ready"
             THEN resolvedAutoTag' = None /\ Ensure(settings'.tag)
             ELSE UNCHANGED <<resolvedAutoTag, live>>
        /\ settings' \in Settings
    BY <1>2, StartIs
  <2>2. crossed' = (serverInstalling' /\ startup'[gen'] # "done")
    BY <1>1, <2>1 DEF hvars, vars
  <2>3. ASSUME FirstAwait(settings') = "ready", settings'.managed
        PROVE  live' # NoContainer /\ settings'.tag # AUTO
    <3>1. settings'.tag \in Version /\ settings'.tag # AUTO
      BY <2>1, <2>3, NamesDistinct DEF FirstAwait, Settings, Tag
    <3>2. live' \in Container
      BY <2>1, <2>3, <3>1, EnsureIs DEF LifeInv, TypeOK
    <3> QED
      BY <3>1, <3>2, NoneIs
  <2>4. settings'.managed => FirstAwait(settings') \in {"manager", "ready"}
    BY DEF FirstAwait
  <2> QED
    BY <2>1, <2>2, <2>3, <2>4 DEF TrackInv, Consistent
<1>3. CASE Stop
  BY <1>3 DEF Stop, TrackInv
<1>4. ASSUME NEW g \in Gen, StartupProceeds(g) \/ StartRetried(g)
      PROVE  TrackInv'
  <2>1. /\ gen' = gen /\ enabled' = enabled /\ serverInstalling' = serverInstalling
        /\ settings'.managed = settings.managed
    BY <1>4, StartupIs, StartupEffect DEF SameChoices
  <2>2. crossed => crossed'
    BY <1>1, <2>1 DEF hvars
  <2>3. ASSUME enabled, settings.managed, ~crossed
        PROVE  TrackInv'
    <3>1. startup'[gen'] # "done" => startup[gen] # "done"
      <4>1. startup[g] # "done" /\ \A h \in Gen \ {g} : startup'[h] = startup[h]
        BY <1>4, StartupEffect
        DEF StartupProceeds, ManagerFound, TagResolved, ResolvedTagSaved,
           ContainerReady, ExternalReady, StartRetried, StartupAt
      <4> QED
        BY <2>1, <4>1 DEF LifeInv, TypeOK
    <3>2. ~crossed'
      BY <1>1, <2>1, <2>3, <3>1 DEF TrackInv, hvars
    <3> QED
      BY <1>4, <2>3, <3>2, StartupTracks
  <2> QED
    BY <2>1, <2>2, <2>3 DEF TrackInv
<1>5. ASSUME NEW k \in Task, TaskActs(k)
      PROVE  TrackInv'
  <2>1. /\ UNCHANGED <<gen, enabled, startup>> /\ (client' = None <=> client = None)
        /\ Lock(k) /\ Moves(k)
    BY <1>5, TaskStepIs DEF TaskTypes, TaskTimers
  <2>2. SUFFICES ASSUME enabled', settings'.managed, ~crossed'
                 PROVE  TrackInv'
    BY DEF TrackInv
  <2>3. settings # None /\ settings'.managed = settings.managed
    BY <1>5, <2>1, <2>2, TaskSettings DEF LifeInv, Order
  <2>4. ~crossed /\ (startup[gen] # "done" => ~serverInstalling')
    <3>1. CASE HNext
      BY <1>1, <2>1, <2>2, <3>1
    <3>2. CASE ~HNext
      BY <1>1, <2>1, <2>2, <2>3, <3>2 DEF hvars, vars, TrackInv
    <3> QED
      BY <3>1, <3>2
  <2>5. CASE startup[gen] # "done"
    <3>1. ~serverInstalling /\ client = None
      BY <2>1, <2>2, <2>3, <2>4, <2>5 DEF TrackInv, LifeInv, Order
    <3>2. ~Exclusive(k) /\ ~Exclusive(k)'
      BY <2>4, <2>5, <3>1 DEF OneInstall
    <3>3. UNCHANGED <<settings, resolvedAutoTag, live>>
      BY <1>5, <2>3, <3>2, OutsideRests DEF Rests
    <3> QED
      BY <2>1, <2>2, <2>3, <2>4, <2>5, <3>1, <3>3 DEF TrackInv, Consistent
  <2>6. CASE startup[gen] = "done"
    <3>1. client # None => Runs'
      BY <1>5, <2>1, <2>2, <2>3, <2>4, TaskRuns DEF TrackInv
    <3> QED
      BY <2>1, <2>6, <3>1 DEF TrackInv
  <2> QED
    BY <2>5, <2>6
<1>6. CASE \/ \E e \in Edit : EditSaved(e) \/ \E on \in BOOLEAN : EditRequested(e, on)
           \/ \E kind \in {"host", "server"} : RestoreBegins(kind) \/ RestoreEnds(kind)
           \/ UNCHANGED vars
  <2>1. /\ update' = update /\ serverInstalling' = serverInstalling
        /\ UNCHANGED <<gen, enabled, resolvedAutoTag, client, startup, live>>
        /\ enabled => settings # None
    BY <1>6, NoTaskActs, OthersLeave DEF LifeInv, Order
  <2>2. settings # None =>
          /\ settings'.managed = settings.managed /\ settings'.tag = settings.tag
          /\ settings'.resolved = settings.resolved
    BY <1>6, OthersLeave
  <2>3. ASSUME enabled
        PROVE  (Consistent' <=> Consistent) /\ (Runs' <=> Runs)
    BY <2>1, <2>2, <2>3 DEF Consistent, Runs, Mid, Knows, TaskAt
  <2>4. crossed => crossed'
    BY <1>1, <2>1 DEF hvars
  <2> QED
    BY <2>1, <2>2, <2>3, <2>4 DEF TrackInv
<1> QED
  BY <1>1, <1>2, <1>3, <1>4, <1>5, <1>6, NextIs


(* The history variable changes nothing of the plugin. *)
LEMMA HistoryKeepsSpec == HSpec => Spec
<1>1. HInit => Init
  BY DEF HInit
<1>2. [HNext]_hvars => [Next]_vars
  BY DEF HNext, hvars
<1> QED
  BY <1>1, <1>2, PTL DEF HSpec, Spec

(* So the invariant holds throughout. *)
LEMMA TrackHolds ==
  ASSUME "recreate" \notin Faults
  PROVE  HSpec => [](UpInv /\ TrackInv)
<1>1. ASSUME HInit
      PROVE  UpInv /\ TrackInv
  <2>1. /\ updateTimer = None /\ ~enabled
        /\ \A k \in Check : update[k].pc = "off"
    BY <1>1, IdleIs, TasksDisjoint DEF HInit, Init, Task
  <2> QED
    BY <2>1 DEF UpInv, On, TrackInv
<1>2. ASSUME LifeInv, OneInstall, OneInstall', Modes, UpInv, TrackInv, [HNext]_hvars
      PROVE  UpInv' /\ TrackInv'
  <2>1. [Next]_vars
    BY <1>2 DEF HNext, hvars
  <2> QED
    BY <1>2, <2>1, UpStep, TrackStep
<1>3. HSpec => [](LifeInv /\ OneInstall /\ Modes)
  BY HistoryKeepsSpec, LifeInvHolds, OneInstallHolds, ModesHold, PTL
<1> QED
  BY <1>1, <1>2, <1>3, PTL DEF HSpec

(* Once a plugin is up whose startup no install crossed, the options on    *)
(* disk resolve "auto" to the version that runs, so the next start keeps   *)
(* it: after any number of starts and stops, edits, checks and requests,   *)
(* and whatever failed but a save and a recreation, which break it.        *)
THEOREM RestartKeeps ==
  ASSUME "save" \notin Faults, "recreate" \notin Faults
  PROVE  HSpec => []RestartKeepsVersion
<1>1. ASSUME LifeInv, OneInstall, Saved, TrackInv
      PROVE  RestartKeepsVersion
  <2>1. SUFFICES ASSUME Settled, settings.tag = AUTO, ~crossed
                 PROVE  live # NoContainer /\ saved.resolved = live.version
    BY DEF RestartKeepsVersion
  <2>2. Runs /\ settings # None
    BY <1>1, <2>1 DEF Settled, TrackInv, LifeInv, Order
  <2>3. \A k \in Task : ~Mid(k)
    BY <1>1, <2>1, MidExclusive DEF Settled, OneInstall, LifeInv
  <2> QED
    BY <1>1, <2>1, <2>2, <2>3 DEF Runs, Consistent, Saved
<1>2. Spec => []Saved
  <2>1. Init => Saved
    BY SavedInit
  <2>2. ASSUME LifeInv, Saved, [Next]_vars
        PROVE  Saved'
    BY <2>2, SavedStep
  <2> QED
    BY LifeInvHolds, <2>1, <2>2, PTL DEF Spec
<1> QED
  BY HistoryKeepsSpec, LifeInvHolds, OneInstallHolds, TrackHolds, <1>1, <1>2, PTL

(* The automatic updater replaces a running container only by a newer      *)
(* version, however long it waited for answers, whatever requests, edits   *)
(* and other checks did meanwhile, in any lifecycle whose startup no       *)
(* install crossed: what it compares the release with once more before it  *)
(* installs is then the version that runs.  Saves may fail; a rollback     *)
(* that cannot recreate the container breaks it.                           *)
THEOREM UpdatesMoveUp ==
  ASSUME "recreate" \notin Faults
  PROVE  HSpec => AutoNeverDowngrades
<1>1. ASSUME LifeInv, OneInstall, UpInv, TrackInv, [Next]_vars, NEW k \in Check,
             Swaps(k), ~update'[k].back, live # NoContainer, ~crossed, settings.managed
      PROVE  update[k].target > live.version
  <2>1. Installs(k)
    BY <1>1, SwapInstalls
  <2>2. /\ On(k) /\ update[k].gen = gen /\ enabled /\ settings.tag = AUTO
        /\ ~serverInstalling /\ update[k].target > resolvedAutoTag
    BY <1>1, <2>1 DEF Installs, MayInstall, Wanted, Current, Busy, Picks, AutoUpdateEnabled,
       On, TaskAt, LifeInv, Order
  <2>3. Runs
    BY <1>1, <2>2 DEF UpInv, TrackInv
  <2>4. \A j \in Task : ~Mid(j)
    BY <1>1, <2>2, MidExclusive DEF OneInstall, LifeInv
  <2> QED
    BY <2>2, <2>3, <2>4 DEF Runs, Consistent
<1>2. ASSUME LifeInv, OneInstall, UpInv, TrackInv, [HNext]_hvars
      PROVE  [\A k \in Check :
                Swaps(k) /\ ~update'[k].back /\ live # NoContainer
                  => crossed \/ ~settings.managed \/ update[k].target > live.version]_hvars
  <2>1. [Next]_vars
    BY <1>2 DEF HNext, hvars
  <2> QED
    BY <1>1, <1>2, <2>1
<1> QED
  BY HistoryKeepsSpec, LifeInvHolds, OneInstallHolds, TrackHolds, <1>2, PTL
  DEF HSpec, AutoNeverDowngrades

=============================================================================
