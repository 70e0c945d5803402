---------------------------- MODULE BackupPlugin ----------------------------
(***************************************************************************)
(* The plugin of src/index.ts: its lifecycle, the updates of the backup    *)
(* server and the export settings, interleaved at every await.             *)
(***************************************************************************)
EXTENDS Lifecycle, ServerUpdate, ExportSettings

Init == /\ gen = 0
        /\ enabled = FALSE
        /\ settings = None
        /\ saved \in Config
        /\ resolvedAutoTag = None
        /\ client = None
        /\ containerAddress = None
        /\ emitter = None
        /\ dbTimer = FALSE
        /\ updateTimer = None
        /\ uplink = FALSE
        /\ failed = {}
        /\ serverInstalling = FALSE
        /\ live = NoContainer
        /\ startup = [g \in Gen |-> "none"]
        /\ update = [k \in Task |->
                       IF k \in Apply THEN [Idle EXCEPT !.pc = "new"] ELSE Idle]
        /\ edits = [e \in Edit |-> "new"]
        /\ restoring = {}

Next == \/ \E c \in Config : Start(c)
        \/ Stop
        \/ \E g \in Gen : StartupProceeds(g) \/ StartRetried(g)
        \/ \E k \in Check : TimerFires(k)
        \/ \E k \in Apply : ApplyRefused(k) \/ \E t \in Tag : ApplyRequested(k, t)
        \/ \E k \in Task : TaskProceeds(k)
        \/ \E kind \in {"host", "server"} : RestoreBegins(kind) \/ RestoreEnds(kind)
        \/ \E e \in Edit : EditSaved(e) \/ \E on \in BOOLEAN : EditRequested(e, on)

Spec == Init /\ [][Next]_vars

(* Every await settles: the release lookup, the pulls and the health probe *)
(* have timeouts, and a server that is retried for ever comes up at last.  *)
FairSpec == /\ Spec
            /\ \A g \in Gen : WF_vars(StartupProceeds(g))
            /\ \A k \in Task : WF_vars(TaskProceeds(k))

-----------------------------------------------------------------------------
(* Properties.                                                             *)

(* The plugin's variables have the types the code gives them.  In          *)
(* particular the container runs a version, never the tag "auto".          *)
TypeOK == /\ gen \in Gen
          /\ enabled \in BOOLEAN
          /\ settings \in Settings \cup {None}
          /\ saved \in Settings
          /\ resolvedAutoTag \in Version \cup {None}
          /\ client \in Address \cup {None}
          /\ containerAddress \in Address \cup {None}
          /\ emitter \in Address \cup {None}
          /\ dbTimer \in BOOLEAN
          /\ updateTimer \in Gen \cup {None}
          /\ uplink \in BOOLEAN
          /\ failed \subseteq Version
          /\ serverInstalling \in BOOLEAN
          /\ live \in Container \cup {NoContainer}
          /\ startup \in [Gen -> StartupStep]
          /\ update \in [Task -> TaskShape]
          /\ edits \in [Edit -> {"new", "saved", "unsaved", "done"}]
          /\ restoring \subseteq {"host", "server"}

(* /status reports ready only for an upstream that has answered the        *)
(* lifecycle that is current: whatever superseded startups are still under *)
(* way, none of them publishes its client.  In external mode that is the   *)
(* configured server, whatever a managed lifecycle before left under way.  *)
ReadyMeansAnswered ==
  /\ client # None => enabled /\ startup[gen] = "done"
  /\ enabled /\ ~settings.managed => /\ client \in {None, settings.url}
                                     /\ containerAddress = settings.url

(* After stop() nothing of the plugin runs: no client, emitter, timer or   *)
(* reporter comes back when work that stop() overtook completes.           *)
StoppedIsQuiet == ~enabled => /\ published = <<None, None, None>>
                              /\ timers = <<FALSE, None, FALSE>>

(* Once the plugin is up the emitter, if wanted, is subscribed to the      *)
(* server the plugin talks to, and to none if it is not wanted.            *)
EmitterFollowsClient ==
  client # None => emitter = IF settings.deltas THEN client ELSE None

(* Once the plugin is up and no edit is being saved, exports run as the    *)
(* settings say, and the next start will read the same.                    *)
ExportsFollowSettings ==
  /\ client # None
  /\ settings.managed
  /\ \A e \in Edit : edits[e] \in {"new", "done"}
  => dbTimer = settings.exports /\ saved.exports = settings.exports

(* The steps of a task between the two container operations that may not   *)
(* interleave with another task's. *)
Exclusive(k) == IF k \in Apply THEN update[k].pc \notin {"new", "off"}
                               ELSE update[k].pc \in {"ready", "saving"}

(* "One install at a time": of all requests and checks at most one is past *)
(* its first container operation, and the lock is held exactly then.       *)
OneInstall ==
  /\ serverInstalling <=> \E k \in Task : Exclusive(k)
  /\ \A j, k \in Task : Exclusive(j) /\ Exclusive(k) => j = k

(* Up, in managed mode, with no install under way. *)
Settled == enabled /\ settings.managed /\ client # None /\ ~serverInstalling

(* The plugin talks to the container where it is, also after installs and  *)
(* rollbacks moved it to another port.                                     *)
ClientFollowsContainer ==
  Settled /\ live # NoContainer => client = live.addr

(* The updater neither dies nor doubles: while it is wanted and the plugin *)
(* is up, its timer is armed or one check of this lifecycle is under way.  *)
UpdaterAlive ==
  Settled /\ AutoUpdateEnabled(settings) =>
    \/ updateTimer # None
    \/ \E k \in Check : ~TaskAt(k, "off") /\ update[k].gen = gen

Swaps(k) == update'[k].pc = "ready" /\ update[k] # update'[k]

(* The automatic updater never completes an install over a tag the user    *)
(* has pinned meanwhile.                                                   *)
PinKept ==
  [][\A k \in Check :
       TaskAt(k, "ready") /\ update'[k].pc = "saving" => settings.tag = AUTO]_vars

(* The version an install would roll back to is the one that is running    *)
(* when the install replaces it.                                           *)
RollbackReturns ==
  [][\A k \in Task :
       Swaps(k) /\ ~update'[k].back /\ live # NoContainer
         => update'[k].previous = live.version]_vars

(* A started plugin that has a server to use comes to report ready, unless *)
(* it is stopped.                                                          *)
ServerReached ==
  enabled /\ (settings.managed \/ settings.url # None)
    ~> Ready \/ ~enabled

(* The install lock is always given back. *)
InstallEnds == serverInstalling ~> ~serverInstalling
=============================================================================
