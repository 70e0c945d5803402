----------------------------- MODULE Lifecycle -----------------------------
(***************************************************************************)
(* start(), stop() and asyncStart() of src/index.ts.  Signal K does not    *)
(* await start() and runs it again, without stop(), when the configuration *)
(* is saved, so the startups of several generations may be under way.      *)
(***************************************************************************)
EXTENDS PluginState

(* Where an asyncStart is: the name of what it awaits.  "ready" is         *)
(* container.start(), "probe" the external server's health probe.          *)
StartupStep == {"none", "manager", "resolve", "save", "ready", "probe",
                "done"}

StartupAt(g, step) == startup[g] = step
StartupGoto(g, step) == startup' = [startup EXCEPT ![g] = step]

(* container.start(): the container is brought to the tag's version, and   *)
(* kept when it already runs that version.                                 *)
Ensure(version) ==
  IF live.version = version
    THEN UNCHANGED live
    ELSE live' \in [version : {version}, addr : Port]

-----------------------------------------------------------------------------
(* start(): the user saved configuration c, or Signal K starts.            *)

(* Faulty variant: the client stays published. *)
RetractAddressOnly(s) ==
  /\ UNCHANGED client
  /\ containerAddress' = IF s.managed THEN None ELSE s.url

(* What start() retracts: the published client goes at once; an external   *)
(* server's address is published before it has answered, its client after. *)
Retract(s) ==
  /\ client' = None
  /\ containerAddress' = IF s.managed THEN None ELSE s.url

(* asyncStart runs within start() up to its first await. *)
FirstAwait(s) == IF s.managed
                   THEN IF s.tag = AUTO THEN "manager" ELSE "ready"
                   ELSE IF s.url # None THEN "probe" ELSE "done"

Start(c) ==
  LET s == [c EXCEPT !.resolved = saved.resolved]
  IN  /\ gen < MaxGen
      /\ gen' = gen + 1
      /\ enabled' = TRUE
      /\ settings' = s
      /\ saved' = s
      /\ Retract(s)
      /\ updateTimer' = None
      /\ uplink' = FALSE
      /\ startup' = [startup EXCEPT ![gen'] = FirstAwait(s)]
      /\ IF FirstAwait(s) = "ready"
           THEN resolvedAutoTag' = None /\ Ensure(s.tag)
           ELSE UNCHANGED <<resolvedAutoTag, live>>
      /\ UNCHANGED <<emitter, dbTimer, failed, serverInstalling, update,
                     edits, restoring>>

(* stop() *)
Stop == /\ enabled
        /\ gen < MaxGen
        /\ gen' = gen + 1
        /\ enabled' = FALSE
        /\ client' = None
        /\ containerAddress' = None
        /\ emitter' = None
        /\ dbTimer' = FALSE
        /\ updateTimer' = None
        /\ uplink' = FALSE
        /\ live' = IF settings.managed THEN NoContainer ELSE live
        /\ UNCHANGED <<tags, failed, serverInstalling, startup, update, edits,
                       restoring>>

-----------------------------------------------------------------------------
(* asyncStart(): each step is guarded by the generation as the code is.    *)

(* persistResolvedTag, up to its await: only a change is saved. *)
PersistResolvedTag(v) ==
  IF settings.resolved = v
    THEN UNCHANGED <<settings, saved>>
    ELSE /\ settings' = [settings EXCEPT !.resolved = v]
         /\ \E ok \in BOOLEAN : Save(settings', ok)

(* "auto" is version v: publish it and save it. *)
AutoTagIs(g, v) ==
  /\ resolvedAutoTag' = v
  /\ PersistResolvedTag(v)
  /\ StartupGoto(g, "save")

(* waitForContainerManager settles: found, timed out or aborted.  Then     *)
(* resolveAutoTag: the persisted version, which is never below the floor,  *)
(* is used without a lookup.                                               *)
ManagerFound(g) ==
  /\ StartupAt(g, "manager")
  /\ \/ ~Current(g) /\ StartupGoto(g, "done") /\ UNCHANGED tags
     \/ /\ Current(g) /\ settings.resolved # None
        /\ AutoTagIs(g, settings.resolved)
     \/ /\ Current(g) /\ settings.resolved = None
        /\ StartupGoto(g, "resolve") /\ UNCHANGED tags
  /\ UNCHANGED <<gen, enabled, published, timers, failed, serverInstalling,
                 update, edits, outside>>

(* The release lookup settles: the latest release, or the floor when there *)
(* is none to be had.  A superseded startup must not set the live tag.     *)
TagResolved(g) ==
  /\ StartupAt(g, "resolve")
  /\ IF Current(g)
       THEN \E v \in Version : AutoTagIs(g, v)
       ELSE StartupGoto(g, "done") /\ UNCHANGED tags
  /\ UNCHANGED <<gen, enabled, published, timers, failed, serverInstalling,
                 update, edits, outside>>

(* The save settled; an aborted signal cancels container.start(). *)
ResolvedTagSaved(g) ==
  /\ StartupAt(g, "save")
  /\ IF Current(g)
       THEN /\ Ensure(Resolve(settings.tag, resolvedAutoTag))
            /\ StartupGoto(g, "ready")
       ELSE /\ StartupGoto(g, "done")
            /\ UNCHANGED live
  /\ UNCHANGED <<gen, enabled, tags, published, timers, failed,
                 serverInstalling, update, edits, restoring>>

(* The container did not answer: the helper tries again, unless aborted.   *)
StartRetried(g) ==
  /\ StartupAt(g, "ready")
  /\ Current(g)
  /\ MayFail("answer")
  /\ Ensure(Resolve(settings.tag, resolvedAutoTag))
  /\ UNCHANGED <<gen, enabled, tags, published, timers, failed,
                 serverInstalling, startup, update, edits, restoring>>

(* finishStartup *)
FinishStartup(g) ==
  /\ client' = live.addr
  /\ containerAddress' = live.addr
  /\ emitter' = Emitting(emitter, live.addr)
  /\ dbTimer' = DbTimerFor(settings)
  /\ ScheduleUpdate(settings, g)
  /\ uplink' = TRUE

(* container.start() settles: the container answered, or the startup was   *)
(* cancelled, or the container was taken away and has no address.          *)
ContainerReady(g) ==
  /\ StartupAt(g, "ready")
  /\ StartupGoto(g, "done")
  /\ IF Current(g) /\ live # NoContainer
       THEN FinishStartup(g)
       ELSE UNCHANGED <<published, timers>>
  /\ UNCHANGED <<gen, enabled, tags, failed, serverInstalling, update, edits,
                 outside>>

(* The external server answered, or the probe was aborted; finishExternal. *)
ExternalReady(g) ==
  /\ StartupAt(g, "probe")
  /\ StartupGoto(g, "done")
  /\ IF Current(g)
       THEN /\ client' = settings.url
            /\ emitter' = Emitting(emitter, settings.url)
            /\ uplink' = TRUE
       ELSE UNCHANGED <<client, emitter, uplink>>
  /\ UNCHANGED <<gen, enabled, tags, containerAddress, dbTimer, updateTimer,
                 failed, serverInstalling, update, edits, outside>>

StartupProceeds(g) == \/ ManagerFound(g) \/ TagResolved(g)
                      \/ ResolvedTagSaved(g) \/ ContainerReady(g)
                      \/ ExternalReady(g)
=============================================================================
