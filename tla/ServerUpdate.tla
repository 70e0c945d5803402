---------------------------- MODULE ServerUpdate ----------------------------
(***************************************************************************)
(* Updates of the backup server: the timer and checkServerUpdate of        *)
(* src/index.ts, POST /api/update/apply, and the install that both share   *)
(* (installServerRelease, server-update.ts).  A check or a request is a    *)
(* task; its steps are the code between two awaits.                        *)
(***************************************************************************)
EXTENDS PluginState

(* Where a task is, named for what it awaits:                              *)
(*   check, link, idle         checkServerUpdate, before its install       *)
(*   check, pull               both                                        *)
(*   ready, saving             installServerRelease: the swapped server's  *)
(*                             health, and the saved options               *)
(*   applied, persisted, waiting   applyServerUpdate of a given tag        *)
TaskStep == {"new", "off", "check", "link", "pull", "idle", "decide", "ready",
             "saving", "applied", "persisted", "waiting"}

Idle == [pc |-> "off", gen |-> 0, tag |-> None, target |-> None,
         previous |-> None, back |-> FALSE, ok |-> TRUE, addr |-> None]

TaskShape == [pc : TaskStep, gen : Gen, tag : Tag \cup {None},
              target : Version \cup {None}, previous : Version \cup {None},
              back : BOOLEAN, ok : BOOLEAN, addr : Port \cup {None}]

TaskAt(k, step) == update[k].pc = step
TaskGoto(k, step) == update' = [update EXCEPT ![k].pc = step]

BusyHost == "host" \in restoring

(* Faulty variant: the generation alone. *)
WantedByGeneration(g) == Current(g)

(* wanted and busy of checkServerUpdate. *)
Wanted(g) == Current(g) /\ AutoUpdateEnabled(settings)

Busy == serverInstalling \/ BusyHost

(* pickServerUpdate, all releases being final and of one major. *)
Picks(current, v) == current # None /\ v > current /\ v \notin failed

(* Faulty variant: the timer is not armed again. *)
EndCheckForGood(k) ==
  /\ update' = [update EXCEPT ![k] = Idle]
  /\ UNCHANGED updateTimer

(* A check is over: the next one is scheduled unless start() or stop() ran. *)
EndCheck(k) ==
  /\ update' = [update EXCEPT ![k] = Idle]
  /\ IF Current(update[k].gen)
       THEN ScheduleUpdate(settings, update[k].gen)
       ELSE UNCHANGED updateTimer

(* A request is over, with an error or with the success that re-arms the   *)
(* updater when the plugin is up.                                          *)
EndApply(k, success) ==
  /\ update' = [update EXCEPT ![k] = Idle]
  /\ IF success /\ client # None
       THEN ScheduleUpdate(settings, gen)
       ELSE UNCHANGED updateTimer

EndTask(k, success) == IF k \in Check THEN EndCheck(k) ELSE EndApply(k, success)

-----------------------------------------------------------------------------
(* checkServerUpdate, up to its install.                                   *)

(* The timer fires.  A check that is not wanted ends at once, and since    *)
(* the updater is then off or superseded the timer is not armed again.     *)
TimerFires(k) ==
  /\ k \in Check /\ TaskAt(k, "off")
  /\ updateTimer # None
  /\ updateTimer' = None
  /\ update' = IF Wanted(updateTimer)
       THEN [update EXCEPT ![k].pc = "check", ![k].gen = updateTimer]
       ELSE update
  /\ UNCHANGED <<gen, enabled, tags, published, dbTimer, uplink, failed,
                 serverInstalling, startup, edits, outside>>

(* The release lookup settles.  It finds nothing (unreachable, offline, no *)
(* update) or a release the updater may pick.                              *)
CheckAnswered(k) ==
  /\ k \in Check /\ TaskAt(k, "check")
  /\ \/ EndCheck(k)
     \/ \E v \in Version :
          /\ Picks(resolvedAutoTag, v)
          /\ Wanted(update[k].gen)
          /\ update' = [update EXCEPT ![k].pc = "link", ![k].target = v]
          /\ UNCHANGED updateTimer
  /\ UNCHANGED <<gen, enabled, tags, published, dbTimer, uplink, failed,
                 serverInstalling, startup, edits, outside>>

(* The link state is read: free, or one that holds large downloads. *)
LinkRead(k) ==
  /\ k \in Check /\ TaskAt(k, "link")
  /\ \/ EndCheck(k)
     \/ /\ Wanted(update[k].gen)
        /\ TaskGoto(k, "pull")
        /\ UNCHANGED updateTimer
  /\ UNCHANGED <<gen, enabled, tags, published, dbTimer, uplink, failed,
                 serverInstalling, startup, edits, outside>>

(* The image is pulled, and the server is asked whether it is restoring.   *)
CheckPulled(k) ==
  /\ k \in Check /\ TaskAt(k, "pull")
  /\ \/ MayFail("pull") /\ EndCheck(k)
     \/ /\ Wanted(update[k].gen) /\ ~Busy /\ client # None
        /\ TaskGoto(k, "idle")
        /\ UNCHANGED updateTimer
     \/ /\ ~(Wanted(update[k].gen) /\ ~Busy /\ client # None)
        /\ EndCheck(k)
  /\ UNCHANGED <<gen, enabled, tags, published, dbTimer, uplink, failed,
                 serverInstalling, startup, edits, outside>>

(* The server reads its restore states; an error counts as busy. *)
IdleRead(k) ==
  /\ k \in Check /\ TaskAt(k, "idle")
  /\ \E ok \in BOOLEAN :
       /\ ok => "server" \notin restoring
       /\ update' = [update EXCEPT ![k].pc = "decide", ![k].ok = ok]
  /\ UNCHANGED <<gen, enabled, tags, published, timers, failed,
                 serverInstalling, startup, edits, outside>>

-----------------------------------------------------------------------------
(* installServerRelease and installServerVersion.                          *)

(* swap(tag) of task k for lifecycle g: the container is recreated on      *)
(* "auto", which now resolves to tag, and its new address is read.         *)
SwapTo(k, tag, fields) ==
  \E ok \in BOOLEAN :
    /\ resolvedAutoTag' = tag
    /\ Recreate(tag, ok)
    /\ update' = [update EXCEPT ![k] =
                    [fields EXCEPT !.pc = "ready", !.ok = ok, !.addr = live'.addr]]

(* The health poll of task k, at the address that was read before it.      *)
HealthPoll(k, answered) ==
  IF answered THEN WaitForReady(TRUE) /\ live.addr = update[k].addr
              ELSE WaitForReady(FALSE) \/ live.addr # update[k].addr

(* Faulty variant: always the bundled version. *)
PreviousIsFloor == Floor

(* The version to go back to is read before the swap. *)
Previous == IF resolvedAutoTag = None THEN Floor ELSE resolvedAutoTag

BeginInstall(k, target, g) ==
  SwapTo(k, target,
         [update[k] EXCEPT !.target = target, !.gen = g, !.previous = Previous,
                           !.back = FALSE])

(* Faulty variant: the release is not compared again. *)
MayInstallStale(k) == update[k].ok /\ ~Busy /\ Wanted(update[k].gen)

(* Everything is checked again when the idle answer arrives: the install   *)
(* starts, or the check ends.                                              *)
MayInstall(k) ==
  /\ update[k].ok
  /\ ~Busy
  /\ Wanted(update[k].gen)
  /\ Picks(resolvedAutoTag, update[k].target)

Decide(k) ==
  /\ k \in Check /\ TaskAt(k, "decide")
  /\ IF MayInstall(k)
       THEN /\ serverInstalling' = TRUE
            /\ BeginInstall(k, update[k].target, update[k].gen)
            /\ UNCHANGED <<settings, saved, updateTimer>>
       ELSE /\ EndCheck(k)
            /\ UNCHANGED <<serverInstalling, tags, live>>
  /\ UNCHANGED <<gen, enabled, published, dbTimer, uplink, failed, startup,
                 edits, restoring>>

(* Faulty variant: the lock is kept. *)
GiveUpLocked(k) ==
  /\ failed' = failed \cup {update[k].target}
  /\ UNCHANGED serverInstalling
  /\ EndTask(k, FALSE)

(* The install failed for good: the release is not tried again. *)
GiveUp(k) ==
  /\ failed' = failed \cup {update[k].target}
  /\ serverInstalling' = FALSE
  /\ EndTask(k, FALSE)

(* The new server answers /api/health: follow it, and save what runs. *)
NewServerReady(k) ==
  /\ TaskAt(k, "ready") /\ ~update[k].back /\ update[k].ok
  /\ HealthPoll(k, TRUE)
  /\ Adopt(update[k].addr)
  /\ \E ok \in BOOLEAN :
       /\ PersistAppliedTag(AUTO, update[k].target, ok)
       /\ update' = [update EXCEPT ![k].pc = "saving", ![k].ok = ok]
  /\ UNCHANGED <<gen, enabled, timers, failed, serverInstalling, startup,
                 edits, outside>>

(* It did not start: the previous version is put back, unless start() or   *)
(* stop() ran meanwhile.                                                   *)
NewServerFailed(k) ==
  /\ TaskAt(k, "ready") /\ ~update[k].back
  /\ ~update[k].ok \/ HealthPoll(k, FALSE)
  /\ IF Current(update[k].gen)
       THEN /\ SwapTo(k, update[k].previous, [update[k] EXCEPT !.back = TRUE])
            /\ UNCHANGED <<updateTimer, failed, serverInstalling>>
       ELSE /\ GiveUp(k)
            /\ UNCHANGED <<resolvedAutoTag, live>>
  /\ UNCHANGED <<gen, enabled, settings, saved, published, dbTimer, uplink,
                 startup, edits, restoring>>

(* The previous version is back, or did not come back either. *)
OldServerBack(k) ==
  /\ TaskAt(k, "ready") /\ update[k].back
  /\ \/ update[k].ok /\ HealthPoll(k, TRUE) /\ Adopt(update[k].addr)
     \/ /\ ~update[k].ok \/ HealthPoll(k, FALSE)
        /\ UNCHANGED published
  /\ GiveUp(k)
  /\ UNCHANGED <<gen, enabled, tags, dbTimer, uplink, startup, edits, outside>>

(* The options are saved, or not: then the request reports the failure.    *)
InstallSaved(k) ==
  /\ TaskAt(k, "saving")
  /\ serverInstalling' = FALSE
  /\ uplink' = (uplink \/ update[k].ok)
  /\ EndTask(k, update[k].ok)
  /\ UNCHANGED <<gen, enabled, tags, published, dbTimer, failed, startup,
                 edits, outside>>

-----------------------------------------------------------------------------
(* POST /api/update/apply.                                                 *)

(* container.applyUpdate(tag): the container is recreated on the tag. *)
ApplyTag(k, tag) ==
  \E ok \in BOOLEAN :
    /\ Recreate(Resolve(tag, resolvedAutoTag), ok)
    /\ update' = [update EXCEPT
                    ![k].pc = "applied", ![k].tag = tag, ![k].ok = ok,
                    ![k].target = Resolve(tag, resolvedAutoTag)]

(* Faulty variant: no lock. *)
InstallLockIgnored == TRUE

(* Without an install under way, else 409. *)
InstallLockFree == ~serverInstalling

ApplyRequested(k, tag) ==
  /\ k \in Apply /\ TaskAt(k, "new")
  /\ InstallLockFree
  /\ serverInstalling' = TRUE
  /\ IF tag = AUTO
       THEN /\ update' = [update EXCEPT ![k].pc = "check", ![k].tag = tag]
            /\ UNCHANGED live
       ELSE ApplyTag(k, tag)
  /\ UNCHANGED <<gen, enabled, tags, published, timers, failed, startup,
                 edits, restoring>>

ApplyRefused(k) ==
  /\ k \in Apply /\ TaskAt(k, "new")
  /\ ~InstallLockFree
  /\ update' = [update EXCEPT ![k] = Idle]
  /\ UNCHANGED <<gen, enabled, tags, published, timers, failed,
                 serverInstalling, startup, edits, outside>>

(* The release lookup of an "auto" request: a newer release is pulled, a   *)
(* failed release included; otherwise "auto" is applied as it is.  A       *)
(* lookup that throws ends the request.                                    *)
ApplyAnswered(k) ==
  /\ k \in Apply /\ TaskAt(k, "check")
  /\ \/ \E v \in Version :
          /\ v > Resolve(CurrentTag, resolvedAutoTag)
          /\ update' = [update EXCEPT ![k].pc = "pull", ![k].target = v]
          /\ UNCHANGED <<serverInstalling, updateTimer, live>>
     \/ /\ ApplyTag(k, AUTO)
        /\ UNCHANGED <<serverInstalling, updateTimer>>
     \/ /\ serverInstalling' = FALSE
        /\ EndApply(k, FALSE)
        /\ UNCHANGED live
  /\ UNCHANGED <<gen, enabled, tags, published, dbTimer, uplink, failed,
                 startup, edits, restoring>>

(* The requested release is pulled and installed for the lifecycle that is *)
(* current now.                                                            *)
ApplyPulled(k) ==
  /\ k \in Apply /\ TaskAt(k, "pull")
  /\ \/ /\ BeginInstall(k, update[k].target, gen)
        /\ UNCHANGED <<serverInstalling, updateTimer>>
     \/ /\ MayFail("pull")
        /\ serverInstalling' = FALSE
        /\ EndApply(k, FALSE)
        /\ UNCHANGED <<resolvedAutoTag, live>>
  /\ UNCHANGED <<gen, enabled, settings, saved, published, dbTimer, uplink,
                 failed, startup, edits, restoring>>

(* The container was recreated on the requested tag, which is saved. *)
TagApplied(k) ==
  /\ TaskAt(k, "applied")
  /\ IF update[k].ok
       THEN /\ \E ok \in BOOLEAN :
                 /\ PersistAppliedTag(update[k].tag, update[k].target, ok)
                 /\ update' = [update EXCEPT ![k].pc = "persisted", ![k].ok = ok]
            /\ UNCHANGED <<serverInstalling, updateTimer>>
       ELSE /\ serverInstalling' = FALSE
            /\ EndApply(k, FALSE)
            /\ UNCHANGED tags
  /\ UNCHANGED <<gen, enabled, published, dbTimer, uplink, failed, startup,
                 edits, outside>>

(* Even when the save failed, the plugin follows the recreated container.  *)
AppliedTagSaved(k) ==
  /\ TaskAt(k, "persisted")
  /\ IF live # NoContainer
       THEN /\ Adopt(live.addr)
            /\ update' = [update EXCEPT ![k].pc = "waiting", ![k].addr = live.addr]
            /\ UNCHANGED <<serverInstalling, updateTimer>>
       ELSE /\ serverInstalling' = FALSE
            /\ EndApply(k, FALSE)
            /\ UNCHANGED published
  /\ UNCHANGED <<gen, enabled, tags, dbTimer, uplink, failed, startup, edits,
                 outside>>

AppliedServerReady(k) ==
  /\ TaskAt(k, "waiting")
  /\ serverInstalling' = FALSE
  /\ \/ HealthPoll(k, TRUE) /\ uplink' = TRUE /\ EndApply(k, update[k].ok)
     \/ HealthPoll(k, FALSE) /\ UNCHANGED uplink /\ EndApply(k, FALSE)
  /\ UNCHANGED <<gen, enabled, tags, published, dbTimer, failed, startup,
                 edits, outside>>

-----------------------------------------------------------------------------
(* Restores begin and end on their own; both need a server address.        *)
RestoreBegins(kind) == /\ kind \notin restoring
                       /\ containerAddress # None
                       /\ restoring' = restoring \cup {kind}
                       /\ UNCHANGED <<gen, enabled, tags, published, timers,
                                      failed, serverInstalling, startup,
                                      update, edits, live>>

RestoreEnds(kind) == /\ kind \in restoring
                     /\ restoring' = restoring \ {kind}
                     /\ UNCHANGED <<gen, enabled, tags, published, timers,
                                    failed, serverInstalling, startup, update,
                                    edits, live>>

CheckProceeds(k) == \/ CheckAnswered(k) \/ LinkRead(k) \/ CheckPulled(k)
                    \/ IdleRead(k) \/ Decide(k)

InstallProceeds(k) == \/ NewServerReady(k) \/ NewServerFailed(k)
                      \/ OldServerBack(k) \/ InstallSaved(k)

ApplyProceeds(k) == \/ ApplyAnswered(k) \/ ApplyPulled(k) \/ TagApplied(k)
                    \/ AppliedTagSaved(k) \/ AppliedServerReady(k)

TaskProceeds(k) == CheckProceeds(k) \/ InstallProceeds(k) \/ ApplyProceeds(k)
=============================================================================
