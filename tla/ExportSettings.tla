--------------------------- MODULE ExportSettings ---------------------------
(***************************************************************************)
(* POST /api/database-export/config of src/index.ts: change the exporters  *)
(* in memory, save, then restart the export timer.                         *)
(***************************************************************************)
EXTENDS PluginState

(* The exporters are switched on or off; saving starts. *)
EditRequested(e, on) ==
  /\ edits[e] = "new"
  /\ settings # None
  /\ settings' = [settings EXCEPT !.exports = on]
  /\ \E ok \in BOOLEAN :
       /\ Save(settings', ok)
       /\ edits' = [edits EXCEPT ![e] = IF ok THEN "saved" ELSE "unsaved"]
  /\ UNCHANGED <<gen, enabled, resolvedAutoTag, published, timers, failed,
                 serverInstalling, startup, update, outside>>

(* Faulty variant: the timer is not restarted. *)
EditSavedOnly(e) ==
  /\ edits[e] \in {"saved", "unsaved"}
  /\ edits' = [edits EXCEPT ![e] = "done"]
  /\ UNCHANGED <<gen, enabled, tags, published, timers, failed,
                 serverInstalling, startup, update, outside>>

(* The save settles: the timer follows the settings, unless it failed.     *)
EditSaved(e) ==
  /\ edits[e] \in {"saved", "unsaved"}
  /\ dbTimer' = IF edits[e] = "saved" THEN DbTimerFor(settings) ELSE dbTimer
  /\ edits' = [edits EXCEPT ![e] = "done"]
  /\ UNCHANGED <<gen, enabled, tags, published, updateTimer, uplink, failed,
                 serverInstalling, startup, update, outside>>
=============================================================================
