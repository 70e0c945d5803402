----------------------------- MODULE RestorePage -----------------------------
(***************************************************************************)
(* The restores of the webapp: views/Backups.tsx with BackupBrowser and    *)
(* PartialRestoreModal (views/DatabaseExports.tsx is the same page without *)
(* row actions).  Three endpoints are polled to know which restores run;   *)
(* the server keeps full and partial restores apart, the plugin host       *)
(* restores, and nothing keeps the two apart but the page.                 *)
(***************************************************************************)
EXTENDS UseApi

CONSTANTS
  Target,       \* where a partial restore can go
  Original,     \* the original location; the others are custom paths
  PagePolls     \* bound on the polls of an endpoint under way at once

Restore == {"full", "partial", "host"}

ASSUME PageAssumption == /\ Original \in Target /\ None \notin Target
                         /\ PagePolls \in Nat \ {0}

VARIABLES
  route,        \* the tab shown
  running,      \* the restores under way on the server and in the plugin
  status,       \* the hooks of the three status endpoints
  restoring,    \* restoringId: the POST of a full restore
  modal         \* the restore modal, with the POST it waits for

pageVars == <<route, running, status, restoring, modal>>

(* What runs is not followed while no such tab is open.                    *)
PageInit == /\ status = [k \in Restore |-> Unmounted] /\ running = {}
            /\ restoring = None /\ modal = None

(* Anything may run that the server allows, left behind by this page too.  *)
PageMount == /\ status' = [k \in Restore |-> Mounted(PagePolls)]
             /\ running' \in {r \in SUBSET Restore : ~({"full", "partial"} \subseteq r)}
             /\ restoring' = None /\ modal' = None

PageUnmount == /\ status' = [k \in Restore |-> Unmounted] /\ running' = {}
               /\ restoring' = None /\ modal' = None

(* restoreActive and its like: unknown counts as not active.               *)
ActionsDisabled == \/ \E k \in Restore : status[k].data = TRUE
                   \/ restoring # None

-----------------------------------------------------------------------------
(* The status endpoints. *)
StatusPoll(k, s) ==
  /\ Ticks(status[k], s)
  /\ status' = [status EXCEPT ![k] = Ticked(@, s)]
  /\ UNCHANGED <<route, running, restoring, modal, troubles>>

StatusAnswer(k, s) ==
  /\ Awaited(status[k], s)
  /\ status' = [status EXCEPT ![k] = Answered(@, s, k \in running)]
  /\ UNCHANGED <<route, running, restoring, modal, troubles>>

(* Among others while a full restore restarts Signal K; the page does not  *)
(* look at the hook's error.                                               *)
StatusFails(k, s) ==
  /\ status[k].asked[s] # NoRequest
  /\ Trouble
  /\ status' = [status EXCEPT ![k] = [Failed(@, s) EXCEPT !.error = FALSE]]
  /\ UNCHANGED <<route, running, restoring, modal>>

StatusArrives(k, s) ==
  /\ Arrives(status[k], s)
  /\ status' = [status EXCEPT ![k] = Arrived(@, s)]
  /\ UNCHANGED <<route, running, restoring, modal, troubles>>

Busy(k) == IF k = "host" THEN k \in running ELSE running \ {"host"} # {}

(* What the server answers to a request for a restore of kind k.           *)
Started(k) == running' = IF Busy(k) THEN running ELSE running \cup {k}

Ends(k) == /\ k \in running
           /\ running' = running \ {k}
           /\ UNCHANGED <<route, status, restoring, modal, troubles>>

OtherStarts(k) == /\ ~Busy(k) /\ Trouble
                  /\ running' = running \cup {k}
                  /\ UNCHANGED <<route, status, restoring, modal>>

-----------------------------------------------------------------------------
(* The rows can be reached and their buttons are enabled.                  *)
RowActions == route = "backups" /\ modal = None /\ ~ActionsDisabled

(* onRestore, a full restore from its row *)
StartRestore ==
  /\ RowActions
  /\ restoring' = "sent"
  /\ UNCHANGED <<route, running, status, modal, troubles>>

RestoreHandled ==
  /\ restoring = "sent"
  /\ Started("full")
  /\ restoring' = IF Busy("full") THEN "refused" ELSE "started"
  /\ UNCHANGED <<route, status, modal, troubles>>

(* Faulty variant: the id is cleared where the status is refreshed only.   *)
RestoreAnsweredOnly ==
  /\ restoring \in {"refused", "started"}
  /\ restoring' = IF restoring = "started" THEN None ELSE "failed"
  /\ status' = IF restoring = "started" THEN [status EXCEPT !["full"] = Refreshed(@)]
               ELSE status
  /\ UNCHANGED <<route, running, modal, troubles>>

RestoreAnswered ==
  /\ restoring \in {"refused", "started"}
  /\ restoring' = None
  /\ status' = IF restoring = "started" THEN [status EXCEPT !["full"] = Refreshed(@)]
               ELSE status
  /\ UNCHANGED <<route, running, modal, troubles>>

RestoreLost ==
  /\ restoring \in {"sent", "started"}
  /\ Trouble
  /\ restoring' = None
  /\ UNCHANGED <<route, running, status, modal>>

-----------------------------------------------------------------------------
(* BackupBrowser and PartialRestoreModal *)
OpenModal ==
  /\ RowActions
  /\ modal' = [target |-> Original, conflict |-> None, request |-> None]
  /\ UNCHANGED <<route, running, status, restoring, troubles>>

Idle == modal # None /\ modal.request = None

CloseModal ==
  /\ Idle
  /\ modal' = None
  /\ UNCHANGED <<route, running, status, restoring, troubles>>

(* Faulty variant: the conflict of another target stays on show.           *)
ChooseOnly(t) ==
  /\ Idle /\ t # modal.target
  /\ modal' = [modal EXCEPT !.target = t]
  /\ UNCHANGED <<route, running, status, restoring, troubles>>

Choose(t) ==
  /\ Idle /\ t # modal.target
  /\ modal' = [modal EXCEPT !.target = t, !.conflict = None]
  /\ UNCHANGED <<route, running, status, restoring, troubles>>

CancelOverwrite ==
  /\ Idle /\ modal.conflict # None
  /\ modal' = [modal EXCEPT !.conflict = None]
  /\ UNCHANGED <<route, running, status, restoring, troubles>>

(* "Restore" while no conflict is shown, "Overwrite" inside the conflict.  *)
SubmitModal ==
  /\ Idle
  /\ modal' = [modal EXCEPT !.request =
                 [target |-> modal.target, overwrite |-> modal.conflict # None,
                  outcome |-> "sent"]]
  /\ UNCHANGED <<route, running, status, restoring, troubles>>

(* The original location is the server's, custom paths are the plugin's.   *)
Requested == IF modal.target = Original THEN "partial" ELSE "host"

(* exists: the target is there already.                                    *)
ModalHandled(exists) ==
  /\ modal # None /\ modal.request # None /\ modal.request.outcome = "sent"
  /\ LET outcome == IF Busy(Requested) THEN "refused"
                    ELSE IF exists /\ ~modal.request.overwrite THEN "exists"
                    ELSE "started"
     IN /\ modal' = [modal EXCEPT !.request.outcome = outcome]
        /\ IF outcome = "started" THEN Started(Requested) ELSE UNCHANGED running
  /\ UNCHANGED <<route, status, restoring, troubles>>

(* onRestoreStarted does not know which of the two began.                  *)
RefreshBoth == status' = [status EXCEPT !["partial"] = Refreshed(@),
                                        !["host"] = Refreshed(@)]

ModalAnswered ==
  /\ modal # None /\ modal.request # None /\ modal.request.outcome # "sent"
  /\ IF modal.request.outcome = "started"
     THEN modal' = None /\ RefreshBoth
     ELSE /\ modal' = [modal EXCEPT !.request = None, !.conflict =
                         IF modal.request.outcome = "exists" THEN modal.target ELSE @]
          /\ UNCHANGED status
  /\ UNCHANGED <<route, running, restoring, troubles>>

ModalLost ==
  /\ modal # None /\ modal.request # None
  /\ Trouble
  /\ modal' = [modal EXCEPT !.request = None]
  /\ UNCHANGED <<route, running, status, restoring>>

-----------------------------------------------------------------------------
Settle == \/ RestoreHandled \/ RestoreAnswered
          \/ \E exists \in BOOLEAN : ModalHandled(exists)
          \/ ModalAnswered

PollStatus(k) == \E s \in DOMAIN status[k].asked :
              StatusPoll(k, s) \/ StatusAnswer(k, s) \/ StatusArrives(k, s)

PageNext ==
  \/ Settle
  \/ \E k \in Restore : PollStatus(k) \/ Ends(k) \/ OtherStarts(k)
  \/ \E k \in Restore : \E s \in DOMAIN status[k].asked : StatusFails(k, s)
  \/ StartRestore \/ RestoreLost
  \/ OpenModal \/ CloseModal \/ CancelOverwrite \/ SubmitModal \/ ModalLost
  \/ \E t \in Target : Choose(t)

(* Timers fire and restores end; requests are answered or, at most         *)
(* MaxTroubles times, fail.                                                *)
PageFairness ==
  /\ WF_pageVars(Settle)
  /\ \A k \in Restore : WF_pageVars(PollStatus(k)) /\ WF_pageVars(Ends(k))

-----------------------------------------------------------------------------
(* An overwriting request names the target whose conflict the user has     *)
(* before him: choosing another target, cancelling or a late answer never  *)
(* carry the consent for one target over to another.                       *)
ConsentShown ==
  modal # None /\ modal.request # None /\ modal.request.overwrite
    => modal.conflict = modal.request.target

(* The row actions are never locked for good: whatever restores ran, were  *)
(* refused or lost, and however polls were answered, the page unlocks.     *)
ActionsReturn == []<>~ActionsDisabled
=============================================================================
