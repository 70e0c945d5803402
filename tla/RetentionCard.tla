---------------------------- MODULE RetentionCard ----------------------------
(***************************************************************************)
(* A settings form over a polled endpoint: RetentionCard of                *)
(* webapp/src/views/Settings.tsx.  Polls are answered out of order,        *)
(* another browser changes the same settings, and the user types and saves *)
(* meanwhile.                                                              *)
(***************************************************************************)
EXTENDS UseApi

CONSTANTS
  Field,        \* the tiers of the form
  Value,        \* what a tier can be set to
  Bad,          \* text that is no number the form accepts
  CardPolls     \* bound on the polls under way at once

Policy == [Field -> Value]
Text == [Field -> Value \cup {Bad}]

ASSUME FormAssumption == /\ Bad \notin Value /\ None \notin Text
                         /\ CardPolls \in Nat \ {0}

VARIABLES
  policy,       \* what the backup server keeps
  cfg,          \* the hook
  draft,        \* what the inputs show
  snapshot,     \* serverSnapshot, the policy the draft was last compared with
  save,         \* the PUT under way
  edited,       \* history: fields typed in since the form was last in step
  saved,        \* history: a save was confirmed, no other is under way
  old           \* history: polls answered before the last save was stored

form == <<draft, snapshot, edited>>
cardVars == <<policy, cfg, form, save, saved, old>>

(* What the server keeps is not followed while the tab is closed.          *)
CardInit == /\ cfg = Unmounted /\ policy = None
            /\ draft = None /\ snapshot = None
            /\ save = None
            /\ edited = {} /\ saved = FALSE /\ old = {}

(* Anything may have been saved before, a PUT of this form left behind too.*)
Mount == /\ cfg' = Mounted(CardPolls) /\ policy' \in Policy
         /\ UNCHANGED <<form, save, saved, old>>

Unmount == /\ cfg' = Unmounted /\ policy' = None
           /\ draft' = None /\ snapshot' = None
           /\ save' = None
           /\ edited' = {} /\ saved' = FALSE /\ old' = {}

-----------------------------------------------------------------------------
Poll(s) ==
  /\ Ticks(cfg, s)
  /\ cfg' = Ticked(cfg, s)
  /\ UNCHANGED <<policy, form, save, saved, old, troubles>>

Answer(s) ==
  /\ Awaited(cfg, s)
  /\ cfg' = Answered(cfg, s, policy)
  /\ old' = old \ {s}
  /\ UNCHANGED <<policy, form, save, saved, troubles>>

PollFails(s) ==
  /\ cfg.asked[s] # NoRequest
  /\ Trouble
  /\ cfg' = Failed(cfg, s)
  /\ UNCHANGED <<policy, form, save, saved, old>>

(* Faulty variant: the form takes whatever the server has.                 *)
SyncAlways(data) == draft' = data /\ snapshot' = data

(* The effect on cfg.data: a form with unsaved edits keeps them.           *)
Sync(data) == /\ draft' = IF draft = snapshot THEN data ELSE draft
              /\ snapshot' = data

Arrive(s) ==
  /\ Arrives(cfg, s)
  /\ cfg' = Arrived(cfg, s)
  /\ Sync(cfg'.data)
  /\ edited' = IF draft' = snapshot' THEN {} ELSE edited
  /\ UNCHANGED <<policy, save, saved, old, troubles>>

-----------------------------------------------------------------------------
(* The form is there once there is data and while the last poll was good.  *)
Shown == cfg.data # None /\ ~cfg.error

Type(f, text) ==
  /\ Shown /\ save = None
  /\ text # draft[f]
  /\ draft' = [draft EXCEPT ![f] = text]
  /\ edited' = IF draft' = snapshot THEN {} ELSE edited \cup {f}
  /\ UNCHANGED <<policy, cfg, snapshot, save, saved, old, troubles>>

(* onSave, once every field is a number in range; the button wants a       *)
(* difference to the data.                                                 *)
Submit ==
  /\ Shown /\ save = None
  /\ draft # cfg.data /\ draft \in Policy
  /\ save' = [policy |-> draft, stored |-> FALSE]
  /\ saved' = FALSE
  /\ UNCHANGED <<policy, cfg, form, old, troubles>>

Store ==
  /\ save # None /\ ~save.stored
  /\ policy' = save.policy
  /\ save' = [save EXCEPT !.stored = TRUE]
  /\ old' = {s \in DOMAIN cfg.asked : Arrives(cfg, s)}
  /\ UNCHANGED <<cfg, form, saved, troubles>>

Confirm ==
  /\ save # None /\ save.stored
  /\ save' = None /\ saved' = TRUE
  /\ edited' = {}
  /\ cfg' = Refreshed(cfg)
  /\ UNCHANGED <<policy, draft, snapshot, old, troubles>>

(* The request or its answer is lost.                                      *)
SaveFails ==
  /\ save # None
  /\ Trouble
  /\ save' = None
  /\ UNCHANGED <<policy, cfg, form, saved, old>>

OthersSave == /\ Trouble
              /\ policy' \in Policy
              /\ UNCHANGED <<cfg, form, save, saved, old>>

CardNext ==
  \/ \E s \in DOMAIN cfg.asked : Poll(s) \/ Answer(s) \/ PollFails(s) \/ Arrive(s)
  \/ \E f \in Field, text \in Value \cup {Bad} : Type(f, text)
  \/ Submit \/ Store \/ Confirm \/ SaveFails \/ OthersSave

-----------------------------------------------------------------------------
(* What the user has typed and not saved is changed by nothing but typing  *)
(* while the tab is open: no poll, no answer to a save and no edit by      *)
(* another browser replaces it (Settings.tsx, the comment on the effect).  *)
EditsKept ==
  [][cfg'.asked # cfg.asked /\ cfg' # Unmounted
       => \A f \in edited : draft'[f] = draft[f]]_cardVars

(* Once a save is confirmed, no answer is shown any more that the server   *)
(* gave before it stored the save, however late it comes: useApi cancels   *)
(* what was asked before the refresh.                                      *)
ConfirmedShown ==
  [][\A s \in DOMAIN cfg.asked :
       saved /\ Arrives(cfg, s) /\ cfg' = Arrived(cfg, s) => s \notin old]_cardVars
=============================================================================
