------------------------------ MODULE AppProofs ------------------------------
(***************************************************************************)
(* Proofs about the webapp: the forms' consent and edits, and what a       *)
(* refreshed hook shows.  The invariants speak of the hook of the card     *)
(* (CardInv) and of the restore modal (ModalInv); the status hooks of the  *)
(* restore page matter to no safety property.                              *)
(***************************************************************************)
EXTENDS App, TLAPS

Request == [at : {"none", "asked", "answered"}, value : Policy \cup {None}]

Hook(n) == [asked : [1..n -> Request], data : Policy \cup {None}, error : BOOLEAN]

(* The hook of the card, mounted or not.                                   *)
CardHook == cfg \in Hook(0) \cup Hook(CardPolls)

CardType == /\ CardHook
            /\ save = None \/ save \in [policy : Policy, stored : BOOLEAN]
            /\ saved \in BOOLEAN
            /\ edited \subseteq Field
            /\ old \subseteq 1..CardPolls
            /\ policy \in Policy \cup {None}

(* A form in step with the server has no edits.                            *)
InStep == draft = snapshot => edited = {}

(* While a save is under way none is confirmed, and once one is, no stale  *)
(* answer waits to be shown.                                               *)
NoneStale == saved => /\ save = None
                      /\ \A s \in DOMAIN cfg.asked : Arrives(cfg, s) => s \notin old

CardInv == CardType /\ InStep /\ NoneStale

PartialRequest == [target : Target, overwrite : BOOLEAN,
                   outcome : {"sent", "refused", "exists", "started"}]

Modal == [target : Target, conflict : Target \cup {None},
          request : PartialRequest \cup {None}]

(* A conflict is that of the target chosen, and so is a request.           *)
Consent == /\ modal.conflict \in {None, modal.target}
           /\ modal.request # None
                => /\ modal.request.target = modal.target
                   /\ modal.request.overwrite => modal.conflict = modal.target

ModalInv == modal # None => modal \in Modal /\ Consent

-----------------------------------------------------------------------------
(* The hooks: each operation keeps the shape and says what it arrives at.  *)
LEMMA HookSteps ==
  ASSUME NEW n \in Nat, NEW h \in Hook(n), NEW s \in 1..n,
         NEW v \in Policy \cup {None}
  PROVE  /\ DOMAIN h.asked = 1..n
         /\ Ticked(h, s) \in Hook(n) /\ Answered(h, s, v) \in Hook(n)
         /\ Failed(h, s) \in Hook(n) /\ Arrived(h, s) \in Hook(n)
         /\ \A r \in 1..n :
              /\ Arrives(Ticked(h, s), r) => Arrives(h, r)
              /\ Arrives(Answered(h, s, v), r) => r = s \/ Arrives(h, r)
              /\ Arrives(Failed(h, s), r) => Arrives(h, r)
              /\ Arrives(Arrived(h, s), r) => Arrives(h, r)
  BY DEF Hook, Request, Ticked, Answered, Failed, Arrived, Arrives, Asked, NoRequest

(* A new effect, by mounting or by a refresh, has no answer waiting.       *)
LEMMA FreshHooks ==
  ASSUME NEW n \in Nat
  PROVE  /\ Unmounted \in Hook(0) /\ Mounted(n) \in Hook(n)
         /\ \A r \in 1..n : ~Arrives(Mounted(n), r)
         /\ \A h \in Hook(n) : /\ Refreshed(h) \in Hook(n)
                               /\ \A r \in 1..n : ~Arrives(Refreshed(h), r)
<1>1. FirstAsk(n) \in [1..n -> Request] /\ \A r \in 1..n : FirstAsk(n)[r].at # "answered"
  BY DEF FirstAsk, Asked, NoRequest, Request
<1>2. ASSUME NEW h \in Hook(n)
      PROVE  Len(h.asked) = n
  <2>1. h.asked \in [1..n -> Request]
    BY DEF Hook
  <2>2. h.asked \in Seq(Request)
    BY <2>1
  <2>. QED
    BY <2>1, <2>2
<1>3. Unmounted \in Hook(0)
  BY DEF Unmounted, Hook
<1>. QED
  BY <1>1, <1>2, <1>3 DEF Hook, Mounted, Refreshed, Arrives

-----------------------------------------------------------------------------
(* The retention card *)
LEMMA PollKeeps ==
  ASSUME CardInv, NEW s \in DOMAIN cfg.asked,
         Poll(s) \/ Answer(s) \/ PollFails(s) \/ Arrive(s)
  PROVE  CardInv'
<1>1. PICK n \in {0, CardPolls} : cfg \in Hook(n)
  BY DEF CardInv, CardType, CardHook
<1>2. n \in Nat /\ 1..n \subseteq 1..CardPolls
  BY FormAssumption
<1>3. DOMAIN cfg.asked = 1..n
  BY <1>1 DEF Hook
<1>4. policy \in Policy \cup {None}
  BY DEF CardInv, CardType
<1>5. CASE Poll(s)
  <2>1. cfg' \in Hook(n) /\ \A r \in 1..n : Arrives(cfg', r) => Arrives(cfg, r)
    BY <1>1, <1>2, <1>3, <1>4, <1>5, HookSteps DEF Poll
  <2>2. DOMAIN cfg'.asked = 1..n
    BY <2>1 DEF Hook
  <2>. QED
    BY <1>3, <1>5, <2>1, <2>2 DEF CardInv, CardType, CardHook, InStep, NoneStale, Poll, form
<1>6. CASE Answer(s)
  <2>1. /\ cfg' \in Hook(n)
        /\ \A r \in 1..n : Arrives(cfg', r) => r = s \/ Arrives(cfg, r)
    BY <1>1, <1>2, <1>3, <1>4, <1>6, HookSteps DEF Answer
  <2>2. DOMAIN cfg'.asked = 1..n
    BY <2>1 DEF Hook
  <2>. QED
    BY <1>3, <1>6, <2>1, <2>2 DEF CardInv, CardType, CardHook, InStep, NoneStale, Answer, form
<1>7. CASE PollFails(s)
  <2>1. cfg' \in Hook(n) /\ \A r \in 1..n : Arrives(cfg', r) => Arrives(cfg, r)
    BY <1>1, <1>2, <1>3, <1>4, <1>7, HookSteps DEF PollFails
  <2>2. DOMAIN cfg'.asked = 1..n
    BY <2>1 DEF Hook
  <2>. QED
    BY <1>3, <1>7, <2>1, <2>2 DEF CardInv, CardType, CardHook, InStep, NoneStale, PollFails, form
<1>8. CASE Arrive(s)
  <2>1. cfg' \in Hook(n) /\ \A r \in 1..n : Arrives(cfg', r) => Arrives(cfg, r)
    BY <1>1, <1>2, <1>3, <1>4, <1>8, HookSteps DEF Arrive
  <2>2. DOMAIN cfg'.asked = 1..n
    BY <2>1 DEF Hook
  <2>3. edited' \in {{}, edited} /\ InStep'
    BY <1>8 DEF Arrive, InStep, CardInv
  <2>. QED
    BY <1>3, <1>8, <2>1, <2>2, <2>3 DEF CardInv, CardType, CardHook, NoneStale, Arrive
<1>. QED
  BY <1>5, <1>6, <1>7, <1>8

(* Typing, saving and what other browsers save keep the card's invariant.  *)
LEMMA FormKeeps ==
  ASSUME CardInv,
         \/ \E f \in Field, text \in Value \cup {Bad} : Type(f, text)
         \/ Submit \/ Store \/ Confirm \/ SaveFails \/ OthersSave
  PROVE  CardInv'
<1>. USE DEF CardInv, CardType, CardHook, InStep, NoneStale, form
<1>1. ASSUME NEW f \in Field, NEW text \in Value \cup {Bad}, Type(f, text)
      PROVE  CardInv'
  BY <1>1 DEF Type
<1>2. CASE Submit
  BY <1>2 DEF Submit
<1>3. CASE Store
  <2>1. PICK n \in {0, CardPolls} : cfg \in Hook(n)
    OBVIOUS
  <2>2. DOMAIN cfg.asked \subseteq 1..CardPolls
    BY <2>1, FormAssumption DEF Hook
  <2>3. save' \in [policy : Policy, stored : BOOLEAN] /\ policy' \in Policy
    BY <1>3 DEF Store
  <2>4. ~saved
    BY <1>3 DEF Store
  <2>. QED
    BY <1>3, <2>2, <2>3, <2>4 DEF Store
<1>4. CASE Confirm
  <2>1. PICK n \in {0, CardPolls} : cfg \in Hook(n)
    OBVIOUS
  <2>2. n \in Nat
    BY FormAssumption
  <2>3. cfg' \in Hook(n) /\ \A r \in 1..n : ~Arrives(cfg', r)
    BY <1>4, <2>1, <2>2, FreshHooks DEF Confirm
  <2>4. DOMAIN cfg'.asked = 1..n
    BY <2>3 DEF Hook
  <2>. QED
    BY <1>4, <2>3, <2>4 DEF Confirm
<1>5. CASE SaveFails
  BY <1>5 DEF SaveFails
<1>6. CASE OthersSave
  BY <1>6 DEF OthersSave
<1>. QED
  BY <1>1, <1>2, <1>3, <1>4, <1>5, <1>6

(* Opening and leaving the tab keep the card's invariant.                  *)
LEMMA RouteKeepsCard ==
  ASSUME CardInv, Mount \/ Unmount
  PROVE  CardInv'
<1>1. CASE Mount
  <2>1. CardPolls \in Nat
    BY FormAssumption
  <2>2. /\ cfg' \in Hook(CardPolls) /\ \A r \in 1..CardPolls : ~Arrives(cfg', r)
        /\ DOMAIN cfg'.asked = 1..CardPolls
    BY <1>1, <2>1, FreshHooks DEF Mount, Hook
  <2>. QED
    BY <1>1, <2>2 DEF Mount, CardInv, CardType, CardHook, InStep, NoneStale, form
<1>2. CASE Unmount
  <2>1. cfg' \in Hook(0)
    BY <1>2, FreshHooks DEF Unmount
  <2>. QED
    BY <1>2, <2>1 DEF Unmount, CardInv, CardType, CardHook, InStep, NoneStale
<1>. QED
  BY <1>1, <1>2

(* The card's invariant holds throughout.                                  *)
LEMMA CardInvHolds == Spec => []CardInv
<1>1. Init => CardInv
  BY FreshHooks DEF Init, CardInit, CardInv, CardType, CardHook, InStep, NoneStale
<1>2. CardInv /\ [Next]_appVars => CardInv'
  <2>. SUFFICES ASSUME CardInv, [Next]_appVars PROVE CardInv'
    OBVIOUS
  <2>1. CASE UNCHANGED cardVars
    BY <2>1 DEF cardVars, form, CardInv, CardType, CardHook, InStep, NoneStale
  <2>2. ASSUME NEW r \in Route, SetRoute(r) PROVE CardInv'
    BY <2>2, RouteKeepsCard DEF SetRoute
  <2>3. CASE CardNext
    BY <2>3, PollKeeps, FormKeeps DEF CardNext
  <2>. QED
    BY <2>1, <2>2, <2>3 DEF Next, appVars
<1>. QED
  BY <1>1, <1>2, PTL DEF Spec

(* A poll answered while the tab is open leaves the     *)
(* fields alone that the user has typed in, and so does everything else    *)
(* that touches the hook.                                                  *)
THEOREM EditsAreKept == Spec => EditsKept
<1>1. CardInv /\ [Next]_appVars
        => [cfg'.asked # cfg.asked /\ cfg' # Unmounted
              => \A f \in edited : draft'[f] = draft[f]]_cardVars
  <2>. SUFFICES ASSUME CardInv, [Next]_appVars, cfg'.asked # cfg.asked, cfg' # Unmounted,
                       NEW f \in edited
                PROVE  draft'[f] = draft[f]
    OBVIOUS
  <2>1. UNCHANGED cardVars => draft' = draft
    BY DEF cardVars, form
  <2>2. ASSUME NEW r \in Route, SetRoute(r) PROVE draft' = draft
    BY <2>2 DEF SetRoute, Mount, Unmount, form
  <2>3. ASSUME NEW s \in DOMAIN cfg.asked, Poll(s) \/ Answer(s) \/ PollFails(s)
        PROVE  draft' = draft
    BY <2>3 DEF Poll, Answer, PollFails, form
  <2>4. ASSUME NEW s \in DOMAIN cfg.asked, Arrive(s) PROVE draft' = draft
    BY <2>4 DEF Arrive, Sync, CardInv, InStep
  <2>5. ASSUME NEW g \in Field, NEW text \in Value \cup {Bad}, Type(g, text) PROVE FALSE
    BY <2>5 DEF Type
  <2>6. CASE Submit \/ Store \/ Confirm \/ SaveFails \/ OthersSave
    BY <2>6 DEF Submit, Store, Confirm, SaveFails, OthersSave, form
  <2>. QED
    BY <2>1, <2>2, <2>3, <2>4, <2>5, <2>6 DEF Next, CardNext, appVars
<1>. QED
  BY <1>1, CardInvHolds, PTL DEF Spec, EditsKept

(* After a save is confirmed no answer is shown that the server gave       *)
(* before it stored the save, however late the answer comes.               *)
THEOREM ConfirmedIsShown == Spec => ConfirmedShown
<1>1. CardInv /\ [Next]_appVars
        => [\A s \in DOMAIN cfg.asked :
              saved /\ Arrives(cfg, s) /\ cfg' = Arrived(cfg, s) => s \notin old]_cardVars
  BY DEF CardInv, NoneStale
<1>. QED
  BY <1>1, CardInvHolds, PTL DEF Spec, ConfirmedShown

-----------------------------------------------------------------------------
(* The restore modal *)
LEMMA ModalStep ==
  ASSUME ModalInv,
         \/ OpenModal \/ CloseModal \/ CancelOverwrite \/ SubmitModal \/ ModalLost
         \/ ModalAnswered \/ \E t \in Target : Choose(t)
         \/ \E exists \in BOOLEAN : ModalHandled(exists)
  PROVE  ModalInv'
<1>. USE DEF ModalInv, Modal, PartialRequest, Consent
<1>1. CASE OpenModal
  BY <1>1, PageAssumption DEF OpenModal
<1>2. CASE CloseModal
  BY <1>2 DEF CloseModal
<1>3. CASE CancelOverwrite
  BY <1>3 DEF CancelOverwrite, Idle
<1>4. CASE SubmitModal
  BY <1>4 DEF SubmitModal, Idle
<1>5. CASE ModalLost
  BY <1>5 DEF ModalLost
<1>6. CASE ModalAnswered
  BY <1>6 DEF ModalAnswered
<1>7. ASSUME NEW t \in Target, Choose(t) PROVE ModalInv'
  BY <1>7 DEF Choose, Idle
<1>8. ASSUME NEW exists \in BOOLEAN, ModalHandled(exists) PROVE ModalInv'
  <2>1. PICK outcome \in {"refused", "exists", "started"} :
          modal' = [modal EXCEPT !.request.outcome = outcome]
    BY <1>8 DEF ModalHandled
  <2>2. /\ modal \in Modal /\ modal.request \in PartialRequest /\ modal.request # None
        /\ Consent
    BY <1>8 DEF ModalHandled
  <2>3. [modal.request EXCEPT !.outcome = outcome]
          = [target |-> modal.request.target, overwrite |-> modal.request.overwrite,
             outcome |-> outcome]
    BY <2>2
  <2>4. modal' = [target |-> modal.target, conflict |-> modal.conflict,
                  request |-> [target |-> modal.request.target,
                               overwrite |-> modal.request.overwrite,
                               outcome |-> outcome]]
    BY <2>1, <2>2, <2>3
  <2>5. modal' \in Modal
    BY <2>2, <2>4
  <2>6. Consent'
    BY <2>2, <2>4
  <2>. QED
    BY <2>5, <2>6
<1>. QED
  BY <1>1, <1>2, <1>3, <1>4, <1>5, <1>6, <1>7, <1>8

(* The modal's invariant holds throughout.                                 *)
LEMMA ModalInvHolds == Spec => []ModalInv
<1>1. Init => ModalInv
  BY DEF Init, PageInit, ModalInv
<1>2. ModalInv /\ [Next]_appVars => ModalInv'
  <2>. SUFFICES ASSUME ModalInv, [Next]_appVars PROVE ModalInv'
    OBVIOUS
  <2>1. CASE modal' = modal
    BY <2>1 DEF ModalInv, Consent
  <2>2. ASSUME NEW r \in Route, SetRoute(r) PROVE modal' = None
    BY <2>2 DEF SetRoute, PageMount, PageUnmount
  <2>3. CASE RestoreHandled \/ RestoreAnswered \/ RestoreLost \/ StartRestore
    BY <2>1, <2>3 DEF RestoreHandled, RestoreAnswered, RestoreLost, StartRestore
  <2>4. ASSUME NEW k \in Restore, PollStatus(k) \/ Ends(k) \/ OtherStarts(k)
        PROVE  modal' = modal
    BY <2>4 DEF PollStatus, StatusPoll, StatusAnswer, StatusArrives, Ends, OtherStarts
  <2>5. ASSUME NEW k \in Restore, NEW s \in DOMAIN status[k].asked, StatusFails(k, s)
        PROVE  modal' = modal
    BY <2>5 DEF StatusFails
  <2>6. CASE PageNext
    BY <2>1, <2>3, <2>4, <2>5, <2>6, ModalStep DEF PageNext, Settle
  <2>7. CASE UNCHANGED pageVars
    BY <2>1, <2>7 DEF pageVars
  <2>8. modal' = None => ModalInv'
    BY DEF ModalInv
  <2>. QED
    BY <2>2, <2>6, <2>7, <2>8 DEF Next, appVars
<1>. QED
  BY <1>1, <1>2, PTL DEF Spec

(* A request that overwrites is for the target whose conflict is on show.  *)
THEOREM ConsentIsShown == Spec => []ConsentShown
<1>1. ModalInv => ConsentShown
  BY DEF ModalInv, Consent, ConsentShown
<1>. QED
  BY <1>1, ModalInvHolds, PTL

=============================================================================
