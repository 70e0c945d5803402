------------------------- MODULE HostRestoreProofs -------------------------
(***************************************************************************)
(* Proofs about HostRestore for any number of requests and paths: its      *)
(* types, the single flight, and, when the operations that make the stash  *)
(* cannot fail, that no content is lost.                                   *)
(***************************************************************************)
EXTENDS HostRestore, TLAPS

(* Every content that a step of runRestore writes is a content. *)
LEMMA ContentTyped ==
  /\ Absent \in Content /\ Original \in Content
  /\ \A r \in Request : Partial(r) \in Content /\ Full(r) \in Content
BY DEF Content, Absent, Original, Partial, Full

(* The path a request resolves to is a target. *)
LEMMA PathTyped ==
  ASSUME TypeOK, NEW r \in Request PROVE Path(r) \in Target
BY DEF TypeOK, Body, Path

(* The state always has the declared shape: in particular every step a     *)
(* request may reach is one of the awaits of the handler or runRestore.    *)
THEOREM TypeCorrect == Spec => []TypeOK
<1> USE ContentTyped, PathTyped DEF TypeOK, State, Step, Busy, Put, Goto, At,
                                    disk
<1>1. Init => TypeOK
  BY DEF Init
<1>2. TypeOK /\ [Next]_vars => TypeOK'
  <2> SUFFICES ASSUME TypeOK, [Next]_vars PROVE TypeOK'
    OBVIOUS
  <2>1. CASE Reset
    BY <2>1 DEF Reset
  <2>2. CASE Crash
    BY <2>2 DEF Crash
  <2>3. ASSUME NEW r \in Request, Reject(r) \/ Refuse(r) PROVE TypeOK'
    BY <2>3 DEF Reject, Refuse
  <2>4. ASSUME NEW r \in Request, Reserve(r) PROVE TypeOK'
    BY <2>4 DEF Reserve, Launch, GiveBack
  <2>5. ASSUME NEW r \in Request, Probe(r) PROVE TypeOK'
    BY <2>5 DEF Probe, Launch, GiveBack
  <2>6. ASSUME NEW r \in Request, Stat(r) PROVE TypeOK'
    BY <2>6 DEF Stat
  <2>7. ASSUME NEW r \in Request, Stash(r) PROVE TypeOK'
    BY <2>7 DEF Stash
  <2>8. ASSUME NEW r \in Request, Fetch(r) PROVE TypeOK'
    BY <2>8 DEF Fetch
  <2>9. ASSUME NEW r \in Request, Open(r) PROVE TypeOK'
    BY <2>9 DEF Open
  <2>10. ASSUME NEW r \in Request, Write(r) PROVE TypeOK'
    BY <2>10 DEF Write
  <2>11. ASSUME NEW r \in Request, Cleanup(r) PROVE TypeOK'
    BY <2>11 DEF Cleanup
  <2>12. ASSUME NEW r \in Request, Scrub(r) PROVE TypeOK'
    BY <2>12 DEF Scrub
  <2>13. ASSUME NEW r \in Request, Rollback(r) PROVE TypeOK'
    BY <2>13 DEF Rollback
  <2>14. CASE UNCHANGED vars
    BY <2>14 DEF vars
  <2> QED
    BY <2>1, <2>2, <2>3, <2>4, <2>5, <2>6, <2>7, <2>8, <2>9, <2>10, <2>11,
       <2>12, <2>13, <2>14 DEF Next, Continue
<1> QED
  BY <1>1, <1>2, PTL DEF Spec

-----------------------------------------------------------------------------
(* SingleFlight is inductive together with the types: a request becomes    *)
(* busy only in Reserve, which finds the slot free and takes it in the     *)
(* same step, and every step that ends a run gives the slot back.          *)
LEMMA SingleFlightStep ==
  TypeOK /\ SingleFlight /\ [Next]_vars => SingleFlight'
<1> SUFFICES ASSUME TypeOK, SingleFlight, [Next]_vars PROVE SingleFlight'
  OBVIOUS
<1> USE NoneAssumption DEF TypeOK, SingleFlight, State, Step, Busy, Running,
        Goto, At
<1>1. CASE Reset
  BY <1>1 DEF Reset
<1>2. CASE Crash
  BY <1>2 DEF Crash
<1>3. ASSUME NEW r \in Request, Reject(r) \/ Refuse(r) PROVE SingleFlight'
  BY <1>3 DEF Reject, Refuse
<1>4. ASSUME NEW r \in Request, Reserve(r) PROVE SingleFlight'
  BY <1>4 DEF Reserve, Launch, GiveBack
<1>5. ASSUME NEW r \in Request, Probe(r) PROVE SingleFlight'
  BY <1>5 DEF Probe, Launch, GiveBack
<1>6. ASSUME NEW r \in Request, Stat(r) PROVE SingleFlight'
  BY <1>6 DEF Stat
<1>7. ASSUME NEW r \in Request, Stash(r) PROVE SingleFlight'
  BY <1>7 DEF Stash
<1>8. ASSUME NEW r \in Request, Fetch(r) PROVE SingleFlight'
  BY <1>8 DEF Fetch
<1>9. ASSUME NEW r \in Request, Open(r) PROVE SingleFlight'
  BY <1>9 DEF Open
<1>10. ASSUME NEW r \in Request, Write(r) PROVE SingleFlight'
  BY <1>10 DEF Write
<1>11. ASSUME NEW r \in Request, Cleanup(r) PROVE SingleFlight'
  BY <1>11 DEF Cleanup
<1>12. ASSUME NEW r \in Request, Scrub(r) PROVE SingleFlight'
  BY <1>12 DEF Scrub
<1>13. ASSUME NEW r \in Request, Rollback(r) PROVE SingleFlight'
  BY <1>13 DEF Rollback
<1>14. CASE UNCHANGED vars
  BY <1>14 DEF vars
<1> QED
  BY <1>1, <1>2, <1>3, <1>4, <1>5, <1>6, <1>7, <1>8, <1>9, <1>10, <1>11,
     <1>12, <1>13, <1>14 DEF Next, Continue

(* At most one restore runs, and it is the one the status describes, for   *)
(* every number of requests and whatever fails.                            *)
THEOREM SingleFlightHolds == Spec => []SingleFlight
<1>1. Init => SingleFlight
  BY DEF Init, SingleFlight, Running, Busy
<1> QED
  BY <1>1, SingleFlightStep, TypeCorrect, PTL DEF Spec

-----------------------------------------------------------------------------
(* What makes ContentRecoverable inductive: the content a user relies on   *)
(* is never a partial one, a request has no stash before it made one, the  *)
(* path it writes to was emptied first, and what it writes is new, so that *)
(* a stash it removes is not what the user now relies on.                  *)
GoodIsWhole == \A t \in Target : good[t].kind # "partial"

NoStashYet ==
  \A r \in Request :
    pc[r] \in {"new", "probe", "stat", "stash"} => stash[r] = Absent

PathEmptied ==
  \A r \in Request :
    /\ pc[r] \in {"fetch", "open"} => held[Path(r)] = Absent
    /\ pc[r] \in {"write", "scrub", "rollback"} =>
         held[Path(r)] = Absent \/ held[Path(r)].kind = "partial"

Fresh ==
  \A r \in Request :
    pc[r] \notin {"cleanup", "done"} =>
      /\ \A t \in Target : held[t] # Full(r) /\ good[t] # Full(r)
      /\ \A s \in Request : stash[s] # Full(r)

StashOutlived ==
  \A r \in Request : pc[r] = "cleanup" => stash[r] # good[Path(r)]

RecoverInv ==
  /\ GoodIsWhole
  /\ NoStashYet
  /\ PathEmptied
  /\ Fresh
  /\ StashOutlived
  /\ ContentRecoverable

(* An empty path, a half-written one and a whole one can be told apart. *)
LEMMA ContentDistinct ==
  /\ Absent.kind = "absent"
  /\ \A r \in Request :
       /\ Partial(r).kind = "partial"
       /\ Full(r).kind = "full"
       /\ \A s \in Request : Full(r) = Full(s) => r = s
BY DEF Absent, Partial, Full

(* Steps that touch no content: what is left to check is that a request    *)
(* that enters a phase meets its obligations.                              *)
LEMMA QuietStep ==
  ASSUME RecoverInv, TypeOK, UNCHANGED <<req, disk>>,
         \A r \in Request :
            \/ pc'[r] = pc[r]
            \/ pc'[r] = "done"
            \/ /\ pc[r] \notin {"cleanup", "done"}
               /\ pc'[r] # "cleanup"
               /\ pc'[r] \in {"new", "probe", "stat", "stash"} =>
                    pc[r] \in {"new", "probe", "stat", "stash"}
               /\ pc'[r] \in {"fetch", "open"} => held[Path(r)] = Absent
               /\ pc'[r] \in {"write", "scrub", "rollback"} =>
                    held[Path(r)] = Absent \/ held[Path(r)].kind = "partial"
  PROVE  RecoverInv'
<1> USE DEF RecoverInv, disk, Path
<1>1. (GoodIsWhole /\ ContentRecoverable)'
  BY DEF GoodIsWhole, ContentRecoverable
<1>2. NoStashYet'
  BY DEF NoStashYet
<1>3. PathEmptied'
  BY DEF PathEmptied
<1>4. Fresh'
  BY DEF Fresh
<1>5. StashOutlived'
  BY DEF StashOutlived
<1> QED
  BY <1>1, <1>2, <1>3, <1>4, <1>5

(* Each step of a request keeps RecoverInv.  SingleFlight is what keeps    *)
(* two requests from emptying and filling the same path in turn.           *)
LEMMA RecoverStep ==
  ASSUME "stat" \notin Faults, "stash" \notin Faults
  PROVE  TypeOK /\ SingleFlight /\ RecoverInv /\ [Next]_vars => RecoverInv'
<1> SUFFICES ASSUME TypeOK, SingleFlight, RecoverInv, [Next]_vars
             PROVE  RecoverInv'
  OBVIOUS
<1> USE PathTyped, ContentDistinct
<1>1. CASE Reset
  BY <1>1, QuietStep DEF Reset
<1>2. CASE Crash
  BY <1>2, QuietStep DEF Crash
<1>3. ASSUME NEW r \in Request, Reject(r) \/ Refuse(r) PROVE RecoverInv'
  <2>1. UNCHANGED <<req, disk>>
    BY <1>3 DEF Reject, Refuse
  <2>2. \A x \in Request : pc'[x] = pc[x] \/ pc'[x] = "done"
    BY <1>3 DEF Reject, Refuse, Goto, TypeOK
  <2> QED
    BY <2>1, <2>2, QuietStep
<1>4. ASSUME NEW r \in Request, Reserve(r) PROVE RecoverInv'
  BY <1>4, QuietStep DEF Reserve, Goto, At, TypeOK, Launch, GiveBack
<1>5. ASSUME NEW r \in Request, Probe(r) PROVE RecoverInv'
  BY <1>5, QuietStep DEF Probe, Goto, At, TypeOK, Launch, GiveBack
<1>6. ASSUME NEW r \in Request, Stat(r) PROVE RecoverInv'
  BY <1>6, QuietStep DEF Stat, Goto, At, TypeOK, Seen, Missed, MayFail
<1>7. ASSUME NEW r \in Request, Fetch(r) PROVE RecoverInv'
  BY <1>7, QuietStep DEF Fetch, Goto, At, TypeOK, RecoverInv, PathEmptied
<1>8. ASSUME NEW r \in Request, Stash(r) PROVE RecoverInv'
  <2> USE <1>8 DEF Stash, Goto, At, Put, Path, TypeOK, MayFail, RecoverInv
  <2>1. GoodIsWhole'
    BY DEF GoodIsWhole
  <2>2. NoStashYet'
    BY DEF NoStashYet
  <2>3. PathEmptied'
    BY DEF PathEmptied, SingleFlight, Busy
  <2>4. Fresh'
    BY DEF Fresh
  <2>5. StashOutlived'
    BY DEF StashOutlived, Fresh, GoodIsWhole
  <2>6. ContentRecoverable'
    BY DEF ContentRecoverable, NoStashYet, PathEmptied, GoodIsWhole, StashOutlived
  <2> QED
    BY <2>1, <2>2, <2>3, <2>4, <2>5, <2>6
<1>9. ASSUME NEW r \in Request, Open(r) PROVE RecoverInv'
  <2> USE <1>9 DEF Open, Goto, At, Put, Path, TypeOK, MayFail, RecoverInv
  <2>1. GoodIsWhole'
    BY DEF GoodIsWhole
  <2>2. NoStashYet'
    BY DEF NoStashYet
  <2>3. PathEmptied'
    BY DEF PathEmptied, SingleFlight, Busy
  <2>4. Fresh'
    BY DEF Fresh
  <2>5. StashOutlived'
    BY DEF StashOutlived, Fresh, GoodIsWhole
  <2>6. ContentRecoverable'
    BY DEF ContentRecoverable, NoStashYet, PathEmptied, GoodIsWhole, StashOutlived
  <2> QED
    BY <2>1, <2>2, <2>3, <2>4, <2>5, <2>6
<1>10. ASSUME NEW r \in Request, Write(r) PROVE RecoverInv'
  <2> USE <1>10 DEF Write, Goto, At, Put, Path, TypeOK, MayFail, RecoverInv
  <2>1. GoodIsWhole'
    BY DEF GoodIsWhole
  <2>2. NoStashYet'
    BY DEF NoStashYet
  <2>3. PathEmptied'
    BY DEF PathEmptied, SingleFlight, Busy
  <2>4. Fresh'
    BY DEF Fresh
  <2>5. StashOutlived'
    BY DEF StashOutlived, Fresh, GoodIsWhole
  <2>6. ContentRecoverable'
    BY DEF ContentRecoverable, NoStashYet, PathEmptied, GoodIsWhole, StashOutlived
  <2> QED
    BY <2>1, <2>2, <2>3, <2>4, <2>5, <2>6
<1>11. ASSUME NEW r \in Request, Cleanup(r) PROVE RecoverInv'
  <2> USE <1>11 DEF Cleanup, Goto, At, Put, Path, TypeOK, MayFail, RecoverInv
  <2>1. GoodIsWhole'
    BY DEF GoodIsWhole
  <2>2. NoStashYet'
    BY DEF NoStashYet
  <2>3. PathEmptied'
    BY DEF PathEmptied, SingleFlight, Busy
  <2>4. Fresh'
    BY DEF Fresh
  <2>5. StashOutlived'
    BY DEF StashOutlived, Fresh, GoodIsWhole
  <2>6. ContentRecoverable'
    BY DEF ContentRecoverable, NoStashYet, PathEmptied, GoodIsWhole, StashOutlived
  <2> QED
    BY <2>1, <2>2, <2>3, <2>4, <2>5, <2>6
<1>12. ASSUME NEW r \in Request, Scrub(r) PROVE RecoverInv'
  <2> USE <1>12 DEF Scrub, Goto, At, Put, Path, TypeOK, MayFail, RecoverInv
  <2>1. GoodIsWhole'
    BY DEF GoodIsWhole
  <2>2. NoStashYet'
    BY DEF NoStashYet
  <2>3. PathEmptied'
    BY DEF PathEmptied, SingleFlight, Busy
  <2>4. Fresh'
    BY DEF Fresh
  <2>5. StashOutlived'
    BY DEF StashOutlived, Fresh, GoodIsWhole
  <2>6. ContentRecoverable'
    BY DEF ContentRecoverable, NoStashYet, PathEmptied, GoodIsWhole, StashOutlived
  <2> QED
    BY <2>1, <2>2, <2>3, <2>4, <2>5, <2>6
<1>13. ASSUME NEW r \in Request, Rollback(r) PROVE RecoverInv'
  <2> USE <1>13 DEF Rollback, Goto, At, Put, Path, TypeOK, MayFail, RecoverInv
  <2>1. GoodIsWhole'
    BY DEF GoodIsWhole
  <2>2. NoStashYet'
    BY DEF NoStashYet
  <2>3. PathEmptied'
    BY DEF PathEmptied, SingleFlight, Busy
  <2>4. Fresh'
    BY DEF Fresh
  <2>5. StashOutlived'
    BY DEF StashOutlived, Fresh, GoodIsWhole
  <2>6. ContentRecoverable'
    BY DEF ContentRecoverable, NoStashYet, PathEmptied, GoodIsWhole, StashOutlived
  <2> QED
    BY <2>1, <2>2, <2>3, <2>4, <2>5, <2>6
<1>14. CASE UNCHANGED vars
  BY <1>14, QuietStep DEF vars, disk
<1> QED
  BY <1>1, <1>2, <1>3, <1>4, <1>5, <1>6, <1>7, <1>8, <1>9, <1>10, <1>11,
     <1>12, <1>13, <1>14 DEF Next, Continue

(* RecoverInv holds throughout when the stash can be made. *)
LEMMA RecoverInvHolds ==
  ASSUME "stat" \notin Faults, "stash" \notin Faults
  PROVE  Spec => []RecoverInv
<1>1. Init => RecoverInv
  BY ContentDistinct
     DEF Init, RecoverInv, GoodIsWhole, NoStashYet, PathEmptied, Fresh,
         StashOutlived, ContentRecoverable, Absent, Original, Full
<1>2. TypeOK /\ SingleFlight /\ RecoverInv /\ [Next]_vars => RecoverInv'
  BY RecoverStep
<1> QED
  BY <1>1, <1>2, TypeCorrect, SingleFlightHolds, PTL DEF Spec

(* When the stat and the rename that make the stash cannot fail, what a    *)
(* user relied on survives any sequence of restores, failures and process  *)
(* deaths.  The run HostRestoreStash shows that the assumption is needed.  *)
THEOREM ContentIsRecoverable ==
  ASSUME "stat" \notin Faults, "stash" \notin Faults
  PROVE  Spec => []ContentRecoverable
<1>1. RecoverInv => ContentRecoverable
  BY DEF RecoverInv
<1> QED
  BY <1>1, RecoverInvHolds, PTL

-----------------------------------------------------------------------------
(* A request without confirmOverwrite gets past the probe only if its path *)
(* is empty, the path stays empty until it is looked at again, and so the  *)
(* restore never makes a stash.                                            *)
ConsentInv ==
  \A r \in Request : ~req[r].overwrite =>
    /\ pc[r] = "stat" => held[Path(r)] = Absent
    /\ pc[r] # "stash"
    /\ pc[r] \in {"new", "probe", "stat", "fetch", "open", "write"} =>
         stash[r] = Absent

(* Each step keeps ConsentInv.  Only one request is busy, so none but the  *)
(* request itself fills the path it has probed.                            *)
LEMMA ConsentStep ==
  ASSUME "probe" \notin Faults
  PROVE  TypeOK /\ SingleFlight /\ ConsentInv /\ [Next]_vars => ConsentInv'
<1> SUFFICES ASSUME TypeOK, SingleFlight, ConsentInv, [Next]_vars
             PROVE  ConsentInv'
  OBVIOUS
<1> USE DEF ConsentInv, Goto, At, Path, disk
<1>1. CASE Reset
  BY <1>1 DEF Reset
<1>2. CASE Crash
  BY <1>2 DEF Crash
<1>3. ASSUME NEW r \in Request, Reject(r) \/ Refuse(r) PROVE ConsentInv'
  BY <1>3 DEF Reject, Refuse, TypeOK
<1>4. ASSUME NEW r \in Request, Reserve(r) PROVE ConsentInv'
  BY <1>4 DEF Reserve, MustProbe, Launch, TypeOK
<1>5. ASSUME NEW r \in Request, Probe(r) PROVE ConsentInv'
  BY <1>5 DEF Probe, Launch, Missed, MayFail, TypeOK
<1>6. ASSUME NEW r \in Request, Stat(r) PROVE ConsentInv'
  BY <1>6 DEF Stat, Seen, TypeOK
<1>7. ASSUME NEW r \in Request, Stash(r) PROVE ConsentInv'
  BY <1>7 DEF Stash, Put, TypeOK, SingleFlight, Busy
<1>8. ASSUME NEW r \in Request, Fetch(r) PROVE ConsentInv'
  BY <1>8 DEF Fetch, TypeOK
<1>9. ASSUME NEW r \in Request, Open(r) PROVE ConsentInv'
  BY <1>9 DEF Open, Put, TypeOK, SingleFlight, Busy
<1>10. ASSUME NEW r \in Request, Write(r) PROVE ConsentInv'
  BY <1>10 DEF Write, Put, TypeOK, SingleFlight, Busy
<1>11. ASSUME NEW r \in Request, Cleanup(r) PROVE ConsentInv'
  BY <1>11 DEF Cleanup, TypeOK
<1>12. ASSUME NEW r \in Request, Scrub(r) PROVE ConsentInv'
  BY <1>12 DEF Scrub, Put, TypeOK, SingleFlight, Busy
<1>13. ASSUME NEW r \in Request, Rollback(r) PROVE ConsentInv'
  BY <1>13 DEF Rollback, Put, TypeOK, SingleFlight, Busy
<1>14. CASE UNCHANGED vars
  BY <1>14 DEF vars
<1> QED
  BY <1>1, <1>2, <1>3, <1>4, <1>5, <1>6, <1>7, <1>8, <1>9, <1>10, <1>11,
     <1>12, <1>13, <1>14 DEF Next, Continue

(* When the probe cannot fail, no request completes over a path that held  *)
(* something unless it was sent with confirmOverwrite.  (safeStat takes a  *)
(* failed stat for a missing path: hence the assumption.)                  *)
THEOREM ConsentIsNeeded ==
  ASSUME "probe" \notin Faults
  PROVE  Spec => OverwriteNeedsConsent
<1>1. Init => ConsentInv
  BY DEF Init, ConsentInv
<1>2. TypeOK /\ SingleFlight /\ ConsentInv /\ [Next]_vars => ConsentInv'
  BY ConsentStep
<1>3. TypeOK /\ SingleFlight /\ ConsentInv /\ [Next]_vars
        => [\A r \in Request :
              At(r, "write") /\ status' = "completed" /\ View[Path(r)] # Absent
                => req[r].overwrite]_vars
  BY PathTyped, NoneAssumption
     DEF ConsentInv, SingleFlight, Busy, At, View
<1> QED
  BY <1>1, <1>2, <1>3, TypeCorrect, SingleFlightHolds, PTL
     DEF Spec, OverwriteNeedsConsent

-----------------------------------------------------------------------------
(* The refinement of AtomicRestore.                                        *)

(* From its stash to its outcome a request hides what it does to its path. *)
Hidden == {"fetch", "open", "write", "scrub", "rollback"}

(* The abstract initial states. *)
LEMMA RefinesInit == Init => Atomic!AInit
BY NoneAssumption, ContentTyped
   DEF Init, Atomic!AInit, Atomic!NoJob, Outcome, Running, Job, View

(* What the callers see while nobody is busy, and while a request is.      *)
LEMMA IdleView ==
  ASSUME TypeOK, SingleFlight, ~Running
  PROVE  Outcome = status /\ Outcome # "running" /\ View = held
BY NoneAssumption
   DEF TypeOK, State, SingleFlight, Busy, Outcome, Running, View

(* While a request is busy it owns the job that is seen, and a stashed     *)
(* target is seen as it was.                                               *)
LEMMA BusyView ==
  ASSUME TypeOK, SingleFlight, NEW r \in Request, pc[r] \in Busy
  PROVE  /\ owner = r /\ r # None /\ Outcome = "running"
         /\ Job = [request |-> r, target |-> Path(r)]
         /\ pc[r] \notin Hidden => View = held
         /\ pc[r] \in Hidden => View = [held EXCEPT ![Path(r)] = stash[r]]
BY NoneAssumption, PathTyped
   DEF TypeOK, SingleFlight, Hidden, Outcome, Job, View

(* Every step of the host restore is a step of the atomic one or none.     *)
LEMMA RefinesNext ==
  ASSUME "stat" \notin Faults, "stash" \notin Faults
  PROVE  TypeOK /\ TypeOK' /\ SingleFlight /\ NoStashYet /\ [Next]_vars
           => Atomic!ANext \/ UNCHANGED <<Outcome, Job, View>>
<1> SUFFICES ASSUME TypeOK, TypeOK', SingleFlight, NoStashYet, [Next]_vars
             PROVE  Atomic!ANext \/ UNCHANGED <<Outcome, Job, View>>
  OBVIOUS
<1> USE NoneAssumption, PathTyped DEF At, Goto, disk, Atomic!ANext
<1>1. CASE Reset
  <2>1. View' = held
    BY <1>1 DEF Reset, View, TypeOK
  <2>2. Outcome' = "idle" /\ Job' = Atomic!NoJob
    BY <1>1 DEF Reset, Outcome, Running, Job, Atomic!NoJob
  <2> QED
    BY <1>1, <2>1, <2>2, IdleView DEF Reset, Atomic!Release
<1>2. CASE Crash
  <2>1. View' = held
    BY <1>2 DEF Crash, View, TypeOK
  <2>2. Outcome' = "idle" /\ Job' = Atomic!NoJob
    BY <1>2 DEF Crash, Outcome, Running, Job, Atomic!NoJob
  <2>3. CASE ~Running
    BY <2>1, <2>2, <2>3, IdleView DEF Atomic!Release
  <2>4. CASE Running
    <3>1. PICK r \in Request : pc[r] \in Busy
      BY <2>4 DEF SingleFlight
    <3>2. held = [View EXCEPT ![Path(r)] = held[Path(r)]]
      BY <3>1, BusyView DEF TypeOK
    <3>3. held[Path(r)] \in Content
      BY DEF TypeOK
    <3> QED
      BY <2>1, <2>2, <3>1, <3>2, <3>3, BusyView DEF Atomic!Lose
  <2> QED
    BY <2>3, <2>4
<1>3. ASSUME NEW r \in Request, Reject(r) \/ Refuse(r)
      PROVE  UNCHANGED <<Outcome, Job, View>>
  BY <1>3 DEF Reject, Refuse, Outcome, Running, Job, View, Path, TypeOK
<1>4. ASSUME NEW r \in Request, Reserve(r) PROVE Atomic!ANext
  <2>1. View = held /\ Outcome # "running"
    BY <1>4, IdleView DEF Reserve
  <2>2. CASE status' = "preparing" /\ owner' = r
    <3>1. Outcome' = "running" /\ Job' = [request |-> r, target |-> Path(r)]
      BY <1>4, <2>2 DEF Reserve, Outcome, Running, Job, Path
    <3>2. View' = held
      BY <1>4, <2>2 DEF Reserve, Launch, GiveBack, View, TypeOK
    <3> QED
      BY <2>1, <3>1, <3>2 DEF Atomic!Begin
  <2>3. CASE GiveBack(r)
    BY <1>4, <2>1, <2>3
       DEF Reserve, GiveBack, Outcome, Running, Job, View, Atomic!Release,
           Atomic!NoJob
  <2> QED
    BY <1>4, <2>2, <2>3 DEF Reserve, Launch
<1>5. ASSUME NEW r \in Request, Probe(r)
      PROVE  Atomic!ANext \/ UNCHANGED <<Outcome, Job, View>>
  <2>1. /\ View = held /\ Outcome = "running"
        /\ Job = [request |-> r, target |-> Path(r)]
    BY <1>5, BusyView DEF Probe, Busy, Hidden
  <2>2. CASE status' = "preparing" /\ owner' = r
    <3>1. Outcome' = "running" /\ Job' = [request |-> r, target |-> Path(r)]
      BY <1>5, <2>2 DEF Probe, Outcome, Running, Job, Path
    <3>2. View' = held
      BY <1>5, <2>2 DEF Probe, Launch, GiveBack, View, TypeOK
    <3> QED
      BY <2>1, <3>1, <3>2
  <2>3. CASE GiveBack(r)
    BY <1>5, <2>1, <2>3
       DEF Probe, GiveBack, Outcome, Running, Job, View, Atomic!Release,
           Atomic!NoJob
  <2> QED
    BY <1>5, <2>2, <2>3 DEF Probe, Launch
<1>6. ASSUME NEW r \in Request,
             Stat(r) \/ Stash(r) \/ Fetch(r) \/ Open(r) \/ Cleanup(r)
      PROVE  UNCHANGED <<Outcome, Job, View>>
  <2>1. UNCHANGED Job
    BY <1>6 DEF Stat, Stash, Fetch, Open, Cleanup, Job, Path
  <2>2. UNCHANGED Outcome
    BY <1>6, BusyView
       DEF Stat, Stash, Fetch, Open, Cleanup, Busy, Outcome, Running
  <2>3. UNCHANGED View
    <3>1. CASE Stat(r)
      BY <3>1, BusyView
         DEF Stat, Seen, Missed, MayFail, NoStashYet, Busy, View, Path, TypeOK
    <3>2. CASE Stash(r)
      <4>1. owner = r /\ pc[r] = "stash" /\ pc'[r] = "fetch" /\ owner' = r
        BY <3>2, BusyView DEF Stash, MayFail, Busy, TypeOK
      <4>2. /\ stash'[r] = held[Path(r)] /\ Path(r)' = Path(r)
            /\ \A t \in Target : t # Path(r) => held'[t] = held[t]
        BY <3>2 DEF Stash, Put, MayFail, Path, TypeOK
      <4> QED
        BY <4>1, <4>2 DEF View
    <3>3. CASE Fetch(r)
      BY <3>3, BusyView DEF Fetch, Busy, View, Path, TypeOK
    <3>4. CASE Open(r)
      BY <3>4, BusyView DEF Open, Put, Busy, View, Path, TypeOK
    <3>5. CASE Cleanup(r)
      BY <3>5 DEF Cleanup, View, Path, TypeOK
    <3> QED
      BY <1>6, <3>1, <3>2, <3>3, <3>4, <3>5
  <2> QED
    BY <2>1, <2>2, <2>3
<1>7. ASSUME NEW r \in Request, Write(r) \/ Scrub(r) \/ Rollback(r)
      PROVE  Atomic!ANext \/ UNCHANGED <<Outcome, Job, View>>
  <2>1. /\ pc[r] \in Busy /\ pc[r] \in Hidden
        /\ owner = r /\ Outcome = "running"
        /\ Job = [request |-> r, target |-> Path(r)]
        /\ View = [held EXCEPT ![Path(r)] = stash[r]]
    BY <1>7, BusyView DEF Write, Scrub, Rollback, Busy, Hidden
  <2>2. UNCHANGED Job
    BY <1>7 DEF Write, Scrub, Rollback, Job, Path
  <2>3. CASE pc'[r] \in Hidden
    <3>1. UNCHANGED Outcome
      BY <1>7, <2>1, <2>3
         DEF Write, Scrub, Rollback, Hidden, Outcome, Running, TypeOK
    <3>2. UNCHANGED View
      BY <1>7, <2>1, <2>3
         DEF Write, Scrub, Rollback, Put, Hidden, View, Path, TypeOK
    <3> QED
      BY <2>2, <3>1, <3>2
  <2>4. CASE pc'[r] \notin Hidden
    <3>1. View' = held'
      BY <1>7, <2>1, <2>4
         DEF Write, Scrub, Rollback, Hidden, View, TypeOK
    <3>2. held' = [View EXCEPT ![Path(r)] = held'[Path(r)]]
      BY <1>7, <2>1 DEF Write, Scrub, Rollback, Put, TypeOK
    <3>3. held'[Path(r)] \in Content
      BY DEF TypeOK, Path
    <3>4. \/ Outcome' = "completed" /\ held'[Path(r)] = Full(r)
          \/ Outcome' = "rolled_back" /\ held' = View
          \/ Outcome' = "failed"
      BY <1>7, <2>1, <2>4
         DEF Write, Scrub, Rollback, Put, Hidden, Outcome, Running, TypeOK
    <3> QED
      BY <2>1, <2>2, <3>1, <3>2, <3>3, <3>4
         DEF Atomic!Commit, Atomic!Undo, Atomic!Lose
  <2> QED
    BY <2>3, <2>4
<1>8. CASE UNCHANGED vars
  BY <1>8 DEF vars, Outcome, Running, Job, View, Path
<1> QED
  BY <1>1, <1>2, <1>3, <1>4, <1>5, <1>6, <1>7, <1>8 DEF Next, Continue

(* What the callers of the host restore are promised: seen through the     *)
(* status and the paths, each restore happens in the one step that         *)
(* publishes its outcome, for any number of requests and paths, provided   *)
(* that the stash can be made.                                             *)
THEOREM HostRestoreIsAtomic ==
  ASSUME "stat" \notin Faults, "stash" \notin Faults
  PROVE  Spec => ImplementsAtomicRestore
<1>1. RecoverInv => NoStashYet
  BY DEF RecoverInv
<1>2. TypeOK /\ TypeOK' /\ SingleFlight /\ NoStashYet /\ [Next]_vars
        => [Atomic!ANext]_(Atomic!avars)
  BY RefinesNext DEF Atomic!avars
<1> QED
  BY <1>1, <1>2, RefinesInit, TypeCorrect, SingleFlightHolds, RecoverInvHolds,
     PTL DEF Spec, ImplementsAtomicRestore, Atomic!ASpec
=============================================================================
