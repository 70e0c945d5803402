---------------------------- MODULE HostRestore ----------------------------
(***************************************************************************)
(* The host restore of restore-host-write.ts: a POST route that reserves a *)
(* single-flight slot and runs a restore in the background, a reset route, *)
(* and the disk the restore works on.                                      *)
(*                                                                         *)
(* A request is a process whose steps are the code between two awaits.     *)
(* The effect of an awaited file operation and the code that runs when it  *)
(* settles are one step; an operation that is seen half done by others (a  *)
(* download in progress, a recursive delete that fails) leaves a Partial.  *)
(***************************************************************************)
CONSTANTS Request,      \* POST requests, each sent at most once
          Target,       \* absolute target paths
          Faults,       \* the operations that may fail
          None

FaultKind ==
  {"probe", "stat", "stash", "fetch", "write", "scrub", "rollback", "cleanup"}

ASSUME FaultsAssumption == Faults \subseteq FaultKind
ASSUME NoneAssumption == None \notin Request \cup Target

VARIABLES
  status,     \* HostRestoreState.status.state
  owner,      \* the request whose backupId and paths status carries
  pc,         \* where each request's handler and background run is
  req,        \* the body of each request that was accepted
  held,       \* what each target path holds
  stash,      \* what the safety path of each request holds
  good        \* history: the last content of each path its user relied on

vars == <<status, owner, pc, req, held, stash, good>>

Absent     == [kind |-> "absent",   by |-> None]
Original   == [kind |-> "original", by |-> None]
Partial(r) == [kind |-> "partial",  by |-> r]
Full(r)    == [kind |-> "full",     by |-> r]

Content == [kind : {"absent", "original", "partial", "full"},
            by : Request \cup {None}]

Body == [target : Target, dir : BOOLEAN, overwrite : BOOLEAN]

State == {"idle", "preparing", "streaming", "extracting", "completed",
          "failed", "rolling_back", "rolled_back"}

(* Faulty variant: a rollback does not count as running. *)
RunningButForgetful == status \in {"preparing", "streaming", "extracting"}

Running == status \in {"preparing", "streaming", "extracting", "rolling_back"}

(* Where a request may be: "stat" to "rollback" are the awaits of           *)
(* runRestore, named for the operation awaited.                             *)
Busy == {"probe", "stat", "stash", "fetch", "open", "write", "scrub",
         "rollback"}
Step == {"new", "done", "cleanup"} \cup Busy

MayFail(op) == op \in Faults

At(r, step) == pc[r] = step
Goto(r, step) == pc' = [pc EXCEPT ![r] = step]

Path(r) == req[r].target

Put(r, c) == held' = [held EXCEPT ![Path(r)] = c]

Init == /\ status = "idle"
        /\ owner = None
        /\ pc = [r \in Request |-> "new"]
        /\ req \in [Request -> Body]
        /\ held \in [Target -> {Absent, Original}]
        /\ stash = [r \in Request |-> Absent]
        /\ good = held

disk == <<held, stash, good>>

-----------------------------------------------------------------------------
(* The routes.                                                             *)

(* Faulty variant: no guard. *)
ResetAnyTime == /\ status' = "idle"
                /\ owner' = None
                /\ UNCHANGED <<pc, req, disk>>

(* POST .../reset: refused while a restore runs. *)
Reset == /\ ~Running
         /\ status' = "idle"
         /\ owner' = None
         /\ UNCHANGED <<pc, req, disk>>

(* POST of a body that is no request: 400, before the slot is looked at.   *)
Reject(r) == /\ At(r, "new")
             /\ Goto(r, "done")
             /\ UNCHANGED <<status, owner, req, disk>>

(* POST while a restore runs: 409 RESTORE_IN_PROGRESS. *)
Refuse(r) == /\ At(r, "new")
             /\ Running
             /\ Goto(r, "done")
             /\ UNCHANGED <<status, owner, req, disk>>

(* Faulty variant: an early return keeps the slot. *)
GiveBackForgotten(r) == /\ status' = "preparing"
                        /\ owner' = r

(* An early return after the reservation gives the slot back. *)
GiveBack(r) == /\ status' = "idle"
               /\ owner' = None

(* The backup server has a base URL and runRestore starts, or 503.         *)
Launch(r) == \/ /\ status' = "preparing"
                /\ owner' = r
                /\ Goto(r, "stat")
             \/ /\ GiveBack(r)
                /\ Goto(r, "done")

(* Faulty variant: the flag is read the wrong way round. *)
MustProbeInverted(r) == req[r].overwrite

(* Without confirmOverwrite the target is probed first. *)
MustProbe(r) == ~req[r].overwrite

(* POST with the slot free: it is reserved before the first await. *)
Reserve(r) == /\ At(r, "new")
              /\ ~Running
              /\ IF MustProbe(r)
                   THEN /\ status' = "preparing"
                        /\ owner' = r
                        /\ Goto(r, "probe")
                   ELSE Launch(r)
              /\ UNCHANGED <<req, disk>>

(* safeStat answers null for a missing path and for any error. *)
Seen(r) == held[Path(r)] # Absent
Missed(r, op) == held[Path(r)] = Absent \/ MayFail(op)

(* The conflict probe answers: 409 TARGET_EXISTS, or the restore starts.   *)
Probe(r) == /\ At(r, "probe")
            /\ \/ Seen(r) /\ GiveBack(r) /\ Goto(r, "done")
               \/ Missed(r, "probe") /\ Launch(r)
            /\ UNCHANGED <<req, disk>>

-----------------------------------------------------------------------------
(* runRestore.                                                             *)

(* Faulty variant: nothing is ever stashed. *)
StatNeverSees(r) == /\ At(r, "stat")
                    /\ status' = "streaming" /\ Goto(r, "fetch")
                    /\ UNCHANGED <<owner, req, disk>>

(* Is there something to stash? *)
Stat(r) == /\ At(r, "stat")
           /\ \/ Seen(r) /\ Goto(r, "stash") /\ UNCHANGED status
              \/ /\ Missed(r, "stat")
                 /\ status' = "streaming"
                 /\ Goto(r, "fetch")
           /\ UNCHANGED <<owner, req, disk>>

(* rename(target, safetyPath) *)
Stash(r) == /\ At(r, "stash")
            /\ \/ /\ stash' = [stash EXCEPT ![r] = held[Path(r)]]
                  /\ Put(r, Absent)
                  /\ status' = "streaming"
                  /\ Goto(r, "fetch")
               \/ /\ MayFail("stash")
                  /\ Goto(r, "scrub")
                  /\ UNCHANGED <<status, held, stash>>
            /\ UNCHANGED <<owner, req, good>>

(* The response headers: a directory is extracted, a file is streamed. *)
Fetch(r) == /\ At(r, "fetch")
            /\ \/ /\ status' = IF req[r].dir THEN "extracting" ELSE "streaming"
                  /\ Goto(r, "open")
               \/ /\ MayFail("fetch")
                  /\ Goto(r, "scrub")
                  /\ UNCHANGED status
            /\ UNCHANGED <<owner, req, disk>>

(* mkdir, then the first bytes are written: the target is no longer what   *)
(* it was, and not yet what it should be.                                  *)
Open(r) == /\ At(r, "open")
           /\ \/ Put(r, Partial(r)) /\ Goto(r, "write")
              \/ MayFail("write") /\ Goto(r, "scrub") /\ UNCHANGED held
           /\ UNCHANGED <<status, owner, req, stash, good>>

(* The download ends.  "completed" is published before the stash goes. *)
Write(r) == /\ At(r, "write")
            /\ \/ /\ Put(r, Full(r))
                  /\ good' = [good EXCEPT ![Path(r)] = Full(r)]
                  /\ status' = "completed"
                  /\ Goto(r, IF stash[r] # Absent THEN "cleanup" ELSE "done")
               \/ /\ MayFail("write")
                  /\ Goto(r, "scrub")
                  /\ UNCHANGED <<status, held, good>>
            /\ UNCHANGED <<owner, req, stash>>

(* Faulty variant: the removed copy's entry holds nothing typed. *)
CleanupToNull(r) == /\ At(r, "cleanup")
                    /\ stash' = [stash EXCEPT ![r] = None]
                    /\ Goto(r, "done")
                    /\ UNCHANGED <<status, owner, req, held, good>>

(* Best effort: the safety copy may stay behind, whole or in parts. *)
Cleanup(r) == /\ At(r, "cleanup")
              /\ \/ stash' = [stash EXCEPT ![r] = Absent]
                 \/ /\ MayFail("cleanup")
                    /\ stash' \in {stash, [stash EXCEPT ![r] = Partial(r)]}
              /\ Goto(r, "done")
              /\ UNCHANGED <<status, owner, req, held, good>>

(* The catch block: rm -rf of the target, its errors ignored, then the     *)
(* stash is put back if there is one.                                      *)
Scrub(r) == /\ At(r, "scrub")
            /\ \/ Put(r, Absent)
               \/ /\ MayFail("scrub")
                  /\ Seen(r)
                  /\ \/ UNCHANGED held
                     \/ Put(r, Partial(r))
            /\ IF stash[r] # Absent
                 THEN status' = "rolling_back" /\ Goto(r, "rollback")
                 ELSE status' = "failed" /\ Goto(r, "done")
            /\ UNCHANGED <<owner, req, stash, good>>

(* Faulty variant: the stash is dropped even when the rename failed. *)
RollbackLosesStash(r) == /\ At(r, "rollback")
                         /\ \/ Put(r, stash[r]) /\ status' = "rolled_back"
                            \/ /\ MayFail("rollback") \/ Seen(r)
                               /\ status' = "failed"
                               /\ UNCHANGED held
                         /\ stash' = [stash EXCEPT ![r] = Absent]
                         /\ Goto(r, "done")
                         /\ UNCHANGED <<owner, req, good>>

(* Faulty variant: rolled_back is published whatever the rename did. *)
RollbackBlindly(r) == /\ At(r, "rollback")
                      /\ \/ /\ Put(r, stash[r])
                            /\ stash' = [stash EXCEPT ![r] = Absent]
                         \/ /\ MayFail("rollback") \/ Seen(r)
                            /\ UNCHANGED <<held, stash>>
                      /\ status' = "rolled_back"
                      /\ Goto(r, "done")
                      /\ UNCHANGED <<owner, req, good>>

(* rename(safetyPath, target); leftovers of a failed scrub can block it. *)
Rollback(r) == /\ At(r, "rollback")
               /\ \/ /\ Put(r, stash[r])
                     /\ stash' = [stash EXCEPT ![r] = Absent]
                     /\ status' = "rolled_back"
                  \/ /\ MayFail("rollback") \/ Seen(r)
                     /\ status' = "failed"
                     /\ UNCHANGED <<held, stash>>
               /\ Goto(r, "done")
               /\ UNCHANGED <<owner, req, good>>

-----------------------------------------------------------------------------
(* The server process dies: the module's state is gone, the disk stays.    *)
Crash == /\ status' = "idle"
         /\ owner' = None
         /\ pc' = [r \in Request |-> IF pc[r] = "new" THEN "new" ELSE "done"]
         /\ UNCHANGED <<req, disk>>

Continue(r) == \/ Probe(r) \/ Stat(r) \/ Stash(r) \/ Fetch(r) \/ Open(r)
               \/ Write(r) \/ Cleanup(r) \/ Scrub(r) \/ Rollback(r)

Next == \/ Reset
        \/ Crash
        \/ \E r \in Request : Reject(r) \/ Refuse(r) \/ Reserve(r) \/ Continue(r)

Spec == Init /\ [][Next]_vars

(* Every awaited operation settles: file operations do, and fetch aborts a *)
(* response whose headers or body stall.  Nobody has to send a request.    *)
FairSpec == Spec /\ \A r \in Request : WF_vars(Continue(r))

-----------------------------------------------------------------------------
(* Properties.                                                             *)

TypeOK == /\ status \in State
          /\ owner \in Request \cup {None}
          /\ pc \in [Request -> Step]
          /\ req \in [Request -> Body]
          /\ held \in [Target -> Content]
          /\ stash \in [Request -> Content]
          /\ good \in [Target -> Content]

(* The synchronous reservation works: the status says that a restore runs  *)
(* exactly when one handler or background run is under way, that run is    *)
(* the one the status describes, and there is never a second one, whatever *)
(* requests, resets and failures do in between.                            *)
SingleFlight ==
  /\ Running <=> \E r \in Request : pc[r] \in Busy
  /\ \A r \in Request : pc[r] \in Busy => owner = r

(* What a user last relied on at a path (the file that was there before    *)
(* any restore, or what the last completed restore wrote) stays on disk,   *)
(* at the path or under the safety path of one of the restores of that     *)
(* path, through failed downloads, failed deletes, failed rollbacks and    *)
(* process deaths.                                                         *)
ContentRecoverable ==
  \A t \in Target :
    \/ good[t] = Absent
    \/ held[t] = good[t]
    \/ \E r \in Request : Path(r) = t /\ stash[r] = good[t]

(* A path as the callers see it: between the stash and the outcome it      *)
(* still counts as holding what was stashed.                               *)
View ==
  [t \in Target |->
     IF /\ owner # None
        /\ Path(owner) = t
        /\ pc[owner] \in {"fetch", "open", "write", "scrub", "rollback"}
     THEN stash[owner]
     ELSE held[t]]

(* A request sent without confirmOverwrite never completes over a path     *)
(* that held something: no other restore fills the path between its probe  *)
(* and its outcome.                                                        *)
OverwriteNeedsConsent ==
  [][\A r \in Request :
       At(r, "write") /\ status' = "completed" /\ View[Path(r)] # Absent
         => req[r].overwrite]_vars

(* The code implements the atomic restore: "completed" is published when   *)
(* the whole content is in place, "rolled_back" when the former content is *)
(* back, and a restore of one path never changes another.                  *)
Outcome == IF Running THEN "running" ELSE status

Job == IF owner = None
         THEN [request |-> None, target |-> None]
         ELSE [request |-> owner, target |-> Path(owner)]

Atomic == INSTANCE AtomicRestore
            WITH Backup <- [r \in Request |-> Full(r)],
                 phase <- Outcome, job <- Job, content <- View

ImplementsAtomicRestore == Atomic!ASpec

(* The slot is always given back, so one restore that goes wrong does not  *)
(* lock the others out until the server restarts.                          *)
SlotFreed == Running ~> ~Running
=============================================================================
