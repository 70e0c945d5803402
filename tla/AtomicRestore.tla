--------------------------- MODULE AtomicRestore ---------------------------
(***************************************************************************)
(* What a host restore promises its caller, without saying how: one        *)
(* restore at a time, and a target that changes in the same step in which  *)
(* the outcome is reported.  "completed" means that the content asked for  *)
(* is in place, "rolled_back" that the previous content is, and only       *)
(* "failed" that the target may have been lost.  HostRestore implements    *)
(* this specification (its property ImplementsAtomicRestore).              *)
(***************************************************************************)
CONSTANTS Request,        \* the POST requests, each sent at most once
          Target,         \* the absolute paths a request may restore to
          Content,        \* what a path may hold
          Backup,         \* Backup[r]: what the backup holds for request r
          None            \* no request, no path

VARIABLES phase,          \* what the status route tells its callers apart
          job,            \* the request that owns the slot, and its path
          content         \* what each path holds, as the callers see it

avars == <<phase, job, content>>

NoJob == [request |-> None, target |-> None]

AInit == /\ phase = "idle"
         /\ job = NoJob
         /\ content \in [Target -> Content]

(* A request takes the free slot; nothing is written yet. *)
Begin == /\ phase # "running"
         /\ phase' = "running"
         /\ job' \in [request : Request, target : Target]
         /\ UNCHANGED content

(* The slot is given back without an outcome: the request was refused, or  *)
(* the outcome of the last one was acknowledged.                           *)
Release == /\ phase' = "idle"
           /\ job' = NoJob
           /\ UNCHANGED content

Commit == /\ phase = "running"
          /\ phase' = "completed"
          /\ content' = [content EXCEPT ![job.target] = Backup[job.request]]
          /\ UNCHANGED job

Undo == /\ phase = "running"
        /\ phase' = "rolled_back"
        /\ UNCHANGED <<job, content>>

(* Only a restore that ends in "failed", or whose process dies, may leave  *)
(* its path in another state than it found it in.                          *)
Lose == /\ phase = "running"
        /\ \/ phase' = "failed" /\ job' = job
           \/ phase' = "idle" /\ job' = NoJob
        /\ \E c \in Content : content' = [content EXCEPT ![job.target] = c]

ANext == Begin \/ Release \/ Commit \/ Undo \/ Lose

ASpec == AInit /\ [][ANext]_avars
=============================================================================
