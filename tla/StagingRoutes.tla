--------------------------- MODULE StagingRoutes ---------------------------
(***************************************************************************)
(* GET /api/db-export/staging of src/database-export/staging-routes.ts,    *)
(* which walks the staging directory while the exports write and remove    *)
(* files there.  A step reads one directory, or the files of one.          *)
(***************************************************************************)
EXTENDS DbExport

CONSTANTS
  None,       \* no file
  MaxWalks    \* bound on the listings

VARIABLES
  walk,      \* where the walk is, and whether it has found anything
  watched,   \* history: a file there since the walk began, not found yet
  partial,   \* history: an answer had files, but not the one watched
  walks

svars == <<vars, walk, watched, partial, walks>>

AllStaged == {sf \in Section \X File : tree[sf[1]][sf[2]] # 0}

NoWalk == [pc |-> "idle", dirs |-> {}, here |-> {}, found |-> FALSE]

SInit == /\ Init
         /\ walk = NoWalk
         /\ watched = None /\ partial = FALSE /\ walks = 0

ListRequested ==
  /\ walk.pc # "walking" /\ walks < MaxWalks
  /\ walks' = walks + 1
  /\ walk' = [pc |-> "walking", dirs |-> Section, here |-> {}, found |-> FALSE]
  /\ watched' \in AllStaged \cup {None}
  /\ UNCHANGED <<vars, partial>>

(* The next directory, in the order readdir happens to have; one that has  *)
(* gone has no files.                                                      *)
NextDir == CHOOSE s \in walk.dirs : TRUE

ReadDir == /\ walk.pc = "walking" /\ walk.here = {}
           /\ walk.dirs # {}
           /\ walk' = [walk EXCEPT !.dirs = @ \ {NextDir},
                                   !.here = {NextDir} \X Staged(NextDir)]
           /\ UNCHANGED <<vars, watched, partial, walks>>

Found(sfs) == /\ walk' = [walk EXCEPT !.here = {}, !.found = TRUE]
              /\ watched' = IF watched \in sfs THEN None ELSE watched
              /\ UNCHANGED <<vars, partial, walks>>

(* Faulty variant: files that have gone, and the rest, are skipped. *)
LstatSkips == /\ walk.pc = "walking" /\ walk.here # {}
              /\ IF walk.here \subseteq AllStaged THEN Found(walk.here)
                 ELSE Found({})

(* lstat of the files of one directory, in a step.  One that has gone      *)
(* since the directory was read makes it throw ENOENT, which the route     *)
(* answers with no entries at all.                                         *)
Lstat == /\ walk.pc = "walking" /\ walk.here # {}
         /\ IF walk.here \subseteq AllStaged THEN Found(walk.here)
            ELSE /\ walk' = NoWalk /\ watched' = None
                 /\ UNCHANGED <<vars, partial, walks>>

Answer == /\ walk.pc = "walking" /\ walk.here = {} /\ walk.dirs = {}
          /\ partial' = (partial \/ (walk.found /\ watched # None))
          /\ walk' = NoWalk /\ watched' = None
          /\ UNCHANGED <<vars, walks>>

Export == /\ Next
          /\ watched' = IF watched \in AllStaged' THEN watched ELSE None
          /\ UNCHANGED <<walk, partial, walks>>

SNext == Export \/ ListRequested \/ ReadDir \/ Lstat \/ Answer

SSpec == SInit /\ [][SNext]_svars /\ WF_vars(Progress)

-----------------------------------------------------------------------------
(* A listing made while exports run has every file that was there all the  *)
(* time, if it has any: it never shows a part of the directory only.       *)
ListingComplete == ~partial
=============================================================================
