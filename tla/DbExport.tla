------------------------------ MODULE DbExport ------------------------------
(***************************************************************************)
(* The database exports: the runs of src/index.ts, the orchestrator of     *)
(* src/database-export/index.ts and the trees that the exporters keep in   *)
(* the staging directory, which the backup server may snapshot at any      *)
(* moment.  A file is known by the run that wrote it.  The shards of       *)
(* QuestDB have a module of their own, QuestDbExport.                      *)
(*                                                                         *)
(* A step is the code between two awaits: a probe, a list, the removal of  *)
(* a tree, or a download, which is renamed into place when it is complete. *)
(***************************************************************************)
EXTENDS Integers, Sequences, FiniteSets

CONSTANTS
  Exporter,    \* the exporters of this instance
  Section,     \* the parts of the staging directory of this instance
  File,        \* names of dashboards, provisioning files and databases
  Backup,      \* POST /api/backups requests
  MaxRuns,     \* bound on the export runs
  MaxChanges   \* bound on the edits of the settings and at the sources

ASSUME ExportAssumption ==
  /\ Exporter \subseteq {"grafana", "signalkDatabase"}
  /\ Section \subseteq {"grafana.db", "dashboards", "provisioning",
                        "signalkDatabase"}
  /\ File # {} /\ MaxRuns \in Nat /\ MaxChanges \in Nat

VARIABLES
  managed,     \* managedContainer
  enabled,     \* the exporters that are switched on
  run,         \* dbExportInFlight and where its run is
  runs,        \* how many runs began
  tree,        \* the run that wrote each staged file, 0: not there
  stale,       \* history: grafana.db outlived its removal, not replaced yet
  live,        \* the files the sources have
  backup,      \* what has become of each request
  changes

settings == <<managed, enabled>>
staging == <<tree, stale>>
vars == <<settings, run, runs, staging, live, backup, changes>>

Tree == [Section -> [File -> 0..MaxRuns]]
Empty == [f \in File |-> 0]

(* "lists" is history: of each section the list of files that was read, if *)
(* the run has read one.                                                   *)
NoRun == [id |-> 0, want |-> {}, todo |-> {}, work |-> {}, steps |-> <<>>,
          files |-> {}, failed |-> {}, lists |-> [s \in Section |-> {}]]

Init == /\ managed \in BOOLEAN
        /\ enabled = Exporter
        /\ run = NoRun /\ runs = 0
        /\ tree = [s \in Section |-> Empty] /\ stale = FALSE
        /\ live = File
        /\ backup = [b \in Backup |-> "new"]
        /\ changes = 0

Busy == run # NoRun

-----------------------------------------------------------------------------
(* What the exporters do, section by section.                              *)

DbSteps == <<"reset", "files">>
DashboardSteps == <<"list", "reset", "files">>
ProvisioningSteps == <<"list", "reset", "files">>

(* Faulty variant: the tree is kept. *)
DatabaseStepsKeeping == <<"list", "files">>
DatabaseSteps == <<"reset", "list", "files">>

Steps(s) == IF s = "grafana.db" THEN DbSteps
            ELSE IF s = "dashboards" THEN DashboardSteps
            ELSE IF s = "provisioning" THEN ProvisioningSteps
            ELSE DatabaseSteps

(* grafana.db is one file, the other sections are listed. *)
TheDb == CHOOSE f \in File : TRUE
Unlisted(s) == IF s = "grafana.db" THEN {{TheDb}} ELSE {}

(* Faulty variant: grafana.db is exported last. *)
FirstSectionDbLast(ss) ==
  IF "dashboards" \in ss THEN "dashboards"
  ELSE IF "provisioning" \in ss THEN "provisioning"
  ELSE IF "grafana.db" \in ss THEN "grafana.db"
  ELSE "signalkDatabase"

(* The order of the sections of an exporter. *)
FirstSection(ss) ==
  IF "grafana.db" \in ss THEN "grafana.db"
  ELSE IF "dashboards" \in ss THEN "dashboards"
  ELSE IF "provisioning" \in ss THEN "provisioning"
  ELSE "signalkDatabase"

Sections(e) ==
  Section \cap (IF e = "grafana" THEN {"grafana.db", "dashboards", "provisioning"}
                ELSE {"signalkDatabase"})

ASSUME SectionsAssumption == \A e \in Exporter : Sections(e) # {}

OwnSections(es) == UNION {Sections(e) : e \in es}

-----------------------------------------------------------------------------
(* The runs. *)

(* The order of the exporters. *)
FirstExporter(es) ==
  IF "grafana" \in es THEN "grafana" ELSE "signalkDatabase"

(* runDbExportTick: a run under way is shared.  It exports nothing in      *)
(* external mode, and what was switched on when it began.                  *)
Call == IF Busy THEN UNCHANGED <<run, runs>>
        ELSE /\ runs < MaxRuns
             /\ runs' = runs + 1
             /\ LET want == IF managed THEN enabled ELSE {}
                IN run' = [NoRun EXCEPT !.id = runs', !.want = want, !.todo = want]

(* The interval is armed while an exporter is on and the server managed. *)
Tick == /\ managed /\ enabled # {}
        /\ Call
        /\ UNCHANGED <<settings, staging, live, backup, changes>>

(* Faulty variant: a backup does not wait for a run under way. *)
RequestSkips(b) ==
  /\ backup[b] = "new"
  /\ IF enabled = {} \/ Busy
     THEN backup' = [backup EXCEPT ![b] = "forwarded"] /\ UNCHANGED <<run, runs>>
     ELSE backup' = [backup EXCEPT ![b] = "waiting"] /\ Call
  /\ UNCHANGED <<settings, staging, live, changes>>

(* POST /api/backups: forwarded at once, or after a run. *)
Request(b) ==
  /\ backup[b] = "new"
  /\ IF enabled = {}
     THEN backup' = [backup EXCEPT ![b] = "forwarded"] /\ UNCHANGED <<run, runs>>
     ELSE backup' = [backup EXCEPT ![b] = "waiting"] /\ Call
  /\ UNCHANGED <<settings, staging, live, changes>>

Released(answer) ==
  backup' = [b \in Backup |-> IF backup[b] = "waiting" THEN answer ELSE backup[b]]

(* Faulty variant: nobody learns of the end. *)
FinishForgets == /\ Busy /\ run.todo = {}
                 /\ run' = NoRun
                 /\ UNCHANGED <<settings, runs, staging, live, backup, changes>>

Finish == /\ Busy /\ run.todo = {}
          /\ run' = NoRun
          /\ Released("forwarded")
          /\ UNCHANGED <<settings, runs, staging, live, changes>>

(* A step of the run that is under way. *)
Within == UNCHANGED <<settings, runs, live, backup, changes>>

Exporting == FirstExporter(run.todo)

(* The run at the first of the sections that are left of its exporter. *)
StartSection(r, left) ==
  LET s == FirstSection(left)
  IN [r EXCEPT !.work = left, !.steps = Steps(s),
               !.files = UNION Unlisted(s),
               !.lists = [@ EXCEPT ![s] = Unlisted(s)]]

(* Faulty variant: a probe that throws ends the run. *)
DetectOrEnd ==
  /\ run.todo # {} /\ run.work = {}
  /\ \/ run' = [run EXCEPT !.todo = {}, !.failed = @ \cup Sections(Exporting)]
     \/ run' = StartSection(run, Sections(Exporting))
  /\ UNCHANGED staging /\ Within

(* The probe: an exporter that does not answer is skipped, its tree kept. *)
Detect ==
  /\ run.todo # {} /\ run.work = {}
  /\ \/ run' = [run EXCEPT !.todo = @ \ {Exporting},
                           !.failed = @ \cup Sections(Exporting)]
     \/ run' = StartSection(run, Sections(Exporting))
  /\ UNCHANGED staging /\ Within

Here == FirstSection(run.work)

(* The run when its section has ended: the next one, or the next exporter. *)
After(r) ==
  IF run.work = {Here}
  THEN [r EXCEPT !.work = {}, !.steps = <<>>, !.files = {},
                 !.todo = @ \ {Exporting}]
  ELSE StartSection(r, run.work \ {Here})

AtStep(step) == Busy /\ run.work # {} /\ Head(run.steps) = step
Failed == [run EXCEPT !.failed = @ \cup {Here}]

List == /\ AtStep("list")
        /\ \/ run' = [run EXCEPT !.steps = Tail(@), !.files = live,
                                 !.lists[Here] = {live}]
           \/ run' = After(Failed)
        /\ UNCHANGED staging /\ Within

(* The failure to remove grafana.db is swallowed: its download goes on     *)
(* beside the old file.                                                    *)
KeepDb == /\ Here = "grafana.db" /\ tree[Here] # Empty
          /\ run' = [run EXCEPT !.steps = Tail(@)]
          /\ stale' = TRUE
          /\ UNCHANGED tree

(* A tree is removed, or its section ends there with what is left of it.   *)
ResetTree ==
  /\ AtStep("reset")
  /\ \/ /\ run' = [run EXCEPT !.steps = Tail(@)]
        /\ tree' = [tree EXCEPT ![Here] = Empty]
        /\ stale' = (stale /\ Here # "grafana.db")
     \/ KeepDb
     \/ /\ Here # "grafana.db"
        /\ run' = After(Failed)
        /\ \E gone \in SUBSET File :
             tree' = [tree EXCEPT ![Here] =
                        [f \in File |-> IF f \in gone THEN 0 ELSE @[f]]]
        /\ UNCHANGED stale
  /\ Within

Download ==
  /\ AtStep("files") /\ run.files # {}
  /\ \E f \in run.files :
       \/ /\ run' = [run EXCEPT !.files = @ \ {f}]
          /\ tree' = [tree EXCEPT ![Here][f] = run.id]
          /\ stale' = (stale /\ Here # "grafana.db")
       \/ run' = [Failed EXCEPT !.files = @ \ {f}] /\ UNCHANGED staging
  /\ Within

SectionEnds == /\ AtStep("files") /\ run.files = {}
               /\ run' = After(run)
               /\ UNCHANGED staging /\ Within

Progress == Detect \/ List \/ ResetTree \/ Download \/ SectionEnds \/ Finish

-----------------------------------------------------------------------------
(* The world. *)

Change == changes < MaxChanges /\ changes' = changes + 1

Configure == /\ Change
             /\ enabled' \in SUBSET Exporter
             /\ UNCHANGED <<managed, run, runs, staging, live, backup>>

SourceChanges == /\ Change
                 /\ live' \in SUBSET File
                 /\ UNCHANGED <<settings, run, runs, staging, backup>>

Crash == /\ Busy
         /\ run' = NoRun
         /\ Released("lost")
         /\ UNCHANGED <<settings, runs, staging, live, changes>>

Next == \/ Tick \/ Configure \/ SourceChanges \/ Crash
        \/ \E b \in Backup : Request(b)
        \/ Detect \/ List \/ ResetTree \/ Download \/ SectionEnds \/ Finish

(* Every request of a run has a timeout. *)
Spec == Init /\ [][Next]_vars /\ WF_vars(Progress)

-----------------------------------------------------------------------------
TypeOK ==
  /\ managed \in BOOLEAN /\ enabled \subseteq Exporter
  /\ run \in [id : 0..MaxRuns, want : SUBSET Exporter,
              todo : SUBSET Exporter, work : SUBSET Section,
              steps : Seq({"list", "reset", "files"}), files : SUBSET File,
              failed : SUBSET Section,
              lists : [Section -> SUBSET SUBSET File]]
  /\ runs \in 0..MaxRuns /\ tree \in Tree /\ live \subseteq File
  /\ stale \in BOOLEAN
  /\ backup \in [Backup -> {"new", "waiting", "forwarded", "lost"}]
  /\ changes \in 0..MaxChanges

Staged(s) == {f \in File : tree[s][f] # 0}

(* A snapshot at any moment, between the steps of a run or after a crash,  *)
(* finds no tree that mixes the files of two runs: what was deleted at the *)
(* source never lingers beside newer files.  And dashboards stand beside a *)
(* grafana.db that is older only if that file could not be removed and was *)
(* not replaced.                                                           *)
SnapshotConsistent ==
  LET db == tree["grafana.db"][TheDb]
  IN /\ \A s \in Section : \A f, g \in Staged(s) : tree[s][f] = tree[s][g]
     /\ {"grafana.db", "dashboards"} \subseteq Section /\ db # 0 /\ ~stale =>
          \A f \in Staged("dashboards") : tree["dashboards"][f] <= db

(* A manual backup that waited is forwarded when no export is under way.   *)
(* Each section that its run was to export and that did not fail was       *)
(* listed, and all that was listed is staged then, and nothing else: an    *)
(* exporter that fails strands no other.                                   *)
BackupSeesRun ==
  [][\A b \in Backup :
       backup[b] # "forwarded" /\ backup'[b] = "forwarded" =>
         \/ enabled = {}
         \/ /\ ~Busy'
            /\ backup[b] = "waiting"
            /\ \A s \in OwnSections(run.want) \ run.failed :
                 /\ run.lists[s] = {Staged(s)}
                 /\ \A f \in Staged(s) : tree[s][f] = run.id]_vars

(* A manual backup is forwarded whatever the export came to, unless the    *)
(* plugin dies.                                                            *)
BackupForwarded == \A b \in Backup : backup[b] = "waiting" ~> backup[b] # "waiting"
=============================================================================
