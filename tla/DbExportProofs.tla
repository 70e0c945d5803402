--------------------------- MODULE DbExportProofs ---------------------------
(***************************************************************************)
(* Proofs about DbExport and the listing of StagingRoutes, for any files,  *)
(* sections, runs and backups.                                             *)
(***************************************************************************)
EXTENDS StagingRoutes, TLAPS

(* What may be left of the steps of a section. *)
StepsOf(s) ==
  IF s = "grafana.db" THEN {<<"reset", "files">>, <<"files">>}
  ELSE IF s \in {"dashboards", "provisioning"}
  THEN {<<"list", "reset", "files">>, <<"reset", "files">>, <<"files">>}
  ELSE {<<"reset", "list", "files">>, <<"list", "files">>, <<"files">>}

(* The tree of the section at hand was removed by this run. *)
Removed == run.steps \in {<<"list", "files">>, <<"files">>}

(* Where a run may be, beyond the types.                                   *)
RunShape ==
  /\ Busy => run.id = runs /\ runs > 0
  /\ run.todo \subseteq run.want
  /\ run.work # {} =>
       /\ run.todo # {}
       /\ run.work \subseteq Sections(Exporting)
       /\ run.steps \in StepsOf(Here)
       /\ Here = "grafana.db" => run.files \subseteq {TheDb}

Run == [id : 0..MaxRuns, want : SUBSET Exporter, todo : SUBSET Exporter,
        work : SUBSET Section, steps : Seq({"list", "reset", "files"}),
        files : SUBSET File, failed : SUBSET Section,
        lists : [Section -> SUBSET SUBSET File]]

(* The first of some sections or exporters is one of them. *)
LEMMA FirstIsOne ==
  /\ \A e \in Exporter : \A ss \in SUBSET Sections(e) :
       ss # {} => FirstSection(ss) \in ss
  /\ \A es \in SUBSET Exporter : es # {} => FirstExporter(es) \in es
BY ExportAssumption DEF FirstSection, Sections, FirstExporter

(* A section begins with all its steps, and keeps some until it ends. *)
LEMMA StepsStart ==
  ASSUME NEW s \in Section
  PROVE  /\ Steps(s) \in StepsOf(s)
         /\ Steps(s) \notin {<<"list", "files">>, <<"files">>}
         /\ Steps(s) \in Seq({"list", "reset", "files"})
<1> USE DEF Steps, StepsOf, DbSteps, DashboardSteps, ProvisioningSteps,
            DatabaseSteps
<1>1. s \in {"grafana.db", "dashboards", "provisioning", "signalkDatabase"}
  BY ExportAssumption
<1>2. Steps(s) \in StepsOf(s)
  BY <1>1
<1>3. Steps(s) \notin {<<"list", "files">>, <<"files">>}
  BY <1>1
<1>4. Steps(s) \in Seq({"list", "reset", "files"})
  <2>1. /\ <<"reset", "files">> \in Seq({"list", "reset", "files"})
        /\ <<"list", "reset", "files">> \in Seq({"list", "reset", "files"})
        /\ <<"reset", "list", "files">> \in Seq({"list", "reset", "files"})
    OBVIOUS
  <2> QED
    BY <2>1
<1> QED
  BY <1>2, <1>3, <1>4

(* The steps left of a section: a list first, the files last, and only the *)
(* database goes without a list.                                           *)
LEMMA StepsGoOn ==
  ASSUME NEW s \in Section, NEW steps \in StepsOf(s)
  PROVE  /\ Head(steps) = "list" => s # "grafana.db"
         /\ Head(steps) # "files" => Tail(steps) \in StepsOf(s)
         /\ steps \in Seq({"list", "reset", "files"})
         /\ Tail(steps) \in Seq({"list", "reset", "files"})
         /\ Head(steps) = "files" => steps = <<"files">>
         /\ Head(steps) = "list" /\ Tail(steps) \in {<<"list", "files">>, <<"files">>}
              => steps \in {<<"list", "files">>, <<"files">>}
<1>1. CASE steps = <<"files">>
  BY <1>1
<1>2. CASE steps = <<"list", "files">> /\ s \notin {"grafana.db", "dashboards", "provisioning"}
  BY <1>2 DEF StepsOf
<1>3. CASE steps = <<"reset", "files">> /\ s # "signalkDatabase"
  BY <1>3 DEF StepsOf
<1>4. CASE steps = <<"list", "reset", "files">>
           /\ s \in {"dashboards", "provisioning"}
  BY <1>4 DEF StepsOf
<1>5. CASE steps = <<"reset", "list", "files">> /\ s = "signalkDatabase"
  BY <1>5 DEF StepsOf
<1> QED
  BY <1>1, <1>2, <1>3, <1>4, <1>5, ExportAssumption DEF StepsOf

(* The database is one of the files.                                       *)
LEMMA DbIsFile == TheDb \in File
BY ExportAssumption DEF TheDb

-----------------------------------------------------------------------------
(* How a run goes on. *)

(* Beginning a section takes its first step and keeps the run otherwise.   *)
LEMMA NextSection ==
  ASSUME NEW r \in Run, NEW left \in SUBSET Section, left # {},
         FirstSection(left) \in left
  PROVE  LET n == StartSection(r, left) IN
         /\ n \in Run
         /\ n.id = r.id /\ n.want = r.want /\ n.todo = r.todo
         /\ n.failed = r.failed /\ n.work = left
         /\ n.steps = Steps(FirstSection(left))
         /\ n.files = UNION Unlisted(FirstSection(left))
         /\ n.lists = [r.lists EXCEPT ![FirstSection(left)] = Unlisted(FirstSection(left))]
<1>1. PICK s \in Section : s = FirstSection(left)
  OBVIOUS
<1>2. Unlisted(s) \in SUBSET SUBSET File /\ UNION Unlisted(s) \in SUBSET File
  BY DbIsFile DEF Unlisted
<1>3. Steps(s) \in Seq({"list", "reset", "files"})
  BY StepsStart
<1>4. [r.lists EXCEPT ![s] = Unlisted(s)] \in [Section -> SUBSET SUBSET File]
  BY <1>2 DEF Run
<1>5. UNION Unlisted(s) \in SUBSET File
  BY <1>2
<1>6. Unlisted(s) \in SUBSET SUBSET File
  BY <1>2
<1> HIDE DEF Unlisted
<1> QED
  BY <1>1, <1>3, <1>4, <1>5, <1>6 DEF StartSection, Run

(* A failure adds the present section to the failed ones and changes       *)
(* nothing else.                                                           *)
LEMMA FailedIs ==
  ASSUME run \in Run, Here \in Section
  PROVE  /\ Failed \in Run
         /\ Failed.id = run.id /\ Failed.want = run.want
         /\ Failed.todo = run.todo /\ Failed.work = run.work
         /\ Failed.steps = run.steps /\ Failed.files = run.files
         /\ Failed.failed = run.failed \cup {Here} /\ Failed.lists = run.lists
BY DEF Failed, Run

(* Run n has just begun section s. *)
Begun(n, s) == /\ n.steps = Steps(s) /\ n.files = UNION Unlisted(s)
               /\ n.lists = [run.lists EXCEPT ![s] = Unlisted(s)]

(* A section ends: the next one of its exporter begins, or the exporter    *)
(* has ended too.                                                          *)
LEMMA AfterIs ==
  ASSUME NEW r \in Run, run \in Run, r.work = run.work, r.todo = run.todo,
         r.lists = run.lists, run.todo # {}, run.work # {}, run.work \subseteq Sections(Exporting)
  PROVE  LET n == After(r) IN
         /\ n \in Run
         /\ n.id = r.id /\ n.want = r.want /\ n.failed = r.failed
         /\ n.work = run.work \ {Here} /\ Here \in run.work
         /\ n.work = {} => n.todo = run.todo \ {Exporting} /\ n.lists = run.lists
         /\ n.work # {} => /\ n.todo = run.todo
                           /\ Begun(n, FirstSection(n.work))
                           /\ FirstSection(n.work) \in n.work
<1>1. Exporting \in Exporter
  BY FirstIsOne DEF Exporting, Run
<1>2. Here \in run.work
  BY <1>1, FirstIsOne DEF Here
<1>3. CASE run.work = {Here}
  <2>1. After(r) = [id |-> r.id, want |-> r.want, todo |-> r.todo \ {Exporting},
                    work |-> {}, steps |-> <<>>, files |-> {},
                    failed |-> r.failed, lists |-> r.lists]
    BY <1>3 DEF After, Run
  <2> QED
    BY <1>2, <1>3, <2>1 DEF Run
<1>4. CASE run.work # {Here}
  <2> DEFINE left == run.work \ {Here}
  <2>1. left \in SUBSET Section /\ left # {}
    BY <1>2, <1>4 DEF Run
  <2>2. FirstSection(left) \in left
    <3>1. left \in SUBSET Sections(Exporting)
      OBVIOUS
    <3> QED
      BY <1>1, <2>1, <3>1, FirstIsOne
  <2>3. After(r) = StartSection(r, left)
    BY <1>4 DEF After
  <2> HIDE DEF left
  <2>4. left = run.work \ {Here}
    BY DEF left
  <2>5. /\ After(r) \in Run
        /\ After(r).id = r.id /\ After(r).want = r.want
        /\ After(r).todo = r.todo /\ After(r).failed = r.failed
        /\ After(r).work = left /\ Begun(After(r), FirstSection(left))
    BY <2>1, <2>2, <2>3, NextSection DEF Begun
  <2> QED
    BY <1>2, <2>1, <2>2, <2>4, <2>5
<1> QED
  BY <1>3, <1>4

(* The steps of a section, apart from what they do to its tree: the next   *)
(* of its steps, or the end of the section.                                *)
StepOn == /\ run' \in Run
          /\ run'.id = run.id /\ run'.want = run.want
          /\ run'.todo = run.todo /\ run'.work = run.work
          /\ run'.steps = Tail(run.steps) /\ run'.failed = run.failed

Listing == /\ Head(run.steps) = "list"
           /\ run'.lists = [run.lists EXCEPT ![Here] = {run'.files}]

Resetting == /\ Head(run.steps) = "reset"
             /\ run'.lists = run.lists /\ run'.files = run.files

StayPut == /\ run' \in Run
           /\ run'.id = run.id /\ run'.want = run.want
           /\ run'.todo = run.todo /\ run'.work = run.work
           /\ run'.steps = run.steps /\ run'.lists = run.lists
           /\ run'.files \subseteq run.files

MoveOn(failed) ==
  /\ run' \in Run
  /\ run'.id = run.id /\ run'.want = run.want /\ run'.failed = failed
  /\ run'.work = run.work \ {Here} /\ Here \in run.work
  /\ run'.work = {} => run'.todo = run.todo \ {Exporting} /\ run'.lists = run.lists
  /\ run'.work # {} => /\ run'.todo = run.todo
                       /\ Begun(run', FirstSection(run'.work))
                       /\ FirstSection(run'.work) \in run'.work

(* What becomes of the tree of the section at hand. *)
Cleared == /\ tree' = [tree EXCEPT ![Here] = Empty]
           /\ stale' = (stale /\ Here # "grafana.db")
Stuck == Here = "grafana.db" /\ tree' = tree /\ stale' = TRUE
Trimmed == /\ \E gone \in SUBSET File :
                tree' = [tree EXCEPT ![Here] =
                           [f \in File |-> IF f \in gone THEN 0 ELSE @[f]]]
           /\ stale' = stale
Written(f) == /\ tree' = [tree EXCEPT ![Here][f] = run.id]
              /\ stale' = (stale /\ Here # "grafana.db")
Kept == tree' = tree /\ stale' = stale

Fetched == \E f \in run.files :
             run'.files = run.files \ {f} /\ run'.failed = run.failed /\ Written(f)
Missed == run'.failed = run.failed \cup {Here} /\ Kept

(* A step within a section leaves a well-shaped run, in this section or    *)
(* the next.                                                               *)
LEMMA SectionSteps ==
  ASSUME TypeOK, RunShape, run.work # {}
  PROVE  /\ Here \in Section /\ Here \in run.work
         /\ Head(run.steps) # "files" => [run EXCEPT !.steps = Tail(@)] \in Run
         /\ run' = After(run) => MoveOn(run.failed)
         /\ run' = After(Failed) => MoveOn(run.failed \cup {Here})
<1>1. run \in Run
  BY DEF TypeOK, Run
<1>2. run.todo # {} /\ run.work \subseteq Sections(Exporting)
  BY DEF RunShape
<1>3. Here \in run.work /\ Here \in Section
  BY <1>1, <1>2, FirstIsOne DEF Here, Exporting, Run
<1>4. Head(run.steps) # "files" => [run EXCEPT !.steps = Tail(@)] \in Run
  BY <1>1, <1>3, StepsGoOn DEF RunShape, Run
<1>5. run' = After(run) => MoveOn(run.failed)
  BY <1>1, <1>2, AfterIs DEF MoveOn
<1>6. run' = After(Failed) => MoveOn(run.failed \cup {Here})
  BY <1>1, <1>2, <1>3, AfterIs, FailedIs DEF MoveOn
<1> QED
  BY <1>3, <1>4, <1>5, <1>6

(* What a step of the exports does to the run. *)
LEMMA RunSteps ==
  ASSUME TypeOK, RunShape
  PROVE  /\ List => \/ StepOn /\ Listing /\ Kept
                    \/ /\ MoveOn(run.failed \cup {Here}) /\ Here # "grafana.db"
                       /\ Kept
         /\ ResetTree => \/ StepOn /\ Resetting /\ (Cleared \/ Stuck)
                         \/ /\ MoveOn(run.failed \cup {Here}) /\ Here # "grafana.db"
                            /\ Trimmed
         /\ Download => StayPut /\ run.steps = <<"files">> /\ (Fetched \/ Missed)
         /\ SectionEnds => /\ MoveOn(run.failed) /\ Kept
                           /\ run.steps = <<"files">> /\ run.files = {}
<1>1. run \in Run
  BY DEF TypeOK, Run
<1>2. ASSUME run.work # {}, Head(run.steps) # "files"
      PROVE  /\ run' = [run EXCEPT !.steps = Tail(@)] =>
                 StepOn /\ run'.lists = run.lists /\ run'.files = run.files
             /\ run' = [run EXCEPT !.steps = Tail(@), !.files = live,
                                   !.lists[Here] = {live}] =>
                 /\ StepOn
                 /\ run'.lists = [run.lists EXCEPT ![Here] = {run'.files}]
  <2>1. [run EXCEPT !.steps = Tail(@)] \in Run /\ Here \in Section
    BY <1>2, SectionSteps
  <2>2. Tail(run.steps) \in Seq({"list", "reset", "files"})
    BY <1>1, <2>1 DEF Run
  <2>3. CASE run' = [run EXCEPT !.steps = Tail(@)]
    BY <1>1, <2>2, <2>3 DEF StepOn, Run
  <2>4. ASSUME run' = [run EXCEPT !.steps = Tail(@), !.files = live,
                                  !.lists[Here] = {live}]
        PROVE  /\ StepOn
               /\ run'.lists = [run.lists EXCEPT ![Here] = {run'.files}]
    <3>1. live \in SUBSET File
      BY DEF TypeOK
    <3>2. [run.lists EXCEPT ![Here] = {live}] \in [Section -> SUBSET SUBSET File]
      BY <1>1, <3>1 DEF Run
    <3>3. run' = [id |-> run.id, want |-> run.want, todo |-> run.todo,
                  work |-> run.work, steps |-> Tail(run.steps), files |-> live,
                  failed |-> run.failed,
                  lists |-> [run.lists EXCEPT ![Here] = {live}]]
      BY <1>1, <2>4 DEF Run
    <3> QED
      BY <1>1, <2>2, <3>1, <3>2, <3>3 DEF StepOn, Run
  <2> QED
    BY <2>3, <2>4
<1>3. List => \/ StepOn /\ Listing /\ Kept
              \/ /\ MoveOn(run.failed \cup {Here}) /\ Here # "grafana.db" /\ Kept
  <2>1. ASSUME List
        PROVE  Here # "grafana.db" /\ Kept
    BY <2>1, SectionSteps, StepsGoOn DEF List, AtStep, RunShape, Kept, staging
  <2> QED
    BY <1>2, <2>1, SectionSteps DEF List, AtStep, Listing
<1>4. ResetTree => \/ StepOn /\ Resetting /\ (Cleared \/ Stuck)
                   \/ /\ MoveOn(run.failed \cup {Here}) /\ Here # "grafana.db"
                      /\ Trimmed
  BY <1>2, SectionSteps DEF ResetTree, KeepDb, AtStep, Resetting, Cleared, Stuck, Trimmed
<1>5. ASSUME AtStep("files")
      PROVE  run.work # {} /\ run.steps = <<"files">>
  BY <1>5, SectionSteps, StepsGoOn DEF AtStep, RunShape
<1>6. Download => StayPut /\ (Fetched \/ Missed)
  <2> SUFFICES ASSUME Download
               PROVE  StayPut /\ (Fetched \/ Missed)
    OBVIOUS
  <2>1. /\ Failed \in Run /\ Failed.id = run.id /\ Failed.want = run.want
        /\ Failed.todo = run.todo /\ Failed.work = run.work
        /\ Failed.steps = run.steps /\ Failed.files = run.files
        /\ Failed.failed = run.failed \cup {Here} /\ Failed.lists = run.lists
    BY <1>1, SectionSteps, FailedIs DEF Download, AtStep
  <2>2. PICK f \in run.files :
          \/ run' = [run EXCEPT !.files = @ \ {f}] /\ Written(f)
          \/ run' = [Failed EXCEPT !.files = @ \ {f}] /\ Kept
    BY DEF Download, Written, Kept, staging
  <2>3. CASE run' = [run EXCEPT !.files = @ \ {f}] /\ Written(f)
    <3>1. StayPut /\ run'.files = run.files \ {f} /\ run'.failed = run.failed
      BY <1>1, <2>3 DEF StayPut, Run
    <3> QED
      BY <2>3, <3>1 DEF Fetched
  <2>4. CASE run' = [Failed EXCEPT !.files = @ \ {f}] /\ Kept
    <3>1. StayPut /\ run'.failed = run.failed \cup {Here}
      BY <2>1, <2>4 DEF StayPut, Run
    <3> QED
      BY <2>4, <3>1 DEF Missed
  <2> QED
    BY <2>2, <2>3, <2>4
<1>7. SectionEnds => MoveOn(run.failed) /\ Kept /\ run.files = {}
  BY SectionSteps DEF SectionEnds, AtStep, Kept, staging
<1> QED
  BY <1>3, <1>4, <1>5, <1>6, <1>7 DEF Download, SectionEnds

(* The other steps: a run begins or is shared, it skips an exporter or     *)
(* starts on it.                                                           *)
Began == /\ ~Busy /\ runs' = runs + 1 /\ runs' \in 0..MaxRuns
         /\ run' \in Run /\ run'.id = runs' /\ run'.work = {}
         /\ run'.todo = run'.want

Shared == run' = run /\ runs' = runs

(* A call joins the run under way or begins one.                           *)
LEMMA CallIs ==
  ASSUME TypeOK, Call
  PROVE  Shared \/ Began
<1>1. CASE Busy
  BY <1>1 DEF Call, Shared
<1>2. CASE ~Busy
  <2>1. PICK want \in SUBSET Exporter :
          run' = [NoRun EXCEPT !.id = runs', !.want = want, !.todo = want]
    BY <1>2 DEF Call, TypeOK
  <2>2. runs' = runs + 1 /\ runs' \in 0..MaxRuns
    BY <1>2, ExportAssumption DEF Call, TypeOK
  <2>3. run' = [id |-> runs', want |-> want, todo |-> want, work |-> {},
                steps |-> <<>>, files |-> {}, failed |-> {},
                lists |-> [s \in Section |-> {}]]
    BY <2>1 DEF NoRun
  <2>4. run' \in Run
    <3>1. /\ <<>> \in Seq({"list", "reset", "files"})
          /\ [s \in Section |-> {}] \in [Section -> SUBSET SUBSET File]
      OBVIOUS
    <3> QED
      BY <2>2, <2>3, <3>1 DEF Run
  <2> QED
    BY <1>2, <2>2, <2>3, <2>4 DEF Began
<1> QED
  BY <1>1, <1>2

Skipped == /\ run' \in Run /\ run'.id = run.id /\ run'.want = run.want
           /\ Exporting \in run.todo
           /\ run'.todo = run.todo \ {Exporting} /\ run'.work = {}
           /\ run'.failed = run.failed \cup Sections(Exporting)
           /\ run'.lists = run.lists

Started == /\ run' \in Run /\ run'.id = run.id /\ run'.want = run.want
           /\ Exporting \in run.todo
           /\ run'.todo = run.todo /\ run'.work = Sections(Exporting)
           /\ Begun(run', FirstSection(run'.work))
           /\ FirstSection(run'.work) \in run'.work
           /\ run'.failed = run.failed

(* A probe skips its exporter or begins its first section.                 *)
LEMMA DetectIs ==
  ASSUME TypeOK, Detect
  PROVE  run.work = {} /\ (Skipped \/ Started)
<1>1. run \in Run
  BY DEF TypeOK, Run
<1>2. Exporting \in run.todo /\ Exporting \in Exporter
  BY <1>1, FirstIsOne DEF Detect, Exporting, Run
<1> DEFINE all == Sections(Exporting)
<1>3. all \in SUBSET Section /\ all # {}
  BY <1>2, SectionsAssumption DEF Sections
<1>4. FirstSection(all) \in all
  BY <1>2, <1>3, FirstIsOne
<1>5. CASE run' = [run EXCEPT !.todo = @ \ {Exporting}, !.failed = @ \cup all]
  BY <1>1, <1>2, <1>3, <1>5 DEF Skipped, Run, Detect
<1>6. CASE run' = StartSection(run, all)
  <2> HIDE DEF all
  <2>1. /\ run' \in Run /\ run'.id = run.id /\ run'.want = run.want
        /\ run'.todo = run.todo /\ run'.failed = run.failed
        /\ run'.work = all /\ Begun(run', FirstSection(all))
    BY <1>1, <1>3, <1>4, <1>6, NextSection DEF Begun
  <2>2. all = Sections(Exporting)
    BY DEF all
  <2> QED
    BY <1>2, <1>4, <2>1, <2>2 DEF Started, Detect
<1> QED
  BY <1>5, <1>6 DEF Detect

Ended == run' = NoRun

(* Whatever is done, the run and the trees go on in one of these ways. *)
Outside == \/ Kept /\ (Shared \/ Began)
           \/ Kept /\ runs' = runs /\ run.work = {} /\ (Skipped \/ Started)
           \/ Kept /\ runs' = runs /\ Ended

Inside == /\ run.work # {} /\ Busy /\ runs' = runs
          /\ \/ StepOn /\ Listing /\ Kept
             \/ StepOn /\ Resetting /\ (Cleared \/ Stuck)
             \/ StayPut /\ run.steps = <<"files">> /\ (Fetched \/ Missed)
             \/ /\ MoveOn(run.failed \cup {Here}) /\ Here # "grafana.db"
                /\ Kept \/ Trimmed
             \/ /\ MoveOn(run.failed) /\ Kept
                /\ run.steps = <<"files">> /\ run.files = {}

(* A step is one of the outside world's or one of the run's.               *)
LEMMA NextIs ==
  ASSUME TypeOK, RunShape, Next
  PROVE  Outside \/ Inside
<1>1. CASE Tick \/ \E b \in Backup : Request(b)
  BY <1>1, CallIs DEF Tick, Request, Shared, Outside, Kept, staging
<1>2. CASE Configure \/ SourceChanges
  BY <1>2 DEF Configure, SourceChanges, Shared, Outside, Kept, staging
<1>3. CASE Finish \/ Crash
  BY <1>3 DEF Finish, Crash, Ended, Outside, Kept, staging
<1>4. CASE Detect
  BY <1>4, DetectIs DEF Detect, Within, Outside, Kept, staging
<1>5. ASSUME List \/ ResetTree \/ Download \/ SectionEnds
      PROVE  run.work # {} /\ Busy /\ runs' = runs
  BY <1>5 DEF List, ResetTree, Download, SectionEnds, AtStep, Within
<1>6. CASE List \/ ResetTree
  BY <1>5, <1>6, RunSteps DEF Inside
<1>7. CASE Download \/ SectionEnds
  BY <1>5, <1>7, RunSteps DEF Inside
<1> QED
  BY <1>1, <1>2, <1>3, <1>4, <1>6, <1>7 DEF Next

(* The trees, file by file. *)
LEMMA TreesAre ==
  ASSUME TypeOK, RunShape, Next
  PROVE  /\ tree' \in Tree /\ stale' \in BOOLEAN
         /\ \/ tree' = tree
            \/ run.work # {} /\ \A s \in Section \ {Here} : tree'[s] = tree[s]
         /\ Cleared /\ run.work # {} => \A f \in File : tree'[Here][f] = 0
         /\ Trimmed /\ run.work # {} =>
              \A f \in File : tree'[Here][f] \in {0, tree[Here][f]}
         /\ \A g \in File : Written(g) /\ run.work # {} =>
              /\ tree'[Here][g] = run.id
              /\ \A f \in File \ {g} : tree'[Here][f] = tree[Here][f]
<1>1. tree \in [Section -> [File -> 0..MaxRuns]] /\ run.id \in 0..MaxRuns
  BY DEF TypeOK, Tree
<1>2. 0 \in 0..MaxRuns
  BY ExportAssumption
<1>3. run.work # {} => Here \in Section
  BY SectionSteps
<1>4. ASSUME run.work # {}, Cleared
      PROVE  /\ tree' \in Tree
             /\ \A s \in Section \ {Here} : tree'[s] = tree[s]
             /\ \A f \in File : tree'[Here][f] = 0
  BY <1>1, <1>2, <1>3, <1>4 DEF Cleared, Empty, Tree
<1>5. ASSUME run.work # {}, Trimmed
      PROVE  /\ tree' \in Tree
             /\ \A s \in Section \ {Here} : tree'[s] = tree[s]
             /\ \A f \in File : tree'[Here][f] \in {0, tree[Here][f]}
  <2>1. PICK gone \in SUBSET File :
          tree' = [tree EXCEPT ![Here] =
                     [f \in File |-> IF f \in gone THEN 0 ELSE tree[Here][f]]]
    BY <1>5 DEF Trimmed
  <2>2. [f \in File |-> IF f \in gone THEN 0 ELSE tree[Here][f]]
          \in [File -> 0..MaxRuns]
    BY <1>1, <1>2, <1>3, <1>5
  <2> QED
    BY <1>1, <1>3, <1>5, <2>1, <2>2 DEF Tree
<1>6. ASSUME run.work # {}, NEW g \in File, Written(g)
      PROVE  /\ tree' \in Tree
             /\ \A s \in Section \ {Here} : tree'[s] = tree[s]
             /\ tree'[Here][g] = run.id
             /\ \A f \in File \ {g} : tree'[Here][f] = tree[Here][f]
  <2>1. tree' = [tree EXCEPT ![Here] = [tree[Here] EXCEPT ![g] = run.id]]
    BY <1>6 DEF Written
  <2>2. [tree[Here] EXCEPT ![g] = run.id] \in [File -> 0..MaxRuns]
    BY <1>1, <1>3, <1>6
  <2> QED
    BY <1>1, <1>3, <1>6, <2>1, <2>2 DEF Tree
<1>7. \/ Kept \/ Stuck
      \/ run.work # {} /\ (Cleared \/ Trimmed \/ \E g \in File : Written(g))
  <2>1. run.files \subseteq File
    BY DEF TypeOK
  <2> QED
    BY <2>1, NextIs DEF Outside, Inside, Fetched, Missed
<1>8. Kept \/ Stuck => tree' \in Tree /\ tree' = tree
  BY <1>1 DEF Kept, Stuck, Tree
<1>9. \/ tree' = tree
      \/ run.work # {} /\ \A s \in Section \ {Here} : tree'[s] = tree[s]
  BY <1>4, <1>5, <1>6, <1>7, <1>8
<1>10. tree' \in Tree
  BY <1>4, <1>5, <1>6, <1>7, <1>8
<1>11. stale' \in BOOLEAN
  <2>1. stale \in BOOLEAN
    BY DEF TypeOK
  <2>2. Kept \/ Trimmed => stale' \in BOOLEAN
    BY <2>1 DEF Kept, Trimmed
  <2>3. Stuck \/ Cleared => stale' \in BOOLEAN
    BY DEF Stuck, Cleared
  <2>4. (\E g \in File : Written(g)) => stale' \in BOOLEAN
    BY DEF Written
  <2> QED
    BY <1>7, <2>2, <2>3, <2>4
<1> QED
  BY <1>4, <1>5, <1>6, <1>9, <1>10, <1>11

(* No run is a value a run can have.                                       *)
LEMMA NoRunTyped == NoRun \in Run
<1>1. /\ <<>> \in Seq({"list", "reset", "files"})
      /\ [s \in Section |-> {}] \in [Section -> SUBSET SUBSET File]
  OBVIOUS
<1> QED
  BY <1>1, ExportAssumption DEF NoRun, Run

-----------------------------------------------------------------------------
(* The invariant. *)

(* The tree at hand has only what this run wrote, from its removal on, but *)
(* for a grafana.db that could not be removed.                             *)
Fresh == Busy /\ run.work # {} /\ Removed /\ ~(Here = "grafana.db" /\ stale) =>
           \A f \in File : tree[Here][f] \in {0, run.id}

TreesOld == \A s \in Section : \A f \in File : tree[s][f] <= runs

OneRun == \A s \in Section : \A f, g \in Staged(s) : tree[s][f] = tree[s][g]

OnlyDb == "grafana.db" \in Section =>
            \A f \in File \ {TheDb} : tree["grafana.db"][f] = 0

Grafana == {"grafana.db", "dashboards"} \subseteq Section

(* grafana.db is this run's, or not there, while the sections after it are *)
(* exported, unless it could be neither removed nor replaced.              *)
DbOfRun ==
  Grafana /\ run.work # {} /\ Exporting = "grafana" /\ "grafana.db" \notin run.work
    /\ ~stale => tree["grafana.db"][TheDb] \in {0, run.id}

DbFirst ==
  Grafana /\ tree["grafana.db"][TheDb] # 0 /\ ~stale =>
    \A f \in File : tree["dashboards"][f] <= tree["grafana.db"][TheDb]

(* Of the section at hand, if nothing of it has failed, what was listed is *)
(* staged or still to be fetched, and nothing else is staged.              *)
ListInv ==
  Busy /\ run.work # {} /\ Here \notin run.failed =>
    /\ run.steps = <<"list", "files">> => Staged(Here) = {}
    /\ run.steps = <<"reset", "files">> =>
         /\ run.lists[Here] = {run.files}
         /\ Here = "grafana.db" => run.files = {TheDb}
    /\ run.steps = <<"files">> =>
         /\ run.lists[Here] = {Staged(Here) \cup run.files}
         /\ \A f \in Staged(Here) \ run.files : tree[Here][f] = run.id

(* Each section that the run is to export failed, is still to come, or is  *)
(* staged as it was listed.                                                *)
ToCome(e, s) ==
  e \in run.todo /\ (e = Exporting /\ run.work # {} => s \in run.work)

Done(s) == /\ run.lists[s] = {Staged(s)}
           /\ \A f \in Staged(s) : tree[s][f] = run.id

DoneInv ==
  Busy => \A e \in run.want : \A s \in Sections(e) :
            s \in run.failed \/ ToCome(e, s) \/ Done(s)

TreeInv == /\ Fresh /\ TreesOld /\ OneRun /\ OnlyDb /\ DbOfRun /\ DbFirst
           /\ ListInv /\ DoneInv
ExportInv == TypeOK /\ RunShape /\ TreeInv

-----------------------------------------------------------------------------
(* The types and the shape of a run. *)

(* Every step keeps the run well-shaped.                                   *)
LEMMA ShapeStep ==
  ASSUME TypeOK, RunShape, Next
  PROVE  run' \in Run /\ RunShape'
<1>1. run \in Run /\ runs \in Nat
  BY ExportAssumption DEF TypeOK, Run
<1>2. CASE Shared
  BY <1>1, <1>2 DEF Shared, RunShape, Busy, Exporting, Here
<1>3. CASE Began
  BY <1>1, <1>3 DEF Began, RunShape
<1>4. CASE Ended
  BY <1>4, NoRunTyped DEF Ended, RunShape, Busy, NoRun
<1>5. ASSUME runs' = runs, run'.id = run.id, run'.want = run.want, run' \in Run,
             run.todo # {}, run'.todo \subseteq run.todo,
             run'.work = {} \/ run'.todo = run.todo,
             run'.work \subseteq Sections(Exporting),
             run'.work # {} => run'.steps \in StepsOf(FirstSection(run'.work)),
             run'.work # {} /\ FirstSection(run'.work) = "grafana.db" =>
               run'.files \subseteq {TheDb}
      PROVE  RunShape'
  <2>1. Busy
    BY <1>5 DEF Busy, NoRun
  <2>2. run'.work # {} => Exporting' = Exporting
    BY <1>5 DEF Exporting
  <2> QED
    BY <1>1, <1>5, <2>1, <2>2 DEF RunShape, Here
<1>6. ASSUME NEW n, NEW s \in Section, Begun(n, s)
      PROVE  n.steps \in StepsOf(s) /\ (s = "grafana.db" => n.files \subseteq {TheDb})
  BY <1>6, StepsStart DEF Begun, Unlisted
<1>7. CASE runs' = runs /\ (Skipped \/ Started)
  <2>1. Sections(Exporting) \subseteq Section
    BY DEF Sections
  <2> QED
    BY <1>5, <1>6, <1>7, <2>1 DEF Skipped, Started
<1>8. CASE runs' = runs /\ run.work # {} /\ StayPut
  BY <1>5, <1>8 DEF StayPut, RunShape, Here
<1>9. CASE runs' = runs /\ run.work # {} /\ StepOn /\ (Listing \/ Resetting)
  <2>1. Here \in Section /\ run.steps \in StepsOf(Here)
    BY <1>9, SectionSteps DEF RunShape
  <2>2. run'.steps \in StepsOf(Here)
    BY <1>9, <2>1, StepsGoOn DEF StepOn, Listing, Resetting
  <2>3. Here = "grafana.db" => run'.files \subseteq {TheDb}
    BY <1>9, <2>1, StepsGoOn DEF Listing, Resetting, RunShape
  <2> QED
    BY <1>5, <1>9, <2>2, <2>3 DEF StepOn, RunShape, Here
<1>10. ASSUME runs' = runs, run.work # {}, NEW failed, MoveOn(failed)
       PROVE  RunShape'
  <2>1. /\ run.todo # {} /\ run.todo \in SUBSET Exporter
        /\ run.work \subseteq Sections(Exporting)
        /\ run.work \subseteq Section
    BY <1>1, <1>10 DEF RunShape, Run
  <2> QED
    BY <1>5, <1>6, <1>10, <2>1 DEF MoveOn
<1>11. RunShape'
  BY <1>2, <1>3, <1>4, <1>7, <1>8, <1>9, <1>10, NextIs DEF Outside, Inside
<1>12. run' \in Run
  BY <1>1, NoRunTyped, NextIs DEF Outside, Inside, Skipped, Started, StepOn,
     StayPut, MoveOn, Shared, Began, Ended
<1> QED
  BY <1>11, <1>12

(* Every step keeps the types.                                             *)
LEMMA TypeStep ==
  ASSUME TypeOK, RunShape, Next
  PROVE  TypeOK'
<1>1. run' \in Run /\ tree' \in Tree /\ stale' \in BOOLEAN
  BY ShapeStep, TreesAre
<1>2. runs' \in 0..MaxRuns
  BY NextIs DEF TypeOK, Outside, Inside, Shared, Began
<1>3. managed' \in BOOLEAN
  BY DEF Next, Tick, Configure, SourceChanges, Crash, Request, Detect, List,
     ResetTree, Download, SectionEnds, Finish, Within, settings, TypeOK
<1>4. enabled' \subseteq Exporter
  BY DEF Next, Tick, Configure, SourceChanges, Crash, Request, Detect, List,
     ResetTree, Download, SectionEnds, Finish, Within, settings, TypeOK
<1>5. live' \subseteq File
  BY DEF Next, Tick, Configure, SourceChanges, Crash, Request, Detect, List,
     ResetTree, Download, SectionEnds, Finish, Within, settings, TypeOK
<1>6. changes' \in 0..MaxChanges
  BY ExportAssumption DEF Next, Tick, Configure, SourceChanges, Change, Crash,
     Request, Detect, List, ResetTree, Download, SectionEnds, Finish, Within,
     settings, TypeOK
<1>7. backup' \in [Backup -> {"new", "waiting", "forwarded", "lost"}]
  BY DEF Next, Tick, Configure, SourceChanges, Crash, Request, Detect, List,
     ResetTree, Download, SectionEnds, Finish, Within, Released, settings, TypeOK
<1> QED
  BY <1>1, <1>2, <1>3, <1>4, <1>5, <1>6, <1>7 DEF TypeOK, Run

-----------------------------------------------------------------------------
(* The trees. *)

(* What the proofs below need of the types. *)
LEMMA Values ==
  ASSUME TypeOK, RunShape
  PROVE  /\ \A s \in Section : \A f \in File : tree[s][f] \in Nat
         /\ run.id \in Nat /\ runs \in Nat
         /\ Busy => run.id = runs /\ run.id # 0
         /\ run.work # {} => Here \in Section /\ Here \in run.work
<1>1. \A s \in Section : \A f \in File : tree[s][f] \in 0..MaxRuns
  BY DEF TypeOK, Tree
<1>2. run.id \in 0..MaxRuns /\ runs \in 0..MaxRuns
  BY DEF TypeOK
<1> QED
  BY <1>1, <1>2, SectionSteps, ExportAssumption DEF RunShape

(* Every step leaves the tree at hand with what this run wrote only.       *)
LEMMA FreshStep ==
  ASSUME TypeOK, RunShape, Fresh, OnlyDb, Next
  PROVE  Fresh'
<1> SUFFICES ASSUME Busy', run'.work # {}, Removed',
                    ~(Here = "grafana.db" /\ stale)', NEW f \in File
             PROVE  tree'[Here'][f] \in {0, run'.id}
  BY DEF Fresh
<1>1. CASE Outside
  <2>1. CASE Kept /\ Shared
    BY <1>1, <2>1 DEF Kept, Shared, Fresh, Busy, Removed, Here
  <2>2. CASE Began \/ Skipped
    BY <2>2 DEF Began, Skipped
  <2>3. CASE Started
    <3>1. run'.work \in SUBSET Section
      BY <2>3 DEF Started, Run
    <3> QED
      BY <2>3, <3>1, StepsStart DEF Started, Begun, Removed
  <2>4. CASE Ended
    BY <2>4 DEF Ended, NoRun
  <2> QED
    BY <1>1, <2>1, <2>2, <2>3, <2>4 DEF Outside
<1>2. CASE Inside
  <2>1. run.work # {} /\ Busy
    BY <1>2 DEF Inside
  <2>2. Here \in Section /\ run.steps \in StepsOf(Here)
    BY <2>1, SectionSteps DEF RunShape
  <2>3. ASSUME NEW failed, MoveOn(failed)
        PROVE  FALSE
    <3>1. run'.work \in SUBSET Section
      BY <2>3 DEF MoveOn, Run
    <3> QED
      BY <2>3, <3>1, StepsStart DEF MoveOn, Begun, Removed
  <2>4. CASE StepOn /\ Listing /\ Kept
    <3>1. Removed
      BY <2>2, <2>4, StepsGoOn DEF Removed, StepOn, Listing
    <3> QED
      BY <2>1, <2>4, <3>1 DEF Fresh, StepOn, Kept, Here
  <2>5. CASE StepOn /\ (Cleared \/ Stuck)
    <3>1. Here' = Here
      BY <2>5 DEF StepOn, Here
    <3>2. Cleared
      BY <2>5, <3>1 DEF Stuck
    <3> QED
      BY <2>1, <3>1, <3>2, TreesAre
  <2>6. CASE StayPut /\ run.steps = <<"files">> /\ (Fetched \/ Missed)
    <3>1. Here' = Here /\ run'.id = run.id /\ Removed
      BY <2>6 DEF StayPut, Here, Removed
    <3>2. CASE Missed
      BY <2>1, <3>1, <3>2 DEF Missed, Kept, Fresh
    <3>3. CASE Fetched
      <4>1. PICK g \in run.files : Written(g)
        BY <3>3 DEF Fetched
      <4>2. /\ g \in File /\ tree'[Here][g] = run.id
            /\ \A h \in File \ {g} : tree'[Here][h] = tree[Here][h]
        BY <2>1, <4>1, TreesAre DEF TypeOK
      <4>3. CASE Here = "grafana.db" /\ stale
        <5>1. g = TheDb
          BY <2>1, <4>1, <4>3 DEF RunShape
        <5> QED
          BY <2>2, <3>1, <4>2, <4>3, <5>1 DEF OnlyDb
      <4>4. CASE ~(Here = "grafana.db" /\ stale)
        BY <2>1, <3>1, <4>2, <4>4 DEF Fresh
      <4> QED
        BY <4>3, <4>4
    <3> QED
      BY <2>6, <3>2, <3>3
  <2> QED
    BY <1>2, <2>3, <2>4, <2>5, <2>6 DEF Inside
<1> QED
  BY <1>1, <1>2, NextIs

(* grafana.db is one file: nothing else is staged in its place.            *)
LEMMA OnlyDbStep ==
  ASSUME TypeOK, RunShape, OnlyDb, Next
  PROVE  OnlyDb'
<1> SUFFICES ASSUME "grafana.db" \in Section, NEW f \in File \ {TheDb}
             PROVE  tree'["grafana.db"][f] = 0
  BY DEF OnlyDb
<1>1. tree["grafana.db"][f] = 0
  BY DEF OnlyDb
<1>2. CASE tree' = tree
  BY <1>1, <1>2
<1>3. CASE run.work # {} /\ Here # "grafana.db"
  BY <1>1, <1>3, TreesAre
<1>4. CASE run.work # {} /\ Here = "grafana.db" /\ (Cleared \/ Trimmed)
  BY <1>1, <1>4, TreesAre
<1>5. CASE run.work # {} /\ Here = "grafana.db" /\ Fetched
  <2>1. PICK g \in run.files : Written(g)
    BY <1>5 DEF Fetched
  <2>2. g = TheDb /\ g \in File
    BY <1>5, <2>1, DbIsFile DEF RunShape
  <2> QED
    BY <1>1, <1>5, <2>1, <2>2, TreesAre
<1> QED
  BY <1>2, <1>3, <1>4, <1>5, TreesAre, NextIs DEF Outside, Inside, Kept, Stuck, Missed

(* A file of a tree stays as it was, goes, or is this run's.  The last     *)
(* only among files that all are, or if it is the only one.                *)
LEMMA FilesAre ==
  ASSUME TypeOK, RunShape, Fresh, OnlyDb, Next, NEW s \in Section
  PROVE  /\ \A f \in File : tree'[s][f] \in {0, tree[s][f], run.id}
         /\ \/ \A f \in File : tree'[s][f] \in {0, tree[s][f]}
            \/ /\ Busy /\ run.work # {} /\ s = Here /\ run'.id = run.id
               /\ \/ \A f \in File : tree[s][f] \in {0, run.id}
                  \/ /\ s = "grafana.db"
                     /\ \A f \in File \ {TheDb} : tree'[s][f] = 0
<1>1. CASE Kept \/ Stuck
  BY <1>1 DEF Kept, Stuck
<1>2. CASE run.work # {} /\ (Cleared \/ Trimmed)
  <2>1. s # Here => tree'[s] = tree[s]
    BY TreesAre
  <2>2. \A f \in File : tree'[Here][f] \in {0, tree[Here][f]}
    BY <1>2, TreesAre
  <2> QED
    BY <2>1, <2>2
<1>3. CASE run.work # {} /\ Fetched /\ StayPut /\ run.steps = <<"files">> /\ Busy
  <2>1. \/ \A f \in File : tree[Here][f] \in {0, run.id}
        \/ Here = "grafana.db"
    BY <1>3 DEF Fresh, Removed
  <2>2. PICK g \in File : Written(g)
    BY <1>3 DEF Fetched, TypeOK
  <2>3. \A f \in File : tree'[Here][f] \in {run.id, tree[Here][f]}
    BY <1>3, <2>2, TreesAre
  <2>4. CASE s = Here
    <3>1. s = "grafana.db" => \A f \in File \ {TheDb} : tree'[s][f] = 0
      BY OnlyDbStep DEF OnlyDb
    <3> QED
      BY <1>3, <2>1, <2>3, <2>4, <3>1 DEF StayPut
  <2>5. CASE s # Here
    BY <1>3, <2>5, TreesAre
  <2> QED
    BY <2>4, <2>5
<1> QED
  BY <1>1, <1>2, <1>3, NextIs DEF Outside, Inside, Missed

(* Every step leaves the files of each tree from one run.                  *)
LEMMA OneRunStep ==
  ASSUME TypeOK, RunShape, Fresh, OnlyDb, TreesOld, OneRun, Next
  PROVE  TreesOld' /\ OneRun'
<1>1. \A s \in Section : \A f \in File : tree[s][f] \in Nat
  BY Values
<1>2. /\ run.id \in Nat /\ runs \in Nat /\ runs' \in Nat
      /\ runs <= runs' /\ run.id <= runs
  <2>1. runs' = runs \/ runs' = runs + 1
    BY NextIs DEF Outside, Inside, Shared, Began
  <2>2. run.id = 0 \/ Busy
    BY DEF Busy, NoRun
  <2> QED
    BY <2>1, <2>2, Values
<1>3. TreesOld'
  <2> SUFFICES ASSUME NEW s \in Section, NEW f \in File
               PROVE  tree'[s][f] <= runs'
    BY DEF TreesOld
  <2>1. tree'[s][f] \in {0, tree[s][f], run.id}
    BY FilesAre
  <2>2. tree[s][f] <= runs /\ tree[s][f] \in Nat
    BY <1>1 DEF TreesOld
  <2> QED
    BY <1>2, <2>1, <2>2
<1>4. OneRun'
  <2> SUFFICES ASSUME NEW s \in Section, NEW f \in File, NEW g \in File,
                      tree'[s][f] # 0, tree'[s][g] # 0
               PROVE  tree'[s][f] = tree'[s][g]
    BY DEF OneRun, Staged
  <2>1. tree[s][f] # 0 /\ tree[s][g] # 0 => tree[s][f] = tree[s][g]
    BY DEF OneRun, Staged
  <2>2. CASE \A h \in File : tree'[s][h] \in {0, tree[s][h]}
    BY <2>1, <2>2
  <2>3. CASE \A h \in File : tree[s][h] \in {0, run.id}
    <3>1. \A h \in File : tree'[s][h] \in {0, tree[s][h], run.id}
      BY FilesAre
    <3> QED
      BY <2>3, <3>1
  <2>4. CASE \A h \in File \ {TheDb} : tree'[s][h] = 0
    BY <2>4
  <2> QED
    BY <2>2, <2>3, <2>4, FilesAre
<1> QED
  BY <1>3, <1>4

(* Every step keeps the database no older than the dashboards beside it,   *)
(* or known to be stale.                                                   *)
LEMMA DbStep ==
  ASSUME TypeOK, RunShape, Fresh, OnlyDb, TreesOld, DbOfRun, DbFirst, Next
  PROVE  DbOfRun' /\ DbFirst'
<1> DEFINE db == tree["grafana.db"][TheDb]
<1>1. CASE ~Grafana
  BY <1>1 DEF DbOfRun, DbFirst, Grafana
<1>2. CASE Grafana
  <2>1. /\ "grafana.db" \in Section /\ "dashboards" \in Section /\ TheDb \in File
        /\ \A s \in Section : \A f \in File : tree[s][f] \in Nat
        /\ run.id \in Nat
    BY <1>2, DbIsFile, Values DEF Grafana
  <2>2. DbOfRun'
    <3> SUFFICES ASSUME run'.work # {}, Exporting' = "grafana",
                        "grafana.db" \notin run'.work, ~stale'
                 PROVE  db' \in {0, run'.id}
      BY DEF DbOfRun
    <3>1. CASE Outside
      <4>1. CASE Kept /\ Shared
        BY <1>2, <4>1 DEF Kept, Shared, DbOfRun, Exporting
      <4>2. CASE Began \/ Skipped \/ Ended
        BY <4>2 DEF Began, Skipped, Ended, NoRun
      <4>3. CASE Started
        BY <2>1, <4>3 DEF Started, Exporting, Sections
      <4> QED
        BY <3>1, <4>1, <4>2, <4>3 DEF Outside
    <3>2. CASE Inside
      <4>1. /\ run.work # {} /\ Busy /\ run'.id = run.id
            /\ run'.todo = run.todo
        BY <3>2 DEF Inside, StepOn, StayPut, MoveOn
      <4>2. Exporting = "grafana"
        BY <4>1 DEF Exporting
      <4>3. CASE "grafana.db" \notin run.work
        <5>1. Here # "grafana.db"
          BY <4>1, <4>3, Values
        <5>2. ~stale
          BY <3>2, <5>1 DEF Inside, Kept, Cleared, Stuck, Fetched, Written,
             Missed, Trimmed
        <5>3. db \in {0, run.id}
          BY <1>2, <4>1, <4>2, <4>3, <5>2 DEF DbOfRun
        <5> QED
          BY <2>1, <4>1, <5>1, <5>3, TreesAre
      <4>4. CASE "grafana.db" \in run.work
        <5>1. Here = "grafana.db"
          BY <4>4 DEF Here, FirstSection
        <5>2. run.steps = <<"files">> /\ Kept
          <6>1. ~StepOn /\ ~StayPut
            BY <4>4 DEF StepOn, StayPut
          <6>2. run.steps \in {<<"reset", "files">>, <<"files">>}
            BY <4>1, <5>1 DEF RunShape, StepsOf
          <6> QED
            BY <3>2, <5>1, <6>1, <6>2 DEF Inside
        <5> QED
          BY <2>1, <4>1, <5>1, <5>2 DEF Fresh, Removed, Kept
      <4> QED
        BY <4>3, <4>4
    <3> QED
      BY <3>1, <3>2, NextIs
  <2>3. DbFirst'
    <3> SUFFICES ASSUME db' # 0, ~stale', NEW f \in File
                 PROVE  tree'["dashboards"][f] <= db'
      BY DEF DbFirst
    <3> DEFINE dash == tree["dashboards"][f]
    <3>1. dash \in Nat /\ db \in Nat /\ dash <= runs /\ runs \in Nat
      BY <2>1, Values DEF TreesOld
    <3>2. run.id = 0 \/ (Busy /\ run.id = runs)
      BY Values DEF Busy, NoRun
    <3>3. db' \in {0, db, run.id} /\ dash' \in {0, dash, run.id}
      BY <2>1, FilesAre
    <3>4. CASE db' = run.id
      BY <2>1, <3>1, <3>2, <3>3, <3>4
    <3>5. ASSUME db' = db, db' # run.id
          PROVE  ~stale
      <4>1. ~(run.work # {} /\ Cleared /\ Here = "grafana.db")
        BY <2>1, <3>5, TreesAre
      <4>2. ~(run.work # {} /\ Fetched /\ Here = "grafana.db")
        <5> SUFFICES ASSUME run.work # {}, Fetched, Here = "grafana.db"
                     PROVE  FALSE
          OBVIOUS
        <5>1. PICK g \in run.files : Written(g)
          BY DEF Fetched
        <5>2. g = TheDb
          BY <5>1 DEF RunShape
        <5> QED
          BY <2>1, <3>5, <5>1, <5>2, TreesAre
      <4> QED
        BY <4>1, <4>2, NextIs DEF Outside, Inside, Kept, Cleared, Stuck, Fetched,
           Written, Missed, Trimmed
    <3>6. CASE db' = db /\ db' # run.id /\ dash' \in {0, dash}
      <4>1. dash <= db
        BY <1>2, <3>5, <3>6 DEF DbFirst
      <4> QED
        BY <3>1, <3>6, <4>1
    <3>7. CASE db' = db /\ db' # run.id /\ dash' \notin {0, dash}
      <4>1. run.work # {} /\ Here = "dashboards"
        BY <2>1, <3>7, FilesAre
      <4>2. "grafana.db" \notin run.work
        BY <4>1 DEF Here, FirstSection
      <4>3. "dashboards" \in Sections(Exporting)
        BY <4>1, Values DEF RunShape
      <4>4. Exporting = "grafana"
        BY <4>3 DEF Sections
      <4>5. db \in {0, run.id}
        BY <1>2, <3>5, <3>7, <4>1, <4>2, <4>4 DEF DbOfRun
      <4> QED
        BY <3>7, <4>5
    <3> QED
      BY <3>3, <3>4, <3>6, <3>7
  <2> QED
    BY <2>2, <2>3
<1> QED
  BY <1>1, <1>2

(* A section belongs to one exporter. *)
LEMMA OneExporter ==
  ASSUME NEW d \in Exporter, NEW e \in Exporter, NEW s \in Sections(d),
         s \in Sections(e)
  PROVE  d = e
BY ExportAssumption DEF Sections

(* The steps there can be, by the section. *)
LEMMA StepsAre ==
  ASSUME NEW s \in Section, NEW steps \in StepsOf(s)
  PROVE  /\ Head(steps) = "list" =>
              /\ s # "grafana.db"
              /\ Tail(steps) = <<"files">> => steps = <<"list", "files">>
              /\ Tail(steps) # <<"list", "files">>
         /\ Head(steps) = "reset" =>
              /\ Tail(steps) = <<"files">> => steps = <<"reset", "files">>
              /\ Tail(steps) = <<"list", "files">> => s = "signalkDatabase"
              /\ Tail(steps) # <<"reset", "files">>
         /\ <<"files">> \notin {<<"list", "files">>, <<"reset", "files">>}
<1>1. CASE steps = <<"files">>
  BY <1>1
<1>2. CASE steps = <<"list", "files">> /\ s # "grafana.db"
  BY <1>2
<1>3. CASE steps = <<"reset", "files">> /\ s # "signalkDatabase"
  BY <1>3
<1>4. CASE steps = <<"list", "reset", "files">>
           /\ s \in {"dashboards", "provisioning"}
  BY <1>4
<1>5. CASE steps = <<"reset", "list", "files">> /\ s = "signalkDatabase"
  BY <1>5
<1> QED
  BY <1>1, <1>2, <1>3, <1>4, <1>5, ExportAssumption DEF StepsOf

(* A section that has just begun has nothing staged that counts yet.       *)
LEMMA BegunLists ==
  ASSUME run \in Run, run' \in Run, Here' \in Section, Begun(run', Here')
  PROVE  ListInv'
<1>1. /\ run'.steps = Steps(Here') /\ run'.files = UNION Unlisted(Here')
      /\ run'.lists[Here'] = Unlisted(Here')
  BY DEF Begun, Run
<1>2. Steps(Here') \notin {<<"list", "files">>, <<"files">>}
  BY StepsStart
<1>3. ASSUME Steps(Here') = <<"reset", "files">>
      PROVE  Here' = "grafana.db"
  BY <1>3, ExportAssumption DEF Steps, DbSteps, DashboardSteps,
     ProvisioningSteps, DatabaseSteps
<1>4. Here' = "grafana.db" => /\ Unlisted(Here') = {{TheDb}}
                             /\ UNION Unlisted(Here') = {TheDb}
  BY DEF Unlisted
<1> QED
  BY <1>1, <1>2, <1>3, <1>4 DEF ListInv

(* Every step accounts for the files that were listed.                     *)
LEMMA ListStep ==
  ASSUME TypeOK, RunShape, OnlyDb, ListInv, Next
  PROVE  ListInv'
<1>1. run \in Run /\ run' \in Run
  BY ShapeStep DEF TypeOK, Run
<1>2. CASE Outside
  <2>1. CASE Kept /\ Shared
    BY <2>1 DEF Kept, Shared, ListInv, Busy, Here, Staged
  <2>2. CASE Began \/ Skipped \/ Ended
    BY <2>2 DEF Began, Skipped, Ended, NoRun, ListInv
  <2>3. CASE Started
    <3>1. Here' \in Section /\ Begun(run', Here')
      BY <1>1, <2>3 DEF Started, Here, Run
    <3> QED
      BY <1>1, <3>1, BegunLists
  <2> QED
    BY <1>2, <2>1, <2>2, <2>3 DEF Outside
<1>3. CASE Inside
  <2>1. /\ run.work # {} /\ Busy /\ Here \in Section /\ run.id # 0
        /\ run.steps \in StepsOf(Here)
    BY <1>3, Values DEF Inside, RunShape
  <2>2. ASSUME NEW failed, MoveOn(failed)
        PROVE  ListInv'
    <3>1. CASE run'.work = {}
      BY <3>1 DEF ListInv
    <3>2. CASE run'.work # {}
      <4>1. Here' \in Section /\ Begun(run', Here')
        BY <1>1, <2>2, <3>2 DEF MoveOn, Here, Run
      <4> QED
        BY <1>1, <4>1, BegunLists
    <3> QED
      BY <3>1, <3>2
  <2>3. CASE StepOn /\ Listing /\ Kept
    <3>1. /\ Here' = Here /\ Staged(Here)' = Staged(Here)
          /\ run'.lists[Here] = {run'.files} /\ run'.steps = Tail(run.steps)
          /\ Here # "grafana.db"
      BY <1>1, <2>1, <2>3, StepsAre DEF StepOn, Listing, Kept, Here, Run, Staged
    <3>2. run'.steps # <<"list", "files">>
      BY <2>1, <2>3, <3>1, StepsAre DEF Listing
    <3>3. ASSUME run'.steps = <<"files">>, Here \notin run.failed
          PROVE  Staged(Here) = {}
      BY <2>1, <2>3, <3>1, <3>3, StepsAre DEF Listing, ListInv
    <3>4. run'.failed = run.failed
      BY <2>3 DEF StepOn
    <3>5. Staged(Here') = Staged(Here)'
      BY <3>1 DEF Staged
    <3>6. CASE Here \in run.failed
      BY <3>1, <3>4, <3>6 DEF ListInv
    <3>7. CASE run'.steps = <<"files">> /\ Here \notin run.failed
      <4>1. Staged(Here') = {}
        BY <3>1, <3>3, <3>5, <3>7
      <4>2. /\ run'.lists[Here'] = {Staged(Here)' \cup run'.files}
            /\ \A f \in Staged(Here)' \ run'.files : tree'[Here'][f] = run'.id
        <5>1. Staged(Here)' = {}
          BY <3>1, <3>3, <3>7
        <5>2. {} \cup run'.files = run'.files
          OBVIOUS
        <5> QED
          BY <3>1, <5>1, <5>2
      <4> QED
        BY <3>1, <3>7, <4>2 DEF ListInv
    <3>8. CASE run'.steps # <<"files">>
      BY <3>1, <3>2, <3>8 DEF ListInv
    <3> QED
      BY <3>6, <3>7, <3>8
  <2>4. CASE StepOn /\ Resetting /\ (Cleared \/ Stuck)
    <3>1. /\ Here' = Here /\ run'.failed = run.failed
          /\ run'.lists = run.lists /\ run'.files = run.files
          /\ run'.steps = Tail(run.steps) /\ Head(run.steps) = "reset"
      BY <2>4 DEF StepOn, Resetting, Here
    <3>2. /\ run'.steps # <<"reset", "files">>
          /\ run'.steps = <<"list", "files">> => Here = "signalkDatabase"
          /\ run'.steps = <<"files">> => run.steps = <<"reset", "files">>
      BY <2>1, <3>1, StepsAre
    <3>3. Cleared => \A f \in File : tree'[Here][f] = 0
      BY <2>1, TreesAre
    <3>4. ASSUME Stuck, Here \notin run.failed, run'.steps = <<"files">>
          PROVE  \A f \in File : tree'[Here][f] # 0 => f \in run.files
      BY <2>1, <3>1, <3>2, <3>4 DEF Stuck, OnlyDb, ListInv
    <3>5. \/ Here \in run.failed
          \/ /\ run'.steps = <<"list", "files">> => \A f \in File : tree'[Here][f] = 0
             /\ run'.steps = <<"files">> =>
                  /\ run.lists[Here] = {run.files}
                  /\ \A f \in File : tree'[Here][f] # 0 => f \in run.files
      <4>1. run'.steps = <<"list", "files">> => Cleared
        BY <2>4, <3>2 DEF Stuck
      <4>2. Here \notin run.failed /\ run'.steps = <<"files">> =>
              run.lists[Here] = {run.files}
        BY <2>1, <3>2 DEF ListInv
      <4> QED
        BY <2>4, <3>3, <3>4, <4>1, <4>2
    <3>6. run.files \subseteq File
      BY <1>1 DEF Run
    <3> QED
      BY <3>1, <3>2, <3>5, <3>6 DEF ListInv, Staged
  <2>5. CASE StayPut /\ run.steps = <<"files">> /\ Fetched
    <3>1. PICK g \in run.files :
            run'.files = run.files \ {g} /\ run'.failed = run.failed /\ Written(g)
      BY <2>5 DEF Fetched
    <3>2. /\ g \in File /\ tree'[Here][g] = run.id
          /\ \A f \in File \ {g} : tree'[Here][f] = tree[Here][f]
      BY <2>1, <3>1, TreesAre DEF TypeOK
    <3>3. /\ Here' = Here /\ run'.lists = run.lists /\ run'.id = run.id
          /\ run'.steps = <<"files">>
      BY <2>5 DEF StayPut, Here
    <3>4. ASSUME Here \notin run.failed
          PROVE  /\ run'.lists[Here] = {Staged(Here)' \cup run'.files}
                 /\ \A f \in Staged(Here)' \ run'.files : tree'[Here][f] = run'.id
      <4>1. /\ run.lists[Here] = {Staged(Here) \cup run.files}
            /\ \A f \in Staged(Here) \ run.files : tree[Here][f] = run.id
        BY <2>1, <2>5, <3>4 DEF ListInv
      <4>2. \A f \in File : tree'[Here'][f] = tree'[Here][f]
        BY <3>3
      <4>3. Staged(Here)' = Staged(Here) \cup {g}
        BY <2>1, <3>2, <3>3 DEF Staged
      <4>4. Staged(Here)' \cup run'.files = Staged(Here) \cup run.files
        BY <3>1, <4>3
      <4>5. \A f \in Staged(Here)' \ run'.files : tree'[Here][f] = run.id
        <5> SUFFICES ASSUME NEW f \in Staged(Here)' \ run'.files, f # g
                     PROVE  tree'[Here][f] = run.id
          BY <3>2
        <5>1. f \in Staged(Here) \ run.files /\ f \in File
          BY <3>1, <4>3 DEF Staged
        <5> QED
          BY <3>2, <4>1, <5>1
      <4> QED
        BY <3>3, <4>1, <4>4, <4>5
    <3>5. <<"files">> \notin {<<"list", "files">>, <<"reset", "files">>}
      BY <2>1, StepsAre
    <3> QED
      BY <3>1, <3>3, <3>4, <3>5 DEF ListInv, Staged
  <2>6. CASE StayPut /\ Missed
    BY <2>6 DEF StayPut, Missed, ListInv, Here
  <2> QED
    BY <1>3, <2>2, <2>3, <2>4, <2>5, <2>6 DEF Inside
<1> QED
  BY <1>2, <1>3, NextIs

(* Every step leaves each section failed, still to come or staged as       *)
(* listed.                                                                 *)
LEMMA DoneStep ==
  ASSUME TypeOK, RunShape, ListInv, DoneInv, Next
  PROVE  DoneInv'
<1> SUFFICES ASSUME Busy', NEW e \in run'.want, NEW s \in Sections(e)
             PROVE  s \in run'.failed \/ ToCome(e, s)' \/ Done(s)'
  BY DEF DoneInv
<1>1. e \in Exporter /\ s \in Section /\ run \in Run
  BY ShapeStep DEF Run, Sections, TypeOK
<1>2. tree'[s] = tree[s] /\ run'.lists[s] = run.lists[s] /\ run'.id = run.id
        => Done(s)' = Done(s)
  BY DEF Done, Staged
<1>3. CASE Outside
  <2>1. CASE Kept /\ Shared
    BY <1>2, <1>3, <2>1 DEF Kept, Shared, DoneInv, ToCome, Exporting, Busy
  <2>2. CASE Began
    BY <2>2 DEF Began, ToCome
  <2>3. CASE Ended
    BY <2>3 DEF Ended, Busy
  <2>4. CASE Kept /\ run.work = {} /\ (Skipped \/ Started)
    <3>1. Busy /\ e \in run.want /\ Exporting \in Exporter
      BY <1>1, <2>4 DEF Skipped, Started, Busy, NoRun, Run
    <3>2. s \in run.failed \/ e \in run.todo \/ Done(s)
      BY <3>1 DEF DoneInv, ToCome
    <3>3. CASE e = Exporting
      BY <2>4, <3>3 DEF Skipped, Started, ToCome, Exporting
    <3>4. CASE e # Exporting
      <4>1. s \notin Sections(Exporting)
        BY <1>1, <3>1, <3>4, OneExporter
      <4>2. run'.lists[s] = run.lists[s]
        BY <1>1, <2>4, <4>1 DEF Skipped, Started, Begun, Run
      <4>3. CASE s \in run.failed \/ Done(s)
        BY <1>2, <2>4, <4>2, <4>3 DEF Skipped, Started, Kept
      <4>4. CASE e \in run.todo
        <5>1. CASE Skipped
          BY <3>4, <4>4, <5>1 DEF Skipped, ToCome
        <5>2. CASE Started
          BY <3>4, <4>4, <5>2 DEF Started, ToCome, Exporting
        <5> QED
          BY <2>4, <5>1, <5>2
      <4> QED
        BY <3>2, <4>3, <4>4
    <3> QED
      BY <3>3, <3>4
  <2> QED
    BY <1>3, <2>1, <2>2, <2>3, <2>4 DEF Outside
<1>4. CASE Inside
  <2>1. /\ run.work # {} /\ Busy /\ run'.id = run.id /\ e \in run.want
        /\ run.failed \subseteq run'.failed
    BY <1>4 DEF Inside, StepOn, StayPut, MoveOn, Fetched, Missed
  <2>2. /\ Exporting \in Exporter /\ Here \in run.work /\ Here \in Section
        /\ run.work \subseteq Sections(Exporting)
        /\ Exporting \in run.todo
    BY <2>1, FirstIsOne, Values DEF RunShape, Exporting, TypeOK
  <2>3. s \in run.failed \/ ToCome(e, s) \/ Done(s)
    BY <2>1 DEF DoneInv
  <2>4. CASE s = Here
    <3>1. e = Exporting
      BY <1>1, <2>2, <2>4, OneExporter
    <3>2. CASE StepOn \/ StayPut
      BY <2>2, <2>4, <3>1, <3>2 DEF StepOn, StayPut, ToCome, Exporting
    <3>3. CASE MoveOn(run.failed \cup {Here})
      BY <2>4, <3>3 DEF MoveOn
    <3>4. CASE MoveOn(run.failed) /\ Kept /\ run.steps = <<"files">>
               /\ run.files = {} /\ s \notin run.failed
      <4>1. /\ run.lists[s] = {Staged(s) \cup {}}
            /\ \A f \in Staged(s) \ {} : tree[s][f] = run.id
        BY <2>1, <2>4, <3>4 DEF ListInv
      <4>2. Done(s)
        BY <4>1 DEF Done
      <4>3. run'.lists[s] = run.lists[s]
        BY <1>1, <2>2, <2>4, <3>4 DEF MoveOn, Begun, Run
      <4> QED
        BY <1>2, <2>1, <3>4, <4>2, <4>3 DEF Kept
    <3> QED
      BY <1>4, <2>1, <3>2, <3>3, <3>4 DEF Inside
  <2>5. CASE s # Here
    <3>1. tree'[s] = tree[s]
      BY <1>1, <2>5, TreesAre
    <3>2. CASE ToCome(e, s)
      <4>1. CASE run'.todo = run.todo
        <5>1. Exporting' = Exporting
          BY <4>1 DEF Exporting
        <5>2. run'.work = run.work \/ run'.work = run.work \ {Here}
          BY <1>4 DEF Inside, StepOn, StayPut, MoveOn
        <5> QED
          BY <2>1, <2>5, <3>2, <4>1, <5>1, <5>2 DEF ToCome
      <4>2. CASE run'.todo # run.todo
        <5>1. /\ run'.work = {} /\ run.work \subseteq {Here}
              /\ run'.todo = run.todo \ {Exporting}
          BY <1>4, <4>2 DEF Inside, StepOn, StayPut, MoveOn
        <5>2. e # Exporting
          BY <2>1, <2>5, <3>2, <5>1 DEF ToCome
        <5> QED
          BY <3>2, <5>1, <5>2 DEF ToCome
      <4> QED
        BY <4>1, <4>2
    <3>3. CASE s \in run.failed
      BY <2>1, <3>3
    <3>4. CASE Done(s) /\ ~ToCome(e, s)
      <4>1. ASSUME NEW failed, MoveOn(failed)
            PROVE  run'.lists[s] = run.lists[s]
        <5>1. CASE run'.work = {}
          BY <4>1, <5>1 DEF MoveOn
        <5>2. CASE run'.work # {}
          <6>1. s \notin run.work
            <7>1. s \in run.work => e = Exporting
              BY <1>1, <2>2, OneExporter
            <7> QED
              BY <2>2, <3>4, <7>1 DEF ToCome
          <6> QED
            BY <1>1, <4>1, <5>2, <6>1 DEF MoveOn, Begun, Run
        <5> QED
          BY <5>1, <5>2
      <4>2. StepOn /\ Listing => run'.lists[s] = run.lists[s]
        BY <1>1, <2>5 DEF Listing, Run
      <4>3. run'.lists[s] = run.lists[s]
        BY <1>4, <4>1, <4>2 DEF Inside, Resetting, StayPut
      <4> QED
        BY <1>2, <2>1, <3>1, <3>4, <4>3
    <3> QED
      BY <2>3, <3>2, <3>3, <3>4
  <2> QED
    BY <2>4, <2>5
<1> QED
  BY <1>3, <1>4, NextIs

-----------------------------------------------------------------------------
(* The theorems. *)

(* The export invariant holds at first.                                    *)
LEMMA ExportInvInit == Init => ExportInv
<1> SUFFICES ASSUME Init
             PROVE  ExportInv
  OBVIOUS
<1>1. NoRun \in Run /\ 0 \in 0..MaxRuns /\ 0 \in 0..MaxChanges
  BY NoRunTyped, ExportAssumption
<1>2. run = NoRun /\ ~Busy /\ run.work = {} /\ run.todo = {} /\ runs = 0
  BY DEF Init, Busy, NoRun
<1>3. tree \in Tree /\ \A s \in Section : \A f \in File : tree[s][f] = 0
  BY <1>1 DEF Init, Tree, Empty
<1>4. TypeOK
  <2>1. run \in Run
    BY <1>1, <1>2
  <2>2. backup \in [Backup -> {"new", "waiting", "forwarded", "lost"}]
    BY DEF Init
  <2> QED
    BY <1>1, <1>3, <2>1, <2>2 DEF TypeOK, Run, Init
<1>5. RunShape
  BY <1>2 DEF RunShape
<1>6. TreeInv
  <2>1. Fresh /\ DbOfRun /\ ListInv /\ DoneInv
    BY <1>2 DEF Fresh, DbOfRun, ListInv, DoneInv
  <2>2. TreesOld /\ OneRun /\ OnlyDb
    BY <1>2, <1>3 DEF TreesOld, OneRun, Staged, OnlyDb
  <2>3. DbFirst
    BY <1>3, DbIsFile DEF DbFirst, Grafana
  <2> QED
    BY <2>1, <2>2, <2>3 DEF TreeInv
<1> QED
  BY <1>4, <1>5, <1>6 DEF ExportInv

(* Every step keeps the export invariant.                                  *)
LEMMA ExportInvStep == ExportInv /\ [Next]_vars => ExportInv'
<1> SUFFICES ASSUME ExportInv, [Next]_vars
             PROVE  ExportInv'
  OBVIOUS
<1>1. CASE Next
  <2>1. TypeOK' /\ RunShape'
    BY <1>1, TypeStep, ShapeStep DEF ExportInv
  <2>2. TreeInv'
    BY <1>1, FreshStep, OneRunStep, OnlyDbStep, DbStep, ListStep, DoneStep
       DEF ExportInv, TreeInv
  <2> QED
    BY <2>1, <2>2 DEF ExportInv
<1>2. CASE UNCHANGED vars
  <2> USE <1>2 DEF vars, settings, staging
  <2>1. TypeOK'
    BY DEF ExportInv, TypeOK
  <2>2. RunShape'
    BY DEF ExportInv, RunShape, Busy, Exporting, Here
  <2>3. Fresh' /\ TreesOld' /\ OneRun' /\ OnlyDb'
    BY DEF ExportInv, TreeInv, Fresh, TreesOld, OneRun, OnlyDb, Staged, Busy,
       Removed, Here
  <2>4. DbOfRun' /\ DbFirst'
    BY DEF ExportInv, TreeInv, DbOfRun, DbFirst, Exporting
  <2>5. ListInv' /\ DoneInv'
    BY DEF ExportInv, TreeInv, ListInv, DoneInv, Done, ToCome, Exporting, Busy,
       Here, Staged
  <2> QED
    BY <2>1, <2>2, <2>3, <2>4, <2>5 DEF ExportInv, TreeInv
<1> QED
  BY <1>1, <1>2

(* The exports that run, with or without a listing of the staging          *)
(* directory, keep the invariant.                                          *)
LEMMA ExportInvHolds == Spec => []ExportInv
BY ExportInvInit, ExportInvStep, PTL DEF Spec

(* The types, of a run in particular.                                      *)
THEOREM ExportTypeCorrect == Spec => []TypeOK
<1>1. ExportInv => TypeOK
  BY DEF ExportInv
<1> QED
  BY <1>1, ExportInvHolds, PTL

(* Whenever the backup server takes its snapshot, no tree mixes two runs,  *)
(* and grafana.db is no older than the dashboards beside it, unless its    *)
(* removal failed, which the code ignores, and its download after it.      *)
THEOREM SnapshotsConsistent == Spec => []SnapshotConsistent
<1>1. ExportInv => SnapshotConsistent
  <2> SUFFICES ASSUME ExportInv
               PROVE  SnapshotConsistent
    OBVIOUS
  <2>1. OneRun /\ DbFirst
    BY DEF ExportInv, TreeInv
  <2> QED
    BY <2>1 DEF OneRun, DbFirst, Grafana, SnapshotConsistent, Staged
<1> QED
  BY <1>1, ExportInvHolds, PTL

(* A backup that waited is forwarded when its run has ended, and then each *)
(* section that did not fail was listed and has staged what was listed,    *)
(* all of it and nothing else, as this run fetched it.                     *)
THEOREM BackupsSeeTheRun == Spec => BackupSeesRun
<1> DEFINE Sees == \A b \in Backup :
              backup[b] # "forwarded" /\ backup'[b] = "forwarded" =>
                \/ enabled = {}
                \/ /\ ~Busy'
                   /\ backup[b] = "waiting"
                   /\ \A s \in OwnSections(run.want) \ run.failed :
                        /\ run.lists[s] = {Staged(s)}
                        /\ \A f \in Staged(s) : tree[s][f] = run.id
<1>1. ASSUME ExportInv, Next
      PROVE  Sees
  <2> SUFFICES ASSUME NEW b \in Backup,
                      backup[b] # "forwarded", backup'[b] = "forwarded",
                      enabled # {}
               PROVE  /\ ~Busy' /\ backup[b] = "waiting"
                      /\ \A s \in OwnSections(run.want) \ run.failed : Done(s)
    BY DEF Done
  <2>1. backup \in [Backup -> {"new", "waiting", "forwarded", "lost"}]
    BY <1>1 DEF ExportInv, TypeOK
  <2>2. Finish /\ backup[b] = "waiting"
    BY <1>1, <2>1 DEF Next, Tick, Configure, SourceChanges, Crash, Request,
       Detect, List, ResetTree, Download, SectionEnds, Finish, Within, Released
  <2>3. Busy /\ run.todo = {} /\ ~Busy'
    BY <2>2 DEF Finish, Busy
  <2>4. DoneInv
    BY <1>1 DEF ExportInv, TreeInv
  <2>5. ASSUME NEW s \in OwnSections(run.want) \ run.failed
        PROVE  Done(s)
    <3>1. PICK e \in run.want : s \in Sections(e)
      BY DEF OwnSections
    <3>2. ~ToCome(e, s)
      BY <2>3 DEF ToCome
    <3> QED
      BY <2>3, <2>4, <3>1, <3>2 DEF DoneInv
  <2> QED
    BY <2>2, <2>3, <2>5
<1>2. ExportInv /\ [Next]_vars => [Sees]_vars
  BY <1>1
<1> HIDE DEF Sees
<1>3. Spec => [][Sees]_vars
  BY <1>2, ExportInvHolds, PTL DEF Spec
<1> QED
  BY <1>3 DEF BackupSeesRun, Sees

(* Listings change nothing of the exports, so the above holds beside them. *)
LEMMA ListingsOnly == SSpec => Init /\ [][Next]_vars
<1>1. SInit => Init
  BY DEF SInit
<1>2. [SNext]_svars => [Next]_vars
  BY DEF SNext, Export, ListRequested, ReadDir, Lstat, Found, Answer, svars, vars
<1> QED
  BY <1>1, <1>2, PTL DEF SSpec

Walk == [pc : {"idle", "walking"}, dirs : SUBSET Section,
         here : SUBSET (Section \X File), found : BOOLEAN]

(* The file watched is still there, and was found or is still ahead of the *)
(* walk.                                                                   *)
WatchInv ==
  /\ tree \in Tree
  /\ ~partial
  /\ walk \in Walk
  /\ walk.pc = "walking" /\ watched # None =>
       /\ watched \in AllStaged
       /\ watched \in walk.here \/ watched[1] \in walk.dirs

(* No walk is a value a walk can have.                                     *)
LEMMA NoWalkTyped == NoWalk \in Walk
BY DEF NoWalk, Walk

(* A listing, made while exports remove and write files, lists all that    *)
(* was there all the time, or nothing.                                     *)
THEOREM ListingsComplete == SSpec => []ListingComplete
<1>1. SInit => WatchInv
  BY ExportInvInit, NoWalkTyped DEF SInit, ExportInv, TypeOK, WatchInv, NoWalk
<1>2. ASSUME ExportInv, WatchInv, [SNext]_svars
      PROVE  WatchInv'
  <2>1. CASE Export
    <3>1. tree' \in Tree
      BY <1>2, <2>1, TypeStep DEF Export, ExportInv, TypeOK
    <3> QED
      BY <1>2, <2>1, <3>1 DEF Export, WatchInv
  <2>2. CASE ListRequested
    BY <1>2, <2>2 DEF ListRequested, WatchInv, Walk, AllStaged, vars, staging
  <2>3. CASE ReadDir
    <3>1. /\ walk.pc = "walking" /\ walk.here = {} /\ NextDir \in walk.dirs
          /\ walk' = [walk EXCEPT !.dirs = @ \ {NextDir},
                                  !.here = {NextDir} \X Staged(NextDir)]
          /\ tree' = tree /\ watched' = watched /\ partial' = partial
      BY <2>3 DEF ReadDir, NextDir, vars, staging
    <3>2. ASSUME walk'.pc = "walking", watched # None
          PROVE  /\ watched \in AllStaged'
                 /\ watched \in walk'.here \/ watched[1] \in walk'.dirs
      <4>1. watched \in AllStaged /\ watched[1] \in walk.dirs
        BY <1>2, <3>1, <3>2 DEF WatchInv
      <4>2. watched = <<watched[1], watched[2]>> /\ watched[2] \in Staged(watched[1])
        BY <4>1 DEF AllStaged, Staged
      <4> QED
        BY <3>1, <4>1, <4>2 DEF AllStaged
    <3>3. walk' \in Walk
      <4>1. {NextDir} \X Staged(NextDir) \in SUBSET (Section \X File)
        BY <1>2, <3>1 DEF WatchInv, Walk, Staged
      <4>2. walk \in Walk
        BY <1>2 DEF WatchInv
      <4> QED
        BY <3>1, <4>1, <4>2 DEF Walk
    <3> QED
      BY <1>2, <3>1, <3>2, <3>3 DEF WatchInv
  <2>4. CASE Lstat
    <3>1. tree' = tree /\ partial' = partial /\ AllStaged' = AllStaged
      BY <2>4 DEF Lstat, Found, vars, staging, AllStaged
    <3>2. CASE walk.here \subseteq AllStaged
      <4>1. /\ walk.pc = "walking" /\ watched' = IF watched \in walk.here THEN None ELSE watched
            /\ walk' = [pc |-> walk.pc, dirs |-> walk.dirs, here |-> {}, found |-> TRUE]
        BY <1>2, <2>4, <3>2 DEF Lstat, Found, WatchInv, Walk
      <4> QED
        BY <1>2, <3>1, <4>1 DEF WatchInv, Walk
    <3>3. CASE ~(walk.here \subseteq AllStaged)
      <4>1. walk' = NoWalk /\ watched' = None
        BY <2>4, <3>3 DEF Lstat
      <4> QED
        BY <1>2, <3>1, <4>1, NoWalkTyped DEF WatchInv
    <3> QED
      BY <3>2, <3>3
  <2>5. CASE Answer
    BY <1>2, <2>5, NoWalkTyped DEF Answer, WatchInv, vars, staging
  <2>6. CASE UNCHANGED svars
    BY <1>2, <2>6 DEF svars, vars, staging, WatchInv, AllStaged
  <2> QED
    BY <1>2, <2>1, <2>2, <2>3, <2>4, <2>5, <2>6 DEF SNext
<1>3. SSpec => []ExportInv
  BY ListingsOnly, ExportInvInit, ExportInvStep, PTL
<1>4. WatchInv => ListingComplete
  BY DEF WatchInv, ListingComplete
<1> QED
  BY <1>1, <1>2, <1>3, <1>4, PTL DEF SSpec
=============================================================================
