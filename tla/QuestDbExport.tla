--------------------------- MODULE QuestDbExport ---------------------------
(***************************************************************************)
(* The QuestDB exporter of src/database-export/questdb.ts, for one table:  *)
(* a Parquet shard for each ISO week and the manifest that lists them,     *)
(* while data arrives in this and in earlier weeks, time passes, downloads *)
(* fail and the process dies.                                              *)
(*                                                                         *)
(* A step is the download of a shard, renamed into place when complete,    *)
(* or the replacement of the manifest.                                     *)
(***************************************************************************)
EXTENDS IsoWeek, FiniteSets

CONSTANTS
  FirstDay, LastDay,   \* bounds on the days that pass
  Passing,             \* the numbers of days that pass at once
  Lateness,            \* bound on how many weeks late data arrives
  MaxArrivals,         \* bound on the arrivals
  None                 \* no manifest, no export under way

ROLLING_CHURN_WEEKS == 4

Week == {isoWeekOf(d) : d \in FirstDay - 7 * ROLLING_CHURN_WEEKS .. LastDay}

ASSUME CalendarAssumption == /\ FirstDay \in Nat /\ LastDay \in Nat
                             /\ FirstDay <= LastDay
                             /\ FirstDay - 7 * ROLLING_CHURN_WEEKS \in Nat
                             /\ Passing \subseteq Nat \ {0}
                             /\ Lateness \in Nat /\ MaxArrivals \in Nat

VARIABLES
  today,
  shard,      \* what the file of each week holds of the week's data
  manifest,   \* the weeks MANIFEST.json lists
  export,     \* the export under way
  due,        \* history: data an export has still to take
  arrivals

vars == <<today, shard, manifest, export, due, arrivals>>

Init == /\ today = FirstDay
        /\ shard = [w \in Week |-> "none"]
        /\ manifest = None /\ export = None
        /\ due = [w \in Week |-> "no"]
        /\ arrivals = 0

-----------------------------------------------------------------------------
churnCutoffWeek(current) ==
  isoWeekOf(weekStartUtc(current) - ROLLING_CHURN_WEEKS * 7)

(* Of the weeks in a manifest the one that began first. *)
earliestWeekFromManifest(m) ==
  CHOOSE w \in m : \A v \in m : weekStartUtc(w) <= weekStartUtc(v)

(* Faulty variant: what lies before the churn window is forgotten. *)
FromWeekShort(m, cutoff) == cutoff

FromWeek(m, cutoff) ==
  IF m # None /\ m # {} /\ compareIsoWeek(earliestWeekFromManifest(m), cutoff) < 0
  THEN earliestWeekFromManifest(m) ELSE cutoff

(* readManifest: a manifest that cannot be read or parsed, or is not of    *)
(* this build's schema version, counts as none.                            *)
ReadManifest == {manifest, None}

(* exportTable begins: what is to be listed, and what of it is written. *)
Begin == /\ export = None
         /\ \E known \in ReadManifest :
              LET current == isoWeekOf(today)
                  cutoff == churnCutoffWeek(current)
              IN export' = [weeks |-> weeksBetween(FromWeek(known, cutoff), current),
                            next |-> 1, cutoff |-> cutoff, known |-> known]
         /\ UNCHANGED <<today, shard, manifest, due, arrivals>>

(* Faulty variant: only the open week is written again. *)
MustWriteOpen(w) == \/ export.known = None \/ w \notin export.known
                    \/ w = isoWeekOf(today)
                    \/ shard[w] = "none"

(* The open week is in the churn window. *)
MustWrite(w) == \/ compareIsoWeek(w, export.cutoff) >= 0
                \/ export.known = None \/ w \notin export.known
                \/ shard[w] = "none"

Pending == export # None /\ export.next <= Len(export.weeks)

Shard == /\ Pending
         /\ LET w == export.weeks[export.next]
            IN shard' = IF MustWrite(w) THEN [shard EXCEPT ![w] = "whole"] ELSE shard
         /\ export' = [export EXCEPT !.next = @ + 1]
         /\ UNCHANGED <<today, manifest, due, arrivals>>

Listed(e) == {e.weeks[i] : i \in 1 .. Len(e.weeks)}

(* What was due before the export began has been taken if it lies in the   *)
(* churn window; what arrived meanwhile is due for the next.               *)
Settle(taken) ==
  due' = [w \in Week |-> IF due[w] = "meanwhile" THEN "before"
                         ELSE IF w \in taken THEN "no" ELSE due[w]]

(* Faulty variant: the manifest is replaced as soon as a shard is there. *)
WriteManifestEarly ==
  /\ export # None /\ export.next > 1
  /\ manifest' = Listed(export)
  /\ export' = None
  /\ Settle({w \in Week : compareIsoWeek(w, export.cutoff) >= 0})
  /\ UNCHANGED <<today, shard, arrivals>>

WriteManifest ==
  /\ export # None /\ ~Pending
  /\ manifest' = Listed(export)
  /\ export' = None
  /\ Settle({w \in Week : compareIsoWeek(w, export.cutoff) >= 0})
  /\ UNCHANGED <<today, shard, arrivals>>

(* A download or a write fails, which ends the export of this table, or    *)
(* the process dies: the next export begins with what is on disk.          *)
Abort == /\ export # None
         /\ export' = None
         /\ Settle({})
         /\ UNCHANGED <<today, shard, manifest, arrivals>>

-----------------------------------------------------------------------------
(* Data arrives in the current week or, late, in an earlier one.           *)
Arrive ==
  /\ arrivals < MaxArrivals
  /\ arrivals' = arrivals + 1
  /\ \E w \in {isoWeekOf(today - 7 * n) : n \in 0 .. Lateness} \cap Week :
       /\ shard' = IF shard[w] = "none" THEN shard ELSE [shard EXCEPT ![w] = "part"]
       /\ due' = [due EXCEPT ![w] = IF export = None THEN "before" ELSE "meanwhile"]
  /\ UNCHANGED <<today, manifest, export>>

Pass == /\ \E n \in Passing : today + n <= LastDay /\ today' = today + n
        /\ UNCHANGED <<shard, manifest, export, due, arrivals>>

Next == Begin \/ Shard \/ WriteManifest \/ Abort \/ Arrive \/ Pass

Spec == Init /\ [][Next]_vars

-----------------------------------------------------------------------------
TypeOK ==
  /\ today \in FirstDay .. LastDay
  /\ shard \in [Week -> {"none", "part", "whole"}]
  /\ manifest \in (SUBSET Week) \cup {None}
  /\ export # None => /\ Listed(export) \subseteq Week
                      /\ export.next \in 1 .. Len(export.weeks) + 1
                      /\ export.cutoff \in Week
  /\ due \in [Week -> {"no", "before", "meanwhile"}]
  /\ arrivals \in 0 .. MaxArrivals

(* A day lies in its ISO week, around New Year too, where the week may     *)
(* belong to the year before or after; the week begins on a Monday, and    *)
(* the day a week later is in the next.                                    *)
WeekHoldsToday ==
  LET w == isoWeekOf(today)
  IN /\ weekStartUtc(w) <= today /\ today < weekEndUtc(w)
     /\ UTCDay(weekStartUtc(w)) = 1
     /\ weekStartUtc(isoWeekOf(today + 7)) = weekEndUtc(w)
     /\ compareIsoWeek(w, isoWeekOf(today + 7)) < 0

(* The manifest lists no week whose shard is not there, wherever an export *)
(* was broken off, and every week between the first and the last it lists, *)
(* after any time without an export, over New Year too, and after exports  *)
(* that could not read the manifest before.                                *)
ManifestSound ==
  manifest # None => \A v, w \in manifest :
    /\ shard[w] # "none"
    /\ compareIsoWeek(v, w) < 0 => isoWeekOf(weekEndUtc(v)) \in manifest

(* Data that was there when an export began that succeeded within the      *)
(* churn window is in the shard, whatever failed before or comes after.    *)
ShardsWhole ==
  manifest # None => \A w \in manifest : due[w] = "no" => shard[w] = "whole"

(* A week leaves the manifest only in an export that could not read it,    *)
(* and only a week from before the churn window of that export: whatever   *)
(* else fails, and however long there was no export, history only grows.   *)
HistoryKept ==
  [][manifest # None /\ manifest' # manifest =>
       \A w \in manifest \ manifest' :
         export.known = None /\ compareIsoWeek(w, export.cutoff) < 0]_vars
=============================================================================
