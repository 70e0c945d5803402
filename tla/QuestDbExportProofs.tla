------------------------ MODULE QuestDbExportProofs ------------------------
(***************************************************************************)
(* Proofs about IsoWeek, for every day since 1970, and about               *)
(* QuestDbExport, for any time that passes and any arrivals.               *)
(***************************************************************************)
EXTENDS QuestDbExport, WellFoundedInduction, TLAPS

-----------------------------------------------------------------------------
(* Years. *)

(* A set of naturals that is not empty has a least one.                    *)
LEMMA LeastNat ==
  ASSUME NEW T, T \subseteq Nat, T # {}
  PROVE  \E n \in T : \A m \in T : n <= m
<1>1. PICK n \in T : \A m \in T : ~ (<<m, n>> \in OpToRel(<, Nat))
  BY WFMin, NatLessThanWellFounded, Zenon
<1>2. \A m \in T : ~(m < n)
  BY <1>1, Zenon DEF OpToRel
<1>3. n \in Nat /\ \A m \in T : m \in Nat
  BY <1>1
<1> QED
  BY <1>2, <1>3

(* A year has 365 or 366 days. *)
LEMMA YearLength ==
  ASSUME NEW y \in Int
  PROVE  /\ NewYear(y) \in Int
         /\ NewYear(y + 1) - NewYear(y) \in {365, 366}
BY DEF NewYear

(* Later years begin later.                                                *)
LEMMA YearsAscend ==
  ASSUME NEW x \in Int, NEW y \in Int, x <= y
  PROVE  NewYear(x) <= NewYear(y)
BY DEF NewYear

(* Years have 365 or 366 days.                                             *)
LEMMA YearsSince1970 ==
  ASSUME NEW n \in Nat
  PROVE  365 * n <= NewYear(1970 + n) /\ NewYear(1970 + n) <= 366 * n
BY DEF NewYear

(* A day lies in its year. *)
LEMMA YearHolds ==
  ASSUME NEW d \in Nat
  PROVE  /\ YearOf(d) \in Int
         /\ NewYear(YearOf(d)) <= d /\ d < NewYear(YearOf(d) + 1)
<1> DEFINE T == {n \in Nat : d < NewYear(1970 + (n + 1))}
<1>1. d \in T
  <2>1. 365 * (d + 1) <= NewYear(1970 + (d + 1)) /\ NewYear(1970 + (d + 1)) \in Int
    BY YearsSince1970, YearLength
  <2> QED
    BY <2>1
<1>2. PICK n \in T : \A m \in T : n <= m
  <2>1. T \subseteq Nat
    OBVIOUS
  <2> HIDE DEF T
  <2>2. T # {}
    BY <1>1
  <2> QED
    BY <2>1, <2>2, LeastNat
<1>3. /\ NewYear(1970 + n) \in Int /\ NewYear(1970 + (n + 1)) \in Int
      /\ 365 * n <= NewYear(1970 + n) /\ NewYear(1970 + n) <= 366 * n
      /\ NewYear(1970 + (n + 1)) <= 366 * (n + 1)
      /\ 1970 + (n + 1) = 1970 + n + 1 /\ n \in Nat
  BY YearsSince1970, YearLength
<1>4. NewYear(1970 + n) <= d
  <2>1. CASE n = 0
    BY <1>3, <2>1
  <2>2. CASE n # 0
    <3>1. n - 1 \in Nat /\ n - 1 \notin T
      BY <1>2, <2>2
    <3>2. 1970 + ((n - 1) + 1) = 1970 + n
      BY <1>3
    <3> QED
      BY <1>3, <3>1, <3>2
  <2> QED
    BY <2>1, <2>2
<1>5. \E y \in 1970 + d \div 366 .. 1970 + d \div 365 :
         NewYear(y) <= d /\ d < NewYear(y + 1)
  <2>1. 365 * n <= d /\ d < 366 * (n + 1)
    BY <1>2, <1>3, <1>4
  <2>2. d \div 366 <= n /\ n <= d \div 365
    BY <1>3, <2>1
  <2>3. 1970 + n \in 1970 + d \div 366 .. 1970 + d \div 365
    BY <1>3, <2>2
  <2> QED
    BY <1>2, <1>3, <1>4, <2>3
<1> QED
  BY <1>5 DEF YearOf

-----------------------------------------------------------------------------
(* Weeks, counted by their Thursdays: that of week i is day 7 * i. *)

Nth(i) == isoWeekOf(7 * i)

(* The week numbered i is that of the Thursday 7 * i.                      *)
LEMMA NthIs ==
  ASSUME NEW i \in Nat
  PROVE  /\ Nth(i) = [year |-> YearOf(7 * i),
                      week |-> (7 * i - NewYear(YearOf(7 * i))) \div 7 + 1]
         /\ Nth(i).year = YearOf(7 * i) /\ Nth(i).year \in Int /\ Nth(i).week \in Int
         /\ Nth(i).week = (7 * i - NewYear(Nth(i).year)) \div 7 + 1
         /\ NewYear(Nth(i).year) \in Int
         /\ NewYear(Nth(i).year) <= 7 * i /\ 7 * i < NewYear(Nth(i).year + 1)
<1>1. UTCDay(7 * i) = 4
  BY DEF UTCDay
<1>2. 7 * i + 4 - 4 = 7 * i /\ 7 * i \in Nat
  OBVIOUS
<1>3. Nth(i) = [year |-> YearOf(7 * i),
                week |-> (7 * i - NewYear(YearOf(7 * i))) \div 7 + 1]
  BY <1>1, <1>2 DEF Nth, isoWeekOf
<1>4. /\ YearOf(7 * i) \in Int
      /\ NewYear(YearOf(7 * i)) <= 7 * i /\ 7 * i < NewYear(YearOf(7 * i) + 1)
  BY <1>2, YearHolds
<1>5. NewYear(YearOf(7 * i)) \in Int
  BY <1>4, YearLength
<1>6. (7 * i - NewYear(YearOf(7 * i))) \div 7 + 1 \in Int
  BY <1>5
<1> QED
  BY <1>3, <1>4, <1>5, <1>6

(* The days from Monday to Sunday are of their Thursday's week. *)
LEMMA WeekOfDay ==
  ASSUME NEW d \in Int, d >= -3
  PROVE  \E i \in Nat : /\ 7 * i - 3 <= d /\ d <= 7 * i + 3
                        /\ isoWeekOf(d) = Nth(i)
<1> DEFINE i == (d + 3) \div 7
<1>1. i \in Nat /\ 7 * i - 3 <= d /\ d <= 7 * i + 3
  OBVIOUS
<1>2. d + 4 - (IF UTCDay(d) = 0 THEN 7 ELSE UTCDay(d)) = 7 * i
  BY DEF UTCDay
<1> HIDE DEF i
<1>3. isoWeekOf(d) = [year |-> YearOf(7 * i),
                      week |-> (7 * i - NewYear(YearOf(7 * i))) \div 7 + 1]
  BY <1>2 DEF isoWeekOf
<1> QED
  BY <1>1, <1>3, NthIs

(* The three days before and after a Thursday lie in its week.             *)
LEMMA WeekIndex ==
  ASSUME NEW d \in Int, NEW i \in Nat, 7 * i - 3 <= d, d <= 7 * i + 3
  PROVE  isoWeekOf(d) = Nth(i)
<1>1. d >= -3
  OBVIOUS
<1>2. PICK j \in Nat : /\ 7 * j - 3 <= d /\ d <= 7 * j + 3 /\ isoWeekOf(d) = Nth(j)
  BY <1>1, WeekOfDay
<1>3. i = j
  BY <1>2
<1> QED
  BY <1>2, <1>3

(* A week begins on the Monday before its Thursday. *)
LEMMA WeekBegins ==
  ASSUME NEW i \in Nat
  PROVE  /\ weekStartUtc(Nth(i)) = 7 * i - 3 /\ weekEndUtc(Nth(i)) = 7 * i + 4
         /\ UTCDay(weekStartUtc(Nth(i))) = 1
<1>1. PICK n \in Int : /\ n = NewYear(Nth(i).year) /\ Nth(i).week = (7 * i - n) \div 7 + 1
  BY NthIs
<1>2. n + 3 - (((((n + 3) + 4) % 7) + 6) % 7) + (((7 * i - n) \div 7 + 1) - 1) * 7
        = 7 * i - 3
  <2>1. PICK a \in Int, b \in 0 .. 6 : n = 7 * a + b
    <3>1. n = 7 * (n \div 7) + (n % 7) /\ n \div 7 \in Int /\ n % 7 \in 0 .. 6
      BY <1>1
    <3> QED
      BY <3>1
  <2>2. CASE b = 0
    <3>1. (((n + 3) + 4) % 7) + 6 = 6 /\ (7 * i - n) \div 7 = i - a
      BY <2>1, <2>2
    <3> QED
      BY <2>1, <2>2, <3>1
  <2>3. CASE b # 0
    <3>1. ((n + 3) + 4) % 7 = b /\ (7 * i - n) \div 7 = i - a - 1
      BY <2>1, <2>3
    <3>2. (b + 6) % 7 = b - 1
      BY <2>1, <2>3
    <3> QED
      BY <2>1, <3>1, <3>2
  <2> QED
    BY <2>2, <2>3
<1>3. weekStartUtc(Nth(i)) = 7 * i - 3
  BY <1>1, <1>2 DEF weekStartUtc, UTCDay
<1>4. UTCDay(7 * i - 3) = 1
  BY DEF UTCDay
<1> QED
  BY <1>3, <1>4 DEF weekEndUtc

(* Weeks are compared as they follow each other, over New Year too. *)
LEMMA WeeksAscend ==
  ASSUME NEW i \in Nat, NEW j \in Nat, i < j
  PROVE  /\ compareIsoWeek(Nth(i), Nth(j)) < 0
         /\ compareIsoWeek(Nth(j), Nth(i)) > 0
<1> DEFINE x == Nth(i).year
           y == Nth(j).year
<1>1. /\ x \in Int /\ y \in Int /\ NewYear(x) \in Int /\ NewYear(y) \in Int
      /\ NewYear(x) <= 7 * i /\ 7 * i < NewYear(x + 1)
      /\ NewYear(y) <= 7 * j /\ 7 * j < NewYear(y + 1)
      /\ Nth(i).week = (7 * i - NewYear(x)) \div 7 + 1
      /\ Nth(j).week = (7 * j - NewYear(y)) \div 7 + 1
      /\ Nth(i).week \in Int /\ Nth(j).week \in Int
  BY NthIs
<1>2. x <= y
  <2>1. SUFFICES ASSUME y < x
                 PROVE  FALSE
    BY <1>1
  <2>2. NewYear(y + 1) <= NewYear(x) /\ NewYear(y + 1) \in Int
    BY <1>1, <2>1, YearsAscend, YearLength
  <2> QED
    BY <1>1, <2>2
<1>3. CASE x = y
  <2>1. (7 * i - NewYear(x)) \div 7 < (7 * j - NewYear(x)) \div 7
    BY <1>1
  <2>2. Nth(i).week < Nth(j).week
    BY <1>1, <1>3, <2>1
  <2> QED
    BY <1>1, <1>3, <2>2 DEF compareIsoWeek
<1>4. CASE x < y
  BY <1>1, <1>4 DEF compareIsoWeek
<1> QED
  BY <1>1, <1>2, <1>3, <1>4

(* compareIsoWeek orders weeks as their numbers.                           *)
LEMMA WeekOrder ==
  ASSUME NEW i \in Nat, NEW j \in Nat
  PROVE  /\ compareIsoWeek(Nth(i), Nth(j)) < 0 <=> i < j
         /\ compareIsoWeek(Nth(i), Nth(j)) >= 0 <=> j <= i
         /\ compareIsoWeek(Nth(i), Nth(j)) > 0 <=> j < i
         /\ Nth(i) = Nth(j) => i = j
<1>1. compareIsoWeek(Nth(i), Nth(j)) \in Int /\ compareIsoWeek(Nth(i), Nth(i)) = 0
  BY NthIs DEF compareIsoWeek
<1>2. CASE i = j
  BY <1>1, <1>2
<1>3. CASE i < j
  BY <1>1, <1>3, WeeksAscend
<1>4. CASE j < i
  BY <1>1, <1>4, WeeksAscend
<1> QED
  BY <1>2, <1>3, <1>4

(* The weeks between two weeks are those in between, in order. *)
LEMMA WeeksBetween ==
  ASSUME NEW i \in Nat, NEW j \in Nat, i <= j
  PROVE  weeksBetween(Nth(i), Nth(j)) = [n \in 1 .. j - i + 1 |-> Nth(i + n - 1)]
<1>1. weekStartUtc(Nth(i)) = 7 * i - 3 /\ weekStartUtc(Nth(j)) = 7 * j - 3
  BY WeekBegins
<1>2. ~(compareIsoWeek(Nth(i), Nth(j)) > 0)
  BY WeekOrder
<1>3. (7 * j - 3 - (7 * i - 3)) \div 7 + 1 = j - i + 1
  OBVIOUS
<1>4. \A n \in 1 .. j - i + 1 : isoWeekOf(7 * i - 3 + 7 * (n - 1)) = Nth(i + n - 1)
  <2>1. ASSUME NEW n \in 1 .. j - i + 1
        PROVE  isoWeekOf(7 * i - 3 + 7 * (n - 1)) = Nth(i + n - 1)
    <3>1. /\ i + n - 1 \in Nat /\ 7 * i - 3 + 7 * (n - 1) \in Int
          /\ 7 * i - 3 + 7 * (n - 1) = 7 * (i + n - 1) - 3
      OBVIOUS
    <3> QED
      BY <3>1, WeekIndex
  <2> QED
    BY <2>1
<1> QED
  BY <1>1, <1>2, <1>3, <1>4 DEF weeksBetween

-----------------------------------------------------------------------------
(* The weeks of the model, by number. *)

Index(d) == (d + 3) \div 7

FirstWeek == Index(FirstDay - 28)
LastWeek == Index(LastDay)
Now == Index(today)

(* Every day lies in the week whose number Index gives.                    *)
LEMMA IndexIs ==
  ASSUME NEW d \in Nat
  PROVE  Index(d) \in Nat /\ isoWeekOf(d) = Nth(Index(d))
<1>1. /\ Index(d) \in Nat /\ 7 * Index(d) - 3 <= d /\ d <= 7 * Index(d) + 3
  BY DEF Index
<1> QED
  BY <1>1, WeekIndex

(* The weeks of the calendar are those numbered from the first to the      *)
(* last.                                                                   *)
LEMMA WeeksAre ==
  /\ FirstWeek \in Nat /\ LastWeek \in Nat
  /\ \A w \in Week : \E i \in FirstWeek .. LastWeek : w = Nth(i)
  /\ \A i \in FirstWeek .. LastWeek : Nth(i) \in Week
<1>1. /\ FirstDay \in Nat /\ LastDay \in Nat /\ FirstDay <= LastDay
      /\ FirstDay - 28 \in Nat
      /\ Week = {isoWeekOf(d) : d \in FirstDay - 28 .. LastDay}
  BY CalendarAssumption DEF Week, ROLLING_CHURN_WEEKS
<1>2. FirstWeek \in Nat /\ LastWeek \in Nat
  BY <1>1 DEF FirstWeek, LastWeek, Index
<1>3. ASSUME NEW d \in FirstDay - 28 .. LastDay
      PROVE  \E i \in FirstWeek .. LastWeek : isoWeekOf(d) = Nth(i)
  <2>1. d \in Nat /\ Index(d) \in FirstWeek .. LastWeek
    BY <1>1 DEF FirstWeek, LastWeek, Index
  <2> QED
    BY <2>1, IndexIs
<1>4. ASSUME NEW i \in FirstWeek .. LastWeek
      PROVE  \E d \in FirstDay - 28 .. LastDay : isoWeekOf(d) = Nth(i)
  <2>1. /\ i \in Nat /\ FirstDay - 28 <= 7 * i + 3 /\ 7 * i - 3 <= LastDay
    BY <1>1 DEF FirstWeek, LastWeek, Index
  <2>2. PICK d \in FirstDay - 28 .. LastDay : 7 * i - 3 <= d /\ d <= 7 * i + 3
    <3>1. CASE 7 * i - 3 <= FirstDay - 28
      BY <1>1, <2>1, <3>1
    <3>2. CASE FirstDay - 28 <= 7 * i - 3
      BY <1>1, <2>1, <3>2
    <3> QED
      BY <1>1, <2>1, <3>1, <3>2
  <2>3. d \in Int
    BY <1>1
  <2>4. isoWeekOf(d) = Nth(i)
    BY <2>1, <2>2, <2>3, WeekIndex
  <2> QED
    BY <2>4
<1> QED
  BY <1>1, <1>2, <1>3, <1>4

(* The present week lies in the calendar, and so does the churn cutoff,    *)
(* four weeks before.                                                      *)
LEMMA NowIs ==
  ASSUME today \in FirstDay .. LastDay
  PROVE  /\ Now \in Nat /\ FirstWeek + 4 <= Now /\ Now <= LastWeek
         /\ isoWeekOf(today) = Nth(Now)
         /\ churnCutoffWeek(Nth(Now)) = Nth(Now - 4)
<1>1. /\ FirstDay \in Nat /\ LastDay \in Nat /\ FirstDay - 28 \in Nat /\ today \in Nat
  BY CalendarAssumption DEF ROLLING_CHURN_WEEKS
<1>2. Now \in Nat /\ isoWeekOf(today) = Nth(Now)
  BY <1>1, IndexIs DEF Now
<1>3. FirstWeek + 4 <= Now /\ Now <= LastWeek /\ FirstWeek \in Nat
  BY <1>1 DEF FirstWeek, LastWeek, Now, Index
<1>4. churnCutoffWeek(Nth(Now)) = Nth(Now - 4)
  <2>1. weekStartUtc(Nth(Now)) = 7 * Now - 3
    BY <1>2, WeekBegins
  <2>2. 7 * Now - 3 - 4 * 7 = 7 * (Now - 4) - 3 /\ Now - 4 \in Nat
    BY <1>2, <1>3
  <2> QED
    BY <2>1, <2>2, WeekIndex DEF churnCutoffWeek, ROLLING_CHURN_WEEKS
<1> QED
  BY <1>2, <1>3, <1>4

-----------------------------------------------------------------------------
(* What the calendar promises. *)

(* Every day since 1970 lies in its ISO week, which begins on a Monday,    *)
(* and a week later is the next week: at every New Year, also in a year of *)
(* 53 weeks and where the week belongs to another year than the day.       *)
THEOREM DaysLieInWeeks ==
  ASSUME NEW d \in Nat
  PROVE  LET w == isoWeekOf(d)
         IN /\ weekStartUtc(w) <= d /\ d < weekEndUtc(w)
            /\ UTCDay(weekStartUtc(w)) = 1
            /\ weekStartUtc(isoWeekOf(d + 7)) = weekEndUtc(w)
            /\ compareIsoWeek(w, isoWeekOf(d + 7)) < 0
<1>1. PICK i \in Nat : 7 * i - 3 <= d /\ d <= 7 * i + 3 /\ isoWeekOf(d) = Nth(i)
  BY WeekOfDay
<1>2. isoWeekOf(d + 7) = Nth(i + 1)
  <2>1. /\ d + 7 \in Int /\ i + 1 \in Nat
        /\ 7 * (i + 1) - 3 <= d + 7 /\ d + 7 <= 7 * (i + 1) + 3
    BY <1>1
  <2> QED
    BY <2>1, WeekIndex
<1>3. /\ weekStartUtc(Nth(i)) = 7 * i - 3 /\ weekEndUtc(Nth(i)) = 7 * i + 4
      /\ UTCDay(weekStartUtc(Nth(i))) = 1
      /\ weekStartUtc(Nth(i + 1)) = 7 * i + 4
  <2>1. 7 * (i + 1) - 3 = 7 * i + 4 /\ i + 1 \in Nat
    BY <1>1
  <2> QED
    BY <1>1, <2>1, WeekBegins
<1>4. compareIsoWeek(Nth(i), Nth(i + 1)) < 0
  BY <1>1, WeeksAscend
<1> QED
  BY <1>1, <1>2, <1>3, <1>4

-----------------------------------------------------------------------------
(* The exports. *)

(* The weeks from number i to number j. *)
Weeks(i, j) == {Nth(n) : n \in i .. j}

(* The manifest lists weeks without a gap, and the shard of each is there. *)
ManifestInv ==
  manifest # None =>
    /\ \E i, j \in FirstWeek .. LastWeek : i <= j /\ manifest = Weeks(i, j)
    /\ \A w \in manifest : shard[w] # "none"

(* Of the manifest m the weeks i to j cover all, but for what lies before  *)
(* week c if the export could not read it.                                 *)
Covers(m, i, c, j) ==
  m # None => \A w \in m :
    w \in Weeks(i, j) \/ (export.known = None /\ compareIsoWeek(w, Nth(c)) < 0)

(* An export of the weeks i to j of which those from c are written again:  *)
(* the weeks listed so far lie between i and j, but for those before c if  *)
(* the manifest could not be read; none after j has a shard; what the      *)
(* export has passed is there, and what it has written again is whole,     *)
(* but for data that arrived meanwhile.                                    *)
Exporting(i, c, j) ==
  /\ i <= c /\ c <= j /\ j <= Now
  /\ export = [weeks |-> [n \in 1 .. j - i + 1 |-> Nth(i + n - 1)],
               next |-> export.next, cutoff |-> Nth(c), known |-> export.known]
  /\ export.next \in 1 .. j - i + 2
  /\ Covers(manifest, i, c, j)
  /\ \A m \in FirstWeek .. LastWeek : shard[Nth(m)] # "none" => m <= j
  /\ \A m \in i .. i + export.next - 2 :
       /\ shard[Nth(m)] # "none"
       /\ c <= m /\ due[Nth(m)] # "meanwhile" => shard[Nth(m)] = "whole"

(* What is in part is due. *)
QuestInv ==
  /\ today \in FirstDay .. LastDay /\ arrivals \in 0 .. MaxArrivals
  /\ shard \in [Week -> {"none", "part", "whole"}]
  /\ due \in [Week -> {"no", "before", "meanwhile"}]
  /\ \A m \in FirstWeek .. LastWeek : shard[Nth(m)] # "none" => m <= Now
  /\ \A w \in Week : shard[w] = "part" => due[w] # "no"
  /\ ManifestInv
  /\ export # None => \E i, c, j \in FirstWeek .. LastWeek : Exporting(i, c, j)

(* The exporter's invariant holds at first.                                *)
LEMMA QuestInit ==
  ASSUME Init
  PROVE  QuestInv
<1>1. \A m \in FirstWeek .. LastWeek : Nth(m) \in Week
  BY WeeksAre
<1> QED
  BY <1>1, CalendarAssumption DEF Init, QuestInv, ManifestInv

(* The earliest week of a manifest is its first. *)
LEMMA EarliestIs ==
  ASSUME NEW i \in Nat, NEW j \in Nat, i <= j
  PROVE  earliestWeekFromManifest(Weeks(i, j)) = Nth(i)
<1>1. \A n \in i .. j : weekStartUtc(Nth(n)) = 7 * n - 3
  BY WeekBegins
<1>2. /\ Nth(i) \in Weeks(i, j)
      /\ \A v \in Weeks(i, j) : weekStartUtc(Nth(i)) <= weekStartUtc(v)
  BY <1>1 DEF Weeks
<1>3. ASSUME NEW w \in Weeks(i, j),
             \A v \in Weeks(i, j) : weekStartUtc(w) <= weekStartUtc(v)
      PROVE  w = Nth(i)
  <2>1. PICK n \in i .. j : w = Nth(n)
    BY DEF Weeks
  <2>2. 7 * n - 3 <= 7 * i - 3
    BY <1>1, <1>2, <1>3, <2>1
  <2>3. n = i
    BY <2>1, <2>2
  <2> QED
    BY <2>1, <2>3
<1> QED
  BY <1>2, <1>3 DEF earliestWeekFromManifest

(* An export begins at the first week listed, or at the churn window. *)
LEMMA BeginKeeps ==
  ASSUME QuestInv, Begin
  PROVE  QuestInv'
<1>1. /\ Now \in Nat /\ FirstWeek + 4 <= Now /\ Now <= LastWeek
      /\ isoWeekOf(today) = Nth(Now) /\ churnCutoffWeek(Nth(Now)) = Nth(Now - 4)
      /\ FirstWeek \in Nat /\ LastWeek \in Nat
  BY NowIs, WeeksAre DEF QuestInv
<1>2. PICK known \in {manifest, None} :
        /\ UNCHANGED <<today, shard, manifest, due, arrivals>>
        /\ export' = [weeks |-> weeksBetween(FromWeek(known, Nth(Now - 4)), Nth(Now)),
                      next |-> 1, cutoff |-> Nth(Now - 4), known |-> known]
  BY <1>1 DEF Begin, ReadManifest
<1>3. \E i \in FirstWeek .. Now - 4 :
        /\ FromWeek(known, Nth(Now - 4)) = Nth(i)
        /\ manifest # None => \A w \in manifest :
             \/ w \in Weeks(i, Now)
             \/ known = None /\ compareIsoWeek(w, Nth(Now - 4)) < 0
  <2>1. CASE manifest = None
    BY <1>1, <1>2, <2>1 DEF FromWeek
  <2>2. CASE manifest # None
    <3>1. PICK a, b \in FirstWeek .. LastWeek : a <= b /\ manifest = Weeks(a, b)
      BY <2>2 DEF QuestInv, ManifestInv
    <3>2. b <= Now
      <4>1. Nth(b) \in manifest
        BY <1>1, <3>1 DEF Weeks
      <4> QED
        BY <2>2, <3>1, <4>1 DEF QuestInv, ManifestInv
    <3>3. a \in Nat /\ b \in Nat /\ Now - 4 \in Nat
      BY <1>1, <3>1
    <3>4. /\ manifest # {} /\ earliestWeekFromManifest(manifest) = Nth(a)
      BY <3>1, <3>3, EarliestIs DEF Weeks
    <3>5. CASE known = manifest /\ a < Now - 4
      <4>1. FromWeek(known, Nth(Now - 4)) = Nth(a)
        BY <2>2, <3>3, <3>4, <3>5, WeekOrder DEF FromWeek
      <4>2. manifest \subseteq Weeks(a, Now)
        BY <1>1, <3>1, <3>2, <3>3 DEF Weeks
      <4> QED
        BY <1>1, <3>1, <3>5, <4>1, <4>2
    <3>6. CASE known = manifest /\ Now - 4 <= a
      <4>1. FromWeek(known, Nth(Now - 4)) = Nth(Now - 4)
        BY <2>2, <3>3, <3>4, <3>6, WeekOrder DEF FromWeek
      <4>2. manifest \subseteq Weeks(Now - 4, Now)
        BY <1>1, <3>1, <3>2, <3>3, <3>6 DEF Weeks
      <4> QED
        BY <1>1, <4>1, <4>2
    <3>7. CASE known = None
      <4>1. FromWeek(known, Nth(Now - 4)) = Nth(Now - 4)
        BY <3>7 DEF FromWeek
      <4>2. ASSUME NEW w \in manifest
            PROVE  w \in Weeks(Now - 4, Now) \/ compareIsoWeek(w, Nth(Now - 4)) < 0
        <5>1. PICK m \in a .. b : w = Nth(m)
          BY <3>1, <4>2 DEF Weeks
        <5>2. m \in Nat /\ m <= Now
          BY <1>1, <3>2, <3>3, <5>1
        <5>3. CASE m < Now - 4
          BY <3>3, <5>1, <5>2, <5>3, WeekOrder
        <5>4. CASE Now - 4 <= m
          BY <1>1, <3>3, <5>1, <5>2, <5>4 DEF Weeks
        <5> QED
          BY <3>3, <5>2, <5>3, <5>4
      <4> QED
        BY <1>1, <3>7, <4>1, <4>2
    <3> QED
      BY <1>1, <1>2, <3>3, <3>5, <3>6, <3>7
  <2> QED
    BY <2>1, <2>2
<1>4. PICK i \in FirstWeek .. Now - 4 :
        /\ FromWeek(known, Nth(Now - 4)) = Nth(i)
        /\ manifest # None => \A w \in manifest :
             \/ w \in Weeks(i, Now)
             \/ known = None /\ compareIsoWeek(w, Nth(Now - 4)) < 0
  BY <1>3
<1>5. export' = [weeks |-> [n \in 1 .. Now - i + 1 |-> Nth(i + n - 1)],
                 next |-> 1, cutoff |-> Nth(Now - 4), known |-> known]
  <2>1. i \in Nat /\ i <= Now
    BY <1>1, <1>4
  <2> QED
    BY <1>1, <1>2, <1>4, <2>1, WeeksBetween
<1>6. PICK c \in FirstWeek .. LastWeek, j \in FirstWeek .. LastWeek :
        c = Now - 4 /\ j = Now /\ j = Now'
  BY <1>1, <1>2 DEF Now
<1>7. Exporting(i, c, j)'
  <2>1. FirstWeek \in Nat /\ Now \in Nat /\ LastWeek \in Nat
    BY <1>1
  <2>2. c = Now - 4 /\ j = Now /\ j = Now'
    BY <1>6
  <2>3. i \in Nat /\ c \in Nat /\ j \in Nat /\ i <= c /\ c <= j /\ j <= Now'
    <3>1. i \in Nat /\ i <= Now - 4 /\ c \in Nat /\ j \in Nat
      BY <2>1
    <3>2. i <= c
      BY <2>2, <3>1
    <3>3. j <= Now'
      BY <2>2, <3>1
    <3>4. c = j - 4
      BY <2>2
    <3>5. c <= j
      BY <3>1, <3>4
    <3> QED
      BY <3>1, <3>2, <3>3, <3>5
  <2>4. 1 \in 1 .. j - i + 2 /\ \A m \in i .. i + 1 - 2 : FALSE
    BY <2>3
  <2>5. \A m \in FirstWeek .. LastWeek : shard'[Nth(m)] # "none" => m <= j
    BY <1>2, <1>6 DEF QuestInv
  <2>6. /\ export' = [weeks |-> [n \in 1 .. j - i + 1 |-> Nth(i + n - 1)],
                      next |-> 1, cutoff |-> Nth(c), known |-> known]
    BY <1>5, <1>6
  <2>7. export'.next = 1 /\ export'.known = known
    BY <2>6
  <2>8. Covers(manifest, i, c, j)'
    <3>1. manifest' # None => \A w \in manifest' :
            \/ w \in Weeks(i, Now)
            \/ known = None /\ compareIsoWeek(w, Nth(Now - 4)) < 0
      BY <1>2, <1>4
    <3> QED
      BY <1>6, <2>7, <3>1 DEF Covers
  <2> QED
    BY <2>3, <2>4, <2>5, <2>6, <2>7, <2>8 DEF Exporting
<1>8. i \in FirstWeek .. LastWeek
  BY <1>1, <1>4
<1> QED
  BY <1>2, <1>6, <1>7, <1>8 DEF QuestInv, ManifestInv

(* An export under way knows where it is. *)
LEMMA ExportingIs ==
  ASSUME QuestInv, export # None
  PROVE  \E i, c, j \in FirstWeek .. LastWeek :
           /\ Exporting(i, c, j)
           /\ i \in Nat /\ c \in Nat /\ j \in Nat /\ i <= c /\ c <= j
           /\ Len(export.weeks) = j - i + 1
           /\ export.next \in Nat /\ 1 <= export.next /\ export.next <= j - i + 2
           /\ Listed(export) = Weeks(i, j)
<1>1. PICK i \in FirstWeek .. LastWeek, c \in FirstWeek .. LastWeek,
           j \in FirstWeek .. LastWeek : Exporting(i, c, j)
  BY DEF QuestInv
<1>2. i \in Nat /\ c \in Nat /\ j \in Nat /\ i <= c /\ c <= j
  BY <1>1, WeeksAre DEF Exporting
<1>3. /\ j - i + 1 \in Nat /\ j - i + 2 \in Nat
      /\ export.weeks = [n \in 1 .. j - i + 1 |-> Nth(i + n - 1)]
      /\ export.next \in 1 .. j - i + 2
  BY <1>1, <1>2 DEF Exporting
<1>4. Len(export.weeks) = j - i + 1
  BY <1>3
<1>5. Listed(export) = Weeks(i, j)
  <2>1. Listed(export) = {export.weeks[n] : n \in 1 .. j - i + 1}
    BY <1>4 DEF Listed
  <2>2. ASSUME NEW n \in 1 .. j - i + 1
        PROVE  export.weeks[n] \in Weeks(i, j)
    <3>1. i + n - 1 \in i .. j /\ export.weeks[n] = Nth(i + n - 1)
      BY <1>2, <1>3
    <3> QED
      BY <3>1 DEF Weeks
  <2>3. ASSUME NEW m \in i .. j
        PROVE  \E n \in 1 .. j - i + 1 : Nth(m) = export.weeks[n]
    <3>1. m - i + 1 \in 1 .. j - i + 1 /\ i + (m - i + 1) - 1 = m
      BY <1>2
    <3> QED
      BY <1>3, <3>1
  <2> QED
    BY <2>1, <2>2, <2>3 DEF Weeks
<1>6. export.next \in Nat /\ 1 <= export.next /\ export.next <= j - i + 2
  BY <1>3
<1> QED
  BY <1>1, <1>2, <1>4, <1>5, <1>6

(* Skipping, writing or keeping a shard keeps it.                          *)
LEMMA ShardKeeps ==
  ASSUME QuestInv, Shard
  PROVE  QuestInv'
<1>1. PICK i \in FirstWeek .. LastWeek, c \in FirstWeek .. LastWeek,
           j \in FirstWeek .. LastWeek :
        /\ Exporting(i, c, j)
        /\ i \in Nat /\ c \in Nat /\ j \in Nat /\ i <= c /\ c <= j
        /\ Len(export.weeks) = j - i + 1
        /\ export.next \in Nat /\ 1 <= export.next /\ export.next <= j - i + 2
  BY ExportingIs DEF Shard, Pending
<1>2. PICK n \in Nat : n = i + export.next - 1
  BY <1>1
<1>3. i <= n /\ n <= j /\ export.next \in 1 .. j - i + 1
  <2>1. export.next <= j - i + 1
    BY <1>1 DEF Shard, Pending
  <2> QED
    BY <1>1, <1>2, <2>1
<1>4. export.weeks[export.next] = Nth(n)
  BY <1>1, <1>2, <1>3 DEF Exporting
<1>5. /\ shard' = IF MustWrite(Nth(n)) THEN [shard EXCEPT ![Nth(n)] = "whole"] ELSE shard
      /\ export' = [export EXCEPT !.next = @ + 1]
      /\ UNCHANGED <<today, manifest, due, arrivals>>
  BY <1>4 DEF Shard
<1>6. n \in FirstWeek .. LastWeek /\ Nth(n) \in Week
  <2>1. FirstWeek \in Nat /\ LastWeek \in Nat
    BY WeeksAre
  <2>2. n \in FirstWeek .. LastWeek
    BY <1>2, <1>3, <2>1
  <2> QED
    BY <2>2, WeeksAre
<1>7. /\ shard' \in [Week -> {"none", "part", "whole"}]
      /\ \A w \in Week : w # Nth(n) => shard'[w] = shard[w]
      /\ shard'[Nth(n)] # "none"
      /\ c <= n => shard'[Nth(n)] = "whole"
      /\ \A w \in Week : shard'[w] \in {"whole", shard[w]}
  <2>1. c <= n => MustWrite(Nth(n))
    <3>1. export.cutoff = Nth(c)
      BY <1>1 DEF Exporting
    <3> QED
      BY <1>1, <1>2, <3>1, WeekOrder DEF MustWrite
  <2>2. ~MustWrite(Nth(n)) => shard[Nth(n)] # "none"
    BY DEF MustWrite
  <2>3. shard \in [Week -> {"none", "part", "whole"}]
    BY DEF QuestInv
  <2> QED
    BY <1>5, <1>6, <2>1, <2>2, <2>3
<1>8. export' = [weeks |-> [m \in 1 .. j - i + 1 |-> Nth(i + m - 1)],
                 next |-> export.next + 1, cutoff |-> Nth(c), known |-> export.known]
  <2>1. PICK next, known : next = export.next /\ known = export.known
    OBVIOUS
  <2>2. export = [weeks |-> [m \in 1 .. j - i + 1 |-> Nth(i + m - 1)],
                  next |-> next, cutoff |-> Nth(c), known |-> known]
    BY <1>1, <2>1 DEF Exporting
  <2>3. export' = [export EXCEPT !.next = next + 1]
    BY <1>5, <2>1
  <2>4. export' = [weeks |-> [m \in 1 .. j - i + 1 |-> Nth(i + m - 1)],
                   next |-> next + 1, cutoff |-> Nth(c), known |-> known]
    BY <2>2, <2>3
  <2> QED
    BY <2>1, <2>4
<1>9. /\ export'.next = export.next + 1 /\ export'.next \in 1 .. j - i + 2
      /\ export'.known = export.known
  BY <1>1, <1>3, <1>8
<1>10. Now' = Now /\ Now \in Nat
  BY <1>5, NowIs DEF Now, QuestInv
<1>11. \A m \in FirstWeek .. LastWeek : Nth(m) \in Week /\ m \in Nat
  BY WeeksAre
<1>12. ASSUME NEW m \in i .. i + export'.next - 2
       PROVE  /\ shard'[Nth(m)] # "none"
              /\ c <= m /\ due'[Nth(m)] # "meanwhile" => shard'[Nth(m)] = "whole"
  <2>1. CASE m = n
    BY <1>7, <2>1
  <2>2. CASE m # n
    <3>1. m \in i .. i + export.next - 2 /\ m \in FirstWeek .. LastWeek
      <4>1. m \in Nat /\ i <= m /\ m <= n /\ m # n
        BY <1>1, <1>2, <1>9, <2>2
      <4>2. FirstWeek \in Nat /\ LastWeek \in Nat
        BY WeeksAre
      <4>3. m \in FirstWeek .. LastWeek
        BY <1>3, <4>1, <4>2
      <4>4. m \in i .. i + export.next - 2
        BY <1>1, <1>2, <4>1
      <4> QED
        BY <4>3, <4>4
    <3>2. Nth(m) \in Week /\ Nth(m) # Nth(n)
      BY <1>2, <1>11, <2>2, <3>1, WeekOrder
    <3> QED
      BY <1>1, <1>5, <1>7, <3>1, <3>2 DEF Exporting
  <2> QED
    BY <2>1, <2>2
<1>13. \A m \in FirstWeek .. LastWeek : shard'[Nth(m)] # "none" => m <= j
  <2>1. ASSUME NEW m \in FirstWeek .. LastWeek, shard'[Nth(m)] # "none"
        PROVE  m <= j
    <3>1. CASE m = n
      BY <1>3, <3>1
    <3>2. CASE m # n
      <4>1. Nth(m) \in Week /\ Nth(m) # Nth(n)
        BY <1>2, <1>11, <3>2, WeekOrder
      <4> QED
        BY <1>1, <1>7, <2>1, <4>1 DEF Exporting
    <3> QED
      BY <3>1, <3>2
  <2> QED
    BY <2>1
<1>14. Exporting(i, c, j)'
  <2>1. Covers(manifest, i, c, j)'
    BY <1>1, <1>5, <1>9 DEF Exporting, Covers
  <2> QED
    BY <1>1, <1>5, <1>8, <1>9, <1>10, <1>12, <1>13, <2>1 DEF Exporting
<1>15. /\ \A m \in FirstWeek .. LastWeek : shard'[Nth(m)] # "none" => m <= Now
       /\ \A w \in Week : shard'[w] = "part" => due[w] # "no"
       /\ ManifestInv'
  <2>1. j <= Now
    BY <1>1 DEF Exporting
  <2>2. \A m \in FirstWeek .. LastWeek : shard'[Nth(m)] # "none" => m <= Now
    BY <1>1, <1>10, <1>11, <1>13, <2>1
  <2>3. \A w \in Week : shard'[w] = "part" => due[w] # "no"
    BY <1>7 DEF QuestInv
  <2>4. ManifestInv'
    <3>1. ASSUME manifest # None, NEW w \in manifest
          PROVE  shard'[w] # "none"
      <4>1. w \in Week /\ shard[w] # "none"
        BY <3>1, WeeksAre DEF QuestInv, ManifestInv, Weeks
      <4> QED
        BY <1>7, <4>1
    <3> QED
      BY <1>5, <3>1 DEF QuestInv, ManifestInv
  <2> QED
    BY <2>2, <2>3, <2>4
<1> QED
  BY <1>1, <1>5, <1>7, <1>10, <1>14, <1>15 DEF QuestInv

(* Settling leaves due what an export has not taken. *)
LEMMA SettleIs ==
  ASSUME due \in [Week -> {"no", "before", "meanwhile"}], NEW taken, Settle(taken)
  PROVE  /\ due' \in [Week -> {"no", "before", "meanwhile"}]
         /\ \A w \in Week : due'[w] = "no" =>
              due[w] = "no" \/ (due[w] = "before" /\ w \in taken)
BY DEF Settle

(* Nothing of what the manifest comes to list is missing, and what the     *)
(* export took of the churn window is whole.                               *)
LEMMA WriteKeeps ==
  ASSUME QuestInv, WriteManifest
  PROVE  /\ QuestInv'
         /\ manifest # None => \A w \in manifest \ manifest' :
              export.known = None /\ compareIsoWeek(w, export.cutoff) < 0
<1>1. PICK i \in FirstWeek .. LastWeek, c \in FirstWeek .. LastWeek,
           j \in FirstWeek .. LastWeek :
        /\ Exporting(i, c, j)
        /\ i \in Nat /\ c \in Nat /\ j \in Nat /\ i <= c /\ c <= j
        /\ Len(export.weeks) = j - i + 1
        /\ export.next \in Nat /\ 1 <= export.next /\ export.next <= j - i + 2
        /\ Listed(export) = Weeks(i, j)
  BY ExportingIs DEF WriteManifest
<1>2. /\ manifest' = Weeks(i, j) /\ export' = None
      /\ Settle({w \in Week : compareIsoWeek(w, export.cutoff) >= 0})
      /\ UNCHANGED <<today, shard, arrivals>> /\ Now' = Now
  BY <1>1 DEF WriteManifest, Now
<1>3. export.next = j - i + 2
  <2>1. ~(export.next <= j - i + 1)
    BY <1>1 DEF WriteManifest, Pending
  <2> QED
    BY <1>1, <2>1
<1>4. \A m \in i .. j :
        /\ shard[Nth(m)] # "none"
        /\ c <= m /\ due[Nth(m)] # "meanwhile" => shard[Nth(m)] = "whole"
  <2>1. i + export.next - 2 = j
    BY <1>1, <1>3
  <2> QED
    BY <1>1, <2>1 DEF Exporting
<1>5. ManifestInv'
  <2>1. \A w \in Weeks(i, j) : shard'[w] # "none"
    BY <1>2, <1>4 DEF Weeks
  <2>2. FirstWeek' = FirstWeek /\ LastWeek' = LastWeek
    BY DEF FirstWeek, LastWeek
  <2> QED
    BY <1>1, <1>2, <2>1, <2>2 DEF ManifestInv, Weeks
<1>6. ASSUME NEW w \in Week, shard[w] = "part", due'[w] = "no"
      PROVE  FALSE
  <2>1. due[w] = "before" /\ compareIsoWeek(w, export.cutoff) >= 0
    BY <1>2, <1>6, SettleIs DEF QuestInv
  <2>2. PICK m \in FirstWeek .. LastWeek : w = Nth(m)
    BY WeeksAre
  <2>3. m \in Nat
    BY WeeksAre
  <2>4. m <= j /\ export.cutoff = Nth(c)
    BY <1>1, <1>6, <2>2 DEF Exporting
  <2>5. c <= m
    BY <1>1, <2>1, <2>2, <2>3, <2>4, WeekOrder
  <2>6. m \in i .. j
    BY <1>1, <2>3, <2>4, <2>5
  <2> QED
    BY <1>4, <1>6, <2>1, <2>2, <2>5, <2>6
<1>7. due' \in [Week -> {"no", "before", "meanwhile"}]
  BY <1>2, SettleIs DEF QuestInv
<1>8. manifest # None => \A w \in manifest \ manifest' :
        export.known = None /\ compareIsoWeek(w, export.cutoff) < 0
  <2>1. export.cutoff = Nth(c)
    BY <1>1 DEF Exporting
  <2> QED
    BY <1>1, <1>2, <2>1 DEF Exporting, Covers
<1> QED
  BY <1>2, <1>5, <1>6, <1>7, <1>8 DEF QuestInv

(* A failure or the death of the process keeps it.                         *)
LEMMA AbortKeeps ==
  ASSUME QuestInv, Abort
  PROVE  QuestInv'
<1>1. /\ export' = None /\ UNCHANGED <<today, shard, manifest, arrivals>> /\ Settle({})
      /\ Now' = Now
  BY DEF Abort, Now
<1>2. /\ due' \in [Week -> {"no", "before", "meanwhile"}]
      /\ \A w \in Week : due'[w] = "no" => due[w] = "no"
  BY <1>1, SettleIs DEF QuestInv
<1> QED
  BY <1>1, <1>2 DEF QuestInv, ManifestInv

(* Data that arrives keeps it.                                             *)
LEMMA ArriveKeeps ==
  ASSUME QuestInv, Arrive
  PROVE  QuestInv'
<1>1. PICK w \in Week :
        /\ shard' = IF shard[w] = "none" THEN shard ELSE [shard EXCEPT ![w] = "part"]
        /\ due' = [due EXCEPT ![w] = IF export = None THEN "before" ELSE "meanwhile"]
  BY DEF Arrive
<1>2. UNCHANGED <<today, manifest, export>> /\ arrivals' \in 0 .. MaxArrivals /\ Now' = Now
  <2>1. arrivals' = arrivals + 1 /\ arrivals < MaxArrivals /\ arrivals \in 0 .. MaxArrivals
    BY DEF Arrive, QuestInv
  <2>2. arrivals' \in 0 .. MaxArrivals
    BY <2>1, CalendarAssumption
  <2> QED
    BY <2>2 DEF Arrive, Now
<1>3. /\ shard' \in [Week -> {"none", "part", "whole"}]
      /\ due' \in [Week -> {"no", "before", "meanwhile"}]
      /\ \A v \in Week : shard'[v] # "none" <=> shard[v] # "none"
      /\ \A v \in Week \ {w} : shard'[v] = shard[v] /\ due'[v] = due[v]
      /\ due'[w] # "no" /\ (export # None => due'[w] = "meanwhile")
  BY <1>1 DEF QuestInv
<1>4. \A m \in FirstWeek .. LastWeek : Nth(m) \in Week
  BY WeeksAre
<1>5. ManifestInv'
  <2>1. ASSUME manifest # None, NEW v \in manifest
        PROVE  v \in Week /\ shard[v] # "none"
    BY <2>1, WeeksAre DEF QuestInv, ManifestInv, Weeks
  <2> QED
    BY <1>2, <1>3, <2>1 DEF QuestInv, ManifestInv
<1>6. ASSUME export # None
      PROVE  \E i, c, j \in FirstWeek .. LastWeek : Exporting(i, c, j)'
  <2>1. PICK i \in FirstWeek .. LastWeek, c \in FirstWeek .. LastWeek,
             j \in FirstWeek .. LastWeek :
          /\ Exporting(i, c, j) /\ i \in Nat /\ j \in Nat
          /\ export.next \in Nat /\ export.next <= j - i + 2
    BY <1>6, ExportingIs
  <2>2. \A m \in i .. i + export.next - 2 : Nth(m) \in Week
    <3>1. FirstWeek \in Nat /\ LastWeek \in Nat
      BY WeeksAre
    <3>2. \A m \in i .. i + export.next - 2 : m \in FirstWeek .. LastWeek
      BY <2>1, <3>1
    <3> QED
      BY <1>4, <3>2
  <2>3. \A m \in i .. i + export.next - 2 :
          /\ shard'[Nth(m)] # "none"
          /\ c <= m /\ due'[Nth(m)] # "meanwhile" => shard'[Nth(m)] = "whole"
    BY <1>3, <1>6, <2>1, <2>2 DEF Exporting
  <2>4. \A m \in FirstWeek .. LastWeek : shard'[Nth(m)] # "none" => m <= j
    BY <1>3, <1>4, <2>1 DEF Exporting
  <2>5. Exporting(i, c, j)'
    BY <1>2, <2>1, <2>3, <2>4 DEF Exporting, Covers
  <2> QED
    BY <2>1, <2>5
<1>7. \A m \in FirstWeek .. LastWeek : shard'[Nth(m)] # "none" => m <= Now
  BY <1>3, <1>4 DEF QuestInv
<1>8. \A v \in Week : shard'[v] = "part" => due'[v] # "no"
  BY <1>3 DEF QuestInv
<1> QED
  BY <1>2, <1>3, <1>5, <1>6, <1>7, <1>8 DEF QuestInv

(* Time that passes keeps it.                                              *)
LEMMA PassKeeps ==
  ASSUME QuestInv, Pass
  PROVE  QuestInv'
<1>1. PICK n \in Passing : today + n <= LastDay /\ today' = today + n
  BY DEF Pass
<1>2. /\ today' \in FirstDay .. LastDay /\ Now <= Now' /\ Now \in Nat /\ Now' \in Nat
  <2>1. /\ n \in Nat /\ FirstDay \in Nat /\ LastDay \in Nat /\ today \in FirstDay .. LastDay
    BY CalendarAssumption DEF QuestInv
  <2> QED
    BY <1>1, <2>1 DEF Now, Index
<1>3. UNCHANGED <<shard, manifest, export, due, arrivals>>
  BY DEF Pass
<1>4. \A m \in FirstWeek .. LastWeek : m <= Now => m <= Now'
  BY <1>2, WeeksAre
<1>5. ASSUME NEW i \in FirstWeek .. LastWeek, NEW c \in FirstWeek .. LastWeek,
             NEW j \in FirstWeek .. LastWeek, Exporting(i, c, j)
      PROVE  Exporting(i, c, j)'
  BY <1>3, <1>4, <1>5 DEF Exporting, Covers
<1> QED
  BY <1>2, <1>3, <1>4, <1>5 DEF QuestInv, ManifestInv

(* Every step keeps the exporter's invariant.                              *)
LEMMA QuestStep ==
  ASSUME QuestInv, [Next]_vars
  PROVE  QuestInv'
<1>1. CASE UNCHANGED vars
  <2>1. Now' = Now
    BY <1>1 DEF vars, Now
  <2> QED
    BY <1>1, <2>1 DEF vars, QuestInv, ManifestInv, Exporting, Covers
<1> QED
  BY <1>1, BeginKeeps, ShardKeeps, WriteKeeps, AbortKeeps, ArriveKeeps, PassKeeps DEF Next

(* The exporter's invariant holds throughout.                              *)
LEMMA QuestInvHolds == Spec => []QuestInv
BY QuestInit, QuestStep, PTL DEF Spec

(* The variables have their types, and an export is of the model's weeks.  *)
THEOREM QuestTypeCorrect == Spec => []TypeOK
<1>1. ASSUME QuestInv
      PROVE  TypeOK
  <2>1. manifest \in (SUBSET Week) \cup {None}
    <3>1. \A i, j \in FirstWeek .. LastWeek : Weeks(i, j) \subseteq Week
      <4>1. ASSUME NEW i \in FirstWeek .. LastWeek, NEW j \in FirstWeek .. LastWeek,
                   NEW m \in i .. j
            PROVE  Nth(m) \in Week
        <5>1. FirstWeek \in Nat /\ LastWeek \in Nat
          BY WeeksAre
        <5>2. m \in FirstWeek .. LastWeek
          BY <5>1
        <5> QED
          BY <5>2, WeeksAre
      <4> QED
        BY <4>1 DEF Weeks
    <3> QED
      BY <1>1, <3>1 DEF QuestInv, ManifestInv
  <2>2. ASSUME export # None
        PROVE  /\ Listed(export) \subseteq Week
               /\ export.next \in 1 .. Len(export.weeks) + 1
               /\ export.cutoff \in Week
    <3>1. PICK i \in FirstWeek .. LastWeek, c \in FirstWeek .. LastWeek,
               j \in FirstWeek .. LastWeek :
            /\ Exporting(i, c, j) /\ i \in Nat /\ j \in Nat /\ i <= j
            /\ Len(export.weeks) = j - i + 1
            /\ export.next \in Nat /\ 1 <= export.next /\ export.next <= j - i + 2
            /\ Listed(export) = Weeks(i, j)
      <4>1. \A i, c, j \in Nat : i <= c /\ c <= j => i <= j
        OBVIOUS
      <4> QED
        BY <1>1, <2>2, <4>1, ExportingIs
    <3>2. export.next \in 1 .. Len(export.weeks) + 1
      BY <3>1
    <3>3. export.cutoff = Nth(c) /\ Nth(c) \in Week
      BY <3>1, WeeksAre DEF Exporting
    <3>4. \A m \in i .. j : Nth(m) \in Week
      <4>1. FirstWeek \in Nat /\ LastWeek \in Nat
        BY WeeksAre
      <4>2. \A m \in i .. j : m \in FirstWeek .. LastWeek
        BY <4>1
      <4> QED
        BY <4>2, WeeksAre
    <3> QED
      BY <3>1, <3>2, <3>3, <3>4 DEF Weeks
  <2> QED
    BY <1>1, <2>1, <2>2 DEF TypeOK, QuestInv
<1> QED
  BY <1>1, QuestInvHolds, PTL

(* The ISO week that a day of the run is put into holds the day. *)
THEOREM CalendarHolds == Spec => []WeekHoldsToday
<1>1. ASSUME QuestInv
      PROVE  WeekHoldsToday
  <2>1. today \in Nat
    BY <1>1, CalendarAssumption DEF QuestInv
  <2> QED
    BY <2>1, DaysLieInWeeks DEF WeekHoldsToday
<1> QED
  BY <1>1, QuestInvHolds, PTL

(* The manifest lists only weeks whose shard is there and all weeks from   *)
(* the first to the last it lists, wherever exports were broken off and    *)
(* however long there was none.                                            *)
THEOREM ManifestIsSound == Spec => []ManifestSound
<1>1. ASSUME QuestInv, manifest # None, NEW v \in manifest, NEW w \in manifest
      PROVE  /\ shard[w] # "none"
             /\ compareIsoWeek(v, w) < 0 => isoWeekOf(weekEndUtc(v)) \in manifest
  <2>1. shard[w] # "none"
    BY <1>1 DEF QuestInv, ManifestInv
  <2>2. PICK i \in FirstWeek .. LastWeek, j \in FirstWeek .. LastWeek :
          manifest = Weeks(i, j)
    BY <1>1 DEF QuestInv, ManifestInv
  <2>3. PICK x \in i .. j, y \in i .. j : v = Nth(x) /\ w = Nth(y)
    BY <1>1, <2>2 DEF Weeks
  <2>4. /\ i \in Nat /\ j \in Nat /\ x \in Nat /\ y \in Nat
    <3>1. FirstWeek \in Nat /\ LastWeek \in Nat
      BY WeeksAre
    <3> QED
      BY <3>1, <2>3
  <2>5. ASSUME compareIsoWeek(v, w) < 0
        PROVE  isoWeekOf(weekEndUtc(v)) \in manifest
    <3>1. x < y
      BY <2>3, <2>4, <2>5, WeekOrder
    <3>2. weekEndUtc(v) = 7 * x + 4
      BY <2>3, <2>4, WeekBegins
    <3>3. 7 * x + 4 = 7 * (x + 1) - 3 /\ x + 1 \in Nat /\ x + 1 \in i .. j
      BY <2>3, <2>4, <3>1
    <3>4. isoWeekOf(7 * x + 4) = Nth(x + 1)
      BY <2>4, <3>3, WeekIndex
    <3> QED
      BY <2>2, <3>2, <3>3, <3>4 DEF Weeks
  <2> QED
    BY <2>1, <2>5
<1>2. QuestInv => ManifestSound
  BY <1>1 DEF ManifestSound
<1> QED
  BY <1>2, QuestInvHolds, PTL

(* What was there when a successful export began is in the shard of its    *)
(* week, if that lies in the churn window: later failures undo nothing,    *)
(* and what comes meanwhile is due for the next export.                    *)
THEOREM ShardsAreWhole == Spec => []ShardsWhole
<1>1. ASSUME QuestInv, manifest # None, NEW w \in manifest, due[w] = "no"
      PROVE  shard[w] = "whole"
  <2>1. w \in Week
    <3>1. PICK i \in FirstWeek .. LastWeek, j \in FirstWeek .. LastWeek :
            manifest = Weeks(i, j)
      BY <1>1 DEF QuestInv, ManifestInv
    <3>2. PICK m \in i .. j : w = Nth(m)
      BY <1>1, <3>1 DEF Weeks
    <3>3. FirstWeek \in Nat /\ LastWeek \in Nat
      BY WeeksAre
    <3>4. m \in FirstWeek .. LastWeek
      BY <3>2, <3>3
    <3> QED
      BY <3>2, <3>4, WeeksAre
  <2> QED
    BY <1>1, <2>1 DEF QuestInv, ManifestInv
<1>2. QuestInv => ShardsWhole
  BY <1>1 DEF ShardsWhole
<1> QED
  BY <1>2, QuestInvHolds, PTL

(* A week leaves the manifest only in an export that could not read it,    *)
(* and only from before its churn window: an export that read the manifest *)
(* begins at the first week listed, however long there was none, and one   *)
(* that did not still lists every week of its window.                      *)
THEOREM HistoryIsKept == Spec => HistoryKept
<1>1. ASSUME QuestInv, [Next]_vars
      PROVE  [manifest # None /\ manifest' # manifest =>
                \A w \in manifest \ manifest' :
                  export.known = None /\ compareIsoWeek(w, export.cutoff) < 0]_vars
  <2>1. CASE WriteManifest
    BY <1>1, <2>1, WriteKeeps
  <2>2. CASE manifest' = manifest
    BY <2>2
  <2> QED
    BY <1>1, <2>1, <2>2 DEF Next, Begin, Shard, Abort, Arrive, Pass, vars
<1> QED
  BY <1>1, QuestInvHolds, PTL DEF Spec, HistoryKept
=============================================================================
