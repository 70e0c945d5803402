------------------------------ MODULE ImageTag ------------------------------
(***************************************************************************)
(* The tags of the backup server: src/config/image-tag.ts, the choice made *)
(* at a start in src/config/resolve-auto-tag.ts and the one made by a      *)
(* check in src/server-update.ts.                                          *)
(*                                                                         *)
(* A concrete version has a core of three numbers and the identifiers of   *)
(* its prerelease, none for a final release.  An identifier is a number or *)
(* a name, a name being its rank in the order of strings.                  *)
(***************************************************************************)
EXTENDS Integers, Sequences

CONSTANTS
  Version,   \* the concrete versions there are
  Name,      \* tags that are no concrete version, "latest" say
  None       \* null, or the empty string

(* No number has leading zeros: equal text is equal identifiers.           *)
Identifier == [num : BOOLEAN, val : Nat]

ASSUME VersionAssumption ==
  Version \subseteq [core : [1 .. 3 -> Nat], pre : Seq(Identifier)]

isConcreteSemver(tag) == tag \in Version

Final(v) == v.pre = <<>>

(* Faulty variant: identifiers compare as strings, so 11 comes before 2. *)
compareIdentifierText(x, y) ==
  LET text(i) == IF i.num /\ i.val > 9 THEN i.val \div 10 ELSE i.val
  IN text(x) - text(y)

(* Numbers before names, each kind in its own order. *)
compareIdentifier(x, y) ==
  IF x.num = y.num THEN x.val - y.val ELSE IF x.num THEN -1 ELSE 1

LeastIn(S) == CHOOSE i \in S : \A j \in S : i <= j

(* The first identifiers that differ decide, then the shorter list. *)
comparePrerelease(a, b) ==
  LET common == 1 .. LeastIn({Len(a), Len(b)})
      differ == {i \in common : a[i] # b[i]}
  IN IF differ # {} THEN compareIdentifier(a[LeastIn(differ)], b[LeastIn(differ)])
     ELSE Len(a) - Len(b)

(* The core decides, then being a release, then the prereleases.          *)
compareSemver(a, b) ==
  LET differ == {i \in 1 .. 3 : a.core[i] # b.core[i]}
  IN IF differ # {} THEN a.core[LeastIn(differ)] - b.core[LeastIn(differ)]
     ELSE IF a.pre = b.pre THEN 0
     ELSE IF Final(a) THEN 1
     ELSE IF Final(b) THEN -1
     ELSE comparePrerelease(a.pre, b.pre)

(* Faulty variant: any release is taken that the lookup gives. *)
resolveAutoTagNewest(persisted, floor, latest) ==
  IF isConcreteSemver(latest) THEN latest
  ELSE IF isConcreteSemver(persisted) THEN persisted ELSE floor

(* What "auto" stands for at a start: what is saved, else the latest       *)
(* release, unless it is older than the floor.                             *)
resolveAutoTag(persisted, floor, latest) ==
  IF isConcreteSemver(persisted) /\ compareSemver(persisted, floor) >= 0 THEN persisted
  ELSE IF isConcreteSemver(latest) /\ compareSemver(latest, floor) >= 0 THEN latest
  ELSE floor

majorOf(v) == v.core[1]

(* Faulty variant: the latest release is taken if it is another one. *)
pickServerUpdateOther(current, latest, failed) ==
  IF isConcreteSemver(latest) /\ Final(latest) /\ latest # current
  THEN latest ELSE None

pickServerUpdate(current, latest, failed) ==
  IF /\ isConcreteSemver(latest) /\ Final(latest)
     /\ isConcreteSemver(current) /\ compareSemver(latest, current) > 0
     /\ majorOf(latest) = majorOf(current)
     /\ latest \notin failed
  THEN latest ELSE None
=============================================================================
