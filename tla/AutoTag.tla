------------------------------ MODULE AutoTag ------------------------------
(***************************************************************************)
(* The version that "auto" stands for, over starts without and with a      *)
(* network, checks, releases that do not come up, saves that fail and      *)
(* upgrades of the plugin, which raise the floor.  The interleavings of    *)
(* these are in BackupPlugin; here the versions have all their parts.      *)
(***************************************************************************)
EXTENDS ImageTag

ASSUME TagAssumption == None \notin Version \cup Name /\ Version \cap Name = {}

VARIABLES
  floor,       \* BACKUP_SERVER_VERSION of the installed plugin
  persisted,   \* the saved resolvedAutoTag
  running,     \* the server's version, None before the first start
  started,     \* the plugin of this floor has been started
  failed       \* serverReleasesFailed

vars == <<floor, persisted, running, started, failed>>

Released == Version \cup Name \cup {None}

Init == /\ floor \in {v \in Version : Final(v)}
        /\ persisted = None /\ running = None
        /\ started = FALSE /\ failed = {}

(* A start with "auto": persistResolvedTag may fail to save the choice. *)
Boot == \E latest \in Released :
  LET tag == resolveAutoTag(persisted, floor, latest)
  IN /\ running' = tag /\ started' = TRUE /\ failed' = {}
     /\ persisted' \in {tag, persisted}
     /\ UNCHANGED floor

(* A check whose release comes up is saved, or fails to be. *)
Check == /\ started
         /\ \E latest \in Released :
              LET tag == pickServerUpdate(running, latest, failed)
              IN /\ tag # None
                 /\ \/ /\ running' = tag /\ persisted' \in {tag, persisted}
                       /\ UNCHANGED failed
                    \/ failed' = failed \cup {tag} /\ UNCHANGED <<running, persisted>>
         /\ UNCHANGED <<floor, started>>

Upgrade == /\ \E v \in Version : Final(v) /\ compareSemver(v, floor) > 0 /\ floor' = v
           /\ started' = FALSE
           /\ UNCHANGED <<persisted, running, failed>>

Next == Boot \/ Check \/ Upgrade

Spec == Init /\ [][Next]_vars

-----------------------------------------------------------------------------
TypeOK == /\ floor \in Version /\ persisted \in Version \cup {None}
          /\ running \in Version \cup {None}
          /\ started => running # None
          /\ failed \subseteq Version

(* The order of SemVer as one of sequences of pairs: the core, then the    *)
(* identifiers, numbers before names, with an end that is before every     *)
(* identifier, or after all of them in a final release.                    *)
Rank(id) == <<IF id.num THEN 0 ELSE 1, id.val>>

Key(v) ==
  [i \in 1 .. Len(v.pre) + 4 |->
     IF i <= 3 THEN <<0, v.core[i]>>
     ELSE IF i <= Len(v.pre) + 3 THEN Rank(v.pre[i - 3])
     ELSE <<IF Final(v) THEN 2 ELSE -1, 0>>]

Below(p, q) == p[1] < q[1] \/ (p[1] = q[1] /\ p[2] < q[2])

Before(s, t) ==
  \E i \in DOMAIN s \cap DOMAIN t :
    Below(s[i], t[i]) /\ \A j \in 1 .. i - 1 : s[j] = t[j]

(* compareSemver puts the running version and every other in the order of  *)
(* SemVer: numbers as numbers, and a prerelease before its release.        *)
SemverOrder ==
  running # None => \A v \in Version :
    /\ compareSemver(running, v) < 0 <=> Before(Key(running), Key(v))
    /\ compareSemver(v, running) < 0 <=> Before(Key(v), Key(running))
    /\ compareSemver(running, v) = 0 <=> v = running

(* The server is never older than the one the installed plugin was made    *)
(* for.  One whose version is saved is never replaced by an older one, and *)
(* by one of another major only after an upgrade of the plugin, over       *)
(* checks, starts, saves that fail and answers that are out of date.       *)
VersionMovesUp ==
  [][/\ started' => compareSemver(running', floor') >= 0
     /\ running # None /\ persisted = running
          => /\ compareSemver(running', running) >= 0
             /\ started => majorOf(running') = majorOf(running)]_vars
=============================================================================
