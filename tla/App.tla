--------------------------------- MODULE App ---------------------------------
(***************************************************************************)
(* webapp/src/App.tsx: one view is mounted at a time, and leaving it drops *)
(* its state and cancels its polls.  The tabs without a model of their own *)
(* are one route, "dashboard".                                             *)
(***************************************************************************)
EXTENDS RetentionCard, RestorePage

Route == {"backups", "dashboard", "settings"}

appVars == <<cardVars, pageVars, troubles>>

Init == route = "dashboard" /\ troubles = 0 /\ CardInit /\ PageInit

SetRoute(r) ==
  /\ r # route
  /\ route' = r
  /\ IF r = "settings" THEN Mount ELSE Unmount
  /\ IF r = "backups" THEN PageMount ELSE PageUnmount
  /\ UNCHANGED troubles

Next == \/ \E r \in Route : SetRoute(r)
        \/ CardNext /\ UNCHANGED pageVars
        \/ PageNext /\ UNCHANGED cardVars

Spec == Init /\ [][Next]_appVars /\ PageFairness
=============================================================================
