--------------------------- MODULE UpdateHistory ---------------------------
(***************************************************************************)
(* What updates mean for the lifecycles after them: BackupPlugin with a    *)
(* history variable that tells the lifecycles whose startup an install has *)
(* crossed.  In those the two sides act on one container and one set of    *)
(* options, and neither keeps what the other did.                          *)
(***************************************************************************)
EXTENDS BackupPlugin

VARIABLE
  crossed   \* history: an install or apply request was under way before the
            \* present lifecycle had started up

hvars == <<vars, crossed>>

HInit == Init /\ crossed = FALSE

HNext == /\ Next
         /\ crossed' = \/ serverInstalling' /\ startup'[gen'] # "done"
                       \/ crossed /\ gen' = gen

HSpec == HInit /\ [][HNext]_hvars

-----------------------------------------------------------------------------
(* A restart undoes no update: once a plugin is up whose startup no        *)
(* install crossed, the version on disk, which the next start will use for *)
(* "auto", is the one that runs.                                           *)
RestartKeepsVersion ==
  Settled /\ settings.tag = AUTO /\ ~crossed
    => live # NoContainer /\ saved.resolved = live.version

(* The automatic updater replaces a running container only by a newer      *)
(* version, however long ago it chose the release and whatever requests    *)
(* have installed since, unless an install crossed the startup.            *)
AutoNeverDowngrades ==
  [][\A k \in Check :
       Swaps(k) /\ ~update'[k].back /\ live # NoContainer
         => crossed \/ ~settings.managed \/ update[k].target > live.version]_hvars
=============================================================================
