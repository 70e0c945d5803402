-------------------------- MODULE MCBackupPlugin --------------------------
(* Instances of BackupPlugin for TLC.                                      *)
EXTENDS BackupPlugin, TLC

Managed(tag) == [managed |-> TRUE, url |-> None, tag |-> tag, auto |-> TRUE,
                 exports |-> TRUE, deltas |-> TRUE, resolved |-> None]

External == [Managed(AUTO) EXCEPT !.managed = FALSE, !.url = Url]

MCConfig == {Managed(AUTO), Managed(1), External}
=============================================================================
