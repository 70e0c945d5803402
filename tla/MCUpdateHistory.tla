-------------------------- MODULE MCUpdateHistory --------------------------
(* An instance of UpdateHistory for TLC.                                   *)
EXTENDS UpdateHistory, TLC

Managed(tag) == [managed |-> TRUE, url |-> None, tag |-> tag, auto |-> TRUE,
                 exports |-> TRUE, deltas |-> TRUE, resolved |-> None]

External == [Managed(AUTO) EXCEPT !.managed = FALSE, !.url = Url]

MCConfig == {Managed(AUTO), Managed(2), External}

(* Without restores: one under way ends a check, as the idle answer "no"   *)
(* does, and touches nothing else that the properties speak of.            *)
NoRestores == restoring = {}
=============================================================================
