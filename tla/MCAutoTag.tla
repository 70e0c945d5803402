------------------------------ MODULE MCAutoTag ------------------------------
(* Three cores, each with a final release and five prereleases: beta,      *)
(* beta.2, beta.11, rc.1 and 7.                                            *)
EXTENDS AutoTag

Num(n) == [num |-> TRUE, val |-> n]
Text(rank) == [num |-> FALSE, val |-> rank]

MCVersion ==
  [core : {<<1, 0, 0>>, <<1, 1, 0>>, <<2, 0, 0>>},
   pre : {<<>>, <<Text(1)>>, <<Text(1), Num(2)>>, <<Text(1), Num(11)>>,
          <<Text(2), Num(1)>>, <<Num(7)>>}]
=============================================================================
