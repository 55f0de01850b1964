---------------------------- MODULE MCOperators ----------------------------
(* Instances of the operator processes, for TLC. *)
EXTENDS Operators

Bounds(relabel, rotate, restart, fault) ==
  [b \in Bounded |->
     CASE b = "label"   -> relabel  [] b = "rotate" -> rotate
       [] b = "restart" -> restart  [] b = "fault"  -> fault]

\* A deployment that is rolled over, or two of them.
OneOrTwo == {[p \in Procs |-> "a"], [p \in Procs |-> IF p = "p" THEN "a" ELSE "b"]}

OperatorsLimit == Bounds(1, 1, 1, 1)

Together == {{"rotate", "fault"}, {"rotate", "restart"}, {"label", "restart"}}
=============================================================================
