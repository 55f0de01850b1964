------------------------ MODULE MCCertificateSigning ------------------------
(* Instances of the signing of certificates by the cluster, for TLC. *)
EXTENDS SigningRefinement

Bounds(birth, del, rotate, user, hand, restart, root, fault) ==
  [b \in Bounded |->
     CASE b = "birth"  -> birth   [] b = "delete"  -> del
       [] b = "rotate" -> rotate  [] b = "user"    -> user
       [] b = "hand"   -> hand    [] b = "restart" -> restart
       [] b = "root"   -> root    [] b = "fault"   -> fault]

SigningLimit == Bounds(2, 1, 1, 1, 1, 1, 1, 1)
=============================================================================
