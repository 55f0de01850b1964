--------------------------- MODULE MCSecretCopies ---------------------------
(* Instances of the copy and secret metadata controllers, for TLC. *)
EXTENDS SecretCopies

Bounds(src, drop, labels, spec, rotate, guest, del, restart, fault) ==
  [b \in Bounded |->
     CASE b = "source" -> src     [] b = "drop"   -> drop
       [] b = "labels" -> labels  [] b = "spec"   -> spec
       [] b = "rotate" -> rotate  [] b = "guest"  -> guest
       [] b = "delete" -> del     [] b = "restart" -> restart
       [] b = "fault"  -> fault]

\* A secret there with and without the annotation, and a QuarksSecret.
OneCopy == {<<<<"none", Own(TRUE)>>>>, <<<<"none", Own(FALSE)>>>>,
            <<<<"copy", NoTarget>>>>}

\* Later also a secret next to the QuarksSecret, a QuarksSecret of another
\* type, or nothing.
AnyGuest == {<<"none", Own(TRUE)>>, <<"copy", Own(FALSE)>>,
             <<"other", Own(TRUE)>>, <<"none", NoTarget>>}

Together == {{"source", "fault"}, {"labels", "rotate"}, {"labels", "fault"},
             {"rotate", "fault"}, {"guest"}, {"spec"}, {"drop"}, {"delete"},
             {"restart", "source"}}

CopiesLimit == Bounds(1, 1, 1, 1, 1, 1, 1, 1, 1)

\* Nothing happens but that a user edits the source secret.
HostedCopy == {<<<<"copy", NoTarget>>>>}
EditLimit == Bounds(1, 0, 0, 0, 0, 0, 0, 0, 0)
=============================================================================
