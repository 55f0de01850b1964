------------------------- MODULE MCQuarksSecret -------------------------
(* Instances of the QuarksSecret controller for TLC. *)
EXTENDS QuarksSecretRefinement

CONSTANTS q1, q2, c1

\* s1 is generated on its own, s3 from the secrets of MCRefs.
MCKind == [s \in Specs |-> CASE s = "s3" -> "refs"
                             [] s = "sCopy" -> "copy"
                             [] s = "sBad" -> "invalid"
                             [] OTHER -> "plain"]
MCNames == [c \in Configs |-> IF q2 \in QSecs THEN <<q1, q2>> ELSE <<q1>>]
AnySpec == [q \in QSecs |-> Specs]
OneCopied == [q \in QSecs |-> IF q = q2 THEN {"sCopy"} ELSE Specs \ {"sCopy"}]
MCRefs == [q \in QSecs |-> IF q = q1 THEN {} ELSE {q1}]

Bounds(birth, edit, del, sec, conf, restart, fault, relist) ==
  [b \in Bounded |->
     CASE b = "birth"   -> birth   [] b = "edit"   -> edit
       [] b = "delete"  -> del     [] b = "secret" -> sec
       [] b = "config"  -> conf    [] b = "restart" -> restart
       [] b = "fault"   -> fault   [] b = "relist" -> relist]

\* Two edits race with a rotation; a user meddles with the secret.
SafetyLimit == Bounds(1, 2, 1, 1, 1, 0, 0, 1)

\* A rotation, an edit, a crash and a failing call.
LivenessLimit == Bounds(1, 1, 0, 0, 1, 1, 1, 0)

\* A list of two, a conflict or a failing call between them.
RotationLimit == Bounds(2, 0, 0, 0, 1, 0, 1, 0)

\* Two objects of any type, a crash, a failing call, an unreadable config map.
ReferencesLimit == Bounds(2, 0, 0, 0, 1, 1, 1, 0)

\* Just what each violated claim takes.
UserSecretLimit == Bounds(1, 0, 0, 1, 0, 0, 0, 0)
EditLimit == Bounds(1, 1, 0, 0, 0, 0, 0, 0)
RecreateLimit == Bounds(2, 0, 1, 0, 0, 0, 0, 0)
=========================================================================
