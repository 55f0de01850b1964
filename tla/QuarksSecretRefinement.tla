---------------------- MODULE QuarksSecretRefinement ----------------------
(* The controllers of QuarksSecretController implement RotationService.    *)
EXTENDS QuarksSecretController

\* What the status of an object tells the user: IsGenerated, NotGenerated, or
\* neither as long as it is nil.
StateOf(o) ==
  IF ~Present(o) THEN "absent"
  ELSE IF NotGenerated(o) THEN "asked"
  ELSE IF IsGenerated(o) THEN "served" ELSE "fresh"

\* How far a reconcile has come with new credentials.
AttemptOf(r) ==
  IF r.pc = "idle" THEN "none"
  ELSE IF r.pc = "generate" THEN "begun"
  ELSE IF ~r.renewed THEN "outdated"
  ELSE IF r.pc = "status" THEN "placed" ELSE "minted"

ServiceState == [q \in QSecs |-> StateOf(qsec[q])]
ServiceAttempt == [q \in QSecs |-> AttemptOf(rec[q])]

Service == INSTANCE RotationService
             WITH state <- ServiceState, attempt <- ServiceAttempt

\* The two controllers, with caches, queues, conflicts and crashes, behave as
\* RotationService says: in particular no status update brings back an object
\* that is gone, takes back a request, or answers one with credentials from
\* before it.
RotationServiceKept == Service!Spec
==========================================================================
