------------------ MODULE QuarksSecretRefinement_proofs ------------------
(***************************************************************************)
(* The controllers implement RotationService: every step of theirs is one  *)
(* of its steps or changes nothing it knows of, for any number of          *)
(* QuarksSecrets, config maps and workers.                                 *)
(***************************************************************************)
EXTENDS QuarksSecretRefinement, QuarksSecretRotation_proofs

\* The steps that neither write a QuarksSecret nor take a reconcile further.
LEMMA QuietStep ==
  /\ \A q \in QSecs :
       \/ CreateUserSecret(q) \/ DeleteSecret(q) \/ GarbageCollect(q)
       \/ DeliverQSec(q) \/ RelistQSec(q) \/ Resync(q) \/ SyncSecret(q)
       \/ Requeue(q) \/ SkipReconcile(q) \/ Meltdown(q) \/ RejectType(q)
       => UNCHANGED <<qsec, rec>>
  /\ \A c \in Configs :
       \/ CreateConfig(c) \/ DeleteConfig(c) \/ DeliverConfig(c)
       \/ RequeueConfig(c) \/ SkipRotation(c) \/ RejectConfig(c)
       \/ BeginRotation(c) \/ ReadName(c) \/ ResetFails(c) \/ EndRotation(c)
       => UNCHANGED <<qsec, rec>>
  /\ UNCHANGED vars => UNCHANGED <<qsec, rec>>
  <1>1. ASSUME NEW q \in QSecs,
               \/ CreateUserSecret(q) \/ DeleteSecret(q) \/ GarbageCollect(q)
               \/ DeliverQSec(q) \/ RelistQSec(q) \/ Resync(q) \/ SyncSecret(q)
               \/ Requeue(q) \/ SkipReconcile(q) \/ Meltdown(q)
               \/ RejectType(q)
        PROVE  UNCHANGED <<qsec, rec>>
    BY <1>1 DEF CreateUserSecret, DeleteSecret, GarbageCollect, DeliverQSec,
         RelistQSec, Resync, SyncSecret, Requeue, SkipReconcile, Meltdown,
         RejectType, Take, qsecVars, recVars
  <1>2. ASSUME NEW c \in Configs,
               \/ CreateConfig(c) \/ DeleteConfig(c) \/ DeliverConfig(c)
               \/ RequeueConfig(c) \/ SkipRotation(c) \/ RejectConfig(c)
               \/ BeginRotation(c) \/ ReadName(c) \/ ResetFails(c)
               \/ EndRotation(c)
        PROVE  UNCHANGED <<qsec, rec>>
    BY <1>2 DEF CreateConfig, DeleteConfig, DeliverConfig, RequeueConfig,
         SkipRotation, RejectConfig, BeginRotation, ReadName, ResetFails,
         EndRotation, TakeConfig, qsecVars, recVars
  <1>3. UNCHANGED vars => UNCHANGED <<qsec, rec>>
    BY DEF vars, qsecVars, recVars
  <1> QED
    BY <1>1, <1>2, <1>3

\* A reconcile in progress holds an object that was there when it was read.
Held == \A q \in QSecs : rec[q].pc # "idle" => Present(rec[q].obj)

\* Every step keeps the invariant.
LEMMA HeldStep == TypeOK /\ Held /\ [Next]_vars => Held'
  <1> SUFFICES ASSUME TypeOK, Held, [Next]_vars PROVE Held'
    OBVIOUS
  <1>1. rec \in [QSecs -> Reconciling]
    BY DEF TypeOK, ReconcileType
  <1>2. ASSUME UNCHANGED rec PROVE Held'
    BY <1>2 DEF Held
  <1>3. ASSUME NEW q \in QSecs,
               \/ \E s \in Specs : CreateQSec(q, s) \/ EditQSec(q, s)
               \/ DeleteQSec(q)
        PROVE  UNCHANGED rec
    BY <1>3 DEF CreateQSec, EditQSec, DeleteQSec
  <1>4. ASSUME NEW q \in QSecs, BeginReconcile(q) PROVE Held'
    <2>1. /\ rec'[q].obj = qsecCache[q] /\ Present(qsecCache[q])
          /\ \A p \in QSecs \ {q} : rec'[p] = rec[p]
      BY <1>1, <1>4 DEF BeginReconcile, Idle
    <2> QED
      BY <2>1 DEF Held
  <1>5. ASSUME NEW q \in QSecs,
               \/ Generate(q) \/ CheckSecret(q) \/ CheckSecretFails(q)
               \/ LookupSecret(q) \/ KeepSecret(q) \/ WriteSecret(q)
        PROVE  Held'
    <2>1. /\ rec'[q].obj = rec[q].obj /\ rec[q].pc # "idle"
          /\ \A p \in QSecs \ {q} : rec'[p] = rec[p]
      BY <1>1, <1>5 DEF Generate, CheckSecret, CheckSecretFails, LookupSecret,
           KeepSecret, WriteSecret, Accepted, Reconciling
    <2> QED
      BY <2>1 DEF Held
  <1>6. ASSUME NEW q \in QSecs,
               \/ NotReady(q) \/ WriteSecretFails(q)
               \/ WriteSecretUnanswered(q) \/ UpdateStatus(q)
               \/ UpdateStatusFails(q)
        PROVE  Held'
    <2>1. rec' = [rec EXCEPT ![q] = Idle]
      BY <1>6 DEF NotReady, WriteSecretFails, WriteSecretUnanswered, Retry,
           Leave, UpdateStatus, UpdateStatusFails
    <2> QED
      BY <1>1, <2>1 DEF Held, Idle
  <1>7. ASSUME NEW c \in Configs, ResetGenerated(c) PROVE Held'
    <2> DEFINE q == Head(rot[c].todo)
    <2>1. q \in QSecs /\ rec' = [rec EXCEPT ![q].renewed = FALSE]
      BY <1>7, RotationName DEF ResetGenerated, TypeOK, RotationType
    <2> HIDE DEF q
    <2>2. \A p \in QSecs : rec'[p].pc = rec[p].pc /\ rec'[p].obj = rec[p].obj
      BY <1>1, <2>1 DEF Reconciling
    <2> QED
      BY <2>2 DEF Held
  <1>8. CASE Restart
    BY <1>8 DEF Restart, Held, Idle
  <1> QED
    BY <1>2, <1>3, <1>4, <1>5, <1>6, <1>7, <1>8, QuietStep
    DEF Next, User, Kubernetes, Reconcile, Rotate

\* The invariant holds in every state.
LEMMA HeldCorrect == Spec => []Held
  <1>1. Init => Held
    BY DEF Init, Held, Idle
  <1> QED
    BY <1>1, HeldStep, TypeCorrect, PTL DEF Spec

--------------------------------------------------------------------------
(* The step simulation.                                                    *)

\* The abstract state of one object is that of the record stored for it.
LEMMA MapState ==
  ASSUME TypeOK, NEW q \in QSecs, NEW o, PutQSec(q, o)
  PROVE  ServiceState' = [ServiceState EXCEPT ![q] = StateOf(o)]
  <1>1. qsec' = [qsec EXCEPT ![q] = o] /\ qsec \in [QSecs -> QuarksSecret]
    BY DEF PutQSec, TypeOK, ApiType
  <1>2. \A p \in QSecs : qsec'[p] = IF p = q THEN o ELSE qsec[p]
    BY <1>1
  <1> QED
    BY <1>2 DEF ServiceState

\* And likewise the abstract attempt.
LEMMA MapAttempt ==
  ASSUME NEW q \in QSecs, \A p \in QSecs \ {q} : rec'[p] = rec[p]
  PROVE  ServiceAttempt' = [ServiceAttempt EXCEPT ![q] = AttemptOf(rec'[q])]
  BY DEF ServiceAttempt

\* A step that changes neither is a stutter.
LEMMA MapQuiet ==
  /\ UNCHANGED qsec => UNCHANGED ServiceState
  /\ UNCHANGED rec => UNCHANGED ServiceAttempt
  BY DEF ServiceState, ServiceAttempt

\* Users' writes of QuarksSecrets.
LEMMA UserStep ==
  ASSUME TypeOK, NEW q \in QSecs, NEW s \in Specs,
         CreateQSec(q, s) \/ EditQSec(q, s) \/ DeleteQSec(q)
  PROVE  Service!Create(q) \/ Service!Delete(q) \/ UNCHANGED Service!vars
  <1>1. rec' = rec /\ ServiceAttempt' = ServiceAttempt
    BY MapQuiet DEF CreateQSec, EditQSec, DeleteQSec
  <1>2. CASE CreateQSec(q, s)
    <2>1. spent'["birth"] # 0
      BY <1>2, SpendType DEF CreateQSec, TypeOK, Bounded
    <2>2. StateOf(NewQSec(spent'["birth"], s)) = "fresh"
      BY <2>1 DEF StateOf, NewQSec, NoQSec, Present, NotGenerated, IsGenerated
    <2>3. ServiceState' = [ServiceState EXCEPT ![q] = "fresh"]
      BY <1>2, <2>2, MapState DEF CreateQSec
    <2>4. ServiceState[q] = "absent"
      BY <1>2 DEF CreateQSec, ServiceState, StateOf
    <2> QED
      BY <1>1, <2>3, <2>4 DEF Service!Create, Service!Become
  <1>3. CASE EditQSec(q, s)
    <2>1. qsec[q] \in QuarksSecret
      BY DEF TypeOK, ApiType
    <2>2. StateOf([qsec[q] EXCEPT !.spec = s]) = StateOf(qsec[q])
      BY <2>1 DEF StateOf, QuarksSecret, Present, NotGenerated, IsGenerated
    <2>3. ServiceState' = [ServiceState EXCEPT ![q] = ServiceState[q]]
      BY <1>3, <2>2, MapState DEF EditQSec, ServiceState
    <2>4. ServiceState' = ServiceState
      BY <2>3 DEF ServiceState
    <2> QED
      BY <1>1, <2>4 DEF Service!vars
  <1>4. CASE DeleteQSec(q)
    <2>1. StateOf(NoQSec) = "absent"
      BY DEF StateOf, NoQSec, Present
    <2>2. ServiceState' = [ServiceState EXCEPT ![q] = "absent"]
      BY <1>4, <2>1, MapState DEF DeleteQSec
    <2>3. ServiceState[q] # "absent"
      BY <1>4 DEF DeleteQSec, ServiceState, StateOf
    <2> QED
      BY <1>1, <2>2, <2>3 DEF Service!Delete, Service!Become
  <1> QED
    BY <1>2, <1>3, <1>4

\* The steps of a reconcile up to its status update.
LEMMA ReconcileStep ==
  ASSUME TypeOK, Progress, NEW q \in QSecs,
         \/ BeginReconcile(q) \/ Generate(q) \/ NotReady(q)
         \/ CheckSecret(q) \/ CheckSecretFails(q) \/ LookupSecret(q)
         \/ KeepSecret(q) \/ WriteSecret(q) \/ WriteSecretFails(q)
         \/ WriteSecretUnanswered(q) \/ UpdateStatusFails(q)
  PROVE  \/ Service!Begin(q) \/ Service!Mint(q) \/ Service!Place(q)
         \/ Service!GiveUp(q) \/ UNCHANGED Service!vars
  <1>1. rec \in [QSecs -> Reconciling] /\ ReconcileType
    BY DEF TypeOK, ReconcileType
  <1>2. qsec' = qsec /\ ServiceState' = ServiceState
    BY MapQuiet DEF BeginReconcile, Take, Generate, NotReady, CheckSecret,
       CheckSecretFails, LookupSecret, KeepSecret, WriteSecret,
       WriteSecretFails, WriteSecretUnanswered, UpdateStatusFails, qsecVars
  <1>3. ASSUME NEW a, AttemptOf(rec'[q]) = a,
               \A p \in QSecs \ {q} : rec'[p] = rec[p]
        PROVE  ServiceAttempt' = [ServiceAttempt EXCEPT ![q] = a]
    BY <1>3, MapAttempt
  <1>4. ServiceAttempt[q] = AttemptOf(rec[q])
    BY DEF ServiceAttempt
  <1>5. CASE BeginReconcile(q)
    <2>1. /\ rec[q].pc = "idle" /\ rec'[q].pc = "generate"
          /\ \A p \in QSecs \ {q} : rec'[p] = rec[p]
      BY <1>1, <1>5 DEF BeginReconcile, Take, Idle
    <2> QED
      BY <1>2, <1>3, <1>4, <2>1 DEF AttemptOf, Service!Begin, Service!Advance
  <1>6. CASE Generate(q)
    <2>1. /\ rec[q].pc = "generate" /\ rec'[q].pc = "check"
          /\ rec'[q].renewed
          /\ \A p \in QSecs \ {q} : rec'[p] = rec[p]
      BY <1>1, <1>6 DEF Generate, Reconciling
    <2> QED
      BY <1>2, <1>3, <1>4, <2>1 DEF AttemptOf, Service!Mint, Service!Advance
  <1>7. CASE \/ CheckSecret(q) \/ CheckSecretFails(q) \/ LookupSecret(q)
             \/ KeepSecret(q) \/ WriteSecret(q)
    <2>1. /\ rec[q].pc \in {"check", "lookup", "create", "update"}
          /\ rec'[q].pc \in {"lookup", "create", "update", "status"}
          /\ rec'[q].renewed = rec[q].renewed
          /\ \A p \in QSecs \ {q} : rec'[p] = rec[p]
      BY <1>1, <1>7 DEF CheckSecret, CheckSecretFails, LookupSecret,
         KeepSecret, WriteSecret, Accepted, Reconciling
    <2>2. CASE AttemptOf(rec'[q]) = AttemptOf(rec[q])
      <3>1. ServiceAttempt' = ServiceAttempt
        BY <1>3, <1>4, <2>1, <2>2 DEF ServiceAttempt
      <3> QED
        BY <1>2, <3>1 DEF Service!vars
    <2>3. CASE AttemptOf(rec'[q]) # AttemptOf(rec[q])
      <3>1. AttemptOf(rec[q]) = "minted" /\ AttemptOf(rec'[q]) = "placed"
        BY <2>1, <2>3 DEF AttemptOf
      <3> QED
        BY <1>2, <1>3, <1>4, <2>1, <3>1 DEF Service!Place, Service!Advance
    <2> QED
      BY <2>2, <2>3
  <1>8. CASE \/ NotReady(q) \/ WriteSecretFails(q)
             \/ WriteSecretUnanswered(q) \/ UpdateStatusFails(q)
    <2>1. rec' = [rec EXCEPT ![q] = Idle] /\ rec[q].pc # "idle"
      BY <1>8 DEF NotReady, WriteSecretFails, WriteSecretUnanswered, Accepted,
         Retry, Leave, UpdateStatusFails
    <2>2. AttemptOf(rec'[q]) = "none"
      BY <1>1, <2>1 DEF Idle, AttemptOf
    <2>3. AttemptOf(rec[q]) # "none"
      BY <2>1 DEF AttemptOf
    <2>4. ServiceAttempt' = [ServiceAttempt EXCEPT ![q] = "none"]
      BY <1>1, <1>3, <2>1, <2>2
    <2> QED
      BY <1>2, <1>4, <2>3, <2>4 DEF Service!GiveUp, Service!Advance
  <1> QED
    BY <1>5, <1>6, <1>7, <1>8

\* A status update that is accepted answers with credentials that are placed.
LEMMA StatusStep ==
  ASSUME TypeOK, Views, Progress, Held, NEW q \in QSecs, UpdateStatus(q)
  PROVE  Service!Answer(q)
  <1>1. /\ rec[q].pc = "status" /\ q \in freshQSec
        /\ rec' = [rec EXCEPT ![q] = Idle]
        /\ PutQSec(q, [rec[q].obj EXCEPT !.generated = "true",
                                         !.copied = "false",
                                         !.stamped = TRUE])
    BY DEF UpdateStatus, StatusAccepted
  <1>2. rec \in [QSecs -> Reconciling] /\ rec[q].obj \in QuarksSecret
    BY DEF TypeOK, ReconcileType, Reconciling
  <1>3. Present(rec[q].obj) /\ rec[q].obj = qsec[q] /\ rec[q].renewed
    BY <1>1 DEF Held, Views, ReconcileCopies, Progress
  <1>4. StateOf([rec[q].obj EXCEPT !.generated = "true", !.copied = "false",
                                   !.stamped = TRUE]) = "served"
    BY <1>2, <1>3 DEF StateOf, Present, NotGenerated, IsGenerated,
       QuarksSecret
  <1>5. ServiceState' = [ServiceState EXCEPT ![q] = "served"]
    BY <1>1, <1>4, MapState
  <1>6. ServiceState[q] # "absent"
    BY <1>3 DEF ServiceState, StateOf, NotGenerated, IsGenerated
  <1>7. ServiceAttempt[q] = "placed"
    BY <1>1, <1>3 DEF ServiceAttempt, AttemptOf
  <1>8. AttemptOf(rec'[q]) = "none"
    BY <1>1, <1>2 DEF Idle, AttemptOf
  <1>9. ServiceAttempt' = [ServiceAttempt EXCEPT ![q] = "none"]
    BY <1>1, <1>2, <1>8, MapAttempt
  <1> QED
    BY <1>5, <1>6, <1>7, <1>9 DEF Service!Answer, Service!Become,
       Service!Advance

\* A rotation asks, and outdates what has been minted.
LEMMA RotateStep ==
  ASSUME TypeOK, Views, NEW c \in Configs, ResetGenerated(c)
  PROVE  \E q \in QSecs : Service!Ask(q)
  <1> DEFINE q == Head(rot[c].todo)
             o == [rot[c].obj EXCEPT !.generated = "false"]
  <1>1. /\ q \in QSecs /\ PutQSec(q, o) /\ c \in freshRot
        /\ rec' = [rec EXCEPT ![q].renewed = FALSE]
    BY RotationName DEF ResetGenerated, TypeOK, RotationType
  <1>2. rot[c].obj \in QuarksSecret /\ rec \in [QSecs -> Reconciling]
    BY DEF TypeOK, RotationType, ReconcileType, Rotating
  <1>3. Present(rot[c].obj) /\ rot[c].obj = qsec[q]
    BY <1>1 DEF Views, RotationCopies, ResetGenerated
  <1>4. StateOf(o) = "asked"
    BY <1>2, <1>3 DEF StateOf, QuarksSecret, Present, NotGenerated
  <1> HIDE DEF o, q
  <1>5. ServiceState' = [ServiceState EXCEPT ![q] = "asked"]
    BY <1>1, <1>4, MapState
  <1>6. ServiceState[q] # "absent"
    BY <1>1, <1>3 DEF ServiceState, StateOf
  <1>7. ServiceAttempt' = [ServiceAttempt EXCEPT ![q] = AttemptOf(rec'[q])]
    BY <1>1, <1>2, MapAttempt
  <1>8. ServiceAttempt[q] = AttemptOf(rec[q])
    BY <1>1 DEF ServiceAttempt
  <1>9. rec'[q].pc = rec[q].pc /\ ~rec'[q].renewed
    BY <1>1, <1>2 DEF Reconciling
  <1>10. AttemptOf(rec'[q]) =
           IF AttemptOf(rec[q]) \in {"minted", "placed"} THEN "outdated"
                                                        ELSE AttemptOf(rec[q])
    BY <1>9 DEF AttemptOf
  <1>11. Service!Ask(q)
    BY <1>1, <1>5, <1>6, <1>7, <1>8, <1>10 DEF Service!Ask, Service!Become,
       Service!Advance
  <1> QED
    BY <1>1, <1>11

\* A restart is a crash.
LEMMA CrashStep == Restart => Service!Crash
  <1> SUFFICES ASSUME Restart PROVE Service!Crash
    OBVIOUS
  <1>1. qsec' = qsec /\ rec' = [q \in QSecs |-> Idle]
    BY DEF Restart
  <1>2. ServiceAttempt' = [q \in QSecs |-> "none"]
    BY <1>1 DEF ServiceAttempt, AttemptOf, Idle
  <1> QED
    BY <1>1, <1>2, MapQuiet DEF Service!Crash

\* Every step is one of RotationService, or a stutter.
LEMMA ServiceStep ==
  TypeOK /\ Views /\ Progress /\ Held /\ [Next]_vars
    => [Service!Next]_Service!vars
  <1> SUFFICES ASSUME TypeOK, Views, Progress, Held, [Next]_vars
               PROVE  Service!Next \/ UNCHANGED Service!vars
    OBVIOUS
  <1>1. UNCHANGED <<qsec, rec>> => UNCHANGED Service!vars
    BY MapQuiet DEF Service!vars
  <1>2. CASE User
    <2>1. ASSUME NEW q \in QSecs, NEW s \in Specs,
                 CreateQSec(q, s) \/ EditQSec(q, s)
          PROVE  Service!Next \/ UNCHANGED Service!vars
      BY <2>1, UserStep DEF Service!Next
    <2>2. ASSUME NEW q \in QSecs, DeleteQSec(q)
          PROVE  Service!Next \/ UNCHANGED Service!vars
      <3>1. ServiceAttempt' = ServiceAttempt
        BY <2>2, MapQuiet DEF DeleteQSec
      <3>2. StateOf(NoQSec) = "absent"
        BY DEF StateOf, NoQSec, Present
      <3>3. ServiceState' = [ServiceState EXCEPT ![q] = "absent"]
        BY <2>2, <3>2, MapState DEF DeleteQSec
      <3>4. ServiceState[q] # "absent"
        BY <2>2 DEF DeleteQSec, ServiceState, StateOf
      <3> QED
        BY <3>1, <3>3, <3>4 DEF Service!Delete, Service!Become, Service!Next
    <2> QED
      BY <1>1, <1>2, <2>1, <2>2, QuietStep DEF User
  <1>3. CASE Kubernetes
    BY <1>1, <1>3, QuietStep DEF Kubernetes
  <1>4. CASE Restart
    BY <1>4, CrashStep DEF Service!Next
  <1>5. ASSUME NEW q \in QSecs, Reconcile(q)
        PROVE  Service!Next \/ UNCHANGED Service!vars
    <2>1. CASE SkipReconcile(q) \/ Meltdown(q) \/ RejectType(q)
      BY <1>1, <2>1, QuietStep
    <2>2. CASE UpdateStatus(q)
      BY <2>2, StatusStep DEF Service!Next
    <2> QED
      BY <1>5, <2>1, <2>2, ReconcileStep DEF Reconcile, Service!Next
  <1>6. ASSUME NEW c \in Configs, Rotate(c)
        PROVE  Service!Next \/ UNCHANGED Service!vars
    <2>1. CASE ResetGenerated(c)
      BY <2>1, RotateStep DEF Service!Next
    <2> QED
      BY <1>1, <1>6, <2>1, QuietStep DEF Rotate
  <1>7. CASE UNCHANGED vars
    BY <1>1, <1>7, QuietStep
  <1> QED
    BY <1>2, <1>3, <1>4, <1>5, <1>6, <1>7 DEF Next

\* RotationServiceKept: the controllers implement the abstract specification.
THEOREM ServiceImplemented == Spec => RotationServiceKept
  <1>1. Init => Service!Init
    <2> SUFFICES ASSUME Init PROVE Service!Init
      OBVIOUS
    <2>1. ServiceState = [q \in QSecs |-> "absent"]
      BY DEF Init, ServiceState, StateOf, Present, NoQSec
    <2>2. ServiceAttempt = [q \in QSecs |-> "none"]
      BY DEF Init, ServiceAttempt, AttemptOf, Idle
    <2> QED
      BY <2>1, <2>2 DEF Service!Init
  <1> QED
    BY <1>1, ServiceStep, TypeCorrect, CopiesCurrent, ProgressCorrect,
       HeldCorrect, PTL DEF Spec, Service!Spec, RotationServiceKept
==========================================================================
