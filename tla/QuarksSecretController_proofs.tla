------------------ MODULE QuarksSecretController_proofs ------------------
(***************************************************************************)
(* Proofs, for every value of the constants, of the controller's type      *)
(* invariant and of its rotation properties.                               *)
(***************************************************************************)
EXTENDS QuarksSecretController, TLAPS

\* The constants and the records written by the API server have their types.
LEMMA ObjectTypes ==
  /\ NoQSec \in QuarksSecret
  /\ \A uid \in Nat, s \in Specs : NewQSec(uid, s) \in QuarksSecret
  /\ NoSecret \in Secret /\ UserSecret \in Secret
  /\ \A uid \in Nat, s \in Specs \cup {NoSpec} :
       GeneratedSecret(uid, s) \in Secret
  /\ \A o \in QuarksSecret, s \in Specs :
       /\ [o EXCEPT !.spec = s] \in QuarksSecret
       /\ [o EXCEPT !.generated = "false"] \in QuarksSecret
       /\ [o EXCEPT !.generated = "true", !.copied = "false",
                    !.stamped = TRUE] \in QuarksSecret
  /\ Idle \in Reconciling /\ RotIdle \in Rotating
  <1>1. NoQSec \in QuarksSecret
    BY DEF NoQSec, QuarksSecret, OptionalBool
  <1>2. \A uid \in Nat, s \in Specs : NewQSec(uid, s) \in QuarksSecret
    BY DEF NewQSec, NoQSec, QuarksSecret, OptionalBool
  <1>3. NoSecret \in Secret /\ UserSecret \in Secret
    BY DEF NoSecret, UserSecret, Secret
  <1>4. \A uid \in Nat, s \in Specs \cup {NoSpec} :
          GeneratedSecret(uid, s) \in Secret
    BY DEF GeneratedSecret, Secret
  <1>5. Idle \in Reconciling
    BY <1>1 DEF Idle, Reconciling
  <1>6. RotIdle \in Rotating
    BY <1>1 DEF RotIdle, Rotating
  <1>7. ASSUME NEW o \in QuarksSecret, NEW s \in Specs
        PROVE  /\ [o EXCEPT !.spec = s] \in QuarksSecret
               /\ [o EXCEPT !.generated = "false"] \in QuarksSecret
               /\ [o EXCEPT !.generated = "true", !.copied = "false",
                            !.stamped = TRUE] \in QuarksSecret
    BY DEF QuarksSecret, OptionalBool
  <1> QED
    BY <1>1, <1>2, <1>3, <1>4, <1>5, <1>6, <1>7

\* A sequence with e appended ends in e.
LEMMA AppendEnd ==
  ASSUME NEW S, NEW s \in Seq(S), NEW e \in S
  PROVE  /\ Append(s, e) \in Seq(S)
         /\ Append(s, e) # <<>>
         /\ Append(s, e)[Len(Append(s, e))] = e
  <1>1. Len(Append(s, e)) = Len(s) + 1 /\ Append(s, e) \in Seq(S)
    OBVIOUS
  <1>2. Append(s, e)[Len(s) + 1] = e
    OBVIOUS
  <1>3. Len(Append(s, e)) # Len(<<>>)
    BY <1>1
  <1> QED
    BY <1>1, <1>2, <1>3

\* Taking the head off a sequence leaves its end in place.
LEMMA TailEnd ==
  ASSUME NEW S, NEW s \in Seq(S), s # <<>>
  PROVE  /\ Head(s) \in S
         /\ Tail(s) \in Seq(S)
         /\ Tail(s) = <<>> => Head(s) = s[Len(s)]
         /\ Tail(s) # <<>> => Tail(s)[Len(Tail(s))] = s[Len(s)]
  <1>1. Len(s) \in Nat \ {0} /\ Head(s) = s[1] /\ Head(s) \in S
    OBVIOUS
  <1>2. Tail(s) \in Seq(S) /\ Len(Tail(s)) = Len(s) - 1
    OBVIOUS
  <1>3. Tail(s) = <<>> => Len(s) = 1
    BY <1>1, <1>2
  <1>4. Tail(s) # <<>> => Len(Tail(s)) \in 1 .. Len(Tail(s))
    BY <1>2
  <1>5. \A i \in 1 .. Len(Tail(s)) : Tail(s)[i] = s[i + 1]
    BY <1>1
  <1> QED
    BY <1>1, <1>2, <1>3, <1>4, <1>5

\* Spending leaves the counters natural numbers, and the one spent positive.
LEMMA SpendType ==
  ASSUME NEW b \in Bounded, spent \in [Bounded -> Nat], Spend(b)
  PROVE  /\ spent' \in [Bounded -> Nat]
         /\ spent'[b] # 0
         /\ \A d \in Bounded : spent[d] # 0 => spent'[d] # 0
  BY ControllerAssumption DEF Spend

\* The initial state has the types.
LEMMA InitType == Init => TypeOK
  <1> SUFFICES ASSUME Init PROVE TypeOK
    OBVIOUS
  <1>a. NoQSec \in QuarksSecret /\ NoSecret \in Secret
    BY ObjectTypes
  <1>1. ApiType
    BY <1>a DEF Init, ApiType
  <1>2. ReconcileType
    BY ObjectTypes DEF Init, ReconcileType
  <1>3. RotationType
    BY ObjectTypes DEF Init, RotationType, RotIdle
  <1> QED
    BY <1>1, <1>2, <1>3 DEF Init, TypeOK

\* Storing a QuarksSecret keeps the types of the variables it writes, and
\* its watch then ends in the new version.
LEMMA PutQSecType ==
  ASSUME ApiType, NEW q \in QSecs, NEW o \in QuarksSecret, PutQSec(q, o)
  PROVE  /\ qsec' \in [QSecs -> QuarksSecret]
         /\ qsecWatch' \in [QSecs -> Seq(QuarksSecret)]
         /\ qsecCache' = qsecCache
         /\ freshQSec' = freshQSec \ {q}
         /\ freshRot' \subseteq freshRot
         /\ \A c \in freshRot' : Head(rot[c].todo) # q
         /\ qsec'[q] = o
         /\ \A p \in QSecs \ {q} :
              qsec'[p] = qsec[p] /\ qsecWatch'[p] = qsecWatch[p]
         /\ qsecWatch'[q] # <<>>
         /\ qsecWatch'[q][Len(qsecWatch'[q])] = o
  <1>1. qsecWatch[q] \in Seq(QuarksSecret)
    BY DEF ApiType
  <1>2. qsecWatch' = [qsecWatch EXCEPT ![q] = Append(qsecWatch[q], o)]
    BY DEF PutQSec
  <1>3. qsecWatch'[q] = Append(qsecWatch[q], o)
    BY <1>2 DEF ApiType
  <1>4. Append(qsecWatch[q], o) \in Seq(QuarksSecret)
    BY <1>1, AppendEnd
  <1>5. /\ qsecWatch'[q] # <<>>
        /\ qsecWatch'[q][Len(qsecWatch'[q])] = o
    BY <1>1, <1>3, AppendEnd
  <1>6. qsecWatch' \in [QSecs -> Seq(QuarksSecret)]
    BY <1>2, <1>4 DEF ApiType
  <1> QED
    BY <1>2, <1>5, <1>6 DEF ApiType, PutQSec

\* Storing a secret keeps the types of the variables it writes.
LEMMA PutSecretType ==
  ASSUME ApiType, NEW q \in QSecs, NEW s \in Secret, PutSecret(q, s)
  PROVE  /\ secret' \in [QSecs -> Secret]
         /\ secretCache' \in [QSecs -> Secret]
         /\ synced' \subseteq QSecs
         /\ freshSecret' = freshSecret \ {q}
  BY DEF ApiType, PutSecret

\* Every step keeps the types of the stored and of the cached objects.
LEMMA ApiTypeStep == TypeOK /\ [Next]_vars => ApiType'
  <1> SUFFICES ASSUME TypeOK, [Next]_vars PROVE ApiType'
    OBVIOUS
  <1> USE DEF TypeOK
  <1>1. ASSUME UNCHANGED <<qsecVars, secretVars>> PROVE ApiType'
    BY <1>1 DEF ApiType, qsecVars, secretVars
  <1>2. ASSUME NEW q \in QSecs, NEW s \in Specs, CreateQSec(q, s)
        PROVE ApiType'
    BY <1>2, ObjectTypes, SpendType, PutQSecType, ControllerAssumption
    DEF ApiType, CreateQSec, Bounded, secretVars
  <1>3. ASSUME NEW q \in QSecs, NEW s \in Specs, EditQSec(q, s) PROVE ApiType'
    BY <1>3, ObjectTypes, PutQSecType
    DEF ApiType, EditQSec, secretVars
  <1>4. ASSUME NEW q \in QSecs, DeleteQSec(q) PROVE ApiType'
    BY <1>4, ObjectTypes, PutQSecType
    DEF ApiType, DeleteQSec, secretVars
  <1>5. ASSUME NEW q \in QSecs, CreateUserSecret(q) PROVE ApiType'
    BY <1>5, ObjectTypes, PutSecretType
    DEF ApiType, CreateUserSecret, qsecVars
  <1>6. ASSUME NEW q \in QSecs, DeleteSecret(q) PROVE ApiType'
    BY <1>6, ObjectTypes, PutSecretType
    DEF ApiType, DeleteSecret, qsecVars
  <1>7. ASSUME NEW q \in QSecs, GarbageCollect(q) PROVE ApiType'
    BY <1>7, ObjectTypes, PutSecretType
    DEF ApiType, GarbageCollect, qsecVars
  <1>8. ASSUME NEW q \in QSecs, DeliverQSec(q) PROVE ApiType'
    BY <1>8, TailEnd
    DEF ApiType, DeliverQSec, secretVars
  <1>9. ASSUME NEW q \in QSecs, RelistQSec(q) PROVE ApiType'
    BY <1>9
    DEF ApiType, RelistQSec, secretVars
  <1>10. ASSUME NEW q \in QSecs, SyncSecret(q) PROVE ApiType'
    BY <1>10
    DEF ApiType, SyncSecret, qsecVars
  <1>11. ASSUME NEW q \in QSecs, WriteSecret(q) PROVE ApiType'
    BY <1>11, ObjectTypes, PutSecretType
    DEF ApiType, WriteSecret, Written, ReconcileType, Reconciling,
        QuarksSecret, Secret, qsecVars
  <1>12. ASSUME NEW q \in QSecs, WriteSecretUnanswered(q) PROVE ApiType'
    BY <1>12, ObjectTypes, PutSecretType
    DEF ApiType, WriteSecretUnanswered, Written, ReconcileType, Reconciling,
        QuarksSecret, Secret, qsecVars
  <1>13. ASSUME NEW q \in QSecs, UpdateStatus(q) PROVE ApiType'
    <2> DEFINE o == [rec[q].obj EXCEPT !.generated = "true",
                                       !.copied = "false", !.stamped = TRUE]
    <2>a. rec[q].obj \in QuarksSecret
      BY DEF ReconcileType, Reconciling
    <2>1. o \in QuarksSecret
      BY <2>a DEF QuarksSecret, OptionalBool
    <2>2. PutQSec(q, o) /\ UNCHANGED secretVars
      BY <1>13 DEF UpdateStatus
    <2> HIDE DEF o
    <2> QED
      BY <2>1, <2>2, PutQSecType DEF ApiType, secretVars
  <1>14. ASSUME NEW c \in Configs, ResetGenerated(c) PROVE ApiType'
    <2> DEFINE q == Head(rot[c].todo)
               o == [rot[c].obj EXCEPT !.generated = "false"]
    <2>1. q \in QSecs /\ rot[c].obj \in QuarksSecret
      BY <1>14, TailEnd DEF ResetGenerated, RotationType, Rotating
    <2>2. o \in QuarksSecret
      BY <2>1 DEF QuarksSecret, OptionalBool
    <2>3. PutQSec(q, o) /\ UNCHANGED secretVars
      BY <1>14 DEF ResetGenerated
    <2> HIDE DEF q, o
    <2> QED
      BY <2>1, <2>2, <2>3, PutQSecType DEF ApiType, secretVars
  <1>15. CASE Restart
    BY <1>15 DEF ApiType, Restart
  <1>16. ASSUME NEW q \in QSecs,
                 \/ Resync(q)
                 \/ Requeue(q)
                 \/ SkipReconcile(q)
                 \/ Meltdown(q)
                 \/ RejectType(q)
                 \/ BeginReconcile(q)
                 \/ Generate(q)
                 \/ NotReady(q)
                 \/ CheckSecret(q)
                 \/ CheckSecretFails(q)
                 \/ LookupSecret(q)
                 \/ KeepSecret(q)
                 \/ WriteSecretFails(q)
                 \/ UpdateStatusFails(q)
        PROVE  UNCHANGED <<qsecVars, secretVars>>
    BY <1>16 DEF BeginReconcile, CheckSecret, CheckSecretFails, Generate,
         KeepSecret, LookupSecret, Meltdown, NotReady, RejectType, Requeue,
         Resync, SkipReconcile, UpdateStatusFails, WriteSecretFails, Take,
         qsecVars, secretVars
  <1>17. ASSUME NEW c \in Configs,
                 \/ CreateConfig(c)
                 \/ DeleteConfig(c)
                 \/ DeliverConfig(c)
                 \/ RequeueConfig(c)
                 \/ SkipRotation(c)
                 \/ RejectConfig(c)
                 \/ BeginRotation(c)
                 \/ ReadName(c)
                 \/ ResetFails(c)
                 \/ EndRotation(c)
        PROVE  UNCHANGED <<qsecVars, secretVars>>
    BY <1>17 DEF BeginRotation, CreateConfig, DeleteConfig, DeliverConfig,
         EndRotation, ReadName, RejectConfig, RequeueConfig, ResetFails,
         SkipRotation, TakeConfig, qsecVars, secretVars
  <1>18. CASE UNCHANGED vars
    BY <1>1, <1>18 DEF vars
  <1> QED
    BY <1>1, <1>2, <1>3, <1>4, <1>5, <1>6, <1>7, <1>8, <1>9, <1>10, <1>11,
       <1>12, <1>13, <1>14, <1>15, <1>16, <1>17, <1>18
    DEF Next, User, Kubernetes, Reconcile, Rotate

\* Every step keeps the types of the QuarksSecret controller's variables.
LEMMA ReconcileTypeStep == TypeOK /\ [Next]_vars => ReconcileType'
  <1> SUFFICES ASSUME TypeOK, [Next]_vars PROVE ReconcileType'
    OBVIOUS
  <1> USE DEF TypeOK
  <1>1. ASSUME UNCHANGED <<queueVars, recVars>> PROVE ReconcileType'
    BY <1>1 DEF ReconcileType, queueVars, recVars
  <1>2. ASSUME NEW q \in QSecs, NEW s \in Specs, CreateQSec(q, s)
        PROVE ReconcileType'
    BY <1>2
    DEF ReconcileType, CreateQSec, PutQSec, queueVars
  <1>3. ASSUME NEW q \in QSecs, NEW s \in Specs, EditQSec(q, s)
        PROVE ReconcileType'
    BY <1>3
    DEF ReconcileType, EditQSec, PutQSec, queueVars
  <1>4. ASSUME NEW q \in QSecs, DeleteQSec(q) PROVE ReconcileType'
    BY <1>4
    DEF ReconcileType, DeleteQSec, PutQSec, queueVars
  <1>5. ASSUME NEW q \in QSecs, CreateUserSecret(q) PROVE ReconcileType'
    BY <1>5
    DEF ReconcileType, CreateUserSecret, PutSecret, queueVars
  <1>6. ASSUME NEW q \in QSecs, DeleteSecret(q) PROVE ReconcileType'
    BY <1>6
    DEF ReconcileType, DeleteSecret, PutSecret, queueVars
  <1>7. ASSUME NEW q \in QSecs, GarbageCollect(q) PROVE ReconcileType'
    BY <1>7
    DEF ReconcileType, GarbageCollect, PutSecret, queueVars
  <1>8. ASSUME NEW q \in QSecs, DeliverQSec(q) PROVE ReconcileType'
    BY <1>8
    DEF ReconcileType, DeliverQSec, Enqueued, recVars
  <1>9. ASSUME NEW q \in QSecs, RelistQSec(q) PROVE ReconcileType'
    BY <1>9
    DEF ReconcileType, RelistQSec, Enqueued, recVars
  <1>10. ASSUME NEW q \in QSecs, Resync(q) PROVE ReconcileType'
    BY <1>10
    DEF ReconcileType, Resync, Enqueued, recVars
  <1>11. ASSUME NEW q \in QSecs, Requeue(q) PROVE ReconcileType'
    BY <1>11
    DEF ReconcileType, Requeue, recVars
  <1>12. ASSUME NEW q \in QSecs, SkipReconcile(q) PROVE ReconcileType'
    BY <1>12
    DEF ReconcileType, SkipReconcile, Take
  <1>13. ASSUME NEW q \in QSecs, Meltdown(q) PROVE ReconcileType'
    BY <1>13
    DEF ReconcileType, Meltdown, Take
  <1>14. ASSUME NEW q \in QSecs, RejectType(q) PROVE ReconcileType'
    BY <1>14
    DEF ReconcileType, RejectType, Take
  <1>15. ASSUME NEW q \in QSecs, BeginReconcile(q) PROVE ReconcileType'
    <2>1. [Idle EXCEPT !.pc = "generate", !.obj = qsecCache[q]]
            \in Reconciling
      BY ObjectTypes DEF ApiType, Reconciling, Idle
    <2> QED
      BY <1>15, <2>1 DEF ReconcileType, BeginReconcile, Take, Idle
  <1>16. ASSUME NEW q \in QSecs, Generate(q) PROVE ReconcileType'
    BY <1>16
    DEF ReconcileType, Generate, Reconciling, queueVars
  <1>17. ASSUME NEW q \in QSecs, NotReady(q) PROVE ReconcileType'
    BY <1>17, ObjectTypes
    DEF ReconcileType, NotReady, Retry, Leave, Idle
  <1>18. ASSUME NEW q \in QSecs, CheckSecret(q) PROVE ReconcileType'
    BY <1>18
    DEF ReconcileType, CheckSecret, Reconciling, ApiType, Secret, queueVars
  <1>19. ASSUME NEW q \in QSecs, CheckSecretFails(q) PROVE ReconcileType'
    BY <1>19
    DEF ReconcileType, CheckSecretFails, Reconciling, queueVars
  <1>20. ASSUME NEW q \in QSecs, LookupSecret(q) PROVE ReconcileType'
    BY <1>20
    DEF ReconcileType, LookupSecret, Reconciling, queueVars
  <1>20a. ASSUME NEW q \in QSecs, KeepSecret(q) PROVE ReconcileType'
    <2>1. [rec[q] EXCEPT !.pc = "status", !.stored = TRUE] \in Reconciling
      BY DEF ReconcileType, Reconciling
    <2>2. rec' = [rec EXCEPT ![q] =
                    [rec[q] EXCEPT !.pc = "status", !.stored = TRUE]]
      BY <1>20a DEF ReconcileType, KeepSecret, Reconciling
    <2>3. rec' \in [QSecs -> Reconciling]
      BY <2>1, <2>2 DEF ReconcileType
    <2>4. rec[q].pc = "lookup" /\ UNCHANGED <<queueVars, freshQSec, freshSecret>>
      BY <1>20a DEF KeepSecret
    <2>5. /\ rec'[q].pc = "status"
          /\ \A p \in QSecs \ {q} : rec'[p] = rec[p]
      BY <2>2 DEF ReconcileType, Reconciling
    <2>6. freshQSec' \subseteq {p \in QSecs : rec'[p].pc # "idle"}
      BY <2>4, <2>5 DEF ReconcileType
    <2>7. freshSecret' \subseteq {p \in QSecs : rec'[p].pc = "update"}
      BY <2>4, <2>5 DEF ReconcileType
    <2> QED
      BY <2>3, <2>4, <2>6, <2>7 DEF ReconcileType, queueVars
  <1>21. ASSUME NEW q \in QSecs, WriteSecret(q) PROVE ReconcileType'
    BY <1>21
    DEF ReconcileType, WriteSecret, Accepted, PutSecret, Reconciling,
        queueVars
  <1>22. ASSUME NEW q \in QSecs, WriteSecretFails(q) PROVE ReconcileType'
    BY <1>22, ObjectTypes
    DEF ReconcileType, WriteSecretFails, Retry, Leave, Idle
  <1>23. ASSUME NEW q \in QSecs, WriteSecretUnanswered(q) PROVE ReconcileType'
    BY <1>23, ObjectTypes
    DEF ReconcileType, WriteSecretUnanswered, Retry, Leave, Idle, PutSecret
  <1>24. ASSUME NEW q \in QSecs, UpdateStatus(q) PROVE ReconcileType'
    BY <1>24, ObjectTypes
    DEF ReconcileType, UpdateStatus, PutQSec, Idle, queueVars
  <1>25. ASSUME NEW q \in QSecs, UpdateStatusFails(q) PROVE ReconcileType'
    BY <1>25, ObjectTypes
    DEF ReconcileType, UpdateStatusFails, Leave, Idle, queueVars
  <1>26. ASSUME NEW c \in Configs, ResetGenerated(c) PROVE ReconcileType'
    BY <1>26
    DEF ReconcileType, ResetGenerated, PutQSec, Reconciling, queueVars
  <1>27. CASE Restart
    BY <1>27, ObjectTypes DEF ReconcileType, Restart, Idle
  <1>28. ASSUME NEW q \in QSecs, SyncSecret(q)
        PROVE  UNCHANGED <<queueVars, recVars>>
    BY <1>28 DEF SyncSecret, queueVars, recVars
  <1>29. ASSUME NEW c \in Configs,
                 \/ CreateConfig(c)
                 \/ DeleteConfig(c)
                 \/ DeliverConfig(c)
                 \/ RequeueConfig(c)
                 \/ SkipRotation(c)
                 \/ RejectConfig(c)
                 \/ BeginRotation(c)
                 \/ ReadName(c)
                 \/ ResetFails(c)
                 \/ EndRotation(c)
        PROVE  UNCHANGED <<queueVars, recVars>>
    BY <1>29 DEF BeginRotation, CreateConfig, DeleteConfig, DeliverConfig,
         EndRotation, ReadName, RejectConfig, RequeueConfig, ResetFails,
         SkipRotation, TakeConfig, queueVars, recVars
  <1>30. CASE UNCHANGED vars
    BY <1>1, <1>30 DEF vars
  <1> QED
    BY <1>1, <1>2, <1>3, <1>4, <1>5, <1>6, <1>7, <1>8, <1>9, <1>10, <1>11,
       <1>12, <1>13, <1>14, <1>15, <1>16, <1>17, <1>18, <1>19, <1>20, <1>20a,
       <1>21, <1>22, <1>23, <1>24, <1>25, <1>26, <1>27, <1>28, <1>29, <1>30
    DEF Next, User, Kubernetes, Reconcile, Rotate

\* Every step keeps the types of the rotation controller's variables.
LEMMA RotationTypeStep == TypeOK /\ [Next]_vars => RotationType'
  <1> SUFFICES ASSUME TypeOK, [Next]_vars PROVE RotationType'
    OBVIOUS
  <1> USE DEF TypeOK
  <1>1. ASSUME UNCHANGED rotVars PROVE RotationType'
    BY <1>1 DEF RotationType, rotVars
  <1>2. ASSUME NEW q \in QSecs, NEW s \in Specs, CreateQSec(q, s)
        PROVE RotationType'
    BY <1>2
    DEF RotationType, CreateQSec, PutQSec, rotVars
  <1>3. ASSUME NEW q \in QSecs, NEW s \in Specs, EditQSec(q, s)
        PROVE RotationType'
    BY <1>3
    DEF RotationType, EditQSec, PutQSec
  <1>4. ASSUME NEW q \in QSecs, DeleteQSec(q) PROVE RotationType'
    BY <1>4
    DEF RotationType, DeleteQSec, PutQSec
  <1>5. ASSUME NEW q \in QSecs, UpdateStatus(q) PROVE RotationType'
    BY <1>5
    DEF RotationType, UpdateStatus, PutQSec
  <1>6. ASSUME NEW c \in Configs, CreateConfig(c) PROVE RotationType'
    BY <1>6
    DEF RotationType, CreateConfig
  <1>7. ASSUME NEW c \in Configs, DeleteConfig(c) PROVE RotationType'
    BY <1>7
    DEF RotationType, DeleteConfig
  <1>8. ASSUME NEW c \in Configs, DeliverConfig(c) PROVE RotationType'
    BY <1>8
    DEF RotationType, DeliverConfig
  <1>9. ASSUME NEW c \in Configs, RequeueConfig(c) PROVE RotationType'
    BY <1>9
    DEF RotationType, RequeueConfig
  <1>10. ASSUME NEW c \in Configs, SkipRotation(c) PROVE RotationType'
    BY <1>10
    DEF RotationType, SkipRotation, TakeConfig
  <1>11. ASSUME NEW c \in Configs, RejectConfig(c) PROVE RotationType'
    BY <1>11
    DEF RotationType, RejectConfig, TakeConfig
  <1>12. ASSUME NEW c \in Configs, BeginRotation(c) PROVE RotationType'
    BY <1>12, ControllerAssumption, ObjectTypes
    DEF RotationType, BeginRotation, TakeConfig, Rotating, RotIdle
  <1>13. ASSUME NEW c \in Configs, ReadName(c) PROVE RotationType'
    <2> DEFINE q == Head(rot[c].todo)
    <2>1. /\ rot[c] \in Rotating
          /\ rot[c].todo \in Seq(QSecs) /\ rot[c].todo # <<>>
      BY <1>13 DEF RotationType, ReadName, Rotating
    <2>2. q \in QSecs /\ Tail(rot[c].todo) \in Seq(QSecs)
      BY <2>1, TailEnd
    <2>3. qsecCache[q] \in QuarksSecret
      BY <2>2 DEF ApiType
    <2>4. CASE /\ rot' = [rot EXCEPT ![c].pc = "write",
                                    ![c].obj = qsecCache[q]]
               /\ freshRot' \subseteq freshRot \cup {c}
      <3>1. [rot[c] EXCEPT !.pc = "write", !.obj = qsecCache[q]] \in Rotating
        BY <2>1, <2>3 DEF Rotating
      <3>2. /\ rot' = [rot EXCEPT ![c] = [rot[c] EXCEPT !.pc = "write",
                                                      !.obj = qsecCache[q]]]
            /\ freshRot' \subseteq freshRot \cup {c}
            /\ UNCHANGED <<config, rotQueue, rotDelayed>>
        BY <1>13, <2>1, <2>4 DEF ReadName, Rotating, RotationType
      <3>3. rot'[c].pc = "write" /\ rot'[c].todo # <<>>
        BY <2>1, <3>2 DEF RotationType, Rotating
      <3>4. rot' \in [Configs -> Rotating]
        BY <3>1, <3>2 DEF RotationType
      <3>5. \A d \in Configs \ {c} : rot'[d] = rot[d]
        BY <3>2 DEF RotationType
      <3> QED
        BY <3>2, <3>3, <3>4, <3>5 DEF RotationType
    <2>5. CASE PassOver(c)
      <3>1. [rot[c] EXCEPT !.todo = Tail(@)] \in Rotating
        BY <2>1, <2>2 DEF Rotating
      <3>2. rot[c].pc # "write"
        BY <1>13 DEF ReadName
      <3> QED
        BY <1>13, <2>1, <2>5, <3>1, <3>2
        DEF RotationType, ReadName, PassOver, Rotating
    <2> QED
      BY <1>13, <2>4, <2>5 DEF ReadName
  <1>14. ASSUME NEW c \in Configs, ResetGenerated(c) PROVE RotationType'
    <2> DEFINE next == [RotIdle EXCEPT !.pc = "read",
                                       !.todo = Tail(rot[c].todo)]
    <2>1. next \in Rotating /\ next.pc = "read" /\ RotIdle \in Rotating
      BY <1>14, TailEnd, ObjectTypes
      DEF RotationType, ResetGenerated, Rotating, RotIdle
    <2>2. freshRot' \subseteq freshRot \ {c}
      BY <1>14 DEF ResetGenerated, PutQSec
    <2>3. /\ rot' = [rot EXCEPT ![c] = next]
          /\ UNCHANGED <<config, rotQueue, rotDelayed>>
       \/ /\ rot' = [rot EXCEPT ![c] = RotIdle]
          /\ rotDelayed' = rotDelayed \cup {c}
          /\ UNCHANGED <<config, rotQueue>>
      BY <1>14 DEF ResetGenerated
    <2> HIDE DEF next
    <2> QED
      BY <2>1, <2>2, <2>3 DEF RotationType, RotIdle
  <1>15. ASSUME NEW c \in Configs, ResetFails(c) PROVE RotationType'
    BY <1>15, ObjectTypes
    DEF RotationType, ResetFails, RotIdle
  <1>16. ASSUME NEW c \in Configs, EndRotation(c) PROVE RotationType'
    BY <1>16, ObjectTypes
    DEF RotationType, EndRotation, RotIdle
  <1>17. CASE Restart
    BY <1>17, ObjectTypes DEF RotationType, Restart, RotIdle
  <1>18. ASSUME NEW q \in QSecs,
                 \/ CreateUserSecret(q)
                 \/ DeleteSecret(q)
                 \/ GarbageCollect(q)
                 \/ DeliverQSec(q)
                 \/ RelistQSec(q)
                 \/ Resync(q)
                 \/ SyncSecret(q)
                 \/ Requeue(q)
                 \/ SkipReconcile(q)
                 \/ Meltdown(q)
                 \/ RejectType(q)
                 \/ BeginReconcile(q)
                 \/ Generate(q)
                 \/ NotReady(q)
                 \/ CheckSecret(q)
                 \/ CheckSecretFails(q)
                 \/ LookupSecret(q)
                 \/ KeepSecret(q)
                 \/ WriteSecret(q)
                 \/ WriteSecretFails(q)
                 \/ WriteSecretUnanswered(q)
                 \/ UpdateStatusFails(q)
        PROVE  UNCHANGED rotVars
    BY <1>18 DEF BeginReconcile, CheckSecret, CheckSecretFails,
         CreateUserSecret, DeleteSecret, DeliverQSec, GarbageCollect,
         Generate, KeepSecret, LookupSecret, Meltdown, NotReady, RejectType,
         RelistQSec, Requeue, Resync, SkipReconcile, SyncSecret,
         UpdateStatusFails, WriteSecret, WriteSecretFails,
         WriteSecretUnanswered, Take, rotVars
  <1>19. CASE UNCHANGED vars
    BY <1>1, <1>19 DEF vars
  <1> QED
    BY <1>1, <1>2, <1>3, <1>4, <1>5, <1>6, <1>7, <1>8, <1>9, <1>10, <1>11,
       <1>12, <1>13, <1>14, <1>15, <1>16, <1>17, <1>18, <1>19
    DEF Next, User, Kubernetes, Reconcile, Rotate

\* Every step keeps the counters natural numbers, and those that are not 0.
LEMMA SpentTypeStep ==
  TypeOK /\ [Next]_vars =>
    /\ spent' \in [Bounded -> Nat]
    /\ \A b \in Bounded : spent[b] # 0 => spent'[b] # 0
  <1> SUFFICES ASSUME TypeOK, [Next]_vars
               PROVE  /\ spent' \in [Bounded -> Nat]
                      /\ \A b \in Bounded : spent[b] # 0 => spent'[b] # 0
    OBVIOUS
  <1> USE DEF TypeOK
  <1>1. \/ \E b \in Bounded : Spend(b)
        \/ UNCHANGED spent
    BY DEF Bounded, Next, User, Kubernetes, Reconcile, Rotate, vars,
         CreateQSec, EditQSec, DeleteQSec, CreateUserSecret, DeleteSecret,
         GarbageCollect, DeliverQSec, RelistQSec, Resync, SyncSecret, Requeue,
         SkipReconcile, Meltdown, RejectType, BeginReconcile, Take, Generate,
         NotReady, CheckSecret, CheckSecretFails, LookupSecret, KeepSecret,
         WriteSecret,
         WriteSecretFails, WriteSecretUnanswered, UpdateStatus,
         UpdateStatusFails, CreateConfig, DeleteConfig, DeliverConfig,
         RequeueConfig, SkipRotation, RejectConfig, BeginRotation, TakeConfig,
         ReadName, ResetGenerated, ResetFails, EndRotation, Restart
  <1> QED
    BY <1>1, SpendType

\* The types hold in every state.
THEOREM TypeCorrect == Spec => []TypeOK
  <1>1. TypeOK /\ [Next]_vars => TypeOK'
    BY ApiTypeStep, ReconcileTypeStep, RotationTypeStep, SpentTypeStep
    DEF TypeOK
  <1> QED
    BY <1>1, InitType, PTL DEF Spec
==========================================================================
