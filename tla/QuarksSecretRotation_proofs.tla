------------------- MODULE QuarksSecretRotation_proofs -------------------
(***************************************************************************)
(* No rotation request is lost, none is answered with old credentials, and *)
(* the copies that pass the API server's version check are current: for    *)
(* any number of QuarksSecrets, config maps and workers.                   *)
(***************************************************************************)
EXTENDS QuarksSecretController_proofs

--------------------------------------------------------------------------
(* The invariant behind them: what caches and reconcilers hold of the      *)
(* QuarksSecrets, and how it relates to the stored version.                *)

\* The version the informer of q will have seen once its watch is drained.
Latest(q) == IF qsecWatch[q] = <<>> THEN qsecCache[q]
                                    ELSE qsecWatch[q][Len(qsecWatch[q])]

WatchEnds == \A q \in QSecs : Latest(q) = qsec[q]

\* A copy that is not outdated is the stored version, and the cache has it.
ReconcileCopies ==
  \A q \in freshQSec : qsecWatch[q] = <<>> /\ rec[q].obj = qsec[q]

RotationCopies ==
  /\ \A c \in freshRot :
       /\ qsecWatch[Head(rot[c].todo)] = <<>>
       /\ rot[c].obj = qsec[Head(rot[c].todo)]
  /\ \A c \in Configs : rot[c].pc = "write" => Present(rot[c].obj)

\* No version still to be delivered before a rotation request, nor the one in
\* the cache, is that of a deleted object: it arrives as an update.
RequestsKnown ==
  \A q \in QSecs :
    NotGenerated(qsec[q]) =>
      /\ Present(qsec[q]) /\ Present(qsecCache[q])
      /\ \A i \in 1 .. Len(qsecWatch[q]) : Present(qsecWatch[q][i])

Views == WatchEnds /\ ReconcileCopies /\ RotationCopies /\ RequestsKnown

\* The name a rotation is about to write is one of its list.
LEMMA RotationName ==
  ASSUME TypeOK, NEW c \in Configs, rot[c].pc = "write"
  PROVE  Head(rot[c].todo) \in QSecs
  <1>1. rot[c].todo \in Seq(QSecs) /\ rot[c].todo # <<>>
    BY DEF TypeOK, RotationType, Rotating
  <1> QED
    BY <1>1, TailEnd

\* The initial state satisfies the invariant.
LEMMA InitViews == Init => Views
  <1> SUFFICES ASSUME Init PROVE Views
    OBVIOUS
  <1>1. WatchEnds /\ ReconcileCopies
    BY DEF Init, WatchEnds, Latest, ReconcileCopies
  <1>2. RotationCopies
    BY DEF Init, RotationCopies, RotIdle
  <1>3. RequestsKnown
    BY DEF Init, RequestsKnown, NoQSec, NotGenerated
  <1> QED
    BY <1>1, <1>2, <1>3 DEF Views

\* A write of a QuarksSecret keeps the invariant, if what makes it a rotation
\* request starts from a drained watch or from another such request.
LEMMA PutViews ==
  ASSUME TypeOK, Views, NEW q \in QSecs, NEW o \in QuarksSecret,
         PutQSec(q, o),
         \A p \in QSecs \ {q} : rec'[p] = rec[p],
         \A c \in freshRot' : rot'[c] = rot[c],
         \A c \in Configs : rot'[c].pc = "write" => rot'[c] = rot[c],
         NotGenerated(o) =>
           /\ Present(o)
           /\ \/ NotGenerated(qsec[q])
              \/ qsecWatch[q] = <<>> /\ Present(qsec[q])
  PROVE  Views'
  <1>1. /\ qsec' \in [QSecs -> QuarksSecret]
        /\ qsecCache' = qsecCache
        /\ freshQSec' = freshQSec \ {q}
        /\ freshRot' \subseteq freshRot
        /\ \A c \in freshRot' : Head(rot[c].todo) # q
        /\ qsec'[q] = o
        /\ \A p \in QSecs \ {q} :
             qsec'[p] = qsec[p] /\ qsecWatch'[p] = qsecWatch[p]
        /\ qsecWatch'[q] # <<>>
        /\ qsecWatch'[q][Len(qsecWatch'[q])] = o
    BY PutQSecType DEF TypeOK
  <1>2. WatchEnds'
    BY <1>1 DEF Views, WatchEnds, Latest
  <1>3. ReconcileCopies'
    BY <1>1 DEF Views, ReconcileCopies, TypeOK, ReconcileType
  <1>4. RotationCopies'
    <2>1. \A c \in freshRot' : Head(rot[c].todo) \in QSecs \ {q}
      BY <1>1, RotationName DEF TypeOK, RotationType
    <2> QED
      BY <1>1, <2>1 DEF Views, RotationCopies
  <1>5. RequestsKnown'
    <2>1. ASSUME NEW p \in QSecs \ {q}, NotGenerated(qsec'[p])
          PROVE  /\ Present(qsec'[p]) /\ Present(qsecCache'[p])
                 /\ \A i \in 1 .. Len(qsecWatch'[p]) :
                      Present(qsecWatch'[p][i])
      BY <1>1, <2>1 DEF Views, RequestsKnown
    <2>2. ASSUME NotGenerated(o)
          PROVE  /\ Present(o) /\ Present(qsecCache[q])
                 /\ \A i \in 1 .. Len(qsecWatch'[q]) :
                      Present(qsecWatch'[q][i])
      <3>1. /\ qsecWatch'[q] = Append(qsecWatch[q], o)
            /\ qsecWatch[q] \in Seq(QuarksSecret)
        BY DEF PutQSec, TypeOK, ApiType
      <3>2. /\ Present(qsecCache[q])
            /\ \A i \in 1 .. Len(qsecWatch[q]) : Present(qsecWatch[q][i])
        BY <2>2 DEF Views, RequestsKnown, WatchEnds, Latest
      <3>3. /\ Len(qsecWatch'[q]) = Len(qsecWatch[q]) + 1
            /\ \A i \in 1 .. Len(qsecWatch[q]) :
                 qsecWatch'[q][i] = qsecWatch[q][i]
            /\ qsecWatch'[q][Len(qsecWatch[q]) + 1] = o
        BY <3>1
      <3> QED
        BY <2>2, <3>1, <3>2, <3>3
    <2> QED
      BY <1>1, <2>1, <2>2 DEF RequestsKnown
  <1> QED
    BY <1>2, <1>3, <1>4, <1>5 DEF Views
\* Every step keeps the invariant.
LEMMA ViewsStep == TypeOK /\ Views /\ [Next]_vars => Views'
  <1> SUFFICES ASSUME TypeOK, Views, [Next]_vars PROVE Views'
    OBVIOUS
  <1>1. ASSUME UNCHANGED <<qsecVars, rec, freshQSec, rot, freshRot>>
        PROVE  Views'
    BY <1>1 DEF Views, WatchEnds, Latest, ReconcileCopies, RotationCopies,
         RequestsKnown, qsecVars
  <1>2. ASSUME NEW q \in QSecs, NEW s \in Specs, CreateQSec(q, s)
        PROVE  Views'
    <2>1. spent'["birth"] \in Nat
      BY <1>2, SpendType DEF CreateQSec, TypeOK, Bounded
    <2> DEFINE o == NewQSec(spent'["birth"], s)
    <2>2. o \in QuarksSecret
      BY <2>1, ObjectTypes
    <2>3. ~NotGenerated(o)
      BY DEF NewQSec, NoQSec, NotGenerated
    <2>4. PutQSec(q, o) /\ UNCHANGED <<rec, rot>>
      BY <1>2 DEF CreateQSec
    <2> HIDE DEF o
    <2> QED
      BY <2>2, <2>3, <2>4, PutViews
  <1>3. ASSUME NEW q \in QSecs, NEW s \in Specs, EditQSec(q, s)
        PROVE  Views'
    <2> DEFINE o == [qsec[q] EXCEPT !.spec = s]
    <2>1. qsec[q] \in QuarksSecret
      BY DEF TypeOK, ApiType
    <2>2. /\ o \in QuarksSecret
          /\ NotGenerated(o) => NotGenerated(qsec[q]) /\ Present(o)
      BY <1>3, <2>1 DEF EditQSec, QuarksSecret, NotGenerated, Present
    <2>3. PutQSec(q, o) /\ UNCHANGED <<rec, rot>>
      BY <1>3 DEF EditQSec
    <2> HIDE DEF o
    <2> QED
      BY <2>2, <2>3, PutViews
  <1>4. ASSUME NEW q \in QSecs, DeleteQSec(q) PROVE Views'
    <2>1. ~NotGenerated(NoQSec)
      BY DEF NoQSec, NotGenerated
    <2>2. PutQSec(q, NoQSec) /\ UNCHANGED <<rec, rot>>
      BY <1>4 DEF DeleteQSec
    <2> QED
      BY <2>1, <2>2, ObjectTypes, PutViews
  <1>5. ASSUME NEW q \in QSecs, UpdateStatus(q) PROVE Views'
    <2> DEFINE o == [rec[q].obj EXCEPT !.generated = "true",
                                       !.copied = "false", !.stamped = TRUE]
    <2>1. rec[q].obj \in QuarksSecret
      BY DEF TypeOK, ReconcileType, Reconciling
    <2>2. o \in QuarksSecret /\ ~NotGenerated(o)
      BY <2>1 DEF QuarksSecret, OptionalBool, NotGenerated
    <2>3. PutQSec(q, o) /\ UNCHANGED rot
          /\ \A p \in QSecs \ {q} : rec'[p] = rec[p]
      BY <1>5 DEF UpdateStatus, TypeOK, ReconcileType
    <2> HIDE DEF o
    <2> QED
      BY <2>2, <2>3, PutViews
  <1>6. ASSUME NEW c \in Configs, ResetGenerated(c) PROVE Views'
    <2> DEFINE q == Head(rot[c].todo)
               o == [rot[c].obj EXCEPT !.generated = "false"]
    <2>1. q \in QSecs /\ rot[c].obj \in QuarksSecret
      BY <1>6, RotationName DEF ResetGenerated, TypeOK, RotationType, Rotating
    <2>2. /\ qsecWatch[q] = <<>> /\ rot[c].obj = qsec[q]
          /\ Present(rot[c].obj)
      BY <1>6 DEF ResetGenerated, Views, RotationCopies
    <2>3. o \in QuarksSecret /\ Present(o)
      BY <2>1, <2>2 DEF QuarksSecret, OptionalBool, Present
    <2>4. /\ PutQSec(q, o)
          /\ \A p \in QSecs \ {q} : rec'[p] = rec[p]
          /\ \/ rot' = [rot EXCEPT ![c] = [RotIdle EXCEPT !.pc = "read",
                                             !.todo = Tail(rot[c].todo)]]
             \/ rot' = [rot EXCEPT ![c] = RotIdle]
      BY <1>6, <2>1 DEF ResetGenerated, TypeOK, ReconcileType
    <2>5. c \notin freshRot'
      BY <2>4 DEF PutQSec
    <2>6. /\ rot'[c].pc # "write"
          /\ \A d \in Configs \ {c} : rot'[d] = rot[d]
      <3>1. CASE rot' = [rot EXCEPT ![c] = RotIdle]
        BY <3>1 DEF TypeOK, RotationType, RotIdle
      <3>2. CASE rot' = [rot EXCEPT ![c] = [RotIdle EXCEPT !.pc = "read",
                                              !.todo = Tail(rot[c].todo)]]
        BY <3>2 DEF TypeOK, RotationType, RotIdle
      <3> QED
        BY <2>4, <3>1, <3>2
    <2>7. freshRot' \subseteq Configs
      BY <2>4 DEF PutQSec, TypeOK, RotationType
    <2> HIDE DEF q, o
    <2> QED
      BY <2>1, <2>2, <2>3, <2>4, <2>5, <2>6, <2>7, PutViews
  <1>7. ASSUME NEW q \in QSecs, DeliverQSec(q) PROVE Views'
    <2>1. /\ qsecWatch[q] \in Seq(QuarksSecret) /\ qsecWatch[q] # <<>>
          /\ qsecCache' = [qsecCache EXCEPT ![q] = Head(qsecWatch[q])]
          /\ qsecWatch' = [qsecWatch EXCEPT ![q] = Tail(qsecWatch[q])]
          /\ UNCHANGED <<qsec, rec, freshQSec, rot, freshRot>>
      BY <1>7 DEF DeliverQSec, TypeOK, ApiType, recVars, rotVars
    <2>2. /\ qsecWatch'[q] = Tail(qsecWatch[q])
          /\ qsecCache'[q] = Head(qsecWatch[q])
          /\ \A p \in QSecs \ {q} :
               qsecWatch'[p] = qsecWatch[p] /\ qsecCache'[p] = qsecCache[p]
      BY <2>1 DEF TypeOK, ApiType
    <2>3. WatchEnds'
      BY <2>1, <2>2, TailEnd DEF Views, WatchEnds, Latest
    <2>4. ReconcileCopies'
      BY <2>1, <2>2 DEF Views, ReconcileCopies, TypeOK, ReconcileType
    <2>5. RotationCopies'
      <3>1. \A c \in freshRot :
              Head(rot[c].todo) \in QSecs /\ Head(rot[c].todo) # q
        BY <2>1, RotationName
        DEF Views, RotationCopies, TypeOK, RotationType
      <3> QED
        BY <2>1, <2>2, <3>1 DEF Views, RotationCopies
    <2>6. RequestsKnown'
      <3>1. /\ Len(qsecWatch[q]) \in Nat \ {0}
            /\ Head(qsecWatch[q]) = qsecWatch[q][1]
            /\ Len(Tail(qsecWatch[q])) = Len(qsecWatch[q]) - 1
            /\ \A i \in 1 .. Len(Tail(qsecWatch[q])) :
                 Tail(qsecWatch[q])[i] = qsecWatch[q][i + 1]
        BY <2>1
      <3> QED
        BY <2>1, <2>2, <3>1 DEF Views, RequestsKnown
    <2> QED
      BY <2>3, <2>4, <2>5, <2>6 DEF Views
  <1>8. ASSUME NEW q \in QSecs, RelistQSec(q) PROVE Views'
    <2>1. /\ qsecWatch[q] # <<>>
          /\ UNCHANGED <<qsec, rec, freshQSec, rot, freshRot>>
      BY <1>8 DEF RelistQSec, recVars, rotVars
    <2>2. /\ qsecWatch'[q] = <<>> /\ qsecCache'[q] = qsec[q]
          /\ \A p \in QSecs \ {q} :
               qsecWatch'[p] = qsecWatch[p] /\ qsecCache'[p] = qsecCache[p]
      BY <1>8 DEF RelistQSec, TypeOK, ApiType
    <2>3. WatchEnds'
      BY <2>1, <2>2 DEF Views, WatchEnds, Latest
    <2>4. ReconcileCopies'
      BY <2>1, <2>2 DEF Views, ReconcileCopies, TypeOK, ReconcileType
    <2>5. RotationCopies'
      <3>1. \A c \in freshRot :
              Head(rot[c].todo) \in QSecs /\ Head(rot[c].todo) # q
        BY <2>1, RotationName
        DEF Views, RotationCopies, TypeOK, RotationType
      <3> QED
        BY <2>1, <2>2, <3>1 DEF Views, RotationCopies
    <2>6. RequestsKnown'
      BY <2>1, <2>2 DEF Views, RequestsKnown
    <2> QED
      BY <2>3, <2>4, <2>5, <2>6 DEF Views
  <1>9. ASSUME NEW q \in QSecs, BeginReconcile(q) PROVE Views'
    <2>1. /\ UNCHANGED <<qsecVars, rot, freshRot>>
          /\ rec'[q].obj = qsecCache[q]
          /\ \A p \in QSecs \ {q} : rec'[p] = rec[p]
          /\ freshQSec' = IF qsecWatch[q] = <<>> THEN freshQSec \cup {q}
                                                 ELSE freshQSec
          /\ rec[q] = Idle
      BY <1>9 DEF BeginReconcile, Take, rotVars, TypeOK, ReconcileType, Idle
    <2>2. q \notin freshQSec
      BY <2>1 DEF TypeOK, ReconcileType, Idle
    <2> QED
      BY <2>1, <2>2 DEF Views, WatchEnds, Latest, ReconcileCopies,
           RotationCopies, RequestsKnown, qsecVars, TypeOK, ReconcileType
  <1>10. ASSUME NEW q \in QSecs,
                \/ Generate(q) \/ CheckSecret(q) \/ CheckSecretFails(q)
                \/ LookupSecret(q) \/ KeepSecret(q) \/ WriteSecret(q)
         PROVE  Views'
    <2>1. /\ UNCHANGED <<qsecVars, freshQSec, rot, freshRot>>
          /\ \A p \in QSecs : rec'[p].obj = rec[p].obj
      BY <1>10 DEF Generate, CheckSecret, CheckSecretFails, LookupSecret,
           KeepSecret, WriteSecret, rotVars, TypeOK, ReconcileType, Reconciling
    <2> QED
      BY <2>1 DEF Views, WatchEnds, Latest, ReconcileCopies, RotationCopies,
           RequestsKnown, qsecVars, TypeOK, ReconcileType
  <1>11. ASSUME NEW q \in QSecs,
                \/ NotReady(q) \/ WriteSecretFails(q)
                \/ WriteSecretUnanswered(q) \/ UpdateStatusFails(q)
         PROVE  Views'
    <2>1. /\ UNCHANGED <<qsecVars, rot, freshRot>>
          /\ freshQSec' = freshQSec \ {q}
          /\ \A p \in QSecs \ {q} : rec'[p] = rec[p]
      BY <1>11 DEF NotReady, WriteSecretFails, WriteSecretUnanswered,
           UpdateStatusFails, Retry, Leave, rotVars, TypeOK, ReconcileType
    <2> QED
      BY <2>1 DEF Views, WatchEnds, Latest, ReconcileCopies, RotationCopies,
           RequestsKnown, qsecVars, TypeOK, ReconcileType
  <1>12. ASSUME NEW c \in Configs,
                \/ BeginRotation(c) \/ ResetFails(c) \/ EndRotation(c)
         PROVE  Views'
    <2>1. /\ UNCHANGED <<qsecVars, rec, freshQSec>>
          /\ freshRot' \subseteq freshRot \ {c}
          /\ rot'[c].pc # "write"
          /\ \A d \in Configs \ {c} : rot'[d] = rot[d]
      <3>1. CASE BeginRotation(c)
        BY <3>1 DEF BeginRotation, TakeConfig, recVars, TypeOK, RotationType,
             RotIdle
      <3>2. CASE ResetFails(c)
        BY <3>2 DEF ResetFails, recVars, TypeOK, RotationType, RotIdle
      <3>3. CASE EndRotation(c)
        BY <3>3 DEF EndRotation, recVars, TypeOK, RotationType, RotIdle
      <3> QED
        BY <1>12, <3>1, <3>2, <3>3
    <2> QED
      BY <2>1 DEF Views, WatchEnds, Latest, ReconcileCopies, RotationCopies,
           RequestsKnown, qsecVars, TypeOK, RotationType
  <1>13. ASSUME NEW c \in Configs, ReadName(c) PROVE Views'
    <2> DEFINE q == Head(rot[c].todo)
    <2>1. /\ UNCHANGED <<qsecVars, rec, freshQSec>>
          /\ \A d \in Configs \ {c} : rot'[d] = rot[d]
          /\ c \notin freshRot
          /\ q \in QSecs
      <3>1. rot[c].todo \in Seq(QSecs) /\ rot[c].todo # <<>>
        BY <1>13 DEF ReadName, TypeOK, RotationType, Rotating
      <3>2. q \in QSecs
        BY <3>1, TailEnd
      <3> QED
        BY <1>13, <3>2 DEF ReadName, PassOver, recVars, TypeOK, RotationType
    <2>2. WatchEnds' /\ ReconcileCopies' /\ RequestsKnown'
      BY <2>1 DEF Views, WatchEnds, Latest, ReconcileCopies, RequestsKnown,
           qsecVars
    <2>3. CASE ~PassOver(c)
      <3>1. /\ Rotatable(qsecCache[q])
            /\ rot'[c].obj = qsecCache[q] /\ rot'[c].todo = rot[c].todo
            /\ freshRot' = IF qsecWatch[q] = <<>> THEN freshRot \cup {c}
                                                  ELSE freshRot
        BY <1>13, <2>1, <2>3 DEF ReadName, TypeOK, RotationType, Rotating
      <3> QED
        BY <2>1, <2>2, <3>1
        DEF Views, RotationCopies, WatchEnds, Latest, Rotatable, qsecVars,
            TypeOK, RotationType
    <2>4. CASE PassOver(c)
      <3>1. rot'[c].pc # "write" /\ freshRot' = freshRot
        BY <1>13, <2>4 DEF ReadName, PassOver, TypeOK, RotationType, Rotating
      <3> QED
        BY <2>1, <2>2, <3>1
        DEF Views, RotationCopies, qsecVars, TypeOK, RotationType
    <2> QED
      BY <2>3, <2>4
  <1>14. CASE Restart
    <2>1. WatchEnds' /\ ReconcileCopies' /\ RotationCopies'
      BY <1>14 DEF Restart, WatchEnds, Latest, ReconcileCopies,
           RotationCopies, RotIdle
    <2>2. RequestsKnown'
      BY <1>14 DEF Restart, Views, RequestsKnown
    <2> QED
      BY <2>1, <2>2 DEF Views
  <1>15. ASSUME NEW q \in QSecs,
                \/ CreateUserSecret(q) \/ DeleteSecret(q) \/ GarbageCollect(q)
                \/ Resync(q) \/ SyncSecret(q) \/ Requeue(q)
                \/ SkipReconcile(q) \/ Meltdown(q) \/ RejectType(q)
         PROVE  UNCHANGED <<qsecVars, rec, freshQSec, rot, freshRot>>
    BY <1>15 DEF CreateUserSecret, DeleteSecret, GarbageCollect, Resync,
         SyncSecret, Requeue, SkipReconcile, Meltdown, RejectType, Take,
         qsecVars, recVars, rotVars
  <1>16. ASSUME NEW c \in Configs,
                \/ CreateConfig(c) \/ DeleteConfig(c) \/ DeliverConfig(c)
                \/ RequeueConfig(c) \/ SkipRotation(c) \/ RejectConfig(c)
         PROVE  UNCHANGED <<qsecVars, rec, freshQSec, rot, freshRot>>
    BY <1>16 DEF CreateConfig, DeleteConfig, DeliverConfig, RequeueConfig,
         SkipRotation, RejectConfig, TakeConfig, qsecVars, recVars, rotVars
  <1>17. CASE UNCHANGED vars
    BY <1>1, <1>17 DEF vars, recVars, rotVars
  <1> QED
    BY <1>1, <1>2, <1>3, <1>4, <1>5, <1>6, <1>7, <1>8, <1>9, <1>10, <1>11,
       <1>12, <1>13, <1>14, <1>15, <1>16, <1>17
    DEF Next, User, Kubernetes, Reconcile, Rotate

\* Of the copies in a reconciler's hands, those the API server will take are
\* the stored version, and the cache knows it.
THEOREM CopiesCurrent == Spec => []Views
  <1>1. TypeOK /\ TypeOK' /\ Views /\ [Next]_vars => Views'
    BY ViewsStep
  <1> QED
    BY <1>1, InitViews, TypeCorrect, PTL DEF Spec
--------------------------------------------------------------------------
(* Rotation requests.                                                      *)

\* Every step keeps a request from being lost.
LEMMA WakeupStep ==
  TypeOK /\ Views /\ NoLostWakeup /\ [Next]_vars => NoLostWakeup'
  <1> SUFFICES ASSUME TypeOK, Views, NoLostWakeup, [Next]_vars,
                      Undisturbed', NEW q \in QSecs,
                      NotGenerated(qsec'[q]), Kind[qsec'[q].spec] # "copy"
               PROVE  Pending(q)'
    BY DEF NoLostWakeup
  <1>1. Undisturbed
    BY SpentTypeStep DEF Undisturbed, Bounded
  <1>2. ASSUME qsec'[q] = qsec[q]
        PROVE  /\ Present(qsec[q]) /\ Present(qsecCache[q])
               /\ qsecWatch[q] = <<>> => qsecCache[q] = qsec[q]
               /\ Pending(q)
    BY <1>1, <1>2 DEF NoLostWakeup, Views, RequestsKnown, WatchEnds, Latest
  <1>3. ASSUME UNCHANGED <<qsecVars, queueVars, freshQSec>>
        PROVE  Pending(q)'
    BY <1>2, <1>3 DEF Pending, qsecVars, queueVars
  <1>4. ASSUME NEW p \in QSecs, NEW o \in QuarksSecret, PutQSec(p, o),
               UNCHANGED queueVars
        PROVE  Pending(q)'
    <2>1. /\ freshQSec' = freshQSec \ {p}
          /\ \A r \in QSecs \ {p} :
               qsec'[r] = qsec[r] /\ qsecWatch'[r] = qsecWatch[r]
          /\ qsecWatch'[p] # <<>>
      BY <1>4, PutQSecType DEF TypeOK
    <2> QED
      BY <1>2, <1>4, <2>1 DEF Pending, queueVars
  <1>5. ASSUME NEW p \in QSecs, NEW s \in Specs,
               CreateQSec(p, s) \/ EditQSec(p, s)
        PROVE  Pending(q)'
    <2>1. CASE CreateQSec(p, s)
      <3>1. spent'["birth"] \in Nat
        BY <2>1, SpendType DEF CreateQSec, TypeOK, Bounded
      <3> QED
        BY <1>4, <2>1, <3>1, ObjectTypes DEF CreateQSec
    <2>2. CASE EditQSec(p, s)
      <3>1. [qsec[p] EXCEPT !.spec = s] \in QuarksSecret
        BY ObjectTypes DEF TypeOK, ApiType
      <3> QED
        BY <1>4, <2>2, <3>1 DEF EditQSec
    <2> QED
      BY <1>5, <2>1, <2>2
  <1>6. ASSUME NEW p \in QSecs, DeleteQSec(p) PROVE Pending(q)'
    BY <1>4, <1>6, ObjectTypes DEF DeleteQSec
  <1>7. ASSUME NEW p \in QSecs, UpdateStatus(p) PROVE Pending(q)'
    <2> DEFINE o == [rec[p].obj EXCEPT !.generated = "true",
                                       !.copied = "false", !.stamped = TRUE]
    <2>1. rec[p].obj \in QuarksSecret
      BY DEF TypeOK, ReconcileType, Reconciling
    <2>2. o \in QuarksSecret
      BY <2>1 DEF QuarksSecret, OptionalBool
    <2>3. PutQSec(p, o) /\ UNCHANGED queueVars
      BY <1>7 DEF UpdateStatus
    <2> HIDE DEF o
    <2> QED
      BY <1>4, <2>2, <2>3
  <1>8. ASSUME NEW c \in Configs, ResetGenerated(c) PROVE Pending(q)'
    <2> DEFINE p == Head(rot[c].todo)
               o == [rot[c].obj EXCEPT !.generated = "false"]
    <2>1. p \in QSecs /\ rot[c].obj \in QuarksSecret
      BY <1>8, RotationName DEF ResetGenerated, TypeOK, RotationType, Rotating
    <2>2. o \in QuarksSecret
      BY <2>1 DEF QuarksSecret, OptionalBool
    <2>3. PutQSec(p, o) /\ UNCHANGED queueVars
      BY <1>8 DEF ResetGenerated
    <2> HIDE DEF p, o
    <2> QED
      BY <1>4, <2>1, <2>2, <2>3
  <1>9. ASSUME NEW p \in QSecs, DeliverQSec(p) PROVE Pending(q)'
    <2>1. /\ qsecWatch[p] \in Seq(QuarksSecret) /\ qsecWatch[p] # <<>>
          /\ qsecWatch' = [qsecWatch EXCEPT ![p] = Tail(qsecWatch[p])]
          /\ queue' = Enqueued(p, qsecCache[p], Head(qsecWatch[p]))
          /\ UNCHANGED <<qsec, delayed, freshQSec>>
      BY <1>9 DEF DeliverQSec, TypeOK, ApiType, recVars
    <2>2. CASE p = q /\ Tail(qsecWatch[q]) = <<>>
      <3>1. Head(qsecWatch[q]) = qsec[q]
        BY <2>1, <2>2, TailEnd DEF Views, WatchEnds, Latest
      <3>2. Passes(q, qsecCache[q], qsec[q])
        BY <1>2, <2>1 DEF Passes, UpdatePasses
      <3> QED
        BY <2>1, <2>2, <3>1, <3>2 DEF Enqueued, Pending
    <2>3. CASE ~(p = q /\ Tail(qsecWatch[q]) = <<>>)
      BY <1>2, <2>1, <2>3 DEF Enqueued, Pending, TypeOK, ApiType
    <2> QED
      BY <2>2, <2>3
  <1>10. ASSUME NEW p \in QSecs, RelistQSec(p) PROVE Pending(q)'
    <2>1. /\ qsecWatch' = [qsecWatch EXCEPT ![p] = <<>>]
          /\ queue' = Enqueued(p, qsecCache[p], qsec[p])
          /\ UNCHANGED <<qsec, delayed, freshQSec>>
      BY <1>10 DEF RelistQSec, recVars
    <2>2. CASE p = q
      <3>1. Passes(q, qsecCache[q], qsec[q])
        BY <1>2, <2>1 DEF Passes, UpdatePasses
      <3> QED
        BY <2>1, <2>2, <3>1 DEF Enqueued, Pending
    <2>3. CASE p # q
      BY <1>2, <2>1, <2>3 DEF Enqueued, Pending, TypeOK, ApiType
    <2> QED
      BY <2>2, <2>3
  <1>11. ASSUME NEW p \in QSecs, Resync(p) \/ Requeue(p) PROVE Pending(q)'
    BY <1>2, <1>11 DEF Resync, Requeue, Enqueued, Pending, qsecVars, recVars
  <1>12. ASSUME NEW p \in QSecs, SkipReconcile(p) PROVE Pending(q)'
    <2>1. /\ queue' = queue \ {p}
          /\ UNCHANGED <<qsecVars, delayed, freshQSec>>
          /\ Present(qsecCache[p]) => Kind[qsecCache[p].spec] = "copy"
      BY <1>12 DEF SkipReconcile, Take
    <2>2. q = p => qsecWatch[q] # <<>>
      BY <1>2, <2>1 DEF qsecVars
    <2> QED
      BY <1>2, <2>1, <2>2 DEF Pending, qsecVars
  <1>13. ASSUME NEW p \in QSecs, Meltdown(p) \/ RejectType(p)
         PROVE  Pending(q)'
    BY <1>2, <1>13 DEF Meltdown, RejectType, Take, Pending, qsecVars
  <1>14. ASSUME NEW p \in QSecs, BeginReconcile(p) PROVE Pending(q)'
    BY <1>2, <1>14 DEF BeginReconcile, Take, Pending, qsecVars
  <1>15. ASSUME NEW p \in QSecs,
                \/ NotReady(p) \/ WriteSecretFails(p)
                \/ WriteSecretUnanswered(p)
         PROVE  Pending(q)'
    BY <1>2, <1>15 DEF NotReady, WriteSecretFails, WriteSecretUnanswered,
         Retry, Leave, Pending, qsecVars
  <1>16. ASSUME NEW p \in QSecs, UpdateStatusFails(p) PROVE Pending(q)'
    <2>1. p \notin freshQSec
      <3>1. ~Spend("fault")
        BY SpendType DEF Undisturbed, TypeOK, Bounded
      <3> QED
        BY <1>16, <3>1 DEF UpdateStatusFails, StatusAccepted
    <2> QED
      BY <1>2, <1>16, <2>1 DEF UpdateStatusFails, Leave, Pending, qsecVars,
           queueVars
  <1>17. ~Restart
    BY SpendType DEF Restart, Undisturbed, TypeOK, Bounded
  <1>18. ASSUME NEW p \in QSecs,
                \/ CreateUserSecret(p) \/ DeleteSecret(p) \/ GarbageCollect(p)
                \/ SyncSecret(p) \/ Generate(p) \/ CheckSecret(p)
                \/ CheckSecretFails(p) \/ LookupSecret(p) \/ KeepSecret(p)
                \/ WriteSecret(p)
         PROVE  UNCHANGED <<qsecVars, queueVars, freshQSec>>
    BY <1>18 DEF CreateUserSecret, DeleteSecret, GarbageCollect, SyncSecret,
         Generate, CheckSecret, CheckSecretFails, LookupSecret, KeepSecret,
         WriteSecret, recVars
  <1>19. ASSUME NEW c \in Configs,
                \/ CreateConfig(c) \/ DeleteConfig(c) \/ DeliverConfig(c)
                \/ RequeueConfig(c) \/ SkipRotation(c) \/ RejectConfig(c)
                \/ BeginRotation(c) \/ ReadName(c) \/ ResetFails(c)
                \/ EndRotation(c)
         PROVE  UNCHANGED <<qsecVars, queueVars, freshQSec>>
    BY <1>19 DEF CreateConfig, DeleteConfig, DeliverConfig, RequeueConfig,
         SkipRotation, RejectConfig, BeginRotation, ReadName, ResetFails,
         EndRotation, TakeConfig, recVars
  <1>20. CASE UNCHANGED vars
    BY <1>3, <1>20 DEF vars, recVars
  <1> QED
    BY <1>3, <1>5, <1>6, <1>7, <1>8, <1>9, <1>10, <1>11, <1>12, <1>13, <1>14,
       <1>15, <1>16, <1>17, <1>18, <1>19, <1>20
    DEF Next, User, Kubernetes, Reconcile, Rotate

\* NoLostWakeup: while Generated is false, the controller has a key, a timer,
\* an event or a current copy that will bring it to the object.
THEOREM RequestsKept == Spec => []NoLostWakeup
  <1>1. Init => NoLostWakeup
    BY DEF Init, NoLostWakeup, NoQSec, NotGenerated
  <1> QED
    BY <1>1, WakeupStep, CopiesCurrent, TypeCorrect, PTL DEF Spec
--------------------------------------------------------------------------
(* How far a reconcile has come.                                           *)

\* What the history of a reconcile says at each of its program counters: it
\* goes on to write unless it saw a user's secret, it ends with something
\* stored unless it did, and a copy that is still current has not been asked
\* to rotate since the credentials were minted.
Progress ==
  \A q \in QSecs :
    /\ rec[q].pc \in {"generate", "check"} => rec[q].seen = "unread"
    /\ rec[q].pc \in {"lookup", "create", "update"} => rec[q].seen # "user"
    /\ rec[q].pc = "status" => rec[q].stored \/ rec[q].seen = "user"
    /\ q \in freshQSec /\ rec[q].pc # "generate" => rec[q].renewed

\* Every step keeps the invariant.
LEMMA ProgressStep == TypeOK /\ Progress /\ [Next]_vars => Progress'
  <1> SUFFICES ASSUME TypeOK, Progress, [Next]_vars PROVE Progress'
    OBVIOUS
  <1>1. rec \in [QSecs -> Reconciling] /\ ReconcileType
    BY DEF TypeOK, ReconcileType
  <1>2. ASSUME UNCHANGED rec, freshQSec' \subseteq freshQSec
        PROVE  Progress'
    BY <1>2 DEF Progress
  <1>3. ASSUME NEW q \in QSecs, NEW s \in Specs,
               CreateQSec(q, s) \/ EditQSec(q, s)
        PROVE  UNCHANGED rec /\ freshQSec' \subseteq freshQSec
    BY <1>3 DEF CreateQSec, EditQSec, PutQSec
  <1>4. ASSUME NEW q \in QSecs,
               \/ DeleteQSec(q) \/ CreateUserSecret(q) \/ DeleteSecret(q)
               \/ GarbageCollect(q) \/ DeliverQSec(q) \/ RelistQSec(q)
               \/ Resync(q) \/ SyncSecret(q) \/ Requeue(q)
               \/ SkipReconcile(q) \/ Meltdown(q) \/ RejectType(q)
        PROVE  UNCHANGED rec /\ freshQSec' \subseteq freshQSec
    BY <1>4 DEF DeleteQSec, PutQSec, CreateUserSecret, DeleteSecret,
         GarbageCollect, DeliverQSec, RelistQSec, Resync, SyncSecret, Requeue,
         SkipReconcile, Meltdown, RejectType, recVars
  <1>5. ASSUME NEW q \in QSecs, BeginReconcile(q) PROVE Progress'
    <2>1. /\ rec'[q].pc = "generate" /\ rec'[q].seen = "unread"
          /\ \A p \in QSecs \ {q} : rec'[p] = rec[p]
          /\ freshQSec' \subseteq freshQSec \cup {q}
      BY <1>1, <1>5 DEF BeginReconcile, Idle
    <2> QED
      BY <2>1 DEF Progress
  <1>6. ASSUME NEW q \in QSecs, Generate(q) PROVE Progress'
    BY <1>1, <1>6 DEF Generate, Progress, Reconciling
  <1>7. ASSUME NEW q \in QSecs, CheckSecret(q) PROVE Progress'
    BY <1>1, <1>7 DEF CheckSecret, SkipCreation, Progress, Reconciling
  <1>8. ASSUME NEW q \in QSecs, CheckSecretFails(q) PROVE Progress'
    BY <1>1, <1>8 DEF CheckSecretFails, Progress, Reconciling
  <1>9. ASSUME NEW q \in QSecs, LookupSecret(q) PROVE Progress'
    BY <1>1, <1>9 DEF LookupSecret, Progress, Reconciling
  <1>10. ASSUME NEW q \in QSecs, KeepSecret(q) PROVE Progress'
    BY <1>1, <1>10 DEF KeepSecret, Progress, Reconciling
  <1>11. ASSUME NEW q \in QSecs, WriteSecret(q) PROVE Progress'
    BY <1>1, <1>11 DEF WriteSecret, Accepted, Progress, Reconciling
  <1>12. ASSUME NEW q \in QSecs,
                \/ NotReady(q) \/ WriteSecretFails(q)
                \/ WriteSecretUnanswered(q) \/ UpdateStatus(q)
                \/ UpdateStatusFails(q)
         PROVE  Progress'
    <2>1. rec' = [rec EXCEPT ![q] = Idle] /\ freshQSec' = freshQSec \ {q}
      BY <1>12 DEF NotReady, WriteSecretFails, WriteSecretUnanswered, Retry,
           Leave, UpdateStatus, UpdateStatusFails, PutQSec
    <2> QED
      BY <1>1, <2>1 DEF Progress, Idle
  <1>13. ASSUME NEW c \in Configs, ResetGenerated(c) PROVE Progress'
    <2> DEFINE q == Head(rot[c].todo)
    <2>1. /\ q \in QSecs
          /\ rec' = [rec EXCEPT ![q].renewed = FALSE]
          /\ freshQSec' = freshQSec \ {q}
      BY <1>13, RotationName DEF ResetGenerated, PutQSec, TypeOK, RotationType
    <2> HIDE DEF q
    <2> QED
      BY <1>1, <2>1 DEF Progress, Reconciling
  <1>14. CASE Restart
    BY <1>14 DEF Restart, Progress, Idle
  <1>15. ASSUME NEW c \in Configs,
                \/ CreateConfig(c) \/ DeleteConfig(c) \/ DeliverConfig(c)
                \/ RequeueConfig(c) \/ SkipRotation(c) \/ RejectConfig(c)
                \/ BeginRotation(c) \/ ReadName(c) \/ ResetFails(c)
                \/ EndRotation(c)
         PROVE  UNCHANGED rec /\ freshQSec' \subseteq freshQSec
    BY <1>15 DEF CreateConfig, DeleteConfig, DeliverConfig, RequeueConfig,
         SkipRotation, RejectConfig, BeginRotation, ReadName, ResetFails,
         EndRotation, TakeConfig, recVars
  <1>16. CASE UNCHANGED vars
    BY <1>2, <1>16 DEF vars, recVars
  <1> QED
    BY <1>2, <1>3, <1>4, <1>5, <1>6, <1>7, <1>8, <1>9, <1>10, <1>11, <1>12,
       <1>13, <1>14, <1>15, <1>16
    DEF Next, User, Kubernetes, Reconcile, Rotate

\* The invariant holds in every state.
LEMMA ProgressCorrect == Spec => []Progress
  <1>1. ASSUME Init PROVE Progress
    <2>1. \A q \in QSecs : rec[q].pc = "idle" /\ q \notin freshQSec
      BY <1>1 DEF Init, Idle
    <2> QED
      BY <2>1 DEF Progress
  <1> QED
    BY <1>1, ProgressStep, TypeCorrect, PTL DEF Spec

\* Only UpdateStatus takes Generated from false to true.
LEMMA AnswerStep ==
  ASSUME TypeOK, [Next]_vars, NEW q \in QSecs,
         NotGenerated(qsec[q]), IsGenerated(qsec'[q])
  PROVE  rec[q].pc = "status" /\ q \in freshQSec
  <1>1. qsec' # qsec
    BY DEF NotGenerated, IsGenerated
  <1>2. ASSUME NEW p \in QSecs, NEW o, PutQSec(p, o)
        PROVE  p = q /\ qsec'[q] = o
    BY <1>2 DEF PutQSec, TypeOK, ApiType, NotGenerated, IsGenerated
  <1>3. ASSUME NEW p \in QSecs, NEW s \in Specs, CreateQSec(p, s)
        PROVE  FALSE
    <2>1. qsec'[q] = NewQSec(spent'["birth"], s)
      BY <1>2, <1>3 DEF CreateQSec
    <2> QED
      BY <2>1 DEF NewQSec, NoQSec, IsGenerated
  <1>4. ASSUME NEW p \in QSecs, NEW s \in Specs, EditQSec(p, s)
        PROVE  FALSE
    <2>1. p = q /\ qsec'[q] = [qsec[q] EXCEPT !.spec = s]
      BY <1>2, <1>4 DEF EditQSec
    <2>2. qsec[q] \in QuarksSecret
      BY DEF TypeOK, ApiType
    <2> QED
      BY <2>1, <2>2 DEF QuarksSecret, NotGenerated, IsGenerated
  <1>5. ASSUME NEW p \in QSecs, DeleteQSec(p) PROVE FALSE
    BY <1>2, <1>5 DEF DeleteQSec, NoQSec, IsGenerated
  <1>6. ASSUME NEW p \in QSecs, UpdateStatus(p)
        PROVE  rec[q].pc = "status" /\ q \in freshQSec
    BY <1>2, <1>6 DEF UpdateStatus, StatusAccepted
  <1>7. ASSUME NEW c \in Configs, ResetGenerated(c) PROVE FALSE
    <2>1. Head(rot[c].todo) \in QSecs
      BY <1>7, RotationName DEF ResetGenerated, TypeOK, RotationType
    <2>2. qsec'[q] = [rot[c].obj EXCEPT !.generated = "false"]
      BY <1>2, <1>7, <2>1 DEF ResetGenerated
    <2>3. rot[c].obj \in QuarksSecret
      BY DEF TypeOK, RotationType, Rotating
    <2> QED
      BY <2>2, <2>3 DEF QuarksSecret, IsGenerated
  <1>8. ASSUME NEW p \in QSecs,
               \/ CreateUserSecret(p) \/ DeleteSecret(p) \/ GarbageCollect(p)
               \/ DeliverQSec(p) \/ RelistQSec(p) \/ Resync(p)
               \/ SyncSecret(p) \/ Requeue(p) \/ SkipReconcile(p)
               \/ Meltdown(p) \/ RejectType(p) \/ BeginReconcile(p)
               \/ Generate(p) \/ NotReady(p) \/ CheckSecret(p)
               \/ CheckSecretFails(p) \/ LookupSecret(p) \/ KeepSecret(p)
               \/ WriteSecret(p) \/ WriteSecretFails(p)
               \/ WriteSecretUnanswered(p) \/ UpdateStatusFails(p)
        PROVE  qsec' = qsec
    BY <1>8 DEF CreateUserSecret, DeleteSecret, GarbageCollect, DeliverQSec,
         RelistQSec, Resync, SyncSecret, Requeue, SkipReconcile, Meltdown,
         RejectType, BeginReconcile, Take, Generate, NotReady, CheckSecret,
         CheckSecretFails, LookupSecret, KeepSecret, WriteSecret,
         WriteSecretFails, WriteSecretUnanswered, UpdateStatusFails, qsecVars
  <1>9. ASSUME NEW c \in Configs,
               \/ CreateConfig(c) \/ DeleteConfig(c) \/ DeliverConfig(c)
               \/ RequeueConfig(c) \/ SkipRotation(c) \/ RejectConfig(c)
               \/ BeginRotation(c) \/ ReadName(c) \/ ResetFails(c)
               \/ EndRotation(c)
        PROVE  qsec' = qsec
    BY <1>9 DEF CreateConfig, DeleteConfig, DeliverConfig, RequeueConfig,
         SkipRotation, RejectConfig, BeginRotation, ReadName, ResetFails,
         EndRotation, TakeConfig, qsecVars
  <1>10. Restart \/ UNCHANGED vars => qsec' = qsec
    BY DEF Restart, vars, qsecVars
  <1> QED
    BY <1>1, <1>3, <1>4, <1>5, <1>6, <1>7, <1>8, <1>9, <1>10
    DEF Next, User, Kubernetes, Reconcile, Rotate

\* RotationRegenerates: a rotation request is answered only with credentials
\* minted after it, and stored unless the secret is a user's.
THEOREM AnswersRenewed == Spec => RotationRegenerates
  <1>1. ASSUME TypeOK, Progress, [Next]_vars
        PROVE  \A q \in QSecs :
                 NotGenerated(qsec[q]) /\ IsGenerated(qsec[q]')
                 => rec[q].renewed /\ (rec[q].stored \/ rec[q].seen = "user")
    BY <1>1, AnswerStep DEF Progress
  <1> QED
    BY <1>1, TypeCorrect, ProgressCorrect, PTL DEF Spec, RotationRegenerates

\* A user's secret is replaced by a generated one only in a write of
\* createSecret.
LEMMA OverwriteStep ==
  ASSUME TypeOK, [Next]_vars, NEW q \in QSecs,
         secret[q].kind = "user", secret'[q].kind = "generated"
  PROVE  rec[q].pc \in {"create", "update"}
  <1>1. secret' # secret
    OBVIOUS
  <1>2. ASSUME NEW p \in QSecs, NEW s, PutSecret(p, s)
        PROVE  p = q /\ secret'[q] = s
    BY <1>2 DEF PutSecret, TypeOK, ApiType
  <1>3. ASSUME NEW p \in QSecs,
               CreateUserSecret(p) \/ DeleteSecret(p) \/ GarbageCollect(p)
        PROVE  FALSE
    BY <1>2, <1>3 DEF CreateUserSecret, DeleteSecret, GarbageCollect,
         UserSecret, NoSecret
  <1>4. ASSUME NEW p \in QSecs, WriteSecret(p) \/ WriteSecretUnanswered(p)
        PROVE  rec[q].pc \in {"create", "update"}
    BY <1>2, <1>4 DEF WriteSecret, WriteSecretUnanswered, Accepted
  <1>5. ASSUME NEW p \in QSecs, NEW s \in Specs,
               CreateQSec(p, s) \/ EditQSec(p, s)
        PROVE  secret' = secret
    BY <1>5 DEF CreateQSec, EditQSec, secretVars
  <1>6. ASSUME NEW p \in QSecs,
               \/ DeleteQSec(p) \/ DeliverQSec(p) \/ RelistQSec(p)
               \/ Resync(p) \/ SyncSecret(p) \/ Requeue(p)
               \/ SkipReconcile(p) \/ Meltdown(p) \/ RejectType(p)
               \/ BeginReconcile(p) \/ Generate(p) \/ NotReady(p)
               \/ CheckSecret(p) \/ CheckSecretFails(p) \/ LookupSecret(p)
               \/ KeepSecret(p) \/ WriteSecretFails(p) \/ UpdateStatus(p)
               \/ UpdateStatusFails(p)
        PROVE  secret' = secret
    BY <1>6 DEF DeleteQSec, DeliverQSec, RelistQSec, Resync, SyncSecret,
         Requeue, SkipReconcile, Meltdown, RejectType, BeginReconcile, Take,
         Generate, NotReady, CheckSecret, CheckSecretFails, LookupSecret,
         KeepSecret, WriteSecretFails, UpdateStatus, UpdateStatusFails,
         secretVars
  <1>7. ASSUME NEW c \in Configs,
               \/ CreateConfig(c) \/ DeleteConfig(c) \/ DeliverConfig(c)
               \/ RequeueConfig(c) \/ Rotate(c)
        PROVE  secret' = secret
    BY <1>7 DEF CreateConfig, DeleteConfig, DeliverConfig, RequeueConfig,
         Rotate, SkipRotation, RejectConfig, BeginRotation, ReadName,
         ResetGenerated, ResetFails, EndRotation, TakeConfig, secretVars
  <1>8. Restart \/ UNCHANGED vars => secret' = secret
    BY DEF Restart, vars, secretVars
  <1> QED
    BY <1>1, <1>3, <1>4, <1>5, <1>6, <1>7, <1>8
    DEF Next, User, Kubernetes, Reconcile

\* SeenUserSecretKept: a reconcile that saw a user's secret never replaces it.
THEOREM SeenSecretKept == Spec => SeenUserSecretKept
  <1>1. ASSUME TypeOK, Progress, [Next]_vars
        PROVE  \A q \in QSecs :
                 secret[q].kind = "user" /\ secret[q]'.kind = "generated"
                 => rec[q].seen # "user"
    BY <1>1, OverwriteStep DEF Progress
  <1> QED
    BY <1>1, TypeCorrect, ProgressCorrect, PTL DEF Spec, SeenUserSecretKept
==========================================================================
