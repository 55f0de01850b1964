--------------------- MODULE QuarksSecretEdits_proofs ---------------------
(***************************************************************************)
(* No change of the spec of a generated object is lost: for any number of  *)
(* QuarksSecrets, config maps and workers.                                 *)
(***************************************************************************)
EXTENDS QuarksSecretRotation_proofs

--------------------------------------------------------------------------
(* What is on its way to the informer of a generated object.               *)

\* Every version still to be delivered is one of the generated object.  So is
\* the one in the cache, unless it is the version the reconcile had that set
\* Generated: then the next to arrive has the same spec.
GeneratedSeen(q) ==
  IsGenerated(qsec[q]) =>
    /\ Present(qsec[q]) /\ Present(qsecCache[q])
    /\ \A i \in 1 .. Len(qsecWatch[q]) :
         Present(qsecWatch[q][i]) /\ IsGenerated(qsecWatch[q][i])
    /\ \/ IsGenerated(qsecCache[q])
       \/ qsecWatch[q] # <<>> /\ qsecWatch[q][1].spec = qsecCache[q].spec

Seen ==
  \A q \in QSecs :
    /\ rec[q].pc # "idle" => Present(rec[q].obj)
    /\ GeneratedSeen(q)

\* A step that does not touch q in API server and informer keeps its part.
LEMMA SeenFrame ==
  ASSUME NEW q \in QSecs, GeneratedSeen(q), qsec'[q] = qsec[q],
         qsecWatch'[q] = qsecWatch[q], qsecCache'[q] = qsecCache[q]
  PROVE  GeneratedSeen(q)'
  BY DEF GeneratedSeen

\* Appending a version to the watch of q keeps its part, if the version is
\* not a generated one, or one of an object that was generated before, or the
\* watch is drained and the cache has the same spec.
LEMMA PutSeen ==
  ASSUME TypeOK, NEW q \in QSecs, NEW o \in QuarksSecret, PutQSec(q, o),
         GeneratedSeen(q),
         IsGenerated(o) =>
           /\ Present(o)
           /\ \/ IsGenerated(qsec[q])
              \/ /\ qsecWatch[q] = <<>> /\ Present(qsecCache[q])
                 /\ qsecCache[q].spec = o.spec
  PROVE  GeneratedSeen(q)'
  <1>1. /\ qsecWatch[q] \in Seq(QuarksSecret)
        /\ qsec'[q] = o
        /\ qsecWatch'[q] = Append(qsecWatch[q], o)
        /\ qsecCache' = qsecCache
    BY DEF PutQSec, TypeOK, ApiType
  <1>2. /\ Len(qsecWatch[q]) \in Nat
        /\ Len(qsecWatch'[q]) = Len(qsecWatch[q]) + 1
        /\ \A i \in 1 .. Len(qsecWatch[q]) :
             qsecWatch'[q][i] = qsecWatch[q][i]
        /\ qsecWatch'[q][Len(qsecWatch[q]) + 1] = o
    BY <1>1
  <1>3. qsecWatch'[q] # <<>>
    BY <1>1, AppendEnd
  <1>4. qsecWatch[q] # <<>> => Len(qsecWatch[q]) > 0
    BY <1>1, <1>2
  <1> SUFFICES ASSUME IsGenerated(o)
               PROVE  /\ Present(o) /\ Present(qsecCache[q])
                      /\ \A i \in 1 .. Len(qsecWatch'[q]) :
                           /\ Present(qsecWatch'[q][i])
                           /\ IsGenerated(qsecWatch'[q][i])
                      /\ \/ IsGenerated(qsecCache[q])
                         \/ qsecWatch'[q][1].spec = qsecCache[q].spec
    BY <1>1, <1>3 DEF GeneratedSeen
  <1>5. CASE IsGenerated(qsec[q])
    <2>1. \A i \in 1 .. Len(qsecWatch[q]) :
            Present(qsecWatch[q][i]) /\ IsGenerated(qsecWatch[q][i])
      BY <1>5 DEF GeneratedSeen
    <2>2. \A i \in 1 .. Len(qsecWatch'[q]) :
            Present(qsecWatch'[q][i]) /\ IsGenerated(qsecWatch'[q][i])
      BY <1>2, <2>1
    <2>3. \/ IsGenerated(qsecCache[q])
          \/ qsecWatch'[q][1].spec = qsecCache[q].spec
      BY <1>2, <1>4, <1>5 DEF GeneratedSeen
    <2> QED
      BY <1>5, <2>2, <2>3 DEF GeneratedSeen
  <1>6. CASE /\ qsecWatch[q] = <<>> /\ Present(qsecCache[q])
             /\ qsecCache[q].spec = o.spec
    <2>1. Len(qsecWatch[q]) = 0
      BY <1>6
    <2> QED
      BY <1>2, <1>6, <2>1
  <1> QED
    BY <1>5, <1>6

\* Delivering a version to the informer of q keeps its part.
LEMMA DeliverSeen ==
  ASSUME TypeOK, NEW q \in QSecs, DeliverQSec(q), GeneratedSeen(q)
  PROVE  GeneratedSeen(q)'
  <1>1. /\ qsecWatch[q] \in Seq(QuarksSecret) /\ qsecWatch[q] # <<>>
        /\ qsec' = qsec
        /\ qsecWatch'[q] = Tail(qsecWatch[q])
        /\ qsecCache'[q] = Head(qsecWatch[q])
    BY DEF DeliverQSec, TypeOK, ApiType
  <1>2. /\ Len(qsecWatch[q]) \in Nat \ {0}
        /\ Head(qsecWatch[q]) = qsecWatch[q][1]
        /\ Len(qsecWatch'[q]) = Len(qsecWatch[q]) - 1
        /\ \A i \in 1 .. Len(qsecWatch'[q]) :
             qsecWatch'[q][i] = qsecWatch[q][i + 1]
    BY <1>1
  <1> QED
    BY <1>1, <1>2 DEF GeneratedSeen

\* The initial state satisfies the invariant.
LEMMA InitSeen == Init => Seen
  <1> SUFFICES ASSUME Init, NEW q \in QSecs
               PROVE  rec[q].pc = "idle" /\ ~IsGenerated(qsec[q])
    BY DEF Seen, GeneratedSeen
  <1> QED
    BY DEF Init, Idle, NoQSec, IsGenerated

\* Every step keeps the invariant.
LEMMA SeenStep == TypeOK /\ Views /\ Seen /\ [Next]_vars => Seen'
  <1> SUFFICES ASSUME TypeOK, Views, Seen, [Next]_vars PROVE Seen'
    OBVIOUS
  <1>1. rec \in [QSecs -> Reconciling]
    BY DEF TypeOK, ReconcileType
  <1>2. ASSUME UNCHANGED <<qsecVars, rec>> PROVE Seen'
    BY <1>2 DEF Seen, GeneratedSeen, qsecVars
  <1>3. ASSUME NEW q \in QSecs, NEW o \in QuarksSecret, PutQSec(q, o),
               \A p \in QSecs : \/ rec'[p].pc = "idle"
                                \/ /\ rec'[p].pc = rec[p].pc
                                   /\ rec'[p].obj = rec[p].obj,
               IsGenerated(o) =>
                 /\ Present(o)
                 /\ \/ IsGenerated(qsec[q])
                    \/ /\ qsecWatch[q] = <<>> /\ Present(qsecCache[q])
                       /\ qsecCache[q].spec = o.spec
        PROVE  Seen'
    <2>1. GeneratedSeen(q)'
      BY <1>3, PutSeen DEF Seen
    <2>2. ASSUME NEW p \in QSecs \ {q} PROVE GeneratedSeen(p)'
      BY <1>3, SeenFrame, PutQSecType DEF Seen, TypeOK
    <2> QED
      BY <1>3, <2>1, <2>2 DEF Seen
  <1>4. ASSUME NEW q \in QSecs, NEW s \in Specs, CreateQSec(q, s)
        PROVE  Seen'
    <2>1. spent'["birth"] \in Nat
      BY <1>4, SpendType DEF CreateQSec, TypeOK, Bounded
    <2> DEFINE o == NewQSec(spent'["birth"], s)
    <2>2. o \in QuarksSecret /\ ~IsGenerated(o)
      BY <2>1, ObjectTypes DEF NewQSec, NoQSec, IsGenerated
    <2>3. PutQSec(q, o) /\ UNCHANGED rec
      BY <1>4 DEF CreateQSec
    <2> HIDE DEF o
    <2> QED
      BY <1>3, <2>2, <2>3
  <1>5. ASSUME NEW q \in QSecs, NEW s \in Specs, EditQSec(q, s)
        PROVE  Seen'
    <2> DEFINE o == [qsec[q] EXCEPT !.spec = s]
    <2>1. qsec[q] \in QuarksSecret
      BY DEF TypeOK, ApiType
    <2>2. o \in QuarksSecret /\ (IsGenerated(o) => IsGenerated(qsec[q]))
          /\ Present(o)
      BY <1>5, <2>1 DEF EditQSec, QuarksSecret, IsGenerated, Present
    <2>3. PutQSec(q, o) /\ UNCHANGED rec
      BY <1>5 DEF EditQSec
    <2> HIDE DEF o
    <2> QED
      BY <1>3, <2>2, <2>3
  <1>6. ASSUME NEW q \in QSecs, DeleteQSec(q) PROVE Seen'
    <2>1. ~IsGenerated(NoQSec)
      BY DEF NoQSec, IsGenerated
    <2>2. PutQSec(q, NoQSec) /\ UNCHANGED rec
      BY <1>6 DEF DeleteQSec
    <2> QED
      BY <1>3, <2>1, <2>2, ObjectTypes
  <1>7. ASSUME NEW q \in QSecs, UpdateStatus(q) PROVE Seen'
    <2> DEFINE o == [rec[q].obj EXCEPT !.generated = "true",
                                       !.copied = "false", !.stamped = TRUE]
    <2>1. rec[q].obj \in QuarksSecret /\ Present(rec[q].obj)
      BY <1>1, <1>7 DEF Reconciling, UpdateStatus, Seen
    <2>2. /\ o \in QuarksSecret /\ Present(o)
          /\ o.spec = rec[q].obj.spec
      BY <2>1 DEF QuarksSecret, OptionalBool, Present
    <2>3. /\ qsecWatch[q] = <<>> /\ Present(qsecCache[q])
          /\ qsecCache[q].spec = o.spec
      BY <1>7, <2>1, <2>2 DEF UpdateStatus, StatusAccepted, Views,
           ReconcileCopies, WatchEnds, Latest
    <2>4. PutQSec(q, o) /\ rec' = [rec EXCEPT ![q] = Idle]
      BY <1>7 DEF UpdateStatus
    <2>5. \A p \in QSecs : \/ rec'[p].pc = "idle"
                           \/ /\ rec'[p].pc = rec[p].pc
                              /\ rec'[p].obj = rec[p].obj
      BY <1>1, <2>4 DEF Idle
    <2> HIDE DEF o
    <2> QED
      BY <1>3, <2>2, <2>3, <2>4, <2>5
  <1>8. ASSUME NEW c \in Configs, ResetGenerated(c) PROVE Seen'
    <2> DEFINE q == Head(rot[c].todo)
               o == [rot[c].obj EXCEPT !.generated = "false"]
    <2>1. q \in QSecs /\ rot[c].obj \in QuarksSecret
      BY <1>8, RotationName DEF ResetGenerated, TypeOK, RotationType, Rotating
    <2>2. o \in QuarksSecret /\ ~IsGenerated(o)
      BY <2>1, ObjectTypes DEF QuarksSecret, OptionalBool, IsGenerated
    <2>3. PutQSec(q, o) /\ rec' = [rec EXCEPT ![q].renewed = FALSE]
      BY <1>8 DEF ResetGenerated
    <2>4. \A p \in QSecs : rec'[p].pc = rec[p].pc /\ rec'[p].obj = rec[p].obj
      BY <1>1, <2>1, <2>3 DEF Reconciling
    <2> HIDE DEF q, o
    <2> QED
      BY <1>3, <2>1, <2>2, <2>3, <2>4
  <1>9. ASSUME NEW q \in QSecs, DeliverQSec(q) PROVE Seen'
    <2>1. GeneratedSeen(q)'
      BY <1>9, DeliverSeen DEF Seen
    <2>2. ASSUME NEW p \in QSecs \ {q} PROVE GeneratedSeen(p)'
      <3>1. /\ qsec'[p] = qsec[p] /\ qsecWatch'[p] = qsecWatch[p]
            /\ qsecCache'[p] = qsecCache[p]
        BY <1>9 DEF DeliverQSec, TypeOK, ApiType
      <3> QED
        BY <3>1, SeenFrame DEF Seen
    <2>3. UNCHANGED rec
      BY <1>9 DEF DeliverQSec, recVars
    <2> QED
      BY <2>1, <2>2, <2>3 DEF Seen
  <1>10. ASSUME NEW q \in QSecs, RelistQSec(q) PROVE Seen'
    <2>1. /\ qsecWatch'[q] = <<>> /\ qsecCache'[q] = qsec[q]
          /\ \A p \in QSecs \ {q} :
               qsecWatch'[p] = qsecWatch[p] /\ qsecCache'[p] = qsecCache[p]
          /\ UNCHANGED <<qsec, rec>>
      BY <1>10 DEF RelistQSec, TypeOK, ApiType, recVars
    <2>2. GeneratedSeen(q)'
      BY <2>1 DEF Seen, GeneratedSeen
    <2>3. ASSUME NEW p \in QSecs \ {q} PROVE GeneratedSeen(p)'
      BY <2>1, SeenFrame DEF Seen
    <2> QED
      BY <2>1, <2>2, <2>3 DEF Seen
  <1>11. ASSUME NEW q \in QSecs, BeginReconcile(q) PROVE Seen'
    <2>1. /\ Present(rec'[q].obj) /\ UNCHANGED qsecVars
          /\ \A p \in QSecs \ {q} : rec'[p] = rec[p]
      BY <1>1, <1>11 DEF BeginReconcile, Take, Idle
    <2> QED
      BY <2>1 DEF Seen, GeneratedSeen, qsecVars
  <1>12. ASSUME NEW q \in QSecs,
                \/ Generate(q) \/ CheckSecret(q) \/ CheckSecretFails(q)
                \/ LookupSecret(q) \/ KeepSecret(q) \/ WriteSecret(q)
         PROVE  Seen'
    <2>1. /\ UNCHANGED qsecVars
          /\ rec[q].pc # "idle"
          /\ \A p \in QSecs : rec'[p].obj = rec[p].obj
          /\ \A p \in QSecs \ {q} : rec'[p] = rec[p]
      BY <1>1, <1>12 DEF Generate, CheckSecret, CheckSecretFails,
           LookupSecret, KeepSecret, WriteSecret, Accepted, Reconciling
    <2> QED
      BY <2>1 DEF Seen, GeneratedSeen, qsecVars
  <1>13. ASSUME NEW q \in QSecs,
                \/ NotReady(q) \/ WriteSecretFails(q)
                \/ WriteSecretUnanswered(q) \/ UpdateStatusFails(q)
         PROVE  Seen'
    <2>1. UNCHANGED qsecVars /\ rec' = [rec EXCEPT ![q] = Idle]
      BY <1>13 DEF NotReady, WriteSecretFails, WriteSecretUnanswered,
           UpdateStatusFails, Retry, Leave
    <2>2. \A p \in QSecs : rec'[p] = rec[p] \/ rec'[p].pc = "idle"
      BY <1>1, <2>1 DEF Idle
    <2> QED
      BY <2>1, <2>2 DEF Seen, GeneratedSeen, qsecVars
  <1>14. CASE Restart
    <2>1. \A q \in QSecs : /\ qsec'[q] = qsec[q] /\ qsecCache'[q] = qsec[q]
                           /\ qsecWatch'[q] = <<>> /\ rec'[q].pc = "idle"
      BY <1>14 DEF Restart, Idle
    <2> QED
      BY <2>1 DEF Seen, GeneratedSeen
  <1>15. ASSUME NEW q \in QSecs,
                \/ CreateUserSecret(q) \/ DeleteSecret(q) \/ GarbageCollect(q)
                \/ Resync(q) \/ SyncSecret(q) \/ Requeue(q)
                \/ SkipReconcile(q) \/ Meltdown(q) \/ RejectType(q)
         PROVE  UNCHANGED <<qsecVars, rec>>
    BY <1>15 DEF CreateUserSecret, DeleteSecret, GarbageCollect, Resync,
         SyncSecret, Requeue, SkipReconcile, Meltdown, RejectType, Take,
         qsecVars, recVars
  <1>16. ASSUME NEW c \in Configs,
                \/ CreateConfig(c) \/ DeleteConfig(c) \/ DeliverConfig(c)
                \/ RequeueConfig(c) \/ SkipRotation(c) \/ RejectConfig(c)
                \/ BeginRotation(c) \/ ReadName(c) \/ ResetFails(c)
                \/ EndRotation(c)
         PROVE  UNCHANGED <<qsecVars, rec>>
    BY <1>16 DEF CreateConfig, DeleteConfig, DeliverConfig, RequeueConfig,
         SkipRotation, RejectConfig, BeginRotation, ReadName, ResetFails,
         EndRotation, TakeConfig, qsecVars, recVars
  <1>17. CASE UNCHANGED vars
    BY <1>2, <1>17 DEF vars, recVars
  <1> QED
    BY <1>2, <1>4, <1>5, <1>6, <1>7, <1>8, <1>9, <1>10, <1>11, <1>12, <1>13,
       <1>14, <1>15, <1>16, <1>17
    DEF Next, User, Kubernetes, Reconcile, Rotate

--------------------------------------------------------------------------
(* What becomes of an edit.                                                *)

\* The informer has not seen the stored spec of q yet, or will see another
\* one first.
Changed(q) ==
  \/ qsecCache[q].spec # qsec[q].spec
  \/ \E i \in 1 .. Len(qsecWatch[q]) : qsecWatch[q][i].spec # qsec[q].spec

Noticed(q) == q \in queue \cup delayed \/ Changed(q)

\* Nobody but the controller has written the secret, and a reconcile that
\* has come to the status of a plain type has just written it.
OwnSecret(q) ==
  /\ secret[q].kind # "user" /\ secretCache[q].kind # "user"
  /\ rec[q].pc = "status" /\ Kind[rec[q].obj.spec] = "plain" =>
       secret[q].kind = "none" \/ secret[q].spec = rec[q].obj.spec

\* Once a reconcile of a generated object is outdated by an edit, so that it
\* will write what nobody wants any more, the edit is noticed.
EditOutdates(q) ==
  IsGenerated(qsec[q]) /\ rec[q].pc # "idle" /\ rec[q].obj.spec # qsec[q].spec
  => Noticed(q)

\* The steps of a reconcile that has yet to write the secret.
Unwritten == {"generate", "check", "lookup", "create", "update"}

\* A secret of an earlier spec: the edit is noticed, or in a reconcile's hand.
EditUnderWay(q) ==
  /\ IsGenerated(qsec[q])
  /\ Kind[qsec[q].spec] = "plain"
  /\ secret[q].kind = "generated"
  /\ secret[q].spec # qsec[q].spec
  => \/ Noticed(q)
     \/ rec[q].pc \in Unwritten /\ rec[q].obj.spec = qsec[q].spec

Calm == Undisturbed /\ spent["relist"] = 0 /\ spent["secret"] = 0

Edited(q) == OwnSecret(q) /\ EditOutdates(q) /\ EditUnderWay(q)

Edits == Calm => \A q \in QSecs : Edited(q)

\* What a step leaves alone keeps its part.
LEMMA EditFrame ==
  ASSUME NEW q \in QSecs, Edited(q),
         qsec'[q] = qsec[q], qsecWatch'[q] = qsecWatch[q],
         qsecCache'[q] = qsecCache[q],
         secret'[q] = secret[q], secretCache'[q] = secretCache[q],
         q \in queue \cup delayed => q \in queue' \cup delayed',
         rec'[q].pc = rec[q].pc, rec'[q].obj = rec[q].obj
  PROVE  Edited(q)'
  <1>1. Noticed(q) => Noticed(q)'
    BY DEF Noticed, Changed
  <1> QED
    BY <1>1 DEF Edited, OwnSecret, EditOutdates, EditUnderWay

\* A new version of q with another spec is noticed.
LEMMA EditNoticed ==
  ASSUME TypeOK, Views, NEW q \in QSecs, NEW o \in QuarksSecret,
         PutQSec(q, o), o.spec # qsec[q].spec
  PROVE  Changed(q)'
  <1>1. /\ qsecWatch[q] \in Seq(QuarksSecret)
        /\ qsec'[q] = o
        /\ qsecWatch'[q] = Append(qsecWatch[q], o)
        /\ qsecCache' = qsecCache
    BY DEF PutQSec, TypeOK, ApiType
  <1>2. CASE qsecWatch[q] = <<>>
    BY <1>1, <1>2 DEF Views, WatchEnds, Latest, Changed
  <1>3. CASE qsecWatch[q] # <<>>
    <2> DEFINE n == Len(qsecWatch[q])
    <2>1. /\ n \in Nat /\ n > 0
          /\ Len(qsecWatch'[q]) = n + 1
          /\ qsecWatch'[q][n] = qsecWatch[q][n]
      BY <1>1, <1>3
    <2>2. qsecWatch[q][n] = qsec[q]
      BY <1>3 DEF Views, WatchEnds, Latest
    <2>3. n \in 1 .. Len(qsecWatch'[q])
      BY <2>1
    <2> HIDE DEF n
    <2> QED
      BY <1>1, <2>1, <2>2, <2>3 DEF Changed
  <1> QED
    BY <1>2, <1>3

\* Delivering the last version with another spec puts q into the queue.
LEMMA DeliverNoticed ==
  ASSUME TypeOK, NEW q \in QSecs, GeneratedSeen(q), IsGenerated(qsec[q]),
         DeliverQSec(q), Noticed(q)
  PROVE  Noticed(q)'
  <1>1. /\ qsecWatch[q] \in Seq(QuarksSecret) /\ qsecWatch[q] # <<>>
        /\ qsec' = qsec /\ delayed' = delayed
        /\ qsecWatch'[q] = Tail(qsecWatch[q])
        /\ qsecCache'[q] = Head(qsecWatch[q])
        /\ queue' = Enqueued(q, qsecCache[q], Head(qsecWatch[q]))
    BY DEF DeliverQSec, TypeOK, ApiType
  <1>2. /\ Len(qsecWatch[q]) \in Nat \ {0}
        /\ Head(qsecWatch[q]) = qsecWatch[q][1]
        /\ Len(qsecWatch'[q]) = Len(qsecWatch[q]) - 1
        /\ \A i \in 1 .. Len(qsecWatch'[q]) :
             qsecWatch'[q][i] = qsecWatch[q][i + 1]
    BY <1>1
  <1> SUFFICES ASSUME ~Changed(q)', q \notin queue \cup delayed
               PROVE  q \in queue'
    BY <1>1 DEF Noticed, Enqueued
  <1>3. /\ Head(qsecWatch[q]).spec = qsec[q].spec
        /\ \A i \in 1 .. Len(qsecWatch'[q]) :
             qsecWatch'[q][i].spec = qsec[q].spec
    BY <1>1 DEF Changed
  <1>4. \A i \in 1 .. Len(qsecWatch[q]) : qsecWatch[q][i].spec = qsec[q].spec
    <2> TAKE i \in 1 .. Len(qsecWatch[q])
    <2>1. CASE i = 1
      BY <1>2, <1>3, <2>1
    <2>2. CASE i # 1
      <3>1. i - 1 \in 1 .. Len(qsecWatch'[q]) /\ (i - 1) + 1 = i
        BY <1>2, <2>2
      <3>2. qsecWatch'[q][i - 1] = qsecWatch[q][i]
        BY <1>2, <3>1
      <3> QED
        BY <1>3, <3>1, <3>2
    <2> QED
      BY <2>1, <2>2
  <1>5. qsecCache[q].spec # Head(qsecWatch[q]).spec
    BY <1>3, <1>4 DEF Noticed, Changed
  <1>6. /\ Present(qsecCache[q]) /\ Present(Head(qsecWatch[q]))
        /\ IsGenerated(qsecCache[q])
    BY <1>2, <1>5 DEF GeneratedSeen
  <1> QED
    BY <1>1, <1>5, <1>6 DEF Enqueued, Passes, UpdatePasses

\* The initial state satisfies the invariant.
LEMMA InitEdits == Init => Edits
  <1> SUFFICES ASSUME Init, NEW q \in QSecs PROVE Edited(q)
    BY DEF Edits
  <1>1. /\ rec[q].pc = "idle" /\ ~IsGenerated(qsec[q])
        /\ secret[q].kind = "none" /\ secretCache[q].kind = "none"
    BY DEF Init, Idle, NoQSec, IsGenerated, NoSecret
  <1> QED
    BY <1>1 DEF Edited, OwnSecret, EditOutdates, EditUnderWay

\* Every step keeps the invariant.
LEMMA EditsStep ==
  TypeOK /\ Views /\ Seen /\ Edits /\ [Next]_vars => Edits'
  <1> SUFFICES ASSUME TypeOK, Views, Seen, Edits, [Next]_vars, Calm',
                      NEW q \in QSecs
               PROVE  Edited(q)'
    BY DEF Edits
  <1>1. Calm /\ (\A b \in {"restart", "fault", "relist", "secret"} : ~Spend(b))
    BY SpentTypeStep, SpendType DEF Calm, Undisturbed, Bounded, TypeOK
  <1>2. Edited(q) /\ OwnSecret(q) /\ EditOutdates(q) /\ EditUnderWay(q)
    BY <1>1 DEF Edits, Edited
  <1>3. rec \in [QSecs -> Reconciling]
    BY DEF TypeOK, ReconcileType
  <1>4. ASSUME UNCHANGED <<qsecVars, secret, secretCache, rec>>,
               q \in queue \cup delayed => q \in queue' \cup delayed'
        PROVE  Edited(q)'
    BY <1>2, <1>4, EditFrame DEF qsecVars
  <1>5. ASSUME NEW p \in QSecs, NEW o \in QuarksSecret, PutQSec(p, o),
               UNCHANGED <<secretVars, queueVars>>,
               \/ rec'[q].pc = rec[q].pc /\ rec'[q].obj = rec[q].obj
               \/ p = q /\ rec'[q].pc = "idle",
               p = q => \/ ~IsGenerated(o)
                        \/ /\ IsGenerated(qsec[q])
                           /\ rec'[q] = rec[q]
                        \/ /\ rec'[q].pc = "idle"
                           /\ secret[q].kind = "generated"
                              /\ Kind[o.spec] = "plain"
                              => secret[q].spec = o.spec
        PROVE  Edited(q)'
    <2>1. /\ qsec'[p] = o /\ qsecCache' = qsecCache
          /\ \A r \in QSecs \ {p} :
               qsec'[r] = qsec[r] /\ qsecWatch'[r] = qsecWatch[r]
      BY <1>5, PutQSecType DEF TypeOK
    <2>2. /\ secret'[q] = secret[q] /\ secretCache'[q] = secretCache[q]
          /\ queue' = queue /\ delayed' = delayed
      BY <1>5 DEF secretVars, queueVars
    <2>3. CASE p # q
      BY <1>2, <1>5, <2>1, <2>2, <2>3, EditFrame
    <2>4. CASE p = q
      <3>1. OwnSecret(q)'
        BY <1>2, <1>5, <2>2 DEF OwnSecret
      <3>2. CASE ~IsGenerated(o)
        BY <2>1, <2>4, <3>1, <3>2 DEF Edited, EditOutdates, EditUnderWay
      <3>3. CASE IsGenerated(qsec[q]) /\ rec'[q] = rec[q]
        <4>1. CASE o.spec # qsec[q].spec
          <5>1. Noticed(q)'
            BY <1>5, <2>4, <4>1, EditNoticed DEF Noticed
          <5> QED
            BY <3>1, <5>1 DEF Edited, EditOutdates, EditUnderWay
        <4>2. CASE o.spec = qsec[q].spec
          <5>1. Noticed(q) => Noticed(q)'
            <6>1. /\ qsecWatch[q] \in Seq(QuarksSecret)
                  /\ qsecWatch'[q] = Append(qsecWatch[q], o)
              BY <1>5, <2>4 DEF PutQSec, TypeOK, ApiType
            <6>2. /\ Len(qsecWatch[q]) \in Nat
                  /\ Len(qsecWatch'[q]) = Len(qsecWatch[q]) + 1
                  /\ \A i \in 1 .. Len(qsecWatch[q]) :
                       qsecWatch'[q][i] = qsecWatch[q][i]
              BY <6>1
            <6>3. \A i \in 1 .. Len(qsecWatch[q]) :
                    i \in 1 .. Len(qsecWatch'[q])
              BY <6>2
            <6>4. Changed(q) => Changed(q)'
              BY <2>1, <2>4, <4>2, <6>2, <6>3 DEF Changed
            <6> QED
              BY <2>2, <6>4 DEF Noticed
          <5>2. qsec'[q].spec = qsec[q].spec
            BY <2>1, <2>4, <4>2
          <5> QED
            BY <1>2, <2>2, <3>1, <3>3, <5>1, <5>2
            DEF Edited, EditOutdates, EditUnderWay
        <4> QED
          BY <4>1, <4>2
      <3>4. CASE /\ rec'[q].pc = "idle"
                 /\ secret[q].kind = "generated" /\ Kind[o.spec] = "plain"
                    => secret[q].spec = o.spec
        BY <2>1, <2>2, <2>4, <3>1, <3>4 DEF Edited, EditOutdates, EditUnderWay
      <3> QED
        BY <1>5, <2>4, <3>2, <3>3, <3>4
    <2> QED
      BY <2>3, <2>4
  <1>6. ASSUME NEW p \in QSecs, NEW s \in Specs, CreateQSec(p, s)
        PROVE  Edited(q)'
    <2>1. spent'["birth"] \in Nat
      BY <1>6, SpendType DEF CreateQSec, TypeOK, Bounded
    <2> DEFINE o == NewQSec(spent'["birth"], s)
    <2>2. o \in QuarksSecret /\ ~IsGenerated(o)
      BY <2>1, ObjectTypes DEF NewQSec, NoQSec, IsGenerated
    <2>3. PutQSec(p, o) /\ UNCHANGED <<rec, secretVars, queueVars>>
      BY <1>6 DEF CreateQSec
    <2> HIDE DEF o
    <2> QED
      BY <1>5, <2>2, <2>3
  <1>7. ASSUME NEW p \in QSecs, NEW s \in Specs, EditQSec(p, s)
        PROVE  Edited(q)'
    <2> DEFINE o == [qsec[p] EXCEPT !.spec = s]
    <2>1. qsec[p] \in QuarksSecret
      BY DEF TypeOK, ApiType
    <2>2. o \in QuarksSecret /\ (IsGenerated(o) => IsGenerated(qsec[p]))
      BY <2>1 DEF QuarksSecret, IsGenerated
    <2>3. PutQSec(p, o) /\ UNCHANGED <<rec, secretVars, queueVars>>
      BY <1>7 DEF EditQSec
    <2> HIDE DEF o
    <2> QED
      BY <1>5, <2>2, <2>3
  <1>8. ASSUME NEW p \in QSecs, DeleteQSec(p) PROVE Edited(q)'
    <2>1. ~IsGenerated(NoQSec)
      BY DEF NoQSec, IsGenerated
    <2>2. PutQSec(p, NoQSec) /\ UNCHANGED <<rec, secretVars, queueVars>>
      BY <1>8 DEF DeleteQSec
    <2> QED
      BY <1>5, <2>1, <2>2, ObjectTypes
  <1>9. ASSUME NEW p \in QSecs, UpdateStatus(p) PROVE Edited(q)'
    <2> DEFINE o == [rec[p].obj EXCEPT !.generated = "true",
                                       !.copied = "false", !.stamped = TRUE]
    <2>1. rec[p].obj \in QuarksSecret
      BY <1>3 DEF Reconciling
    <2>2. /\ o \in QuarksSecret
          /\ o.spec = rec[p].obj.spec
      BY <2>1 DEF QuarksSecret, OptionalBool
    <2>3. /\ PutQSec(p, o) /\ UNCHANGED <<secretVars, queueVars>>
          /\ rec' = [rec EXCEPT ![p] = Idle] /\ rec[p].pc = "status"
      BY <1>9 DEF UpdateStatus
    <2>4. IF p = q THEN rec'[q].pc = "idle" ELSE rec'[q] = rec[q]
      BY <1>3, <2>3 DEF Idle
    <2>5. p = q /\ secret[q].kind = "generated" /\ Kind[o.spec] = "plain"
            => secret[q].spec = o.spec
      BY <1>2, <2>2, <2>3 DEF OwnSecret
    <2> HIDE DEF o
    <2> QED
      BY <1>5, <2>2, <2>3, <2>4, <2>5
  <1>10. ASSUME NEW c \in Configs, ResetGenerated(c) PROVE Edited(q)'
    <2> DEFINE p == Head(rot[c].todo)
               o == [rot[c].obj EXCEPT !.generated = "false"]
    <2>1. p \in QSecs /\ rot[c].obj \in QuarksSecret
      BY <1>10, RotationName DEF ResetGenerated, TypeOK, RotationType, Rotating
    <2>2. o \in QuarksSecret /\ ~IsGenerated(o)
      BY <2>1, ObjectTypes DEF QuarksSecret, OptionalBool, IsGenerated
    <2>3. /\ PutQSec(p, o) /\ rec' = [rec EXCEPT ![p].renewed = FALSE]
          /\ UNCHANGED <<secretVars, queueVars>>
      BY <1>10 DEF ResetGenerated
    <2>4. rec'[q].pc = rec[q].pc /\ rec'[q].obj = rec[q].obj
      BY <1>3, <2>1, <2>3 DEF Reconciling
    <2> HIDE DEF p, o
    <2> QED
      BY <1>5, <2>1, <2>2, <2>3, <2>4
  <1>11. ASSUME NEW p \in QSecs, DeliverQSec(p) PROVE Edited(q)'
    <2>1. /\ UNCHANGED <<qsec, secret, secretCache, rec, delayed>>
          /\ queue \subseteq queue'
      BY <1>11 DEF DeliverQSec, Enqueued, secretVars, recVars
    <2>2. CASE p # q
      <3>1. qsecWatch'[q] = qsecWatch[q] /\ qsecCache'[q] = qsecCache[q]
        BY <1>11, <2>2 DEF DeliverQSec, TypeOK, ApiType
      <3> QED
        BY <1>2, <2>1, <3>1, EditFrame
    <2>3. CASE p = q
      <3>1. IsGenerated(qsec[q]) /\ Noticed(q) => Noticed(q)'
        BY <1>11, <2>3, DeliverNoticed DEF Seen
      <3> QED
        BY <1>2, <2>1, <3>1 DEF Edited, OwnSecret, EditOutdates, EditUnderWay
    <2> QED
      BY <2>2, <2>3
  <1>12. ASSUME NEW p \in QSecs, Resync(p) \/ Requeue(p) PROVE Edited(q)'
    BY <1>4, <1>12 DEF Resync, Requeue, Enqueued, secretVars, recVars
  <1>13. ASSUME NEW p \in QSecs, SyncSecret(p) PROVE Edited(q)'
    <2>1. /\ UNCHANGED <<qsecVars, secret, queue, delayed, rec>>
          /\ secretCache'[q] \in {secret[q], secretCache[q]}
      BY <1>13 DEF SyncSecret, queueVars, recVars, TypeOK, ApiType
    <2>2. Noticed(q)' <=> Noticed(q)
      BY <2>1 DEF Noticed, Changed, qsecVars
    <2> QED
      BY <1>2, <2>1, <2>2
      DEF Edited, OwnSecret, EditOutdates, EditUnderWay, qsecVars
  <1>14. ASSUME NEW p \in QSecs, GarbageCollect(p) PROVE Edited(q)'
    <2>1. /\ UNCHANGED <<qsecVars, secretCache, queue, delayed, rec>>
          /\ secret'[q] = secret[q] \/ secret'[q].kind = "none"
      BY <1>14 DEF GarbageCollect, PutSecret, NoSecret, queueVars, TypeOK,
           ApiType
    <2>2. Noticed(q)' <=> Noticed(q)
      BY <2>1 DEF Noticed, Changed, qsecVars
    <2> QED
      BY <1>2, <2>1, <2>2
      DEF Edited, OwnSecret, EditOutdates, EditUnderWay, qsecVars
  <1>15. ASSUME NEW p \in QSecs, Take(p), UNCHANGED rec,
                \/ ~Present(qsecCache[p])
                \/ Kind[qsecCache[p].spec] = "copy"
                \/ p \in delayed',
                delayed \subseteq delayed'
         PROVE  Edited(q)'
    <2>1. /\ UNCHANGED <<qsecVars, secret, secretCache>>
          /\ queue' = queue \ {p} /\ rec[p].pc = "idle"
      BY <1>15 DEF Take, secretVars, Idle
    <2>2. p # q \/ p \in delayed' => Edited(q)'
      BY <1>4, <1>15, <2>1
    <2>3. ASSUME p = q, p \notin delayed', IsGenerated(qsec[q]),
                 Kind[qsec[q].spec] = "plain"
          PROVE  Noticed(q)'
      BY <1>15, <2>1, <2>3 DEF Seen, GeneratedSeen, Noticed, Changed, qsecVars
    <2>4. ASSUME p = q, p \notin delayed' PROVE Edited(q)'
      BY <1>2, <1>15, <2>1, <2>3, <2>4
      DEF Edited, OwnSecret, EditOutdates, EditUnderWay, qsecVars
    <2> QED
      BY <2>2, <2>4
  <1>16. ASSUME NEW p \in QSecs,
                SkipReconcile(p) \/ Meltdown(p) \/ RejectType(p)
         PROVE  Edited(q)'
    BY <1>15, <1>16 DEF SkipReconcile, Meltdown, RejectType
  <1>17. ASSUME NEW p \in QSecs, BeginReconcile(p) PROVE Edited(q)'
    <2>1. /\ UNCHANGED <<qsecVars, secret, secretCache, delayed>>
          /\ queue' = queue \ {p}
          /\ rec' = [rec EXCEPT ![p] = [Idle EXCEPT !.pc = "generate",
                                                    !.obj = qsecCache[p]]]
      BY <1>17 DEF BeginReconcile, Take, secretVars
    <2>2. CASE p # q
      <3>1. rec'[q] = rec[q]
        BY <1>3, <2>1, <2>2
      <3> QED
        BY <1>2, <2>1, <2>2, <3>1, EditFrame DEF qsecVars
    <2>3. CASE p = q
      <3>1. rec'[q].pc = "generate" /\ rec'[q].obj = qsecCache[q]
        BY <1>3, <2>1, <2>3 DEF Idle
      <3>2. qsecCache[q].spec # qsec[q].spec => Noticed(q)'
        BY <2>1 DEF Noticed, Changed, qsecVars
      <3> QED
        BY <1>2, <2>1, <3>1, <3>2
        DEF Edited, OwnSecret, EditOutdates, EditUnderWay, Unwritten, qsecVars
    <2> QED
      BY <2>2, <2>3
  <1>18. ASSUME NEW p \in QSecs,
                \/ Generate(p) \/ CheckSecret(p) \/ LookupSecret(p)
                \/ KeepSecret(p)
         PROVE  Edited(q)'
    <2>1. /\ UNCHANGED <<qsecVars, secret, secretCache, queue, delayed>>
          /\ rec'[q].obj = rec[q].obj
          /\ p # q => rec'[q] = rec[q]
      BY <1>3, <1>18 DEF Generate, CheckSecret, LookupSecret, KeepSecret,
           secretVars, queueVars, Reconciling
    <2>2. CASE p # q
      BY <1>2, <2>1, <2>2, EditFrame DEF qsecVars
    <2>3. CASE p = q
      <3>1. /\ rec[q].pc \in Unwritten
            /\ \/ rec'[q].pc \in Unwritten
               \/ rec'[q].pc = "status" /\ Kind[rec[q].obj.spec] = "refs"
        BY <1>2, <1>3, <1>18, <2>3
        DEF Generate, CheckSecret, SkipCreation, LookupSecret, KeepSecret,
            OwnSecret, Unwritten, Reconciling
      <3>2. Noticed(q)' <=> Noticed(q)
        BY <2>1 DEF Noticed, Changed, qsecVars
      <3> QED
        BY <1>2, <2>1, <3>1, <3>2
        DEF Edited, OwnSecret, EditOutdates, EditUnderWay, Unwritten, qsecVars
    <2> QED
      BY <2>2, <2>3
  <1>19. ASSUME NEW p \in QSecs, WriteSecret(p) PROVE Edited(q)'
    <2>1. /\ UNCHANGED <<qsecVars, secretCache, queue, delayed>>
          /\ rec'[q].obj = rec[q].obj
          /\ p # q => rec'[q] = rec[q]
          /\ p = q => rec'[q].pc = "status"
          /\ secret' = [secret EXCEPT ![p] = Written(p)]
      BY <1>3, <1>19 DEF WriteSecret, PutSecret, queueVars, Reconciling
    <2>2. CASE p # q
      <3>1. secret'[q] = secret[q]
        BY <2>1, <2>2 DEF TypeOK, ApiType
      <3> QED
        BY <1>2, <2>1, <2>2, <3>1, EditFrame DEF qsecVars
    <2>3. CASE p = q
      <3>1. /\ secret'[q].kind = "generated"
            /\ secret'[q].spec = rec[q].obj.spec
            /\ rec[q].pc # "idle"
        BY <1>19, <2>1, <2>3
        DEF Written, GeneratedSecret, WriteSecret, Accepted, TypeOK, ApiType
      <3>2. Noticed(q)' <=> Noticed(q)
        BY <2>1 DEF Noticed, Changed, qsecVars
      <3> QED
        BY <1>2, <2>1, <2>3, <3>1, <3>2
        DEF Edited, OwnSecret, EditOutdates, EditUnderWay, qsecVars
    <2> QED
      BY <2>2, <2>3
  <1>20. ASSUME NEW p \in QSecs,
                NotReady(p) \/ WriteSecretFails(p) \/ UpdateStatusFails(p)
         PROVE  Edited(q)'
    <2>1. /\ UNCHANGED <<qsecVars, secret, secretCache, queue>>
          /\ rec' = [rec EXCEPT ![p] = Idle]
          /\ delayed \subseteq delayed'
          /\ p \in delayed' \/ rec[p].pc = "status"
      BY <1>20 DEF NotReady, WriteSecretFails, UpdateStatusFails, Retry,
           Leave, secretVars, queueVars
    <2>2. CASE p # q
      <3>1. rec'[q] = rec[q]
        BY <1>3, <2>1, <2>2
      <3> QED
        BY <1>2, <2>1, <3>1, EditFrame DEF qsecVars
    <2>3. CASE p = q
      <3>1. rec'[q].pc = "idle"
        BY <1>3, <2>1, <2>3 DEF Idle
      <3>2. Noticed(q) \/ p \in delayed' => Noticed(q)'
        BY <2>1, <2>3 DEF Noticed, Changed, qsecVars
      <3> QED
        BY <1>2, <2>1, <2>3, <3>1, <3>2
        DEF Edited, OwnSecret, EditOutdates, EditUnderWay, Unwritten, qsecVars
    <2> QED
      BY <2>2, <2>3
  <1>21. ASSUME NEW p \in QSecs,
                \/ CreateUserSecret(p) \/ DeleteSecret(p) \/ RelistQSec(p)
                \/ CheckSecretFails(p) \/ WriteSecretUnanswered(p) \/ Restart
         PROVE  FALSE
    BY <1>1, <1>21 DEF CreateUserSecret, DeleteSecret, RelistQSec,
         CheckSecretFails, WriteSecretUnanswered, Restart
  <1>22. ASSUME NEW c \in Configs,
                \/ CreateConfig(c) \/ DeleteConfig(c) \/ DeliverConfig(c)
                \/ RequeueConfig(c) \/ SkipRotation(c) \/ RejectConfig(c)
                \/ BeginRotation(c) \/ ReadName(c) \/ ResetFails(c)
                \/ EndRotation(c)
         PROVE  UNCHANGED <<qsecVars, secret, secretCache, rec, queue, delayed>>
    BY <1>22 DEF CreateConfig, DeleteConfig, DeliverConfig, RequeueConfig,
         SkipRotation, RejectConfig, BeginRotation, ReadName, ResetFails,
         EndRotation, TakeConfig, secretVars, queueVars, recVars
  <1>23. CASE UNCHANGED vars
    BY <1>4, <1>23 DEF vars, secretVars, queueVars, recVars
  <1>24. ~Restart
    BY <1>1 DEF Restart
  <1> QED
    BY <1>4, <1>6, <1>7, <1>8, <1>9, <1>10, <1>11, <1>12, <1>13, <1>14,
       <1>16, <1>17, <1>18, <1>19, <1>20, <1>21, <1>22, <1>23, <1>24
    DEF Next, User, Kubernetes, Reconcile, Rotate

\* NoLostEdit: a generated secret of an earlier spec is never forgotten; the
\* controller has a key, a timer, an event or the new spec in hand.
THEOREM EditsKept == Spec => []NoLostEdit
  <1>1. ASSUME TypeOK, Views, Edits PROVE NoLostEdit
    <2>1. ASSUME NEW q \in QSecs, Changed(q) PROVE qsecWatch[q] # <<>>
      <3> SUFFICES ASSUME qsecWatch[q] = <<>> PROVE FALSE
        OBVIOUS
      <3>1. Len(qsecWatch[q]) = 0
        OBVIOUS
      <3>2. qsecCache[q] = qsec[q]
        BY <1>1 DEF Views, WatchEnds, Latest
      <3> QED
        BY <2>1, <3>1, <3>2 DEF Changed
    <2> QED
      BY <1>1, <2>1
      DEF Edits, Calm, Edited, EditUnderWay, Noticed, Unwritten, NoLostEdit,
          Pending
  <1>2. Spec => []Seen
    BY InitSeen, SeenStep, TypeCorrect, CopiesCurrent, PTL DEF Spec
  <1> QED
    BY <1>1, <1>2, InitEdits, EditsStep, TypeCorrect, CopiesCurrent, PTL
    DEF Spec
==========================================================================
