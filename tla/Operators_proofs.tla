-------------------------- MODULE Operators_proofs --------------------------
(***************************************************************************)
(* Proofs, for any number of processes and IDs, that operators generate    *)
(* and rotate secrets only in namespaces of theirs and that rotations stay *)
(* effective.                                                              *)
(***************************************************************************)
EXTENDS Operators, TLAPS

\* Taking the head off a sequence leaves a sequence.
LEMMA HeadTail ==
  ASSUME NEW S, NEW s \in Seq(S), s # <<>>
  PROVE  Head(s) \in S /\ Tail(s) \in Seq(S)
  OBVIOUS

\* Spending leaves the counters natural numbers.
LEMMA SpendType ==
  ASSUME NEW b \in Bounded, spent \in [Bounded -> Nat], Spend(b)
  PROVE  spent' \in [Bounded -> Nat]
  BY OperatorsAssumption DEF Spend

\* Storing the QuarksSecret keeps the types of what it writes.
LEMMA PutQSecType ==
  ASSUME TypeOK, NEW o \in QSec, PutQSec(o)
  PROVE  /\ qsec' = o
         /\ qsecWatch' \in [Procs -> Seq(QSec)]
         /\ \A p \in Procs \ Running : qsecWatch'[p] = <<>>
         /\ qsecCache' = qsecCache /\ freshQSec' = {}
  BY DEF TypeOK, PutQSec, Running

\* The initial state has the types.
LEMMA InitType == Init => TypeOK
  <1> SUFFICES ASSUME Init PROVE TypeOK
    OBVIOUS
  <1>1. id \in [Procs -> IDs]
    BY OperatorsAssumption DEF Init
  <1>2. NoQSec \in QSec
    BY DEF NoQSec, QSec
  <1>3. qsecWatch \in [Procs -> Seq(QSec)] /\ qsecCache \in [Procs -> QSec]
    BY <1>2 DEF Init
  <1>4. spent \in [Bounded -> Nat]
    BY DEF Init
  <1>5. rec \in [Procs -> Reconciling]
    BY DEF Init, Reconciling
  <1> QED
    BY <1>1, <1>2, <1>3, <1>4, <1>5 DEF Init, TypeOK, Running

\* No step of a user breaks the types.
LEMMA UserType ==
  ASSUME TypeOK, LabelNamespace \/ CreateQSec \/ CreateConfig
  PROVE  TypeOK'
  <1>1. CASE LabelNamespace
    BY <1>1, SpendType
    DEF LabelNamespace, TypeOK, Running, Bounded, procVars, qsecVars,
        secretVars, configVars, recVars
  <1>2. CASE CreateQSec
    <2>1. NewQSec \in QSec
      BY DEF NewQSec, QSec
    <2> QED
      BY <1>2, <2>1, PutQSecType
      DEF CreateQSec, TypeOK, Running, procVars, labelVars, secretVars,
          configVars
  <1>3. CASE CreateConfig
    BY <1>3, SpendType
    DEF CreateConfig, TypeOK, Running, Bounded, procVars, labelVars, qsecVars,
        secretVars, recVars, history
  <1> QED
    BY <1>1, <1>2, <1>3

\* Starting and ending a process does not break the types.
LEMMA ProcessType ==
  ASSUME TypeOK, NEW p \in Procs, Start(p) \/ StartFails(p) \/ Kill(p)
  PROVE  TypeOK'
  <1>1. CASE ApplyCRDs(p)
    BY <1>1
    DEF ApplyCRDs, TypeOK, Running, labelVars, qsecVars, secretVars,
        configVars, recVars
  <1>2. CASE StartManager(p)
    BY <1>2
    DEF StartManager, TypeOK, Running, history
  <1>3. CASE StartFails(p)
    BY <1>3, SpendType
    DEF StartFails, TypeOK, Running, Bounded, labelVars, qsecVars, secretVars,
        configVars, recVars
  <1>4. CASE Kill(p)
    BY <1>4, SpendType
    DEF Kill, TypeOK, Running, Bounded, QSec, NoQSec, Reconciling
  <1> QED
    BY <1>1, <1>2, <1>3, <1>4 DEF Start

\* No informer breaks the types.
LEMMA InformerType ==
  ASSUME TypeOK, NEW p \in Procs,
         \/ DeliverQSec(p) \/ Resync(p) \/ DeliverConfig(p)
         \/ SyncLabel(p) \/ SyncSecret(p)
  PROVE  TypeOK'
  <1>1. CASE DeliverQSec(p)
    <2>1. Head(qsecWatch[p]) \in QSec /\ Tail(qsecWatch[p]) \in Seq(QSec)
      BY <1>1, HeadTail DEF DeliverQSec, TypeOK
    <2>2. p \in Running
      BY <1>1 DEF DeliverQSec, TypeOK
    <2> QED
      BY <1>1, <2>1, <2>2
      DEF DeliverQSec, TypeOK, Running, procVars, labelVars, secretVars,
          configVars, history
  <1>2. CASE Resync(p)
    BY <1>2
    DEF Resync, TypeOK, Running, procVars, labelVars, qsecVars, secretVars,
        configVars, history
  <1>3. CASE DeliverConfig(p)
    BY <1>3
    DEF DeliverConfig, TypeOK, Running, procVars, labelVars, qsecVars,
        secretVars, recVars, history
  <1>4. CASE SyncLabel(p)
    BY <1>4
    DEF SyncLabel, TypeOK, Running, procVars, qsecVars, secretVars,
        configVars, recVars, history
  <1>5. CASE SyncSecret(p)
    BY <1>5
    DEF SyncSecret, TypeOK, Running, procVars, labelVars, qsecVars,
        configVars, recVars, history
  <1> QED
    BY <1>1, <1>2, <1>3, <1>4, <1>5

\* No reconcile breaks the types.
LEMMA ReconcileType ==
  ASSUME TypeOK, NEW p \in Procs, Reconcile(p) \/ ResetGenerated(p)
  PROVE  TypeOK'
  <1>a. rec[p] # "idle" => p \in Running
    BY DEF TypeOK
  <1>1. CASE Begin(p)
    BY <1>1
    DEF Begin, TypeOK, Running, Reconciling, procVars, labelVars, qsecVars,
        secretVars, configVars, history
  <1>2. CASE Lookup(p)
    BY <1>2, <1>a
    DEF Lookup, TypeOK, Running, Reconciling, procVars, labelVars, qsecVars,
        secretVars, configVars, history
  <1>3. CASE Store(p)
    <2>1. p \in Running
      BY <1>3, <1>a DEF Store, Accepted
    <2>2. spent' \in [Bounded -> Nat]
      BY <1>3, SpendType DEF Store, TypeOK, Bounded
    <2>3. /\ rec' \in [Procs -> Reconciling] /\ rec'[p] # "update"
          /\ \A r \in Procs \ {p} : rec'[r] = rec[r]
      BY <1>3 DEF Store, TypeOK, Reconciling
    <2>4. freshQSec' \subseteq {r \in Procs : rec'[r] # "idle"}
      BY <1>3, <2>3 DEF Store, TypeOK
    <2>5. queue' \subseteq Running
      BY <1>3, <2>1 DEF Store, TypeOK
    <2> QED
      BY <1>3, <2>1, <2>2, <2>3, <2>4, <2>5
      DEF Store, TypeOK, Running, Credentials, procVars, labelVars, qsecVars,
          configVars
  <1>4. CASE StoreConflicts(p)
    BY <1>4, <1>a
    DEF StoreConflicts, Retry, Leave, TypeOK, Running, Reconciling, procVars,
        labelVars, qsecVars, secretVars, configVars, history
  <1>5. CASE UpdateStatus(p)
    <2>1. [qsec EXCEPT !.generated = "true"] \in QSec
      BY DEF TypeOK, QSec
    <2>2. CASE PutQSec([qsec EXCEPT !.generated = "true"]) /\ UNCHANGED spent
      BY <1>5, <1>a, <2>1, <2>2, PutQSecType
      DEF UpdateStatus, TypeOK, Running, Reconciling, procVars, labelVars,
          secretVars, configVars, history
    <2>3. CASE /\ IF StatusAccepted(p) THEN Spend("fault") ELSE UNCHANGED spent
               /\ freshQSec' = freshQSec \ {p}
               /\ UNCHANGED qsecVars
      <3>1. spent' \in [Bounded -> Nat]
        BY <2>3, SpendType DEF TypeOK, Bounded
      <3> QED
        BY <1>5, <1>a, <2>3, <3>1
        DEF UpdateStatus, TypeOK, Running, Reconciling, procVars, labelVars,
            qsecVars, secretVars, configVars, history
    <2> QED
      BY <1>5, <2>2, <2>3 DEF UpdateStatus
  <1>6. CASE ResetGenerated(p)
    <2>1. [qsec EXCEPT !.generated = "false"] \in QSec
      BY DEF TypeOK, QSec
    <2>2. CASE PutQSec([qsec EXCEPT !.generated = "false"])
      BY <1>6, <2>1, <2>2, PutQSecType
      DEF ResetGenerated, TypeOK, Running, Credentials, procVars, labelVars
    <2>3. CASE UNCHANGED <<qsecVars, freshQSec, secret, acted>>
      BY <1>6, <2>3
      DEF ResetGenerated, TypeOK, Running, procVars, labelVars, qsecVars
    <2> QED
      BY <1>6, <2>2, <2>3 DEF ResetGenerated
  <1> QED
    BY <1>1, <1>2, <1>3, <1>4, <1>5, <1>6 DEF Reconcile

\* Every step keeps the types.
LEMMA NextType == TypeOK /\ [Next]_vars => TypeOK'
  <1> SUFFICES ASSUME TypeOK, [Next]_vars PROVE TypeOK'
    OBVIOUS
  <1>1. CASE UNCHANGED vars
    BY <1>1
    DEF vars, TypeOK, Running, procVars, labelVars, qsecVars, secretVars,
        configVars, recVars, history
  <1>2. CASE Next
    BY <1>2, UserType, ProcessType, InformerType, ReconcileType DEF Next
  <1> QED
    BY <1>1, <1>2

\* Every variable keeps its type, and only running processes have work.
THEOREM TypeCorrect == Spec => []TypeOK
  BY InitType, NextType, PTL DEF Spec

--------------------------------------------------------------------------
(* Interference.                                                           *)

\* Whatever lets a process act on the namespace one day: it carries the ID now,
\* or in the process's cache, or an event got through when it did.
Involved(p) == \/ proc[p] # "down" /\ label = id[p]
               \/ p \in Running /\ labelCache[p] = id[p]
               \/ p \in queue \cup rotQueue \cup acted
               \/ rec[p] # "idle"

Entitled == \A p \in Procs : Involved(p) => p \in entitled

\* The steps of a process concern its own entitlement only, and no step takes
\* a running process's away.
LEMMA EntitledStep == TypeOK /\ Entitled /\ [Next]_vars => Entitled'
  <1> SUFFICES ASSUME TypeOK, Entitled, [Next]_vars, NEW r \in Procs,
                      Involved(r)'
               PROVE  r \in entitled'
    BY DEF Entitled
  <1>a. Involved(r) => r \in entitled
    BY DEF Entitled
  <1>1. CASE UNCHANGED vars
    BY <1>1, <1>a
    DEF vars, Involved, Running, procVars, labelVars, configVars, recVars,
        history
  <1>2. CASE LabelNamespace
    BY <1>2, <1>a
    DEF LabelNamespace, Involved, Running, procVars, configVars, recVars
  <1>3. CASE CreateQSec \/ CreateConfig
    BY <1>3, <1>a
    DEF CreateQSec, CreateConfig, Involved, Running, procVars, labelVars,
        configVars, recVars, history
  <1>4. ASSUME NEW p \in Procs, ApplyCRDs(p) PROVE r \in entitled'
    BY <1>4, <1>a
    DEF ApplyCRDs, Involved, Running, TypeOK, labelVars, configVars, recVars
  <1>5. ASSUME NEW p \in Procs, StartManager(p) PROVE r \in entitled'
    BY <1>5, <1>a
    DEF StartManager, Monitored, Involved, Running, TypeOK, history
  <1>6. ASSUME NEW p \in Procs, StartFails(p) PROVE r \in entitled'
    BY <1>6, <1>a
    DEF StartFails, Involved, Running, TypeOK, labelVars, configVars, recVars
  <1>7. ASSUME NEW p \in Procs, Kill(p) PROVE r \in entitled'
    BY <1>7, <1>a DEF Kill, Involved, Running, TypeOK
  <1>8. ASSUME NEW p \in Procs, DeliverQSec(p) PROVE r \in entitled'
    BY <1>8, <1>a
    DEF DeliverQSec, Monitored, Involved, Running, TypeOK, procVars,
        labelVars, configVars, history
  <1>9. ASSUME NEW p \in Procs, Resync(p) PROVE r \in entitled'
    BY <1>9, <1>a
    DEF Resync, Monitored, Involved, Running, TypeOK, procVars, labelVars,
        configVars, history
  <1>10. ASSUME NEW p \in Procs, DeliverConfig(p) PROVE r \in entitled'
    BY <1>10, <1>a
    DEF DeliverConfig, Monitored, Involved, Running, TypeOK, procVars,
        labelVars, recVars, history
  <1>11. ASSUME NEW p \in Procs, SyncLabel(p) PROVE r \in entitled'
    BY <1>11, <1>a
    DEF SyncLabel, Involved, Running, TypeOK, procVars, configVars, recVars,
        history
  <1>12. ASSUME NEW p \in Procs, SyncSecret(p) PROVE r \in entitled'
    BY <1>12, <1>a
    DEF SyncSecret, Involved, Running, procVars, labelVars, configVars,
        recVars, history
  <1>13. ASSUME NEW p \in Procs, Begin(p) \/ Lookup(p) \/ StoreConflicts(p)
         PROVE  r \in entitled'
    BY <1>13, <1>a
    DEF Begin, Lookup, StoreConflicts, Retry, Leave, Involved, Running,
        TypeOK, procVars, labelVars, configVars, history
  <1>14. ASSUME NEW p \in Procs, Store(p) PROVE r \in entitled'
    BY <1>14, <1>a
    DEF Store, Accepted, Involved, Running, TypeOK, procVars, labelVars,
        configVars
  <1>15. ASSUME NEW p \in Procs, UpdateStatus(p) PROVE r \in entitled'
    BY <1>15, <1>a
    DEF UpdateStatus, Involved, Running, TypeOK, procVars, labelVars,
        configVars, history
  <1>16. ASSUME NEW p \in Procs, ResetGenerated(p) PROVE r \in entitled'
    BY <1>16, <1>a
    DEF ResetGenerated, Involved, Running, TypeOK, procVars, labelVars
  <1> QED
    BY <1>1, <1>2, <1>3, <1>4, <1>5, <1>6, <1>7, <1>8, <1>9, <1>10, <1>11,
       <1>12, <1>13, <1>14, <1>15, <1>16
    DEF Next, Start, Reconcile

\* GeneratesWhereWatched: whatever lets a process write a secret or reset a
\* status began with an event in a namespace that carried its ID, however many
\* processes there are and however often the namespace changes hands.
THEOREM GenerationSeparate == Spec => []GeneratesWhereWatched
  <1>1. Init => Entitled
    BY DEF Init, Entitled, Involved, Running
  <1>2. TypeOK /\ Entitled => GeneratesWhereWatched
    BY DEF TypeOK, Entitled, Involved, GeneratesWhereWatched, Running
  <1> QED
    BY <1>1, <1>2, EntitledStep, TypeCorrect, PTL DEF Spec

--------------------------------------------------------------------------
(* Rotation.                                                               *)

\* A status update that would be accepted follows new credentials.
Answerable ==
  \A p \in freshQSec : rec[p] = "status" => secret # "old"

\* Each answer to a rotation follows credentials made after it.
LEMMA RotatedStep ==
  TypeOK /\ Answerable /\ RotatedAway /\ [Next]_vars
    => Answerable' /\ RotatedAway'
  <1> SUFFICES ASSUME TypeOK, Answerable, RotatedAway, [Next]_vars
               PROVE  Answerable' /\ RotatedAway'
    OBVIOUS
  <1> USE DEF Answerable, RotatedAway
  <1>1. CASE UNCHANGED vars
    BY <1>1 DEF vars, qsecVars, secretVars, recVars
  <1>2. CASE LabelNamespace \/ CreateConfig
    BY <1>2 DEF LabelNamespace, CreateConfig, qsecVars, secretVars, recVars
  <1>3. CASE CreateQSec
    BY <1>3 DEF CreateQSec, PutQSec, NewQSec, secretVars
  <1>4. ASSUME NEW p \in Procs, ApplyCRDs(p) \/ StartFails(p)
        PROVE  Answerable' /\ RotatedAway'
    BY <1>4 DEF ApplyCRDs, StartFails, qsecVars, secretVars, recVars
  <1>5. ASSUME NEW p \in Procs, StartManager(p)
        PROVE  Answerable' /\ RotatedAway'
    BY <1>5 DEF StartManager
  <1>6. ASSUME NEW p \in Procs, Kill(p)
        PROVE  Answerable' /\ RotatedAway'
    BY <1>6 DEF Kill, TypeOK
  <1>7. ASSUME NEW p \in Procs,
               DeliverQSec(p) \/ Resync(p) \/ DeliverConfig(p)
                 \/ SyncLabel(p) \/ SyncSecret(p)
        PROVE  Answerable' /\ RotatedAway'
    BY <1>7
    DEF DeliverQSec, Resync, DeliverConfig, SyncLabel, SyncSecret, qsecVars,
        secretVars, recVars
  <1>8. ASSUME NEW p \in Procs, Begin(p) \/ Lookup(p) \/ StoreConflicts(p)
        PROVE  Answerable' /\ RotatedAway'
    BY <1>8
    DEF Begin, Lookup, StoreConflicts, Retry, Leave, TypeOK, qsecVars,
        secretVars
  <1>9. ASSUME NEW p \in Procs, Store(p)
        PROVE  Answerable' /\ RotatedAway'
    BY <1>9 DEF Store
  <1>10. ASSUME NEW p \in Procs, UpdateStatus(p)
         PROVE  Answerable' /\ RotatedAway'
    BY <1>10
    DEF UpdateStatus, StatusAccepted, PutQSec, TypeOK, qsecVars, secretVars
  <1>11. ASSUME NEW p \in Procs, ResetGenerated(p)
         PROVE  Answerable' /\ RotatedAway'
    BY <1>11 DEF ResetGenerated, PutQSec, TypeOK, QSec, qsecVars
  <1> QED
    BY <1>1, <1>2, <1>3, <1>4, <1>5, <1>6, <1>7, <1>8, <1>9, <1>10, <1>11
    DEF Next, Start, Reconcile

\* When the status says generated again the credentials that were to be
\* rotated are gone, whichever of the operators answered.
THEOREM RotationEffective == Spec => []RotatedAway
  <1>1. Init => Answerable /\ RotatedAway
    BY DEF Init, Answerable, RotatedAway, NoQSec
  <1> QED
    BY <1>1, RotatedStep, TypeCorrect, PTL DEF Spec
=============================================================================
