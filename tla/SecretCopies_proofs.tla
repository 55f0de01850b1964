------------------------ MODULE SecretCopies_proofs ------------------------
(***************************************************************************)
(* Proofs, for any number of copies, data and labels, that the copy        *)
(* controller keeps to the namespaces that ask for copies, that Copied is  *)
(* only answered by a reconcile that began after it was asked for, and     *)
(* that the copies have the latest content when all is done.               *)
(***************************************************************************)
EXTENDS SecretCopies, TLAPS

\* Taking the head off a sequence leaves a sequence.
LEMMA HeadTail ==
  ASSUME NEW S, NEW s \in Seq(S), s # <<>>
  PROVE  Head(s) \in S /\ Tail(s) \in Seq(S)
  OBVIOUS

\* Spending leaves the counters natural numbers.
LEMMA SpendType ==
  ASSUME NEW b \in Bounded, spent \in [Bounded -> Nat], Spend(b)
  PROVE  spent' \in [Bounded -> Nat]
  BY CopiesAssumption DEF Spend

\* New data comes from the numbers there are.
LEMMA NewVersionType ==
  ASSUME VersionsLeft # {}
  PROVE  NewVersion \in Nat
  <1>1. \E d \in Versions : d \notin VersionsInUse
    BY DEF VersionsLeft
  <1> HIDE DEF VersionsInUse
  <1> QED
    BY <1>1, CopiesAssumption DEF NewVersion

\* No schema keeps what does not fit, or makes Copied true.
LEMMA StoredType ==
  ASSUME NEW o \in QSec
  PROVE  Stored(o) \in QSec /\ Stored(o).copied \in {o.copied, "nil"}
  BY DEF Stored, QSec, OptionalBool

\* Writing the QuarksSecret keeps the types and makes no copy current.
LEMMA PutQSecType ==
  ASSUME TypeOK, NEW o \in QSec, NEW w, PutQSec(o, w)
  PROVE  /\ qsec' \in QSec /\ qsecCache' \in QSec /\ qsecWatch' \in Seq(QSec)
         /\ fresh' \subseteq fresh
  <1>1. CASE o = qsec
    BY <1>1 DEF TypeOK, PutQSec, qsecVars
  <1>2. CASE o # qsec
    <2>1. Append(qsecWatch, o) \in Seq(QSec)
      BY DEF TypeOK
    <2>2. fresh' \subseteq fresh
      BY <1>2 DEF PutQSec
    <2> QED
      BY <1>2, <2>1, <2>2 DEF TypeOK, PutQSec
  <1> QED
    BY <1>1, <1>2

\* What is not a copy yet holds nothing of the source.
LEMMA OwnType ==
  \A t \in {NoTarget, Own(TRUE), Own(FALSE)} :
    t \in Target /\ t.data = 0 /\ t.labels = 0
  <1>1. NoTarget \in Target /\ NoTarget.data = 0 /\ NoTarget.labels = 0
    BY CopiesAssumption DEF NoTarget, Target
  <1>2. \A b \in BOOLEAN :
          Own(b) \in Target /\ Own(b).data = 0 /\ Own(b).labels = 0
    BY <1>1 DEF Own, Target
  <1> QED
    BY <1>1, <1>2

\* What users put in other namespaces are hosts and targets.
LEMMA GuestType ==
  ASSUME NEW g \in Guests
  PROVE  /\ g[1] \in Host /\ g[2] \in Target
         /\ g[2].data = 0 /\ g[2].labels = 0
  <1>1. g \in Host \X {NoTarget, Own(TRUE), Own(FALSE)}
    BY CopiesAssumption
  <1>2. g[2] \in {NoTarget, Own(TRUE), Own(FALSE)} /\ g[1] \in Host
    BY <1>1
  <1> QED
    BY <1>2, OwnType

\* So is what is there at first.
LEMMA SetupType ==
  ASSUME NEW g \in Setups, NEW i \in Copies
  PROVE  /\ g[i][1] \in Host /\ g[i][2] \in Target
         /\ g[i][2].data = 0 /\ g[i][2].labels = 0
  <1>1. g[i] \in Host \X {NoTarget, Own(TRUE), Own(FALSE)}
    BY CopiesAssumption
  <1>2. g[i][2] \in {NoTarget, Own(TRUE), Own(FALSE)} /\ g[i][1] \in Host
    BY <1>1
  <1> QED
    BY <1>2, OwnType

\* The initial state has the types.
LEMMA InitType == Init => TypeOK
  <1> SUFFICES ASSUME Init PROVE TypeOK
    OBVIOUS
  <1>1. qsec \in QSec /\ qsecCache \in QSec /\ qsecWatch \in Seq(QSec)
    <2>1. [here |-> TRUE, generated |-> "true", copied |-> "false",
           labels |-> 0, spec |-> 0] \in QSec
      BY CopiesAssumption DEF QSec, OptionalBool
    <2> QED
      BY <2>1, StoredType DEF Init
  <1>0. schema \in {"operator", "chart"}
    BY CopiesAssumption DEF Init
  <1>2. source \in Source /\ sourceCache \in Source
    BY CopiesAssumption DEF Init, Source
  <1>3. host \in [Copies -> Host] /\ target \in [Copies -> Target]
    BY SetupType DEF Init
  <1>4. gen \in Generating /\ copy \in Copying /\ meta \in Labelling
    BY CopiesAssumption
    DEF Init, Generating, Copying, Labelling, GIdle, CIdle, MIdle
  <1>5. spent \in [Bounded -> Nat]
    BY DEF Init
  <1> QED
    BY <1>0, <1>1, <1>2, <1>3, <1>4, <1>5
    DEF Init, TypeOK, GIdle, CIdle, MIdle

\* No step of a user breaks the types.
LEMMA UserType ==
  ASSUME TypeOK, User
  PROVE  TypeOK'
  <1>1. CASE EditSource
    <2>1. [source EXCEPT !.kind = "user", !.data = NewVersion] \in Source
      BY <1>1, NewVersionType DEF EditSource, TypeOK, Source
    <2> QED
      BY <1>1, <2>1, SpendType
      DEF EditSource, PutSource, TypeOK, Bounded, qsecVars, guestVars, history
  <1>2. CASE DropSource
    <2>1. [source EXCEPT !.kind = "none"] \in Source
      BY DEF TypeOK, Source
    <2> QED
      BY <1>2, <2>1, SpendType
      DEF DropSource, PutSource, TypeOK, Bounded, qsecVars, guestVars, history
  <1>3. ASSUME NEW o \in QSec, NEW w, NEW b \in Bounded,
               PutQSec(o, w), Spend(b),
               UNCHANGED <<sourceVars, guestVars, synced, work, gen, copy,
                           meta, history>>
        PROVE  TypeOK'
    BY <1>3, PutQSecType, SpendType
    DEF TypeOK, sourceVars, guestVars, history
  <1>4. CASE EditQSec
    <2>1. \A l \in Labels : [qsec EXCEPT !.labels = l] \in QSec
      BY DEF TypeOK, QSec
    <2>2. [qsec EXCEPT !.spec = @ + 1] \in QSec
      <3>1. qsec.spec + 1 \in Nat
        BY DEF TypeOK, QSec
      <3> QED
        BY <3>1 DEF TypeOK, QSec
    <2> QED
      <3>1. CASE /\ Spend("labels")
                 /\ \E l \in Labels \ {qsec.labels} :
                      PutQSec([qsec EXCEPT !.labels = l], "user")
        BY <1>3, <1>4, <2>1, <3>1 DEF EditQSec, Bounded
      <3>2. CASE /\ Spend("spec")
                 /\ PutQSec([qsec EXCEPT !.spec = @ + 1], "user")
        BY <1>3, <1>4, <2>2, <3>2 DEF EditQSec, Bounded
      <3> QED
        BY <1>4, <3>1, <3>2 DEF EditQSec
  <1>5. CASE DeleteQSec
    <2>1. [qsec EXCEPT !.here = FALSE] \in QSec
      BY DEF TypeOK, QSec
    <2> QED
      BY <1>3, <1>5, <2>1 DEF DeleteQSec, Bounded
  <1>6. CASE Rotate
    <2>1. [qsec EXCEPT !.generated = "false"] \in QSec
      BY DEF TypeOK, QSec, OptionalBool
    <2> QED
      BY <1>3, <1>6, <2>1 DEF Rotate, Bounded
  <1>7. ASSUME NEW i \in Copies, ChangeGuest(i) PROVE TypeOK'
    BY <1>7, GuestType, SpendType
    DEF ChangeGuest, TypeOK, Bounded, qsecVars, sourceVars
  <1> QED
    BY <1>1, <1>2, <1>4, <1>5, <1>6, <1>7 DEF User

\* No informer and no restart breaks the types.
LEMMA InformerType ==
  ASSUME TypeOK, Kubernetes \/ Restart
  PROVE  TypeOK'
  <1>1. CASE DeliverQSec
    <2>1. Head(qsecWatch) \in QSec /\ Tail(qsecWatch) \in Seq(QSec)
      BY <1>1, HeadTail DEF DeliverQSec, TypeOK
    <2>2. work' \subseteq {"gen", "copy", "meta"}
      BY <1>1 DEF DeliverQSec, TypeOK
    <2> QED
      BY <1>1, <2>1, <2>2
      DEF DeliverQSec, TypeOK, sourceVars, guestVars, history
  <1>2. CASE DeliverSource
    BY <1>2 DEF DeliverSource, TypeOK, qsecVars, guestVars, history
  <1>3. ASSUME NEW i \in Copies, DeliverGuest(i) PROVE TypeOK'
    BY <1>3 DEF DeliverGuest, TypeOK, qsecVars, sourceVars, history
  <1>4. CASE Restart
    <2>1. GIdle \in Generating /\ CIdle \in Copying /\ MIdle \in Labelling
      BY CopiesAssumption
      DEF Generating, Copying, Labelling, GIdle, CIdle, MIdle
    <2> QED
      <3>1. spent' \in [Bounded -> Nat]
        BY <1>4, SpendType DEF Restart, TypeOK, Bounded
      <3>2. CIdle.pc = "idle"
        BY DEF CIdle
      <3>3. /\ qsecWatch' \in Seq(QSec)
            /\ work' \subseteq {"gen", "copy", "meta"}
            /\ gen' \in Generating /\ copy' \in Copying /\ meta' \in Labelling
            /\ copy'.pc = "idle"
        BY <1>4, <2>1, <3>2 DEF Restart
      <3> QED
        BY <1>4, <3>1, <3>3 DEF Restart, TypeOK, history
  <1> QED
    BY <1>1, <1>2, <1>3, <1>4 DEF Kubernetes

\* No reconcile of the QuarksSecret controller breaks the types.
LEMMA GenerateType ==
  ASSUME TypeOK, Generate \/ GenerateFails
  PROVE  TypeOK'
  <1> USE DEF qsecVars, sourceVars, guestVars, history
  <1>a. GIdle \in Generating
    BY CopiesAssumption DEF Generating, GIdle
  <1>b. \A pc \in {"lookup", "create", "update", "status"} :
          GGoto(pc) => gen' \in Generating /\ gen'.pc = pc
    BY DEF GGoto, TypeOK, Generating
  <1>1. CASE BeginGenerate
    <2>1. [pc |-> "check", labels |-> qsecCache.labels] \in Generating
      BY DEF TypeOK, QSec, Generating
    <2>2. CASE qsecCache.here
      <3>1. fresh' \subseteq fresh \cup {"genQSec"}
        BY <1>1, <2>2 DEF BeginGenerate, Current
      <3>2. gen' \in Generating /\ gen'.pc = "check"
        BY <1>1, <2>1, <2>2 DEF BeginGenerate
      <3> QED
        BY <1>1, <3>1, <3>2 DEF BeginGenerate, TypeOK
    <2>3. CASE ~qsecCache.here
      BY <1>1, <2>3 DEF BeginGenerate, TypeOK
    <2> QED
      BY <2>2, <2>3
  <1>2. CASE GenerateLookup
    <2>1. gen' \in Generating /\ gen'.pc # "idle"
      BY <1>2, <1>b DEF GenerateLookup
    <2>2. fresh' \subseteq fresh \cup {"genSource"}
      BY <1>2 DEF GenerateLookup
    <2> QED
      BY <1>2, <2>1, <2>2 DEF GenerateLookup, TypeOK
  <1>3. CASE GenerateWrite
    <2>1. [kind |-> "generated", data |-> NewVersion, labels |-> gen.labels]
            \in Source
      BY <1>3, NewVersionType DEF GenerateWrite, TypeOK, Source, Generating
    <2> DEFINE made == [kind |-> "generated", data |-> NewVersion,
                        labels |-> gen.labels]
    <2>2. CASE /\ PutSource(made, {}) /\ GGoto("status")
               /\ UNCHANGED <<work, spent>>
      BY <1>3, <1>b, <2>1, <2>2 DEF GenerateWrite, PutSource, TypeOK
    <2>3. CASE /\ PutSource(made, {"genQSec"})
               /\ Spend("fault")
               /\ gen' = GIdle /\ work' = work \cup {"gen"}
      <3>1. spent' \in [Bounded -> Nat]
        BY <2>3, SpendType DEF TypeOK, Bounded
      <3> QED
        BY <1>3, <1>a, <2>1, <2>3, <3>1 DEF GenerateWrite, PutSource, TypeOK
    <2> QED
      BY <1>3, <2>2, <2>3 DEF GenerateWrite
  <1>4. CASE GenerateConflicts
    BY <1>4, <1>a DEF GenerateConflicts, GRetry, GLeave, TypeOK
  <1>5. CASE GenerateStatus
    <2> DEFINE Answer == Stored([qsec EXCEPT !.generated = "true",
                                             !.copied = "false"])
    <2>1. Answer \in QSec
      <3>1. [qsec EXCEPT !.generated = "true", !.copied = "false"] \in QSec
        BY DEF TypeOK, QSec, OptionalBool
      <3> QED
        BY <3>1, StoredType
    <2> HIDE DEF Answer
    <2>2. [copy EXCEPT !.latest = FALSE] \in Copying
      BY DEF TypeOK, Copying
    <2>3. CASE /\ qsec' = Answer
               /\ qsecWatch' = Append(qsecWatch, qsec')
               /\ fresh' = fresh \ {"genQSec", "copyQSec", "metaQSec"}
               /\ copy' = [copy EXCEPT !.latest = FALSE]
               /\ UNCHANGED <<qsecCache, spent>>
      BY <1>5, <1>a, <2>1, <2>2, <2>3 DEF GenerateStatus, TypeOK, Copying
    <2>4. CASE /\ IF "genQSec" \in fresh THEN Spend("fault")
                                         ELSE UNCHANGED spent
               /\ fresh' = fresh \ {"genQSec"}
               /\ UNCHANGED <<qsecVars, copy>>
      <3>1. spent' \in [Bounded -> Nat]
        BY <2>4, SpendType DEF TypeOK, Bounded
      <3> QED
        BY <1>5, <1>a, <2>4, <3>1 DEF GenerateStatus, TypeOK
    <2> QED
      BY <1>5, <2>3, <2>4 DEF GenerateStatus, Answer
  <1>6. CASE GenerateCheck
    <2>1. spent' \in [Bounded -> Nat]
      BY <1>6, SpendType DEF GenerateCheck, TypeOK, Bounded
    <2> QED
      BY <1>6, <1>b, <2>1 DEF GenerateCheck, TypeOK
  <1>7. CASE GenerateFails
    <2>1. spent' \in [Bounded -> Nat]
      BY <1>7, SpendType DEF GenerateFails, TypeOK, Bounded
    <2> QED
      BY <1>7, <1>a, <2>1 DEF GenerateFails, GRetry, GLeave, TypeOK
  <1> QED
    BY <1>1, <1>2, <1>3, <1>4, <1>5, <1>6, <1>7 DEF Generate

\* No reconcile of the secret metadata controller breaks the types.
LEMMA LabelsType ==
  ASSUME TypeOK, ReconcileLabels
  PROVE  TypeOK'
  <1> USE DEF qsecVars, sourceVars, guestVars, history
  <1>a. MIdle \in Labelling
    BY CopiesAssumption DEF Labelling, MIdle
  <1>1. CASE BeginLabels
    <2>1. [pc |-> "source", labels |-> qsecCache.labels] \in Labelling
      BY DEF TypeOK, QSec, Labelling
    <2>2. CASE qsecCache.here
      <3>1. fresh' \subseteq fresh \cup {"metaQSec"}
        BY <1>1, <2>2 DEF BeginLabels, Current
      <3>2. meta' \in Labelling /\ meta'.pc = "source"
        BY <1>1, <2>1, <2>2 DEF BeginLabels
      <3> QED
        BY <1>1, <3>1, <3>2 DEF BeginLabels, TypeOK
    <2>3. CASE ~qsecCache.here
      BY <1>1, <2>3 DEF BeginLabels, TypeOK
    <2> QED
      BY <2>2, <2>3
  <1>2. CASE CompareLabels
    <2>1. [meta EXCEPT !.pc = "write"] \in Labelling
      BY DEF TypeOK, Labelling
    <2>2. [meta EXCEPT !.pc = "write"].pc = "write"
      BY DEF TypeOK, Labelling
    <2> QED
      BY <1>2, <1>a, <2>1, <2>2 DEF CompareLabels, MRetry, MLeave, TypeOK
  <1>3. CASE WriteLabels
    <2>1. [source EXCEPT !.labels = meta.labels] \in Source
      BY DEF TypeOK, Source, Labelling
    <2>2. [meta EXCEPT !.pc = "status"] \in Labelling
      BY DEF TypeOK, Labelling
    <2>3. [meta EXCEPT !.pc = "status"].pc = "status"
      BY DEF TypeOK, Labelling
    <2>4. spent' \in [Bounded -> Nat]
      BY <1>3, SpendType DEF WriteLabels, TypeOK, Bounded
    <2> QED
      BY <1>3, <1>a, <2>1, <2>2, <2>3, <2>4
      DEF WriteLabels, PutSource, MRetry, MLeave, TypeOK
  <1>4. CASE ResetCopied
    <2>1. Reset \in QSec
      <3>1. [qsec EXCEPT !.copied = "false"] \in QSec
        BY DEF TypeOK, QSec, OptionalBool
      <3> QED
        BY <3>1, StoredType DEF Reset
    <2>2. /\ qsec' \in QSec /\ qsecCache' \in QSec /\ qsecWatch' \in Seq(QSec)
          /\ fresh' \subseteq fresh /\ "metaQSec" \notin fresh'
      <3>1. CASE Reset # qsec /\ PutQSec(Reset, "user")
        BY <2>1, <3>1 DEF PutQSec, TypeOK
      <3>2. CASE fresh' = fresh \ {"metaQSec"} /\ UNCHANGED qsecVars
        BY <3>2 DEF TypeOK
      <3> QED
        BY <1>4, <3>1, <3>2 DEF ResetCopied
    <2>3. /\ copy' \in Copying /\ copy'.pc = copy.pc /\ copy'.i = copy.i
      BY <1>4 DEF ResetCopied, TypeOK, Copying
    <2>4. spent' \in [Bounded -> Nat]
      BY <1>4, SpendType DEF ResetCopied, TypeOK, Bounded
    <2>5. work' \subseteq {"gen", "copy", "meta"}
      BY <1>4 DEF ResetCopied, TypeOK
    <2> QED
      BY <1>4, <1>a, <2>2, <2>3, <2>4, <2>5 DEF ResetCopied, TypeOK
  <1> QED
    BY <1>1, <1>2, <1>3, <1>4 DEF ReconcileLabels

\* No reconcile of the copy controller breaks the types.
LEMMA CopyType ==
  ASSUME TypeOK, ReconcileCopy \/ CopyFails
  PROVE  TypeOK'
  <1> USE DEF qsecVars, sourceVars, guestVars, history
  <1>a. CIdle \in Copying /\ CIdle.pc = "idle"
    BY CopiesAssumption DEF Copying, CIdle
  <1>b. \A pc \in {"source", "update", "lookup", "create", "patch", "done"} :
          LET c == [copy EXCEPT !.pc = pc]
          IN c \in Copying /\ c.pc = pc /\ c.i = copy.i
    BY DEF TypeOK, Copying
  <1>c. LET c == [copy EXCEPT !.pc = "source", !.i = @ + 1]
        IN c \in Copying /\ c.pc = "source" /\ c.i > 0
    <2>1. copy.i + 1 \in Nat /\ copy.i + 1 > 0
      BY DEF TypeOK, Copying
    <2> QED
      BY <2>1 DEF TypeOK, Copying
  <1>d. \A b \in Bounded : Spend(b) => spent' \in [Bounded -> Nat]
    BY SpendType DEF TypeOK
  <1>1. CASE BeginCopy
    <2>1. CASE qsecCache.here
      <3>1. fresh' \subseteq fresh \cup {"copyQSec"}
        BY <1>1, <2>1 DEF BeginCopy, Current
      <3>2. copy' \in Copying /\ copy'.pc = "announce" /\ copy'.i = 1
        <4>1. copy' = [CIdle EXCEPT !.pc = "announce", !.i = 1,
                                    !.latest = TRUE]
          BY <1>1, <2>1 DEF BeginCopy
        <4> QED
          BY <1>a, <4>1 DEF Copying
      <3> QED
        BY <1>1, <3>1, <3>2 DEF BeginCopy, TypeOK
    <2>2. CASE ~qsecCache.here
      BY <1>1, <2>2 DEF BeginCopy, TypeOK
    <2> QED
      BY <2>1, <2>2
  <1>2. ASSUME NEW v \in {"false", "true"},
               SetCopied(v) \/ UNCHANGED <<qsecVars, fresh>>
        PROVE  /\ qsec' \in QSec /\ qsecCache' \in QSec
               /\ qsecWatch' \in Seq(QSec) /\ fresh' \subseteq fresh
    <2>1. Stored([qsec EXCEPT !.copied = v]) \in QSec
      <3>1. [qsec EXCEPT !.copied = v] \in QSec
        BY DEF TypeOK, QSec, OptionalBool
      <3> QED
        BY <3>1, StoredType
    <2> QED
      BY <1>2, <2>1, PutQSecType DEF SetCopied, TypeOK
  <1>3. CASE AnnounceCopies
    <2>1. /\ qsec' \in QSec /\ qsecCache' \in QSec
          /\ qsecWatch' \in Seq(QSec) /\ fresh' \subseteq fresh
      BY <1>2, <1>3 DEF AnnounceCopies
    <2>2. spent' \in [Bounded -> Nat]
      BY <1>3, <1>d DEF AnnounceCopies, TypeOK, Bounded
    <2>3. copy' \in Copying /\ copy'.pc = "source" /\ copy'.i > 0
      BY <1>3, <1>b DEF AnnounceCopies, CGoto, TypeOK
    <2> QED
      BY <1>3, <2>1, <2>2, <2>3 DEF AnnounceCopies, TypeOK
  <1>4. CASE FinishCopies
    <2>1. /\ qsec' \in QSec /\ qsecCache' \in QSec
          /\ qsecWatch' \in Seq(QSec) /\ fresh' \subseteq fresh
      BY <1>2, <1>4 DEF FinishCopies
    <2>2. spent' \in [Bounded -> Nat]
      BY <1>4, <1>d DEF FinishCopies, TypeOK, Bounded
    <2>3. copy' \in Copying /\ copy'.pc = "done" /\ copy'.i > 0
      BY <1>4, <1>b DEF FinishCopies, CGoto, TypeOK
    <2> QED
      BY <1>4, <2>1, <2>2, <2>3 DEF FinishCopies, TypeOK
  <1>5. CASE CRetry /\ UNCHANGED <<qsecVars, sourceVars, guestVars, synced, gen,
                                  meta, history>>
             /\ spent' \in [Bounded -> Nat]
    BY <1>5, <1>a DEF CRetry, CLeave, TypeOK
  <1>6. CASE ReadSource
    <2>1. CASE sourceCache.kind = "none"
      BY <1>5, <1>6, <2>1 DEF ReadSource, TypeOK
    <2>2. CASE sourceCache.kind # "none"
      <3>1. copy' \in Copying /\ copy'.pc = "validate" /\ copy'.i = copy.i
        BY <1>6, <2>2 DEF ReadSource, TypeOK, Copying, Source
      <3>2. copy.i \in Copies
        BY <1>6, CopiesAssumption DEF ReadSource, TypeOK, Copying, Copies
      <3> QED
        BY <1>6, <2>2, <3>1, <3>2 DEF ReadSource, TypeOK
    <2> QED
      BY <2>1, <2>2
  <1>7. CASE ValidateTarget
    <2>1. /\ copy' \in Copying /\ copy'.i > 0
          /\ \/ copy'.pc = "source"
             \/ copy'.pc \in {"update", "lookup"} /\ copy'.i = copy.i
      BY <1>7, <1>b, <1>c
      DEF ValidateTarget, Validate, NextCopy, CGoto, TypeOK
    <2> QED
      BY <1>7, <2>1 DEF ValidateTarget, TypeOK
  <1>8. /\ copy.pc \in {"update", "create", "patch"} => CopyOf \in Target
        /\ copy.pc \in {"create", "patch"} => Patched \in Target
    <2>1. copy.pc \in {"update", "create", "patch"} => CopyOf \in Target
      BY DEF TypeOK, CopyOf, Target, Copying
    <2>2. copy.pc = "patch" =>
            [target[copy.i] EXCEPT !.invites = TRUE, !.labels = copy.labels]
              \in Target
      <3>1. copy.pc = "patch" => target[copy.i] \in Target
        BY DEF TypeOK
      <3>2. copy.labels \in Labels
        BY DEF TypeOK, Copying
      <3> QED
        BY <3>1, <3>2 DEF Target
    <2> QED
      BY <2>1, <2>2 DEF Patched
  <1>9. CASE UpdateCopy
    <2>1. copy.i \in Copies /\ CopyOf \in Target
      BY <1>8, <1>9 DEF UpdateCopy, TypeOK
    <2>2. CASE ~target[copy.i].here
      BY <1>5, <1>9, <2>2 DEF UpdateCopy, TypeOK
    <2>3. CASE /\ PutTarget(copy.i, CopyOf, {})
               /\ NextCopy /\ UNCHANGED <<work, spent>>
               /\ replaced' = replaced \cup {copy.i}
      BY <1>9, <1>c, <2>1, <2>3 DEF UpdateCopy, PutTarget, NextCopy, TypeOK
    <2>4. CASE /\ PutTarget(copy.i, CopyOf, {"copyQSec"})
               /\ Spend("fault")
               /\ copy' = CIdle /\ work' = work \cup {"copy"}
               /\ replaced' = replaced \cup {copy.i}
      <3>1. spent' \in [Bounded -> Nat]
        BY <1>d, <2>4 DEF Bounded
      <3> QED
        BY <1>9, <1>a, <2>1, <2>4, <3>1 DEF UpdateCopy, PutTarget, TypeOK
    <2> QED
      BY <1>9, <2>2, <2>3, <2>4 DEF UpdateCopy
  <1>10. CASE LookupCopy
    <2>1. fresh' \subseteq fresh \cup {"target"}
      BY <1>10 DEF LookupCopy
    <2>2. /\ copy' \in Copying /\ copy'.i > 0
          /\ \/ copy'.pc = "source"
             \/ copy'.pc \in {"create", "patch"} /\ copy'.i = copy.i
      BY <1>10, <1>b, <1>c DEF LookupCopy, NextCopy, CGoto, TypeOK
    <2> QED
      BY <1>10, <2>1, <2>2 DEF LookupCopy, TypeOK
  <1>11. CASE StoreCopy
    <2>1. copy.i \in Copies /\ Patched \in Target
      BY <1>8, <1>11 DEF StoreCopy, CopyAccepted, TypeOK
    <2>2. CASE /\ PutTarget(copy.i, Patched, {})
               /\ NextCopy /\ UNCHANGED <<work, spent>>
      BY <1>11, <1>c, <2>1, <2>2 DEF StoreCopy, PutTarget, NextCopy, TypeOK
    <2>3. CASE /\ PutTarget(copy.i, Patched, {"copyQSec"})
               /\ Spend("fault")
               /\ copy' = CIdle /\ work' = work \cup {"copy"}
      <3>1. spent' \in [Bounded -> Nat]
        BY <1>d, <2>3 DEF Bounded
      <3> QED
        BY <1>11, <1>a, <2>1, <2>3, <3>1 DEF StoreCopy, PutTarget, TypeOK
    <2> QED
      BY <1>11, <2>2, <2>3 DEF StoreCopy
  <1>12. CASE CopyConflicts
    BY <1>5, <1>12 DEF CopyConflicts, TypeOK
  <1>13. CASE EndCopies
    BY <1>13, <1>a DEF EndCopies, CLeave, TypeOK
  <1>14. CASE CopyFails
    <2>1. spent' \in [Bounded -> Nat]
      BY <1>14, <1>d DEF CopyFails, Bounded
    <2> QED
      BY <1>5, <1>14, <2>1 DEF CopyFails
  <1> QED
    BY <1>1, <1>3, <1>4, <1>6, <1>7, <1>9, <1>10, <1>11, <1>12, <1>13, <1>14
    DEF ReconcileCopy

\* Every step keeps the types.
LEMMA NextType == TypeOK /\ [Next]_vars => TypeOK'
  <1> SUFFICES ASSUME TypeOK, [Next]_vars PROVE TypeOK'
    OBVIOUS
  <1>1. CASE UNCHANGED vars
    BY <1>1 DEF vars, TypeOK, qsecVars, sourceVars, guestVars, history
  <1>2. CASE Next
    BY <1>2, UserType, InformerType, GenerateType, CopyType, LabelsType
    DEF Next
  <1> QED
    BY <1>1, <1>2

\* Every variable keeps its type, and what the copy controller checks or writes
\* is a copy in the spec.
THEOREM TypeCorrect == Spec => []TypeOK
  BY InitType, NextType, PTL DEF Spec

--------------------------------------------------------------------------
(* Namespaces that ask for nothing.                                        *)

\* What is written to has asked for it: an invitation is remembered while it
\* stands, or while the caches show it, and a copy reconcile that passed the
\* validation saw one.
Guarded ==
  /\ StrangersUntouched
  /\ \A i \in Copies : Invites(host[i], target[i]) => i \in invited
  /\ \A i \in Copies : Invites(hostCache[i], targetCache[i]) => i \in invited
  /\ copy.pc \in {"update", "lookup", "create", "patch"} => copy.i \in invited

\* A reconcile that keeps or leaves its copy leaves the guard standing, if
\* nothing in the other namespaces changes.
LEMMA GuardKept ==
  ASSUME Guarded, UNCHANGED <<guestVars, invited>>,
         copy'.pc \in {"update", "lookup", "create", "patch"} =>
           copy'.i \in invited
  PROVE  Guarded'
  BY DEF Guarded, StrangersUntouched, Invites, guestVars

\* Only the copy controller, for a copy that is invited, and the users write in
\* the other namespaces.
LEMMA GuardStep == TypeOK /\ Guarded /\ [Next]_vars => Guarded'
  <1> SUFFICES ASSUME TypeOK, Guarded, [Next]_vars PROVE Guarded'
    OBVIOUS
  <1> USE DEF qsecVars, sourceVars, guestVars, history
  <1>a. copy.pc \in {"update", "lookup", "create", "patch"} =>
          copy.i \in invited
    BY DEF Guarded
  <1>b. CIdle.pc = "idle"
    BY DEF CIdle
  <1>c. /\ \A pc \in {"source", "update", "lookup", "create", "patch", "done"} :
             LET c == [copy EXCEPT !.pc = pc]
             IN c.pc = pc /\ c.i = copy.i
        /\ [copy EXCEPT !.pc = "source", !.i = @ + 1].pc = "source"
        /\ LET c == [copy EXCEPT !.latest = FALSE]
           IN c.pc = copy.pc /\ c.i = copy.i
    BY DEF TypeOK, Copying
  <1>1. CASE UNCHANGED vars
    BY <1>1, <1>a, GuardKept DEF vars
  <1>2. CASE EditSource \/ DropSource \/ EditQSec \/ DeleteQSec \/ Rotate
    BY <1>2, <1>a, GuardKept
    DEF EditSource, DropSource, EditQSec, DeleteQSec, Rotate
  <1>3. ASSUME NEW i \in Copies, ChangeGuest(i) PROVE Guarded'
    <2>1. /\ invited \subseteq invited'
          /\ UNCHANGED <<hostCache, targetCache, copy>>
          /\ \A j \in Copies \ {i} :
               host'[j] = host[j] /\ target'[j] = target[j]
      BY <1>3 DEF ChangeGuest, TypeOK
    <2>2. /\ target'[i].data = 0 /\ target'[i].labels = 0
          /\ Invites(host'[i], target'[i]) => i \in invited'
      BY <1>3, GuestType DEF ChangeGuest, TypeOK
    <2> QED
      BY <2>1, <2>2 DEF Guarded, StrangersUntouched, Invites
  <1>4. CASE DeliverQSec \/ DeliverSource
    BY <1>4, <1>a, GuardKept DEF DeliverQSec, DeliverSource
  <1>5. ASSUME NEW i \in Copies, DeliverGuest(i) PROVE Guarded'
    BY <1>5 DEF DeliverGuest, Guarded, StrangersUntouched, Invites, TypeOK
  <1>6. CASE Restart
    BY <1>6, <1>b DEF Restart, Guarded, StrangersUntouched, Invites
  <1>7. CASE Generate \/ GenerateFails
    <2>1. copy'.pc = copy.pc /\ copy'.i = copy.i
      BY <1>7, <1>c
      DEF Generate, BeginGenerate, GenerateCheck, GenerateLookup,
          GenerateWrite, GenerateConflicts, GenerateStatus, GenerateFails
    <2>2. UNCHANGED <<guestVars, invited>>
      BY <1>7
      DEF Generate, BeginGenerate, GenerateCheck, GenerateLookup,
          GenerateWrite, GenerateConflicts, GenerateStatus, GenerateFails
    <2> QED
      BY <1>a, <2>1, <2>2, GuardKept
  <1>8. CASE ReconcileLabels
    <2>1. copy'.pc = copy.pc /\ copy'.i = copy.i
      BY <1>8, <1>c
      DEF ReconcileLabels, BeginLabels, CompareLabels, WriteLabels, ResetCopied
    <2>2. UNCHANGED <<guestVars, invited>>
      BY <1>8
      DEF ReconcileLabels, BeginLabels, CompareLabels, WriteLabels, ResetCopied
    <2> QED
      BY <1>a, <2>1, <2>2, GuardKept
  <1>9. CASE BeginCopy
    <2>1. [CIdle EXCEPT !.pc = "announce", !.i = 1, !.latest = TRUE].pc
            = "announce"
      BY DEF CIdle
    <2> QED
      BY <1>9, <1>a, <2>1, GuardKept DEF BeginCopy
  <1>10. CASE AnnounceCopies \/ FinishCopies
    BY <1>10, <1>c, GuardKept DEF AnnounceCopies, FinishCopies, CGoto
  <1>11. CASE ReadSource
    <2>1. CASE copy' = CIdle
      BY <1>11, <1>b, <2>1, GuardKept DEF ReadSource
    <2>2. CASE copy' = [copy EXCEPT !.pc = "validate",
                                    !.data = sourceCache.data,
                                    !.labels = sourceCache.labels]
      <3>1. copy'.pc = "validate"
        BY <2>2 DEF TypeOK, Copying
      <3> QED
        BY <1>11, <3>1, GuardKept DEF ReadSource
    <2> QED
      BY <1>11, <2>1, <2>2 DEF ReadSource, CRetry, CLeave
  <1>12. CASE ValidateTarget
    <2>1. copy.i \in Copies
      BY <1>12 DEF ValidateTarget, TypeOK
    <2>2. Validate(hostCache[copy.i], targetCache[copy.i]) # "skip" =>
            copy.i \in invited
      BY <2>1 DEF Guarded, Validate, Invites
    <2>3. \/ copy'.pc = "source"
          \/ copy'.i = copy.i /\ copy.i \in invited
      BY <1>12, <1>c, <2>2 DEF ValidateTarget, Validate, NextCopy, CGoto
    <2> QED
      BY <1>12, <2>3, GuardKept DEF ValidateTarget
  <1>13. CASE UpdateCopy \/ StoreCopy
    <2>1. copy.i \in invited
      BY <1>13, <1>a DEF UpdateCopy, StoreCopy, CopyAccepted
    <2>2. copy'.pc \notin {"update", "lookup", "create", "patch"}
      BY <1>13, <1>b, <1>c DEF UpdateCopy, StoreCopy, NextCopy, CRetry, CLeave
    <2>3. /\ UNCHANGED <<host, hostCache, targetCache, invited>>
          /\ \A j \in Copies \ {copy.i} : target'[j] = target[j]
      BY <1>13 DEF UpdateCopy, StoreCopy, PutTarget, TypeOK
    <2> QED
      BY <2>1, <2>2, <2>3 DEF Guarded, StrangersUntouched, Invites
  <1>14. CASE LookupCopy
    <2>1. copy'.pc = "source" \/ (copy'.i = copy.i /\ copy.i \in invited)
      BY <1>14, <1>a, <1>c DEF LookupCopy, NextCopy, CGoto
    <2> QED
      BY <1>14, <2>1, GuardKept DEF LookupCopy
  <1>15. CASE CopyConflicts \/ EndCopies \/ CopyFails
    BY <1>15, <1>b, GuardKept
    DEF CopyConflicts, EndCopies, CopyFails, CRetry, CLeave
  <1> QED
    BY <1>1, <1>2, <1>3, <1>4, <1>5, <1>6, <1>7, <1>8, <1>9, <1>10, <1>11,
       <1>12, <1>13, <1>14, <1>15
    DEF Next, User, Kubernetes, ReconcileCopy

\* Whatever the controllers and the users do, and however late the caches are,
\* the operator writes nothing in a namespace that never asked for copies.
THEOREM CopiesByInvitation == Spec => []StrangersUntouched
  <1>1. Init => Guarded
    <2> SUFFICES ASSUME Init PROVE Guarded
      OBVIOUS
    <2>1. \A i \in Copies : target[i].data = 0 /\ target[i].labels = 0
      BY SetupType DEF Init
    <2>2. copy.pc = "idle"
      BY DEF Init, CIdle
    <2> QED
      BY <2>1, <2>2 DEF Init, Guarded, StrangersUntouched
  <1>2. Guarded => StrangersUntouched
    BY DEF Guarded
  <1> QED
    BY <1>1, <1>2, GuardStep, TypeCorrect, PTL DEF Spec

--------------------------------------------------------------------------
(* Copied.                                                                 *)

\* The status a copy reconcile may still write is one nobody has asked for
\* copies in since it was read.
Latest == "copyQSec" \in fresh => copy.latest

\* An action of another actor that leaves Copied alone.
LEMMA NotCopied ==
  ASSUME NEW o \in QSec, NEW w, PutQSec(o, w), o.copied = qsec.copied
  PROVE  qsec'.copied = qsec.copied /\ fresh' \subseteq fresh
  BY DEF PutQSec, qsecVars

\* Copied turns true only on such a status.
LEMMA LatestStep ==
  TypeOK /\ Latest /\ [Next]_vars =>
    /\ Latest'
    /\ qsec.copied # "true" /\ qsec'.copied = "true" => copy.latest
  <1> DEFINE Fine == /\ Latest'
                     /\ qsec.copied # "true" /\ qsec'.copied = "true" =>
                          copy.latest
  <1> SUFFICES ASSUME TypeOK, Latest, [Next]_vars PROVE Fine
    OBVIOUS
  <1> USE DEF qsecVars, sourceVars, guestVars, history
  <1>a. \A pc \in {"source", "update", "lookup", "create", "patch", "done"} :
          [copy EXCEPT !.pc = pc].latest = copy.latest
    BY DEF TypeOK, Copying
  <1>b. [copy EXCEPT !.pc = "source", !.i = @ + 1].latest = copy.latest
    BY DEF TypeOK, Copying
  <1>c. ASSUME qsec'.copied = qsec.copied,
               "copyQSec" \in fresh' =>
                 "copyQSec" \in fresh /\ copy'.latest = copy.latest
        PROVE  Fine
    BY <1>c DEF Latest
  <1>1. CASE UNCHANGED vars
    BY <1>1, <1>c DEF vars
  <1>2. CASE EditSource \/ DropSource
    BY <1>2, <1>c DEF EditSource, DropSource, PutSource
  <1>3. CASE EditQSec \/ DeleteQSec \/ Rotate
    <2>1. \A l \in Labels : LET o == [qsec EXCEPT !.labels = l]
                            IN o \in QSec /\ o.copied = qsec.copied
      BY DEF TypeOK, QSec
    <2>2. LET o == [qsec EXCEPT !.spec = @ + 1]
          IN o \in QSec /\ o.copied = qsec.copied
      <3>1. qsec.spec + 1 \in Nat
        BY DEF TypeOK, QSec
      <3> QED
        BY <3>1 DEF TypeOK, QSec
    <2>3. LET o == [qsec EXCEPT !.here = FALSE]
          IN o \in QSec /\ o.copied = qsec.copied
      BY DEF TypeOK, QSec
    <2>4. LET o == [qsec EXCEPT !.generated = "false"]
          IN o \in QSec /\ o.copied = qsec.copied
      BY DEF TypeOK, QSec, OptionalBool
    <2>5. qsec'.copied = qsec.copied /\ fresh' \subseteq fresh
      BY <1>3, <2>1, <2>2, <2>3, <2>4, NotCopied
      DEF EditQSec, DeleteQSec, Rotate
    <2> QED
      BY <1>3, <1>c, <2>5 DEF EditQSec, DeleteQSec, Rotate
  <1>4. ASSUME NEW i \in Copies, ChangeGuest(i) \/ DeliverGuest(i) PROVE Fine
    BY <1>4, <1>c DEF ChangeGuest, DeliverGuest
  <1>5. CASE DeliverQSec \/ DeliverSource \/ Restart
    BY <1>5, <1>c DEF DeliverQSec, DeliverSource, Restart
  <1>6. CASE BeginGenerate \/ GenerateCheck \/ GenerateLookup \/ GenerateWrite
               \/ GenerateConflicts \/ GenerateFails
    BY <1>6, <1>c
    DEF BeginGenerate, GenerateCheck, GenerateLookup, GenerateWrite,
        GenerateConflicts, GenerateFails, GRetry, GLeave, PutSource, Current
  <1>7. CASE GenerateStatus
    <2>1. CASE /\ qsec' = Stored([qsec EXCEPT !.generated = "true",
                                              !.copied = "false"])
               /\ fresh' = fresh \ {"genQSec", "copyQSec", "metaQSec"}
      <3>1. LET o == [qsec EXCEPT !.generated = "true", !.copied = "false"]
            IN o \in QSec /\ o.copied = "false"
        BY DEF TypeOK, QSec, OptionalBool
      <3>2. qsec'.copied # "true"
        BY <2>1, <3>1, StoredType
      <3> QED
        BY <2>1, <3>2 DEF Latest
    <2>2. CASE fresh' = fresh \ {"genQSec"} /\ UNCHANGED <<qsecVars, copy>>
      BY <1>c, <2>2
    <2> QED
      BY <1>7, <2>1, <2>2 DEF GenerateStatus
  <1>8. CASE BeginCopy
    <2>1. CIdle \in Copying
      BY CopiesAssumption DEF CIdle, Copying
    <2>2. [CIdle EXCEPT !.pc = "announce", !.i = 1, !.latest = TRUE].latest
      BY <2>1 DEF Copying
    <2> QED
      BY <1>8, <2>2 DEF BeginCopy, Latest
  <1>9. CASE AnnounceCopies \/ FinishCopies
    <2>1. copy'.latest = copy.latest
      BY <1>9, <1>a DEF AnnounceCopies, FinishCopies, CGoto
    <2>2. \A v : SetCopied(v) =>
            /\ fresh' \subseteq fresh
            /\ qsec' # qsec => "copyQSec" \in fresh
      BY DEF SetCopied, PutQSec
    <2>3. fresh' \subseteq fresh /\ (qsec' # qsec => "copyQSec" \in fresh)
      BY <1>9, <2>2 DEF AnnounceCopies, FinishCopies
    <2> QED
      BY <2>1, <2>3 DEF Latest
  <1>10. CASE ReadSource
    <2>1. [copy EXCEPT !.pc = "validate", !.data = sourceCache.data,
                       !.labels = sourceCache.labels].latest = copy.latest
      BY DEF TypeOK, Copying
    <2> QED
      BY <1>10, <1>c, <2>1 DEF ReadSource, CRetry, CLeave
  <1>11. CASE ValidateTarget \/ LookupCopy
    <2>1. /\ copy'.latest = copy.latest /\ UNCHANGED qsec
          /\ "copyQSec" \in fresh' => "copyQSec" \in fresh
      BY <1>11, <1>a, <1>b
      DEF ValidateTarget, Validate, LookupCopy, NextCopy, CGoto
    <2> QED
      BY <1>c, <2>1
  <1>12. CASE UpdateCopy \/ StoreCopy
    BY <1>12, <1>b, <1>c
    DEF UpdateCopy, StoreCopy, PutTarget, NextCopy, CRetry, CLeave
  <1>13. CASE CopyConflicts \/ EndCopies \/ CopyFails
    BY <1>13, <1>c DEF CopyConflicts, EndCopies, CopyFails, CRetry, CLeave
  <1>14. CASE BeginLabels \/ CompareLabels \/ WriteLabels
    BY <1>14, <1>c
    DEF BeginLabels, CompareLabels, WriteLabels, MRetry, MLeave, PutSource,
        Current
  <1>15. CASE ResetCopied
    <2>1. CASE fresh' = fresh \ {"metaQSec"} /\ UNCHANGED <<qsec, copy>>
      BY <1>c, <2>1
    <2>2. CASE Reset # qsec /\ PutQSec(Reset, "user")
      <3>1. LET o == [qsec EXCEPT !.copied = "false"]
            IN o \in QSec /\ o.copied = "false"
        BY DEF TypeOK, QSec, OptionalBool
      <3>2. Reset.copied # "true"
        BY <3>1, StoredType DEF Reset
      <3>3. qsec'.copied # "true" /\ "copyQSec" \notin fresh'
        BY <2>2, <3>2 DEF PutQSec
      <3> QED
        BY <3>3 DEF Latest
    <2> QED
      BY <1>15, <2>1, <2>2 DEF ResetCopied
  <1> QED
    BY <1>1, <1>2, <1>3, <1>4, <1>5, <1>6, <1>7, <1>8, <1>9, <1>10, <1>11,
       <1>12, <1>13, <1>14, <1>15
    DEF Next, User, Kubernetes, Generate, ReconcileCopy, ReconcileLabels

\* A request for copies that was stored, that is one that changed the status, is
\* not answered by a reconcile that began before it, however many copies there
\* are and whichever of the two other controllers asked.
THEOREM StoredRequestsKept == Spec => StoredRequestKept
  <1>1. Init => Latest
    BY DEF Init, Latest
  <1>2. TypeOK /\ Latest /\ [Next]_vars =>
          [qsec.copied # "true" /\ qsec'.copied = "true" => copy.latest]_vars
    BY LatestStep
  <1> QED
    BY <1>1, <1>2, LatestStep, TypeCorrect, PTL DEF Spec, StoredRequestKept

--------------------------------------------------------------------------
(* The content of a user's secret.                                         *)

Content(s) == <<s.data, s.labels>>

\* The informers: the QuarksSecret is there for them as long as it is, and
\* while the source secret is a user's they have it or an earlier one of a user.
Cached ==
  /\ qsec.here =>
       qsecCache.here /\ \A i \in 1 .. Len(qsecWatch) : qsecWatch[i].here
  /\ 0 \in synced => sourceCache = source
  /\ None({"drop"}) =>
       /\ source.kind # "none" /\ sourceCache.kind # "none"
       /\ source.kind = "user" => sourceCache.kind = "user"

\* While users leave the other namespaces alone, the caches know who receives
\* copies, and what once received one still does.
Receives(i) == host[i] = "none" /\ target[i].here /\ target[i].invites

Places ==
  None({"guest"}) =>
    /\ hostCache = host
    /\ \A i \in Copies :
         host[i] = "none" => /\ targetCache[i].here = target[i].here
                             /\ targetCache[i].invites = target[i].invites
    /\ \A i \in replaced : Receives(i)
    /\ copy.pc = "update" => Receives(copy.i)
    /\ copy.pc \in {"lookup", "create", "patch"} => host[copy.i] = "copy"

\* What a copy reconcile has read it may write; and the copies it has yet to
\* visit are those that lack what the cache has, unless there is to be
\* another reconcile.
Holding == {"validate", "update", "lookup", "create", "patch"}

Open == qsec.here /\ source.kind = "user" /\ None({"drop", "guest", "restart"})

Sending ==
  /\ copy.pc = "announce" => copy.i = 1
  /\ Open /\ "copy" \notin work =>
       /\ copy.pc \in Holding => Content(copy) = Content(sourceCache)
       /\ \A i \in replaced :
            \/ Content(target[i]) = Content(sourceCache)
            \/ copy.pc = "announce"
            \/ copy.pc \in Holding \cup {"source"} /\ copy.i <= i

\* What has not happened after a step had not happened before it.
LEMMA NoneBefore ==
  ASSUME TypeOK, [Next]_vars, NEW bs \in SUBSET Bounded, None(bs)'
  PROVE  /\ None(bs)
         /\ \A b \in bs : ~Spend(b)
  <1>1. \A b \in Bounded : Spend(b) => \A c \in bs : spent[c] = 0 /\ c # b
    BY CopiesAssumption DEF Spend, TypeOK, None
  <1>2. (\E b \in Bounded : Spend(b)) \/ UNCHANGED spent
    BY DEF Bounded, Next, User, Kubernetes, Generate, ReconcileCopy,
         ReconcileLabels, vars, EditSource, DropSource, EditQSec, DeleteQSec,
         Rotate, ChangeGuest, DeliverQSec, DeliverSource, DeliverGuest,
         Restart, BeginGenerate, GenerateCheck, GenerateLookup,
         GenerateWrite, GenerateConflicts, GenerateStatus, GenerateFails,
         BeginCopy, AnnounceCopies,
         ReadSource, ValidateTarget, UpdateCopy, LookupCopy, StoreCopy,
         CopyConflicts, FinishCopies, EndCopies, CopyFails, BeginLabels,
         CompareLabels, WriteLabels, ResetCopied
  <1> QED
    BY <1>1, <1>2 DEF None

\* Writing the QuarksSecret brings no deleted one back, and shows a version
\* of one that is there.
LEMMA PutHere ==
  ASSUME TypeOK, Cached, NEW o \in QSec, NEW w, PutQSec(o, w),
         o.here => qsec.here
  PROVE  /\ qsec'.here =>
              /\ qsec.here /\ qsecCache'.here
              /\ \A i \in 1 .. Len(qsecWatch') : qsecWatch'[i].here
         /\ fresh' \subseteq fresh
  <1>1. CASE o = qsec
    BY <1>1 DEF PutQSec, Cached, qsecVars
  <1>2. CASE o # qsec
    <2>1. /\ qsecWatch \in Seq(QSec) /\ qsecWatch' = Append(qsecWatch, o)
          /\ qsec' = o /\ qsecCache' = qsecCache /\ fresh' \subseteq fresh
      BY <1>2 DEF PutQSec, TypeOK
    <2>2. /\ Len(qsecWatch) \in Nat /\ Len(qsecWatch') = Len(qsecWatch) + 1
          /\ \A i \in 1 .. Len(qsecWatch) : qsecWatch'[i] = qsecWatch[i]
          /\ qsecWatch'[Len(qsecWatch) + 1] = o
      BY <2>1
    <2> QED
      BY <2>1, <2>2 DEF Cached
  <1> QED
    BY <1>1, <1>2

\* Besides, a step shows only the stored secret to its informer, brings no
\* QuarksSecret back, and turns no secret into a user's.
CachedAfter ==
  /\ Cached'
  /\ qsec'.here => qsec.here
  /\ None({"drop"})' /\ source'.kind = "user" => source.kind = "user"
  /\ sourceCache' \in {sourceCache, source}

\* A step that leaves the source alone keeps what the informers know of it, if
\* it keeps what they know of the QuarksSecret.
LEMMA CachedKept ==
  ASSUME TypeOK, [Next]_vars, Cached, UNCHANGED sourceVars,
         0 \in synced' => 0 \in synced,
         \/ UNCHANGED qsecVars
         \/ qsec'.here =>
              /\ qsec.here /\ qsecCache'.here
              /\ \A i \in 1 .. Len(qsecWatch') : qsecWatch'[i].here
  PROVE  CachedAfter
  <1>1. None({"drop"})' => None({"drop"})
    BY NoneBefore DEF Bounded
  <1> QED
    BY <1>1 DEF CachedAfter, Cached, sourceVars, qsecVars

\* Every step keeps what the informers know.
LEMMA CachedStep == TypeOK /\ Cached /\ [Next]_vars => CachedAfter
  <1> SUFFICES ASSUME TypeOK, Cached, [Next]_vars PROVE CachedAfter
    OBVIOUS
  <1> USE DEF guestVars, history
  <1>a. None({"drop"})' => None({"drop"}) /\ ~Spend("drop")
    BY NoneBefore DEF Bounded
  <1>1. CASE UNCHANGED vars
    BY <1>1, CachedKept DEF vars
  <1>2. ASSUME NEW s, NEW left, PutSource(s, left), UNCHANGED qsecVars,
               None({"drop"})' /\ source.kind # "none" =>
                 s.kind \in {source.kind, "generated"}
        PROVE  CachedAfter
    BY <1>2, <1>a DEF PutSource, CachedAfter, Cached, qsecVars
  <1>3. CASE EditSource
    <2>1. [source EXCEPT !.kind = "user", !.data = NewVersion].kind = "user"
      BY DEF TypeOK, Source
    <2>2. source.kind \in {"none", "user"}
      BY <1>3 DEF EditSource, TypeOK, Source
    <2> QED
      BY <1>2, <1>3, <2>1, <2>2 DEF EditSource
  <1>4. CASE DropSource
    BY <1>2, <1>4, <1>a DEF DropSource
  <1>5. ASSUME NEW o \in QSec, NEW w, PutQSec(o, w), o.here => qsec.here,
               UNCHANGED <<sourceVars, synced>>
        PROVE  CachedAfter
    BY <1>5, PutHere, CachedKept
  <1>6. CASE EditQSec \/ DeleteQSec \/ Rotate
    <2>1. /\ \A l \in Labels : [qsec EXCEPT !.labels = l] \in QSec
          /\ [qsec EXCEPT !.here = FALSE] \in QSec
          /\ ~[qsec EXCEPT !.here = FALSE].here
          /\ [qsec EXCEPT !.generated = "false"] \in QSec
      BY DEF TypeOK, QSec, OptionalBool
    <2>2. [qsec EXCEPT !.spec = @ + 1] \in QSec
      <3>1. qsec.spec + 1 \in Nat
        BY DEF TypeOK, QSec
      <3> QED
        BY <3>1 DEF TypeOK, QSec
    <2> QED
      BY <1>5, <1>6, <2>1, <2>2 DEF EditQSec, DeleteQSec, Rotate
  <1>7. ASSUME NEW i \in Copies, ChangeGuest(i) \/ DeliverGuest(i)
        PROVE  CachedAfter
    <2>1. i # 0
      BY DEF Copies
    <2> QED
      BY <1>7, <2>1, CachedKept DEF ChangeGuest, DeliverGuest
  <1>8. CASE DeliverQSec
    <2>1. /\ qsecWatch \in Seq(QSec) /\ qsecWatch # <<>>
          /\ qsec' = qsec /\ qsecWatch' = Tail(qsecWatch)
          /\ qsecCache' = Head(qsecWatch)
          /\ UNCHANGED <<sourceVars, synced, fresh>>
      BY <1>8 DEF DeliverQSec, TypeOK
    <2>2. /\ Len(qsecWatch) \in Nat \ {0} /\ qsecCache' = qsecWatch[1]
          /\ Len(qsecWatch') = Len(qsecWatch) - 1
          /\ \A i \in 1 .. Len(qsecWatch') : qsecWatch'[i] = qsecWatch[i + 1]
      BY <2>1
    <2>3. qsec'.here =>
            /\ qsec.here /\ qsecCache'.here
            /\ \A i \in 1 .. Len(qsecWatch') : qsecWatch'[i].here
      BY <2>1, <2>2 DEF Cached
    <2> QED
      BY <2>1, <2>3, CachedKept
  <1>9. CASE DeliverSource
    BY <1>9, <1>a DEF DeliverSource, CachedAfter, Cached, qsecVars
  <1>10. CASE Restart
    BY <1>10, <1>a DEF Restart, CachedAfter, Cached
  <1>11. CASE \/ BeginGenerate \/ GenerateCheck \/ GenerateLookup
              \/ GenerateConflicts \/ GenerateFails
    BY <1>11, CachedKept
    DEF BeginGenerate, GenerateCheck, GenerateLookup, GenerateConflicts,
        GenerateFails
  <1>12. CASE GenerateWrite
    BY <1>2, <1>12 DEF GenerateWrite
  <1>14. CASE GenerateStatus
    <2>1. CASE UNCHANGED qsecVars
      BY <1>14, <2>1, CachedKept DEF GenerateStatus
    <2>2. CASE /\ qsec' = Stored([qsec EXCEPT !.generated = "true",
                                              !.copied = "false"])
               /\ qsecWatch' = Append(qsecWatch, qsec')
               /\ qsecCache' = qsecCache
      <3>1. [qsec EXCEPT !.generated = "true", !.copied = "false"] \in QSec
        BY DEF TypeOK, QSec, OptionalBool
      <3>2. qsec' \in QSec /\ (qsec'.here => qsec.here)
        BY <2>2, <3>1, StoredType DEF Stored, QSec, TypeOK
      <3>3. /\ qsecWatch \in Seq(QSec)
            /\ Len(qsecWatch) \in Nat /\ Len(qsecWatch') = Len(qsecWatch) + 1
            /\ \A i \in 1 .. Len(qsecWatch) : qsecWatch'[i] = qsecWatch[i]
            /\ qsecWatch'[Len(qsecWatch) + 1] = qsec'
        BY <2>2, <3>2 DEF TypeOK
      <3>4. qsec'.here =>
              /\ qsec.here /\ qsecCache'.here
              /\ \A i \in 1 .. Len(qsecWatch') : qsecWatch'[i].here
        BY <2>2, <3>2, <3>3 DEF Cached
      <3> QED
        BY <1>14, <3>4, CachedKept DEF GenerateStatus
    <2> QED
      BY <1>14, <2>1, <2>2 DEF GenerateStatus
  <1>15. \A v \in {"false", "true"} :
           LET o == Stored([qsec EXCEPT !.copied = v])
           IN o \in QSec /\ (o.here => qsec.here)
    <2>1. \A v \in {"false", "true"} : [qsec EXCEPT !.copied = v] \in QSec
      BY DEF TypeOK, QSec, OptionalBool
    <2> QED
      BY <2>1, StoredType DEF Stored, QSec, TypeOK
  <1>16. CASE AnnounceCopies \/ FinishCopies
    <2>1. \A v \in {"false", "true"} :
            SetCopied(v) /\ UNCHANGED <<sourceVars, synced>> => CachedAfter
      <3> SUFFICES ASSUME NEW v \in {"false", "true"}, SetCopied(v),
                          UNCHANGED <<sourceVars, synced>>
                   PROVE  CachedAfter
        OBVIOUS
      <3>1. CASE PutQSec(Stored([qsec EXCEPT !.copied = v]), "copyQSec")
        BY <1>5, <1>15, <3>1
      <3>2. CASE UNCHANGED <<qsecVars, fresh>>
        BY <3>2, CachedKept
      <3> QED
        BY <3>1, <3>2 DEF SetCopied
    <2> QED
      BY <1>16, <2>1, CachedKept DEF AnnounceCopies, FinishCopies
  <1>17. CASE \/ BeginCopy \/ ReadSource \/ ValidateTarget \/ LookupCopy
              \/ CopyConflicts \/ EndCopies \/ CopyFails
    BY <1>17, CachedKept
    DEF BeginCopy, ReadSource, ValidateTarget, LookupCopy, CopyConflicts,
        EndCopies, CopyFails, CRetry, CLeave, Current
  <1>18. CASE UpdateCopy \/ StoreCopy
    BY <1>18, CachedKept
    DEF UpdateCopy, StoreCopy, PutTarget, CRetry, CLeave
  <1>19. CASE BeginLabels \/ CompareLabels
    BY <1>19, CachedKept
    DEF BeginLabels, CompareLabels, MRetry, MLeave, Current
  <1>20. CASE WriteLabels
    <2>1. [source EXCEPT !.labels = meta.labels].kind = source.kind
      BY DEF TypeOK, Source
    <2> QED
      BY <1>2, <1>20, <2>1, CachedKept DEF WriteLabels, MRetry, MLeave
  <1>21. CASE ResetCopied
    <2>1. Reset \in QSec /\ (Reset.here => qsec.here)
      BY <1>15 DEF Reset
    <2> QED
      BY <1>5, <1>21, <2>1, CachedKept DEF ResetCopied
  <1> QED
    BY <1>1, <1>3, <1>4, <1>6, <1>7, <1>8, <1>9, <1>10, <1>11, <1>12,
       <1>14, <1>16, <1>17, <1>18, <1>19, <1>20, <1>21
    DEF Next, User, Kubernetes, Generate, ReconcileCopy, ReconcileLabels

\* A step that changes nothing in the other namespaces keeps what is known of
\* them, if the copy reconcile does not go past the validation.
LEMMA PlacesKept ==
  ASSUME TypeOK, [Next]_vars, Places, UNCHANGED <<guestVars, replaced>>,
         \/ copy'.pc \notin {"update", "lookup", "create", "patch"}
         \/ copy'.i = copy.i /\ copy'.pc = copy.pc
         \/ /\ copy'.i = copy.i /\ copy.pc = "lookup"
            /\ copy'.pc \in {"create", "patch"}
  PROVE  Places'
  <1>1. None({"guest"})' => None({"guest"})
    BY NoneBefore DEF Bounded
  <1> QED
    BY <1>1 DEF Places, Receives, guestVars

\* What becomes of a reconcile's place in its work.
LEMMA CopyMoves ==
  ASSUME TypeOK
  PROVE  /\ CIdle.pc = "idle"
         /\ LET c == [CIdle EXCEPT !.pc = "announce", !.i = 1,
                                   !.latest = TRUE]
            IN c.pc = "announce" /\ c.i = 1
         /\ \A pc \in {"source", "update", "lookup", "create", "patch",
                       "done"} :
              LET c == [copy EXCEPT !.pc = pc]
              IN c.pc = pc /\ c.i = copy.i /\ Content(c) = Content(copy)
         /\ LET c == [copy EXCEPT !.pc = "source", !.i = @ + 1]
            IN c.pc = "source" /\ c.i = copy.i + 1
         /\ LET c == [copy EXCEPT !.pc = "validate",
                                  !.data = sourceCache.data,
                                  !.labels = sourceCache.labels]
            IN /\ c.pc = "validate" /\ c.i = copy.i
               /\ Content(c) = Content(sourceCache)
         /\ LET c == [copy EXCEPT !.latest = FALSE]
            IN c.pc = copy.pc /\ c.i = copy.i /\ Content(c) = Content(copy)
  BY DEF TypeOK, Copying, Content, CIdle

\* A copy reconcile that is not the actor stays where it is.
LEMMA CopyStays ==
  ASSUME TypeOK,
         \/ UNCHANGED vars
         \/ EditSource \/ DropSource \/ EditQSec \/ DeleteQSec \/ Rotate
         \/ DeliverQSec \/ DeliverSource \/ Generate \/ GenerateFails
         \/ ReconcileLabels
  PROVE  /\ UNCHANGED <<guestVars, replaced>>
         /\ copy'.pc = copy.pc /\ copy'.i = copy.i
         /\ Content(copy') = Content(copy)
  <1>1. CASE Generate \/ GenerateFails \/ ReconcileLabels
    <2>1. \/ UNCHANGED copy
          \/ copy' = [copy EXCEPT !.latest = FALSE]
      BY <1>1
      DEF Generate, BeginGenerate, GenerateCheck, GenerateLookup,
          GenerateWrite, GenerateConflicts, GenerateStatus, GenerateFails,
          ReconcileLabels, BeginLabels, CompareLabels, WriteLabels, ResetCopied
    <2>2. UNCHANGED <<guestVars, replaced>>
      BY <1>1
      DEF Generate, BeginGenerate, GenerateCheck, GenerateLookup,
          GenerateWrite, GenerateConflicts, GenerateStatus, GenerateFails,
          ReconcileLabels, BeginLabels, CompareLabels, WriteLabels, ResetCopied,
          history
    <2> QED
      BY <2>1, <2>2, CopyMoves
  <1>2. CASE \/ UNCHANGED vars
             \/ EditSource \/ DropSource \/ EditQSec \/ DeleteQSec \/ Rotate
             \/ DeliverQSec \/ DeliverSource
    BY <1>2
    DEF vars, EditSource, DropSource, EditQSec, DeleteQSec, Rotate,
        DeliverQSec, DeliverSource, history
  <1> QED
    BY <1>1, <1>2

\* Every step keeps what is known of the other namespaces.
LEMMA PlacesStep == TypeOK /\ Places /\ [Next]_vars => Places'
  <1> SUFFICES ASSUME TypeOK, Places, [Next]_vars PROVE Places'
    OBVIOUS
  <1> USE DEF history
  <1>a. None({"guest"})' => None({"guest"}) /\ ~Spend("guest")
    BY NoneBefore DEF Bounded
  <1>1. CASE \/ UNCHANGED vars
             \/ EditSource \/ DropSource \/ EditQSec \/ DeleteQSec \/ Rotate
             \/ DeliverQSec \/ DeliverSource \/ Generate \/ GenerateFails
             \/ ReconcileLabels
    BY <1>1, CopyStays, PlacesKept
  <1>2. ASSUME NEW i \in Copies, ChangeGuest(i) PROVE Places'
    BY <1>2, <1>a DEF ChangeGuest, Places
  <1>3. ASSUME NEW i \in Copies, DeliverGuest(i) PROVE Places'
    <2>1. /\ UNCHANGED <<host, target, replaced, copy>>
          /\ hostCache' = [hostCache EXCEPT ![i] = host[i]]
          /\ targetCache' = [targetCache EXCEPT ![i] = target[i]]
      BY <1>3 DEF DeliverGuest
    <2>2. None({"guest"})' => hostCache' = host
      <3>1. hostCache \in [Copies -> Host]
        BY DEF TypeOK
      <3> QED
        BY <1>a, <2>1, <3>1 DEF Places
    <2> QED
      BY <1>a, <2>1, <2>2 DEF Places, Receives, TypeOK
  <1>4. CASE Restart
    BY <1>4, <1>a, CopyMoves DEF Restart, Places, Receives
  <1>5. CASE BeginCopy \/ AnnounceCopies \/ FinishCopies \/ EndCopies
             \/ CopyConflicts \/ CopyFails
    BY <1>5, CopyMoves, PlacesKept
    DEF BeginCopy, AnnounceCopies, FinishCopies, EndCopies, CopyConflicts,
        CopyFails, CGoto, CRetry, CLeave
  <1>6. CASE ReadSource
    <2>1. copy'.pc \in {"idle", "validate"}
      BY <1>6, CopyMoves DEF ReadSource, CRetry, CLeave
    <2> QED
      BY <1>6, <2>1, PlacesKept DEF ReadSource
  <1>7. CASE ValidateTarget
    <2>1. UNCHANGED <<guestVars, replaced>> /\ copy.i \in Copies
      BY <1>7 DEF ValidateTarget, TypeOK
    <2>2. CASE Validate(hostCache[copy.i], targetCache[copy.i]) = "skip"
      <3>1. copy'.pc = "source"
        BY <1>7, <2>2, CopyMoves DEF ValidateTarget, NextCopy
      <3> QED
        BY <2>1, <3>1, PlacesKept
    <2>3. CASE Validate(hostCache[copy.i], targetCache[copy.i]) = "update"
      <3>1. copy'.pc = "update" /\ copy'.i = copy.i
        BY <1>7, <2>3 DEF ValidateTarget, CGoto, TypeOK, Copying
      <3>2. None({"guest"}) => Receives(copy.i)
        BY <2>1, <2>3 DEF Validate, Places, Receives
      <3> QED
        BY <1>a, <2>1, <3>1, <3>2 DEF Places, Receives, guestVars
    <2>4. CASE Validate(hostCache[copy.i], targetCache[copy.i]) = "lookup"
      <3>1. copy'.pc = "lookup" /\ copy'.i = copy.i
        BY <1>7, <2>4 DEF ValidateTarget, CGoto, TypeOK, Copying
      <3>2. None({"guest"}) => host[copy.i] = "copy"
        BY <2>1, <2>4 DEF Validate, Places
      <3> QED
        BY <1>a, <2>1, <3>1, <3>2 DEF Places, Receives, guestVars
    <2> QED
      BY <2>2, <2>3, <2>4 DEF Validate
  <1>8. CASE LookupCopy
    <2>1. /\ copy.pc = "lookup" /\ UNCHANGED <<guestVars, replaced>>
          /\ \/ copy' = [copy EXCEPT !.pc = "source", !.i = @ + 1]
             \/ copy' = [copy EXCEPT !.pc = "create"]
             \/ copy' = [copy EXCEPT !.pc = "patch"]
      BY <1>8 DEF LookupCopy, NextCopy, CGoto
    <2>2. \/ copy'.pc = "source"
          \/ copy'.pc \in {"create", "patch"} /\ copy'.i = copy.i
      BY <2>1 DEF TypeOK, Copying
    <2> QED
      BY <2>1, <2>2, PlacesKept
  <1>9. CASE UpdateCopy
    <2>1. copy.i \in Copies /\ copy.pc = "update"
      BY <1>9 DEF UpdateCopy, TypeOK
    <2>2. copy'.pc \in {"idle", "source"}
      BY <1>9, CopyMoves DEF UpdateCopy, NextCopy, CRetry, CLeave
    <2>3. CASE UNCHANGED <<guestVars, replaced>>
      BY <2>2, <2>3, PlacesKept
    <2>4. CASE /\ replaced' = replaced \cup {copy.i}
               /\ \E left : PutTarget(copy.i, CopyOf, left)
      <3>1. /\ UNCHANGED <<host, hostCache, targetCache>>
            /\ target'[copy.i] = CopyOf
            /\ \A j \in Copies \ {copy.i} : target'[j] = target[j]
        BY <2>1, <2>4 DEF PutTarget, TypeOK
      <3>2. CopyOf.here /\ CopyOf.invites
        BY DEF CopyOf
      <3>3. ASSUME None({"guest"})
            PROVE  /\ \A i \in Copies :
                        host[i] = "none" =>
                          /\ targetCache[i].here = target'[i].here
                          /\ targetCache[i].invites = target'[i].invites
                   /\ \A i \in replaced' :
                        /\ host[i] = "none"
                        /\ target'[i].here /\ target'[i].invites
        <4>1. Receives(copy.i) /\ replaced \subseteq Copies
          BY <2>1, <3>3 DEF Places, TypeOK
        <4>2. /\ targetCache[copy.i].here = TRUE
              /\ targetCache[copy.i].invites = TRUE
              /\ CopyOf.here = TRUE /\ CopyOf.invites = TRUE
          <5>1. targetCache[copy.i] \in Target /\ target[copy.i] \in Target
            BY <2>1 DEF TypeOK
          <5> QED
            BY <2>1, <3>3, <4>1, <5>1 DEF Places, Receives, Target, CopyOf
        <4> QED
          BY <2>1, <2>4, <3>1, <3>3, <4>1, <4>2 DEF Places, Receives
      <3> QED
        BY <1>a, <2>2, <3>1, <3>3 DEF Places, Receives
    <2> QED
      BY <1>9, <2>3, <2>4 DEF UpdateCopy
  <1>10. CASE StoreCopy
    <2>1. /\ copy.i \in Copies /\ copy.pc \in {"create", "patch"}
          /\ copy'.pc \in {"idle", "source"}
          /\ UNCHANGED <<host, hostCache, targetCache, replaced>>
          /\ \A j \in Copies \ {copy.i} : target'[j] = target[j]
      BY <1>10, CopyMoves
      DEF StoreCopy, CopyAccepted, NextCopy, PutTarget, TypeOK
    <2>2. None({"guest"}) => host[copy.i] = "copy"
      BY <2>1 DEF Places
    <2> QED
      BY <1>a, <2>1, <2>2 DEF Places, Receives, TypeOK
  <1> QED
    BY <1>1, <1>2, <1>3, <1>4, <1>5, <1>6, <1>7, <1>8, <1>9, <1>10
    DEF Next, User, Kubernetes, ReconcileCopy

\* Once the hypotheses about users fail they fail for good.
LEMMA OpenBefore ==
  ASSUME TypeOK, Cached, [Next]_vars, Open'
  PROVE  /\ Open /\ qsecCache.here
         /\ sourceCache.kind # "none"
         /\ None({"guest"})
         /\ ~Spend("drop") /\ ~Spend("guest") /\ ~Spend("restart")
  <1>1. CachedAfter
    BY CachedStep
  <1>2. /\ None({"drop", "guest", "restart"})
        /\ ~Spend("drop") /\ ~Spend("guest") /\ ~Spend("restart")
    BY NoneBefore DEF Open, Bounded
  <1>3. None({"drop"}) /\ None({"guest"}) /\ None({"drop"})'
    BY <1>2 DEF None, Open
  <1>4. source.kind = "user"
    BY <1>1, <1>3 DEF CachedAfter, Cached, Open
  <1> QED
    BY <1>1, <1>2, <1>3, <1>4 DEF CachedAfter, Cached, Open

\* Every step keeps the content on its way.
LEMMA SendingStep ==
  TypeOK /\ Cached /\ Places /\ Sending /\ [Next]_vars => Sending'
  <1> SUFFICES ASSUME TypeOK, Cached, Places, Sending, [Next]_vars
               PROVE  Sending'
    OBVIOUS
  <1> USE DEF history
  <1>a. Open' => /\ Open /\ qsecCache.here
                 /\ sourceCache.kind # "none"
                 /\ None({"guest"})
                 /\ ~Spend("drop") /\ ~Spend("guest") /\ ~Spend("restart")
    BY OpenBefore
  <1>b. replaced \subseteq Copies /\ Copies \subseteq Nat /\ copy.i \in Nat
        /\ \A i \in Copies : i > 0
    BY DEF TypeOK, Copying, Copies
  <1>1. ASSUME copy'.pc = copy.pc, copy'.i = copy.i,
               Content(copy') = Content(copy),
               UNCHANGED <<target, replaced>>,
               Content(sourceCache') = Content(sourceCache),
               "copy" \in work => "copy" \in work'
        PROVE  Sending'
    BY <1>1, <1>a DEF Sending
  <1>2. CASE \/ UNCHANGED vars
             \/ EditSource \/ DropSource \/ EditQSec \/ DeleteQSec \/ Rotate
             \/ DeliverQSec \/ Generate \/ GenerateFails \/ ReconcileLabels
    <2>1. /\ UNCHANGED sourceCache
          /\ "copy" \in work => "copy" \in work'
      <3>1. CASE Generate \/ GenerateFails
        BY <3>1
        DEF Generate, BeginGenerate, GenerateCheck, GenerateLookup,
            GenerateWrite, GenerateConflicts, GenerateStatus, GenerateFails,
            GRetry, PutSource, sourceVars
      <3>2. CASE ReconcileLabels
        BY <3>2
        DEF ReconcileLabels, BeginLabels, CompareLabels, WriteLabels,
            ResetCopied, MRetry, PutSource, sourceVars
      <3>3. CASE \/ UNCHANGED vars
                 \/ EditSource \/ DropSource \/ EditQSec \/ DeleteQSec
                 \/ Rotate \/ DeliverQSec
        BY <3>3
        DEF vars, EditSource, DropSource, EditQSec, DeleteQSec, Rotate,
            DeliverQSec, PutSource, sourceVars
      <3> QED
        BY <1>2, <3>1, <3>2, <3>3
    <2> QED
      BY <1>1, <1>2, <2>1, CopyStays DEF guestVars
  <1>3. CASE DeliverSource
    <2>1. CASE Content(sourceCache') = Content(sourceCache)
      BY <1>1, <1>3, <2>1 DEF DeliverSource, guestVars
    <2>2. CASE Content(sourceCache') # Content(sourceCache)
      <3>1. Open' => "copy" \in work'
        BY <1>3, <1>a, <2>2 DEF DeliverSource, SourcePasses, Open
      <3>2. copy' = copy
        BY <1>3 DEF DeliverSource
      <3> QED
        BY <3>1, <3>2 DEF Sending
    <2> QED
      BY <2>1, <2>2
  <1>4. ASSUME NEW i \in Copies, DeliverGuest(i) PROVE Sending'
    BY <1>1, <1>4 DEF DeliverGuest, sourceVars
  <1>5. ASSUME NEW i \in Copies, ChangeGuest(i) PROVE Sending'
    BY <1>5, <1>a DEF ChangeGuest, Sending
  <1>6. CASE Restart
    BY <1>6, <1>a, CopyMoves DEF Restart, Sending
  <1>7. CASE BeginCopy
    <2>1. CASE qsecCache.here
      <3>1. copy' = [CIdle EXCEPT !.pc = "announce", !.i = 1, !.latest = TRUE]
        BY <1>7, <2>1 DEF BeginCopy
      <3>2. copy'.pc = "announce" /\ copy'.i = 1
        BY <3>1, CopyMoves
      <3> QED
        BY <3>2 DEF Sending, Holding
    <2>2. CASE ~qsecCache.here
      BY <1>7, <1>a, <2>2 DEF BeginCopy, Sending
    <2> QED
      BY <2>1, <2>2
  <1>8. ASSUME "copy" \in work', copy'.pc # "announce" PROVE Sending'
    BY <1>8 DEF Sending
  <1>9. CASE AnnounceCopies
    <2>1. copy'.pc = "source" /\ copy'.i = 1
      BY <1>9 DEF AnnounceCopies, CGoto, Sending, TypeOK, Copying
    <2>2. \A i \in replaced : 1 <= i
      BY <1>b
    <2>3. UNCHANGED <<target, replaced>>
      BY <1>9 DEF AnnounceCopies, guestVars
    <2> QED
      BY <2>1, <2>2, <2>3 DEF Sending, Holding
  <1>10. CASE FinishCopies \/ EndCopies
    <2>1. /\ UNCHANGED <<target, replaced, sourceCache, work>>
          /\ copy'.pc \in {"done", "idle"}
          /\ \/ copy.pc = "done"
             \/ copy.pc = "source" /\ copy.i > N
      <3>1. CASE FinishCopies
        BY <3>1 DEF FinishCopies, CGoto, guestVars, sourceVars, TypeOK, Copying
      <3>2. CASE EndCopies
        BY <3>2, CopyMoves DEF EndCopies, CLeave, guestVars, sourceVars
      <3> QED
        BY <1>10, <3>1, <3>2
    <2>2. copy.i > N => \A i \in replaced : ~(copy.i <= i)
      BY <1>b, CopiesAssumption DEF Copies
    <2> QED
      BY <1>a, <2>1, <2>2 DEF Sending, Holding
  <1>11. CASE ReadSource
    <2>1. CASE sourceCache.kind = "none"
      BY <1>8, <1>11, <2>1, CopyMoves DEF ReadSource, CRetry, CLeave
    <2>2. CASE sourceCache.kind # "none"
      <3>1. copy' = [copy EXCEPT !.pc = "validate",
                                 !.data = sourceCache.data,
                                 !.labels = sourceCache.labels]
        BY <1>11, <2>2 DEF ReadSource
      <3>2. /\ copy'.pc = "validate" /\ copy'.i = copy.i
            /\ Content(copy') = Content(sourceCache)
        BY <3>1, CopyMoves
      <3>3. /\ UNCHANGED <<target, replaced, sourceCache, work>>
            /\ copy.pc = "source"
        BY <1>11, <2>2 DEF ReadSource, guestVars, sourceVars
      <3> QED
        BY <1>a, <3>2, <3>3 DEF Sending, Holding
    <2> QED
      BY <2>1, <2>2
  <1>12. CASE ValidateTarget
    <2>1. /\ UNCHANGED <<target, replaced, sourceCache, work>>
          /\ copy.pc = "validate" /\ copy.i \in Copies
      BY <1>12 DEF ValidateTarget, guestVars, sourceVars, TypeOK
    <2>2. CASE Validate(hostCache[copy.i], targetCache[copy.i]) = "skip"
      <3>1. copy'.pc = "source" /\ copy'.i = copy.i + 1
        BY <1>12, <2>2 DEF ValidateTarget, NextCopy, TypeOK, Copying
      <3>2. None({"guest"}) => copy.i \notin replaced
        BY <2>1, <2>2 DEF Validate, Places, Receives
      <3>3. \A i \in replaced : copy.i <= i /\ i # copy.i => copy.i + 1 <= i
        BY <1>b
      <3> QED
        BY <1>a, <2>1, <3>1, <3>2, <3>3 DEF Sending, Holding
    <2>3. CASE Validate(hostCache[copy.i], targetCache[copy.i]) # "skip"
      <3>1. /\ copy'.pc \in {"update", "lookup"} /\ copy'.i = copy.i
            /\ Content(copy') = Content(copy)
        BY <1>12, <2>3
        DEF ValidateTarget, Validate, CGoto, Content, TypeOK, Copying
      <3> QED
        BY <1>a, <2>1, <3>1 DEF Sending, Holding
    <2> QED
      BY <2>2, <2>3
  <1>13. CASE UpdateCopy
    <2>1. copy.pc = "update" /\ copy.i \in Copies /\ UNCHANGED sourceCache
      BY <1>13 DEF UpdateCopy, TypeOK, sourceVars
    <2>2. CASE "copy" \in work' /\ copy' = CIdle
      BY <1>8, <2>2, CopyMoves
    <2>3. CASE PutTarget(copy.i, CopyOf, {}) /\ NextCopy /\ work' = work
               /\ replaced' = replaced \cup {copy.i}
      <3>1. copy'.pc = "source" /\ copy'.i = copy.i + 1
        BY <2>3 DEF NextCopy, TypeOK, Copying
      <3>2. /\ Content(target'[copy.i]) = Content(copy)
            /\ \A j \in Copies \ {copy.i} : target'[j] = target[j]
        BY <2>1, <2>3 DEF PutTarget, CopyOf, Content, TypeOK
      <3>3. \A i \in replaced : copy.i <= i /\ i # copy.i => copy.i + 1 <= i
        BY <1>b
      <3> QED
        BY <1>a, <1>b, <2>1, <2>3, <3>1, <3>2, <3>3 DEF Sending, Holding
    <2> QED
      BY <1>13, <2>2, <2>3 DEF UpdateCopy, CRetry, CLeave
  <1>14. CASE LookupCopy \/ (StoreCopy /\ NextCopy /\ UNCHANGED work)
    <2>1. /\ copy.pc \in {"lookup", "create", "patch"} /\ copy.i \in Copies
          /\ UNCHANGED <<replaced, sourceCache, work>>
          /\ \A j \in Copies \ {copy.i} : target'[j] = target[j]
      BY <1>14
      DEF LookupCopy, StoreCopy, CopyAccepted, PutTarget, guestVars,
          sourceVars, TypeOK
    <2>2. None({"guest"}) => copy.i \notin replaced
      BY <2>1 DEF Places, Receives
    <2>3. \/ copy' = [copy EXCEPT !.pc = "source", !.i = @ + 1]
          \/ copy' = [copy EXCEPT !.pc = "create"]
          \/ copy' = [copy EXCEPT !.pc = "patch"]
      BY <1>14 DEF LookupCopy, StoreCopy, NextCopy, CGoto
    <2>4. \/ copy'.pc = "source" /\ copy'.i = copy.i + 1
          \/ /\ copy'.pc \in {"create", "patch"} /\ copy'.i = copy.i
             /\ Content(copy') = Content(copy)
      BY <2>3 DEF TypeOK, Copying, Content
    <2>5. \A i \in replaced : copy.i <= i /\ i # copy.i => copy.i + 1 <= i
      BY <1>b
    <2> QED
      BY <1>a, <1>b, <2>1, <2>2, <2>4, <2>5 DEF Sending, Holding
  <1>15. CASE \/ CopyConflicts \/ CopyFails
              \/ StoreCopy /\ copy' = CIdle /\ work' = work \cup {"copy"}
    BY <1>8, <1>15, CopyMoves DEF CopyConflicts, CopyFails, CRetry, CLeave
  <1>16. StoreCopy => \/ NextCopy /\ UNCHANGED work
                      \/ copy' = CIdle /\ work' = work \cup {"copy"}
    BY DEF StoreCopy
  <1> QED
    BY <1>2, <1>3, <1>4, <1>5, <1>6, <1>7, <1>9, <1>10, <1>11, <1>12, <1>13,
       <1>14, <1>15, <1>16
    DEF Next, User, Kubernetes, ReconcileCopy

\* SettledCopies: when nothing is left to do, each secret without a QuarksSecret
\* beside it that an Update once replaced has the latest content of the user's.
THEOREM ContentSettles == Spec => []SettledCopies
  <1>1. Init => Cached /\ Places /\ Sending
    <2> SUFFICES ASSUME Init PROVE Cached /\ Places /\ Sending
      OBVIOUS
    <2>1. Cached
      <3>1. qsec.here /\ source.kind # "none"
        BY DEF Init, Stored
      <3>2. Len(qsecWatch) = 0
        BY DEF Init
      <3> QED
        BY <3>1, <3>2 DEF Init, Cached
    <2>2. copy.pc = "idle"
      BY DEF Init, CIdle
    <2> QED
      BY <2>1, <2>2 DEF Init, Places, Sending
  <1>2. TypeOK /\ Cached /\ Sending => SettledCopies
    <2> SUFFICES ASSUME TypeOK, Cached, Sending, Quiet, Open,
                        NEW i \in replaced
                 PROVE  Content(target[i]) = Content(source)
      BY DEF SettledCopies, Open, Content
    <2>1. copy.pc = "idle" /\ "copy" \notin work /\ 0 \in synced
      BY DEF Quiet, CIdle
    <2> QED
      BY <2>1 DEF Sending, Cached, Holding
  <1>3. TypeOK /\ Cached /\ [Next]_vars => Cached'
    BY CachedStep DEF CachedAfter
  <1> QED
    BY <1>1, <1>2, <1>3, PlacesStep, SendingStep, TypeCorrect, PTL DEF Spec
=============================================================================
