--------------------- MODULE CertificateSigning_proofs ---------------------
(***************************************************************************)
(* Proofs, for any supply of keys and any number of disturbances, that a   *)
(* round in which no keys are mixed up ends with a certificate that fits   *)
(* its key, that no signing request is left alone, and that key and        *)
(* request are deleted only after the merge.                               *)
(***************************************************************************)
EXTENDS SigningRefinement, TLAPS

\* A request that is there is for a key.
Requests == {c \in Request : c # NoCsr => c.key # 0}

\* Nothing is stored, requested or in hand without its key.
Keyed ==
  /\ qrec.pc # "idle" => qrec.key # 0
  /\ keySecret # NoKey => keySecret.key # 0
  /\ keyCache # NoKey => keyCache.key # 0
  /\ csr \in Requests /\ csrCache \in Requests /\ csrWatch \in Seq(Requests)
  /\ "csr" \in fresh => csr # NoCsr
  /\ crec.pc \notin {"idle", "get", "approve"} => crec.cert # 0
  /\ crec.pc \notin {"idle", "get", "approve", "key"} => crec.key # 0

\* Taking the head off a sequence leaves a sequence with the same end.
LEMMA HeadTail ==
  ASSUME NEW S, NEW s \in Seq(S), s # <<>>
  PROVE  /\ Head(s) \in S /\ Tail(s) \in Seq(S)
         /\ Tail(s) = <<>> => Head(s) = s[Len(s)]
         /\ Tail(s) # <<>> => Tail(s)[Len(Tail(s))] = s[Len(s)]
  <1>1. Len(s) \in Nat /\ Len(s) > 0 /\ Len(Tail(s)) = Len(s) - 1
    OBVIOUS
  <1>2. Head(s) = s[1] /\ Head(s) \in S /\ Tail(s) \in Seq(S)
    OBVIOUS
  <1>3. CASE Tail(s) = <<>>
    BY <1>1, <1>2, <1>3
  <1>4. CASE Tail(s) # <<>>
    <2>1. Len(Tail(s)) > 0
      BY <1>2, <1>4
    <2>2. Tail(s)[Len(s) - 1] = s[Len(s)]
      BY <1>1, <2>1
    <2> QED
      BY <1>1, <1>2, <1>4, <2>2
  <1> QED
    BY <1>2, <1>3, <1>4

\* Spending leaves the counters natural numbers.
LEMMA SpendType ==
  ASSUME NEW b \in Bounded, spent \in [Bounded -> Nat], Spend(b)
  PROVE  spent' \in [Bounded -> Nat]
  BY LimitAssumption DEF Spend

\* What the reconciles are when they do nothing.
LEMMA IdleType ==
  /\ QIdle \in Minting /\ QIdle.pc = "idle" /\ QIdle.key = 0
  /\ CIdle \in Signing /\ CIdle.pc = "idle" /\ CIdle.key = 0 /\ CIdle.cert = 0
  BY DEF QIdle, CIdle, Minting, Signing

\* An absent request is one of the requests.
LEMMA NoCsrType == NoCsr \in Requests
  BY DEF NoCsr, Requests, Request

\* Going on keeps what a reconcile has in hand.
LEMMA GotoType ==
  ASSUME TypeOK
  PROVE  /\ \A pc \in {"check", "lookup", "create", "update", "find",
                       "request"} :
              QGoto(pc) => /\ qrec' \in Minting /\ qrec'.pc = pc
                           /\ qrec'.key = qrec.key
         /\ \A pc \in {"get", "approve", "key", "owner", "root", "lookup",
                       "create", "update", "deleteKey", "deleteCsr"} :
              CGoto(pc) => /\ crec' \in Signing /\ crec'.pc = pc
                           /\ crec'.key = crec.key /\ crec'.cert = crec.cert
  BY DEF TypeOK, Minting, Signing, QGoto, CGoto

\* A key that is made is a key, and nobody has one like it.
LEMMA NewKeyType ==
  ASSUME Keys \ KeysInUse # {}
  PROVE  NewKey \in Nat \ {0} /\ NewKey \notin KeysInUse
  <1>1. \E k \in Keys : k \notin KeysInUse
    OBVIOUS
  <1> HIDE DEF KeysInUse
  <1> QED
    BY <1>1, KeysAssumption DEF NewKey

\* The initial state has the types.
LEMMA InitType == Init => TypeOK /\ Keyed
  <1> SUFFICES ASSUME Init PROVE TypeOK /\ Keyed
    OBVIOUS
  <1>1. NoKey \in KeySecret /\ NoTarget \in Target
    BY DEF NoKey, KeySecret, NoTarget, Target
  <1>2. NoCsr \in Request
    BY DEF NoCsr, Request
  <1>3. spent \in [Bounded -> Nat]
    BY DEF Init
  <1>4. TypeOK
    <2>1. /\ keySecret \in KeySecret /\ keyCache \in KeySecret
          /\ target \in Target /\ targetCache \in Target
          /\ csr \in Request /\ csrCache \in Request
          /\ csrWatch \in Seq(Request)
      BY <1>1, <1>2 DEF Init
    <2>2. qrec \in Minting /\ crec \in Signing /\ fresh = {}
      BY IdleType DEF Init
    <2> QED
      BY <1>3, <2>1, <2>2 DEF Init, TypeOK
  <1>5. Keyed
    BY IdleType, NoCsrType DEF Init, Keyed
  <1> QED
    BY <1>4, <1>5

\* A request that is stored is seen by the informer later.
LEMMA StoreCsrType ==
  ASSUME TypeOK, Keyed, NEW c \in Requests,
         csr' = c, csrWatch' = Append(csrWatch, c), UNCHANGED csrCache
  PROVE  /\ csr' \in Request /\ csrCache' \in Request
         /\ csrWatch' \in Seq(Request)
         /\ csr' \in Requests /\ csrCache' \in Requests
         /\ csrWatch' \in Seq(Requests)
  BY DEF TypeOK, Keyed, Requests

\* No step of a user, of Kubernetes or of an informer breaks the types.
LEMMA EnvironmentType ==
  ASSUME TypeOK, Keyed, User \/ Kubernetes \/ Restart
  PROVE  TypeOK' /\ Keyed'
  <1> USE DEF qsecVars, secretVars, csrVars, recVars
  <1>a. NoKey \in KeySecret /\ NoTarget \in Target
    BY DEF NoKey, KeySecret, NoTarget, Target
  <1>1. CASE CreateQSec
    <2>1. spent' \in [Bounded -> Nat]
      BY <1>1, SpendType DEF CreateQSec, TypeOK, Bounded
    <2>2. spent'["birth"] \in Nat
      BY <2>1 DEF Bounded
    <2> QED
      BY <1>1, <2>1, <2>2 DEF CreateQSec, TypeOK, Keyed
  <1>2. CASE DeleteQSec \/ Rotate
    <2>1. spent' \in [Bounded -> Nat]
      BY <1>2, SpendType DEF DeleteQSec, Rotate, TypeOK, Bounded
    <2>2. CASE DeleteQSec
      BY <2>1, <2>2 DEF DeleteQSec, TypeOK, Keyed
    <2>3. CASE Rotate
      BY <2>1, <2>3 DEF Rotate, TypeOK, Keyed
    <2> QED
      BY <1>2, <2>2, <2>3
  <1>3. CASE CreateUserSecret \/ CollectTarget
    <2>1. [NoTarget EXCEPT !.kind = "user"] \in Target
      BY <1>a DEF Target
    <2>2. target' \in Target /\ spent' \in [Bounded -> Nat]
      BY <1>3, <1>a, <2>1, SpendType
      DEF CreateUserSecret, CollectTarget, PutTarget, TypeOK, Bounded
    <2> QED
      BY <1>3, <2>2
      DEF CreateUserSecret, CollectTarget, PutTarget, TypeOK, Keyed
  <1>4. CASE CollectKey
    BY <1>4, <1>a DEF CollectKey, PutKey, TypeOK, Keyed
  <1>5. CASE ApproveByHand \/ Issue
    <2>1. csr # NoCsr
      BY <1>5 DEF ApproveByHand, Issue, NoCsr
    <2>2. /\ [csr EXCEPT !.approved = TRUE] \in Requests
          /\ [csr EXCEPT !.issued = TRUE] \in Requests
      BY <2>1 DEF TypeOK, Keyed, Requests, Request, NoCsr
    <2>3. spent' \in [Bounded -> Nat]
      BY <1>5, SpendType DEF ApproveByHand, Issue, TypeOK, Bounded
    <2>4. /\ csr' \in Requests /\ csrWatch' = Append(csrWatch, csr')
          /\ UNCHANGED csrCache /\ fresh' = fresh \ {"csr"}
      BY <1>5, <2>2 DEF ApproveByHand, Issue, PutCsr
    <2> QED
      BY <1>5, <2>3, <2>4, StoreCsrType DEF ApproveByHand, Issue, TypeOK, Keyed
  <1>6. CASE DeliverQSec
    BY <1>6 DEF DeliverQSec, TypeOK, Keyed
  <1>7. CASE DeliverCsr
    <2>1. /\ csrCache' \in Request /\ csrWatch' \in Seq(Request)
          /\ csrCache' \in Requests /\ csrWatch' \in Seq(Requests)
      BY <1>7, HeadTail DEF DeliverCsr, TypeOK, Keyed
    <2> QED
      BY <1>7, <2>1 DEF DeliverCsr, TypeOK, Keyed
  <1>8. CASE ResyncCsr \/ SyncSecrets
    BY <1>8 DEF ResyncCsr, SyncSecrets, TypeOK, Keyed
  <1>9. CASE Restart
    <2>1. spent' \in [Bounded -> Nat]
      BY <1>9, SpendType DEF Restart, TypeOK, Bounded
    <2>2. work' \subseteq {"qsec", "csr"}
      BY <1>9 DEF Restart
    <2> QED
      BY <1>9, <2>1, <2>2, IdleType DEF Restart, TypeOK, Keyed
  <1> QED
    BY <1>1, <1>2, <1>3, <1>4, <1>5, <1>6, <1>7, <1>8, <1>9
    DEF User, Kubernetes

\* No reconcile of the QuarksSecret breaks the types.
LEMMA MintingType ==
  ASSUME TypeOK, Keyed, ReconcileQSec \/ MintingFails
  PROVE  TypeOK' /\ Keyed'
  <1> USE DEF qsecVars, secretVars, csrVars, recVars
  <1>1. CASE Mint
    <2>1. CASE qsecCache = 0
      BY <1>1, <2>1 DEF Mint, TypeOK, Keyed
    <2>2. CASE qsecCache # 0
      <3>1. qrec' \in Minting /\ qrec'.pc = "check" /\ qrec'.key # 0
        BY <1>1, <2>2, NewKeyType DEF Mint, TypeOK, Minting
      <3>2. "key" \notin fresh
        BY <1>1, IdleType DEF Mint, TypeOK
      <3>3. mixups' \subseteq {"overlap", "dropped", "stale"}
        BY <1>1, <2>2 DEF Mint, Record, TypeOK
      <3> QED
        BY <1>1, <3>1, <3>2, <3>3 DEF Mint, TypeOK, Keyed
    <2> QED
      BY <2>1, <2>2
  <1>2. CASE CheckTarget
    <2>1. spent' \in [Bounded -> Nat]
      BY <1>2, SpendType DEF CheckTarget, TypeOK, Bounded
    <2>2. qrec' \in Minting /\ qrec'.key = qrec.key
            /\ qrec'.pc \in {"find", "lookup"}
      BY <1>2, GotoType DEF CheckTarget
    <2>3. mixups' \subseteq {"overlap", "dropped", "stale"}
      BY <1>2 DEF CheckTarget, Record, TypeOK
    <2> QED
      BY <1>2, <2>1, <2>2, <2>3 DEF CheckTarget, TypeOK, Keyed
  <1>3. CASE LookupKey
    <2>1. qrec' \in Minting /\ qrec'.key = qrec.key
            /\ qrec'.pc \in {"create", "update"}
      BY <1>3, GotoType DEF LookupKey
    <2>2. /\ fresh' \subseteq fresh \cup {"key"}
          /\ "key" \in fresh' => qrec'.pc = "update"
      BY <1>3, GotoType DEF LookupKey, TypeOK
    <2> QED
      BY <1>3, <2>1, <2>2 DEF LookupKey, TypeOK, Keyed
  <1>4. CASE StoreKey
    <2>1. qrec.pc \in {"create", "update"} /\ qrec.key # 0
      BY <1>4 DEF StoreKey, KeyAccepted, Keyed
    <2>2. keySecret' \in KeySecret /\ keySecret'.key # 0
      BY <1>4, <2>1 DEF StoreKey, PutKey, TypeOK, KeySecret, Minting
    <2>3. spent' \in [Bounded -> Nat]
      BY <1>4, SpendType DEF StoreKey, TypeOK, Bounded
    <2>4. /\ fresh' = fresh \ {"key"} /\ work' \subseteq work \cup {"qsec"}
          /\ qrec' \in Minting /\ (qrec'.pc # "idle" => qrec'.key # 0)
      BY <1>4, <2>1, IdleType, GotoType
      DEF StoreKey, PutKey, QRetry
    <2> QED
      BY <1>4, <2>2, <2>3, <2>4 DEF StoreKey, PutKey, TypeOK, Keyed
  <1>5. CASE StoreKeyFails
    BY <1>5, IdleType DEF StoreKeyFails, QRetry, TypeOK, Keyed
  <1>6. CASE FindCsr
    <2>1. CASE csrCache = NoCsr
      <3>1. qrec' \in Minting /\ qrec'.key = qrec.key /\ qrec'.pc = "request"
        BY <1>6, <2>1, GotoType DEF FindCsr
      <3> QED
        BY <1>6, <2>1, <3>1 DEF FindCsr, TypeOK, Keyed
    <2>2. CASE csrCache # NoCsr
      BY <1>6, <2>2, IdleType DEF FindCsr, QDone, TypeOK, Keyed
    <2> QED
      BY <2>1, <2>2
  <1>7. CASE RequestCsr
    <2>1. NewCsr(qrec.key) \in Requests /\ NewCsr(qrec.key) # NoCsr
      <3>1. qrec.key \in Nat \ {0}
        BY <1>7 DEF RequestCsr, TypeOK, Keyed, Minting
      <3> QED
        BY <3>1 DEF NewCsr, NoCsr, Requests, Request
    <2>2. spent' \in [Bounded -> Nat]
      BY <1>7, SpendType DEF RequestCsr, TypeOK, Bounded
    <2>3. /\ qrec' = QIdle /\ fresh' = fresh \ {"key"}
          /\ work' \subseteq work \cup {"qsec"}
      BY <1>7 DEF RequestCsr, QDone, QRetry
    <2>4. /\ csr' \in Requests /\ csr' # NoCsr
          /\ csrWatch' = Append(csrWatch, csr') /\ UNCHANGED csrCache
      BY <1>7, <2>1 DEF RequestCsr
    <2> QED
      BY <1>7, <2>2, <2>3, <2>4, StoreCsrType, IdleType
      DEF RequestCsr, TypeOK, Keyed
  <1>8. CASE RequestCsrFails
    BY <1>8, IdleType DEF RequestCsrFails, QRetry, TypeOK, Keyed
  <1>9. CASE MintingFails
    BY <1>9, IdleType, SpendType
    DEF MintingFails, QRetry, TypeOK, Keyed, Bounded
  <1> QED
    BY <1>1, <1>2, <1>3, <1>4, <1>5, <1>6, <1>7, <1>8, <1>9
    DEF ReconcileQSec

\* No reconcile of the request breaks the types.
LEMMA SigningType ==
  ASSUME TypeOK, Keyed, ReconcileCsr \/ SigningFails
  PROVE  TypeOK' /\ Keyed'
  <1> USE DEF qsecVars, secretVars, csrVars, recVars
  <1>a. \A b \in Bounded : Spend(b) => spent' \in [Bounded -> Nat]
    BY SpendType DEF TypeOK
  <1>b. ASSUME CLeave,
               UNCHANGED <<qsecVars, secretVars, csrVars, qrec, mixups>>,
               work' \subseteq work \cup {"csr"}, spent' \in [Bounded -> Nat]
        PROVE  TypeOK' /\ Keyed'
    BY <1>b, IdleType DEF CLeave, TypeOK, Keyed
  <1>1. CASE TakeCsr
    <2>1. fresh \cap {"target", "csr"} = {}
      BY <1>1, IdleType DEF TakeCsr, TypeOK
    <2>2. /\ crec' \in Signing
          /\ \/ crec'.pc \in {"idle", "get"}
             \/ crec'.pc = "key" /\ crec'.cert # 0
      <3>1. CASE csrCache = NoCsr /\ UNCHANGED crec
        BY <1>1, <3>1, IdleType DEF TakeCsr, TypeOK
      <3>2. CASE CGoto("get")
        BY <3>2, GotoType
      <3>3. CASE /\ csrCache.issued
                 /\ crec' = [CIdle EXCEPT !.pc = "key", !.cert = csrCache.key]
        <4>1. csrCache.key # 0 /\ csrCache.key \in Nat
          BY <3>3 DEF TypeOK, Keyed, Requests, Request, NoCsr
        <4> QED
          BY <3>3, <4>1, IdleType DEF Signing
      <3> QED
        BY <1>1, <3>1, <3>2, <3>3 DEF TakeCsr
    <2> QED
      BY <1>1, <2>1, <2>2 DEF TakeCsr, TypeOK, Keyed
  <1>2. CASE GetCsr
    <2>1. CASE CLeave /\ work' \subseteq work \cup {"csr"}
      BY <1>2, <1>b, <2>1 DEF GetCsr, TypeOK
    <2>2. CASE /\ csr # NoCsr /\ CGoto("approve")
               /\ fresh' = fresh \cup {"csr"} /\ UNCHANGED work
      <3>1. crec' \in Signing /\ crec'.pc = "approve"
        BY <2>2, GotoType
      <3>2. "target" \notin fresh
        BY <1>2 DEF GetCsr, TypeOK
      <3> QED
        BY <1>2, <2>2, <3>1, <3>2 DEF GetCsr, TypeOK, Keyed
    <2> QED
      BY <1>2, <2>1, <2>2 DEF GetCsr, CRetry, CDone
  <1>3. CASE Approve
    <2>1. [csr EXCEPT !.approved = TRUE] \in Requests
      BY <1>3 DEF Approve, TypeOK, Keyed, Requests, Request, NoCsr
    <2>2. /\ csr' \in Requests /\ csrWatch' = Append(csrWatch, csr')
          /\ UNCHANGED csrCache
      BY <1>3, <2>1 DEF Approve
    <2>3. CLeave /\ work' \subseteq work \cup {"csr"}
      BY <1>3 DEF Approve, CDone, CRetry
    <2>4. spent' \in [Bounded -> Nat]
      BY <1>3, <1>a DEF Approve, TypeOK, Bounded
    <2> QED
      BY <1>3, <2>2, <2>3, <2>4, StoreCsrType, IdleType
      DEF Approve, CLeave, TypeOK, Keyed
  <1>4. CASE ApproveConflicts \/ StoreCertificateFails
    BY <1>4, <1>b DEF ApproveConflicts, StoreCertificateFails, CRetry, TypeOK
  <1>5. CASE ReadKey
    <2>1. CASE keyCache = NoKey
      BY <1>5, <1>b, <2>1 DEF ReadKey, CRetry, TypeOK
    <2>2. CASE keyCache # NoKey
      <3>1. keyCache.key # 0 /\ keyCache.key \in Nat
        BY <2>2 DEF TypeOK, Keyed, KeySecret
      <3>2. /\ crec' \in Signing /\ crec'.pc = "owner"
            /\ crec'.key # 0 /\ crec'.cert = crec.cert
        BY <1>5, <2>2, <3>1 DEF ReadKey, TypeOK, Signing
      <3>3. mixups' \subseteq {"overlap", "dropped", "stale"}
        BY <1>5, <2>2 DEF ReadKey, Record, TypeOK
      <3> QED
        BY <1>5, <2>2, <3>2, <3>3 DEF ReadKey, TypeOK, Keyed
    <2> QED
      BY <2>1, <2>2
  <1>6. CASE ReadOwner
    <2>1. CASE qsecCache = 0
      BY <1>6, <1>b, <2>1 DEF ReadOwner, CRetry, TypeOK
    <2>2. CASE qsecCache # 0
      <3>1. /\ crec' \in Signing /\ crec'.pc = "root"
            /\ crec'.key = crec.key /\ crec'.cert = crec.cert
        BY <1>6, <2>2 DEF ReadOwner, TypeOK, Signing
      <3> QED
        BY <1>6, <2>2, <3>1 DEF ReadOwner, TypeOK, Keyed
    <2> QED
      BY <2>1, <2>2
  <1>7. CASE ReadRootCA
    <2>1. spent' \in [Bounded -> Nat]
      BY <1>7, <1>a DEF ReadRootCA, TypeOK, Bounded
    <2>2. CASE CDone
      BY <1>7, <1>b, <2>1, <2>2 DEF ReadRootCA, CDone
    <2>3. CASE CGoto("lookup") /\ UNCHANGED <<fresh, work, spent>>
      <3>1. /\ crec' \in Signing /\ crec'.pc = "lookup"
            /\ crec'.key = crec.key /\ crec'.cert = crec.cert
        BY <2>3, GotoType
      <3> QED
        BY <1>7, <2>3, <3>1 DEF ReadRootCA, TypeOK, Keyed
    <2> QED
      BY <1>7, <2>2, <2>3 DEF ReadRootCA
  <1>8. CASE LookupTarget
    <2>1. /\ crec' \in Signing /\ crec'.pc \in {"create", "deleteKey", "update"}
          /\ crec'.key = crec.key /\ crec'.cert = crec.cert
      BY <1>8, GotoType DEF LookupTarget
    <2>2. /\ fresh' \subseteq fresh \cup {"target"} /\ "csr" \notin fresh
          /\ "target" \in fresh' => crec'.pc = "update"
      BY <1>8, GotoType DEF LookupTarget, TypeOK
    <2> QED
      BY <1>8, <2>1, <2>2 DEF LookupTarget, TypeOK, Keyed
  <1>9. CASE StoreCertificate
    <2>1. crec.pc \in {"create", "update"}
      BY <1>9 DEF StoreCertificate, TargetAccepted
    <2>2. Merged \in Target
      BY DEF Merged, TypeOK, Target, Signing
    <2>3. spent' \in [Bounded -> Nat]
      BY <1>9, <1>a DEF StoreCertificate, TypeOK, Bounded
    <2>4. /\ crec' \in Signing /\ crec'.pc \in {"idle", "deleteKey"}
          /\ crec'.pc = "deleteKey" =>
               crec'.key = crec.key /\ crec'.cert = crec.cert
          /\ work' \subseteq work \cup {"csr"}
      BY <1>9, GotoType, IdleType DEF StoreCertificate
    <2>5. /\ target' \in Target /\ fresh' = fresh \ {"target"}
          /\ "csr" \notin fresh
      BY <1>9, <2>1, <2>2 DEF StoreCertificate, PutTarget, TypeOK
    <2> QED
      BY <1>9, <2>1, <2>3, <2>4, <2>5
      DEF StoreCertificate, PutTarget, TypeOK, Keyed
  <1>10. CASE DeleteKey
    <2>1. CASE keySecret = NoKey
      BY <1>10, <1>b, <2>1 DEF DeleteKey, CRetry, TypeOK
    <2>2. CASE keySecret # NoKey
      <3>1. spent' \in [Bounded -> Nat]
        BY <1>10, <1>a DEF DeleteKey, TypeOK, Bounded
      <3>2. /\ crec' \in Signing /\ crec'.pc \in {"idle", "deleteCsr"}
            /\ crec'.pc = "deleteCsr" =>
                 crec'.key = crec.key /\ crec'.cert = crec.cert
            /\ work' \subseteq work \cup {"csr"}
        BY <1>10, <2>2, GotoType, IdleType DEF DeleteKey
      <3>3. fresh' = fresh \ {"key"} /\ fresh \cap {"target", "csr"} = {}
        BY <1>10, <2>2 DEF DeleteKey, PutKey, TypeOK
      <3>4. NoKey \in KeySecret
        BY DEF NoKey, KeySecret
      <3> QED
        BY <1>10, <2>2, <3>1, <3>2, <3>3, <3>4
        DEF DeleteKey, PutKey, TypeOK, Keyed
    <2> QED
      BY <2>1, <2>2
  <1>11. CASE DeleteCsr
    <2>1. CASE csr = NoCsr
      BY <1>11, <1>b, <2>1 DEF DeleteCsr, CRetry, TypeOK
    <2>2. CASE csr # NoCsr
      <3>1. /\ csr' = NoCsr /\ csrWatch' = Append(csrWatch, NoCsr)
            /\ UNCHANGED csrCache
        BY <1>11, <2>2 DEF DeleteCsr
      <3>2. CLeave /\ work' \subseteq work \cup {"csr"}
        BY <1>11, <2>2 DEF DeleteCsr, CDone, CRetry
      <3>3. spent' \in [Bounded -> Nat]
        BY <1>11, <1>a DEF DeleteCsr, TypeOK, Bounded
      <3> QED
        BY <1>11, <3>1, <3>2, <3>3, NoCsrType, StoreCsrType, IdleType
        DEF DeleteCsr, CLeave, TypeOK, Keyed
    <2> QED
      BY <2>1, <2>2
  <1>12. CASE SigningFails
    <2>1. spent' \in [Bounded -> Nat]
      BY <1>12, <1>a DEF SigningFails, Bounded
    <2> QED
      BY <1>12, <1>b, <2>1 DEF SigningFails, CRetry
  <1> QED
    BY <1>1, <1>2, <1>3, <1>4, <1>5, <1>6, <1>7, <1>8, <1>9, <1>10, <1>11,
       <1>12
    DEF ReconcileCsr

\* Every step keeps the types and the keys.
LEMMA NextType == TypeOK /\ Keyed /\ [Next]_vars => TypeOK' /\ Keyed'
  <1> SUFFICES ASSUME TypeOK, Keyed, [Next]_vars PROVE TypeOK' /\ Keyed'
    OBVIOUS
  <1>1. CASE UNCHANGED vars
    BY <1>1 DEF vars, TypeOK, Keyed, qsecVars, secretVars, csrVars, recVars
  <1>2. CASE Next
    BY <1>2, EnvironmentType, MintingType, SigningType DEF Next
  <1> QED
    BY <1>1, <1>2

\* Every variable keeps its type, and nothing is without its key.
LEMMA KeyedCorrect == Spec => [](TypeOK /\ Keyed)
  BY InitType, NextType, PTL DEF Spec

\* Every variable keeps its type, and a current copy belongs to a write.
THEOREM TypeCorrect == Spec => []TypeOK
  BY KeyedCorrect, PTL

--------------------------------------------------------------------------
(* No request is left alone.                                               *)

\* What the informer will have seen in the end is what is stored, and a
\* reconcile that found a request to be approved hears of its certificate.
Told ==
  /\ IF csrWatch = <<>> THEN csrCache = csr ELSE csrWatch[Len(csrWatch)] = csr
  /\ crec.pc = "get" /\ csr.issued => csrWatch # <<>> \/ "csr" \in work

\* A new version of the request is on its way to the informer.
LEMMA StoreCsrTold ==
  ASSUME TypeOK, NEW c \in Request,
         csr' = c, csrWatch' = Append(csrWatch, c)
  PROVE  Told' /\ RequestAttended'
  <1>1. csrWatch' # <<>> /\ csrWatch'[Len(csrWatch')] = csr'
    BY DEF TypeOK
  <1> QED
    BY <1>1 DEF Told, RequestAttended

\* A step that touches no request, and takes no work.
LEMMA CsrKept ==
  ASSUME Told, UNCHANGED csrVars, "csr" \in work => "csr" \in work',
         crec'.pc = "get" => crec.pc = "get"
  PROVE  Told'
  BY DEF Told, csrVars

\* Every step leaves the request on somebody's mind.
LEMMA AttendedStep ==
  TypeOK /\ Keyed /\ Told /\ RequestAttended /\ [Next]_vars
    => Told' /\ RequestAttended'
  <1> SUFFICES ASSUME TypeOK, Keyed, Told, RequestAttended, [Next]_vars
               PROVE  Told' /\ RequestAttended'
    OBVIOUS
  <1> USE DEF qsecVars, secretVars, csrVars, recVars
  <1>a. \A b \in Bounded : Spend(b) =>
          (spent'["root"] = 0 => b # "root" /\ spent["root"] = 0)
    BY DEF Spend, TypeOK, Bounded
  <1>b. csr = NoCsr => ~csr.approved /\ ~csr.issued
    BY DEF NoCsr
  <1>c. \A c \in Requests : c # NoCsr => Passes(c)
    BY DEF Requests, Passes
  <1>d. csrWatch = <<>> => csrCache = csr
    BY DEF Told
  <1>e. ASSUME UNCHANGED <<csrVars, crec>>, "csr" \in work => "csr" \in work',
               spent'["root"] = 0 => spent["root"] = 0
        PROVE  Told' /\ RequestAttended'
    BY <1>e, CsrKept DEF RequestAttended
  <1>f. ASSUME UNCHANGED csrVars, "csr" \in work => "csr" \in work',
               crec' # CIdle, crec'.pc # "get"
        PROVE  Told' /\ RequestAttended'
    BY <1>f, CsrKept DEF RequestAttended
  <1>g. ASSUME UNCHANGED csrVars, CRetry
        PROVE  Told' /\ RequestAttended'
    BY <1>g, IdleType, CsrKept DEF RequestAttended, CRetry, CLeave
  <1>1. CASE UNCHANGED vars
    BY <1>1, <1>e DEF vars
  <1>2. CASE \/ CreateQSec \/ DeleteQSec \/ Rotate \/ CreateUserSecret
             \/ CollectKey \/ CollectTarget \/ DeliverQSec \/ ResyncCsr
             \/ SyncSecrets
    <2>1. UNCHANGED <<csrVars, crec>> /\ ("csr" \in work => "csr" \in work')
      BY <1>2
      DEF CreateQSec, DeleteQSec, Rotate, CreateUserSecret, CollectKey,
          CollectTarget, DeliverQSec, ResyncCsr, SyncSecrets, PutTarget, PutKey
    <2>2. spent'["root"] = 0 => spent["root"] = 0
      BY <1>2, <1>a
      DEF CreateQSec, DeleteQSec, Rotate, CreateUserSecret, CollectKey,
          CollectTarget, DeliverQSec, ResyncCsr, SyncSecrets, Bounded
    <2> QED
      BY <1>e, <2>1, <2>2
  <1>3. CASE ApproveByHand \/ Issue
    <2>1. csr' \in Request /\ csrWatch' = Append(csrWatch, csr')
      BY <1>3 DEF ApproveByHand, Issue, PutCsr, TypeOK, Request
    <2> QED
      BY <2>1, StoreCsrTold
  <1>4. CASE DeliverCsr
    <2>1. csrWatch # <<>> /\ csrWatch[Len(csrWatch)] = csr
      BY <1>4 DEF DeliverCsr, Told
    <2>2. /\ csrCache' \in Requests
          /\ csrWatch' = <<>> => csrCache' = csr'
          /\ csrWatch' # <<>> => csrWatch'[Len(csrWatch')] = csr'
      BY <1>4, <2>1, HeadTail DEF DeliverCsr, Keyed
    <2>3. csrCache' # NoCsr => "csr" \in work'
      BY <1>4, <1>c, <2>2 DEF DeliverCsr
    <2> QED
      BY <1>4, <1>b, <2>2, <2>3 DEF DeliverCsr, Told, RequestAttended
  <1>5. CASE Restart
    <2>1. csr # NoCsr => "csr" \in work'
      BY <1>5, <1>c DEF Restart, Keyed
    <2> QED
      BY <1>5, <2>1, IdleType DEF Restart, Told, RequestAttended
  <1>6. CASE ReconcileQSec \/ MintingFails
    <2>1. CASE RequestCsr
      <3>1. csr' \in Request /\ csrWatch' = Append(csrWatch, csr')
        BY <2>1 DEF RequestCsr, NewCsr, NoCsr, Request, TypeOK, Minting
      <3> QED
        BY <3>1, StoreCsrTold
    <2>2. CASE ~RequestCsr
      <3>1. UNCHANGED <<csrVars, crec>> /\ ("csr" \in work => "csr" \in work')
        BY <1>6, <2>2
        DEF ReconcileQSec, Mint, CheckTarget, LookupKey, StoreKey,
            StoreKeyFails, FindCsr, RequestCsrFails, MintingFails, QDone,
            QRetry
      <3>2. spent'["root"] = 0 => spent["root"] = 0
        BY <1>6, <1>a, <2>2
        DEF ReconcileQSec, Mint, CheckTarget, LookupKey, StoreKey,
            StoreKeyFails, FindCsr, RequestCsrFails, MintingFails, Bounded
      <3> QED
        BY <1>e, <3>1, <3>2
    <2> QED
      BY <2>1, <2>2
  <1>7. CASE TakeCsr
    <2>1. CASE csrCache = NoCsr
      BY <1>7, <1>b, <1>d, <2>1, IdleType
      DEF TakeCsr, Told, RequestAttended
    <2>2. CASE csrCache # NoCsr /\ ~csrCache.issued /\ CGoto("get")
      <3>1. crec'.pc = "get"
        BY <2>2, GotoType
      <3> QED
        BY <1>7, <1>d, <2>2, <3>1, IdleType
        DEF TakeCsr, Told, RequestAttended
    <2>3. CASE /\ csrCache.issued
               /\ crec' = [CIdle EXCEPT !.pc = "key", !.cert = csrCache.key]
      <3>1. crec'.pc = "key"
        BY <2>3, IdleType DEF Signing
      <3> QED
        BY <1>7, <3>1, IdleType DEF TakeCsr, Told, RequestAttended
    <2> QED
      BY <1>7, <2>1, <2>2, <2>3 DEF TakeCsr
  <1>8. CASE GetCsr
    <2>1. CASE csr.approved /\ CDone
      BY <1>8, <2>1, IdleType, CsrKept
      DEF GetCsr, CDone, CLeave, Told, RequestAttended
    <2>2. CASE CGoto("approve") /\ UNCHANGED work
      <3>1. crec'.pc = "approve"
        BY <2>2, GotoType
      <3> QED
        BY <1>8, <1>f, <2>2, <3>1, IdleType DEF GetCsr
    <2> QED
      BY <1>8, <1>g, <2>1, <2>2 DEF GetCsr
  <1>9. CASE Approve
    <2>1. csr' \in Request /\ csrWatch' = Append(csrWatch, csr')
      BY <1>9 DEF Approve, TypeOK, Request
    <2> QED
      BY <2>1, StoreCsrTold
  <1>10. CASE ApproveConflicts \/ StoreCertificateFails \/ SigningFails
    BY <1>10, <1>g DEF ApproveConflicts, StoreCertificateFails, SigningFails
  <1>11. CASE ReadKey \/ ReadOwner
    <2>1. CRetry \/ (crec'.pc \in {"owner", "root"} /\ UNCHANGED work)
      <3>1. /\ [crec EXCEPT !.pc = "owner", !.key = keyCache.key].pc = "owner"
            /\ [crec EXCEPT !.pc = "root", !.owner = qsecCache].pc = "root"
        BY DEF TypeOK, Signing
      <3> QED
        <4>1. CASE ReadKey
          BY <3>1, <4>1 DEF ReadKey
        <4>2. CASE ReadOwner
          BY <3>1, <4>2 DEF ReadOwner
        <4> QED
          BY <1>11, <4>1, <4>2
    <2> QED
      BY <1>11, <1>f, <1>g, <2>1, IdleType DEF ReadKey, ReadOwner
  <1>12. CASE ReadRootCA
    <2>1. CASE CGoto("lookup") /\ UNCHANGED work
      <3>1. crec'.pc = "lookup"
        BY <2>1, GotoType
      <3> QED
        BY <1>12, <1>f, <2>1, <3>1, IdleType DEF ReadRootCA
    <2>2. CASE Spend("root") /\ CDone
      <3>1. spent'["root"] # 0
        BY <1>a, <2>2 DEF Bounded
      <3> QED
        BY <1>12, <2>2, <3>1, IdleType, CsrKept
        DEF ReadRootCA, CDone, CLeave, RequestAttended
    <2> QED
      BY <1>12, <2>1, <2>2 DEF ReadRootCA
  <1>13. CASE LookupTarget
    <2>1. crec'.pc \in {"create", "deleteKey", "update"}
      BY <1>13, GotoType DEF LookupTarget
    <2> QED
      BY <1>13, <1>f, <2>1, IdleType DEF LookupTarget
  <1>14. CASE StoreCertificate \/ DeleteKey
    <2>1. \/ CRetry
          \/ crec'.pc \in {"deleteKey", "deleteCsr"} /\ UNCHANGED work
          \/ crec' = CIdle /\ work' = work \cup {"csr"}
      BY <1>14, GotoType DEF StoreCertificate, DeleteKey
    <2>2. UNCHANGED csrVars
      BY <1>14 DEF StoreCertificate, DeleteKey
    <2> QED
      BY <1>f, <1>g, <2>1, <2>2, IdleType, CsrKept DEF RequestAttended
  <1>15. CASE DeleteCsr
    <2>1. CASE csr = NoCsr
      BY <1>15, <1>g, <2>1 DEF DeleteCsr
    <2>2. CASE csr # NoCsr
      <3>1. csr' \in Request /\ csrWatch' = Append(csrWatch, csr')
        BY <1>15, <2>2, NoCsrType DEF DeleteCsr, Requests
      <3> QED
        BY <3>1, StoreCsrTold
    <2> QED
      BY <2>1, <2>2
  <1> QED
    BY <1>1, <1>2, <1>3, <1>4, <1>5, <1>6, <1>7, <1>8, <1>9, <1>10, <1>11,
       <1>12, <1>13, <1>14, <1>15
    DEF Next, User, Kubernetes, ReconcileCsr

\* A signing request that is stored is due, on its way to the CSR controller,
\* in its hands, or waits for the signer, through restarts, late caches and
\* failing calls, if no read of the root CA ends its reconcile.
THEOREM RequestsAttended == Spec => []RequestAttended
  <1>1. Init => Told /\ RequestAttended
    BY IdleType DEF Init, Told, RequestAttended
  <1> QED
    BY <1>1, AttendedStep, KeyedCorrect, PTL DEF Spec

--------------------------------------------------------------------------
(* What a step can be.                                                     *)

\* The fields of what is stored and of an idle reconcile.
LEMMA Fields ==
  /\ NoKey.key = 0 /\ NoKey.owner = 0
  /\ NoTarget.kind = "none" /\ NoTarget.key = 0 /\ NoTarget.owner = 0
  /\ LET u == [NoTarget EXCEPT !.kind = "user"]
     IN u.kind = "user" /\ u.key = 0 /\ u.owner = 0
  /\ QIdle.uid = 0 /\ CIdle.owner = 0
  BY DEF NoKey, NoTarget, QIdle, CIdle

\* The stored request changes in these ways.
LEMMA CsrStep ==
  ASSUME [Next]_vars
  PROVE  \/ ApproveByHand \/ Issue \/ Approve \/ RequestCsr \/ DeleteCsr
         \/ csr' = csr
  BY DEF Next, User, Kubernetes, ReconcileQSec, ReconcileCsr, vars,
         secretVars, csrVars, CreateQSec, DeleteQSec, Rotate,
         CreateUserSecret, CollectKey, CollectTarget, DeliverQSec, DeliverCsr,
         ResyncCsr, SyncSecrets, Restart, Mint, CheckTarget, LookupKey,
         StoreKey, StoreKeyFails, FindCsr, RequestCsrFails, MintingFails,
         TakeCsr, GetCsr, ApproveConflicts, ReadKey, ReadOwner, ReadRootCA,
         LookupTarget, StoreCertificate, StoreCertificateFails, DeleteKey,
         SigningFails

\* What is on its way to the informer is what was stored.
LEMMA WatchStep ==
  ASSUME [Next]_vars
  PROVE  \/ DeliverCsr \/ Restart
         \/ /\ ApproveByHand \/ Issue \/ Approve \/ RequestCsr \/ DeleteCsr
            /\ csrCache' = csrCache /\ csrWatch' = Append(csrWatch, csr')
         \/ UNCHANGED <<csrCache, csrWatch>>
  BY DEF Next, User, Kubernetes, ReconcileQSec, ReconcileCsr, vars,
         secretVars, csrVars, CreateQSec, DeleteQSec, Rotate,
         CreateUserSecret, CollectKey, CollectTarget, DeliverQSec, ResyncCsr,
         SyncSecrets, Mint, CheckTarget, LookupKey, StoreKey, StoreKeyFails,
         FindCsr, RequestCsr, RequestCsrFails, MintingFails, TakeCsr, GetCsr,
         ApproveByHand, Issue, Approve, DeleteCsr, ApproveConflicts, ReadKey,
         ReadOwner, ReadRootCA, LookupTarget, StoreCertificate,
         StoreCertificateFails, DeleteKey, SigningFails, PutCsr

\* The private key is stored and deleted in these ways.
LEMMA KeyStep ==
  ASSUME [Next]_vars
  PROVE  /\ StoreKey \/ CollectKey \/ DeleteKey \/ keySecret' = keySecret
         /\ keyCache' \in {keyCache, keySecret}
  BY DEF Next, User, Kubernetes, ReconcileQSec, ReconcileCsr, vars,
         secretVars, csrVars, CreateQSec, DeleteQSec, Rotate,
         CreateUserSecret, CollectKey, CollectTarget, DeliverQSec, DeliverCsr,
         ResyncCsr, SyncSecrets, Restart, Mint, CheckTarget, LookupKey,
         StoreKey, StoreKeyFails, FindCsr, RequestCsr, RequestCsrFails,
         MintingFails, TakeCsr, GetCsr, ApproveByHand, Issue, Approve,
         DeleteCsr, ApproveConflicts, ReadKey, ReadOwner, ReadRootCA,
         LookupTarget, StoreCertificate, StoreCertificateFails, DeleteKey,
         SigningFails, PutKey, PutTarget

\* A reconcile of the request that is idle begins with a request in the cache;
\* one that is past the key has read it from the cache.
LEMMA SigningStep ==
  ASSUME TypeOK, [Next]_vars
  PROVE  /\ crec = CIdle /\ csrCache = NoCsr => crec' = CIdle
         /\ \/ crec'.key \in {0, crec.key}
            \/ ReadKey /\ keyCache # NoKey /\ crec'.key = keyCache.key
         /\ crec.pc \in {"idle", "get", "approve"} /\ ~csrCache.issued
              => crec'.pc \in {"idle", "get", "approve"}
         /\ crec'.pc = "deleteCsr" => DeleteKey \/ crec.pc = "deleteCsr"
  <1> USE DEF qsecVars, secretVars, csrVars, recVars
  <1>1. CASE UNCHANGED crec
    BY <1>1
  <1>2. CASE Restart \/ ApproveConflicts \/ StoreCertificateFails
               \/ SigningFails \/ DeleteCsr \/ Approve
    BY <1>2, IdleType
    DEF Restart, ApproveConflicts, StoreCertificateFails, SigningFails,
        DeleteCsr, Approve, CDone, CRetry, CLeave
  <1>3. CASE TakeCsr
    <2>1. LET r == [CIdle EXCEPT !.pc = "key", !.cert = csrCache.key]
          IN r.pc = "key" /\ r.key = 0
      BY IdleType DEF Signing
    <2>2. NoCsr.issued = FALSE
      BY DEF NoCsr
    <2> QED
      BY <1>3, <2>1, <2>2, GotoType, IdleType DEF TakeCsr
  <1>4. CASE GetCsr \/ ReadRootCA \/ LookupTarget \/ StoreCertificate
    <2>1. \/ crec' = CIdle
          \/ GetCsr /\ crec.pc = "get" /\ CGoto("approve")
          \/ crec.pc = "root" /\ CGoto("lookup")
          \/ crec.pc = "lookup"
               /\ (CGoto("create") \/ CGoto("update") \/ CGoto("deleteKey"))
          \/ crec.pc \in {"create", "update"} /\ CGoto("deleteKey")
      BY <1>4
      DEF GetCsr, ReadRootCA, LookupTarget, StoreCertificate, TargetAccepted,
          CDone, CRetry, CLeave
    <2> QED
      BY <2>1, GotoType, IdleType
  <1>5. CASE ReadKey \/ ReadOwner
    <2>1. LET o == [crec EXCEPT !.pc = "owner", !.key = keyCache.key]
          IN o.pc = "owner" /\ o.key = keyCache.key
      BY DEF TypeOK, Signing
    <2>2. LET o == [crec EXCEPT !.pc = "root", !.owner = qsecCache]
          IN o.pc = "root" /\ o.key = crec.key
      BY DEF TypeOK, Signing
    <2> QED
      BY <1>5, <2>1, <2>2, IdleType DEF ReadKey, ReadOwner, CRetry, CLeave
  <1>6. CASE DeleteKey
    <2>1. crec' = CIdle \/ CGoto("deleteCsr")
      BY <1>6 DEF DeleteKey, CRetry, CLeave
    <2> QED
      BY <1>6, <2>1, GotoType, IdleType DEF DeleteKey
  <1>7. UNCHANGED crec \/ Restart \/ ReconcileCsr \/ SigningFails
    BY DEF Next, User, Kubernetes, ReconcileQSec, vars, CreateQSec, DeleteQSec,
           Rotate, CreateUserSecret, ApproveByHand, CollectKey, CollectTarget,
           Issue, DeliverQSec, DeliverCsr, ResyncCsr, SyncSecrets, Mint,
           CheckTarget, LookupKey, StoreKey, StoreKeyFails, FindCsr,
           RequestCsr, RequestCsrFails, MintingFails
  <1> QED
    BY <1>1, <1>2, <1>3, <1>4, <1>5, <1>6, <1>7 DEF ReconcileCsr

\* A reconcile of the QuarksSecret begins with a key, asks for it to be stored,
\* and then for the request.
LEMMA MintingStep ==
  ASSUME TypeOK, [Next]_vars, ~Mint \/ qsecCache = 0, qrec'.pc # "idle"
  PROVE  /\ qrec.pc # "idle" /\ ~RequestCsr /\ ~Restart
         /\ qrec'.pc \in {"find", "request"} =>
              \/ qrec.pc \in {"find", "request"} \/ StoreKey
              \/ CheckTarget /\ QGoto("find")
  <1> USE DEF qsecVars, secretVars, csrVars, recVars
  <1>1. CASE CheckTarget \/ LookupKey \/ StoreKey \/ FindCsr
    <2>1. \/ qrec.pc = "check" /\ CheckTarget
               /\ (QGoto("find") \/ QGoto("lookup"))
          \/ qrec.pc = "lookup" /\ (QGoto("create") \/ QGoto("update"))
          \/ StoreKey /\ qrec.pc \in {"create", "update"} /\ QGoto("find")
          \/ qrec.pc = "find" /\ QGoto("request")
      BY <1>1, IdleType
      DEF CheckTarget, LookupKey, StoreKey, KeyAccepted, FindCsr, QDone, QRetry
    <2>2. ~RequestCsr /\ ~Restart
      BY <1>1, <2>1, IdleType
      DEF CheckTarget, LookupKey, StoreKey, KeyAccepted, FindCsr, RequestCsr,
          Restart
    <2> QED
      BY <2>1, <2>2, GotoType
  <1>2. ~(StoreKeyFails \/ RequestCsr \/ RequestCsrFails \/ MintingFails
            \/ Restart)
    BY IdleType
    DEF StoreKeyFails, RequestCsr, RequestCsrFails, MintingFails, Restart,
        QDone, QRetry
  <1>3. CASE UNCHANGED qrec /\ ~StoreKey
    BY <1>2, <1>3
  <1>4. \/ CheckTarget \/ LookupKey \/ StoreKey \/ FindCsr
        \/ UNCHANGED qrec
    BY <1>2
    DEF Next, User, Kubernetes, ReconcileQSec, ReconcileCsr, vars, Mint,
        CreateQSec, DeleteQSec, Rotate, CreateUserSecret, ApproveByHand,
        CollectKey, CollectTarget, Issue, DeliverQSec, DeliverCsr, ResyncCsr,
        SyncSecrets, TakeCsr, GetCsr, Approve, ApproveConflicts, ReadKey,
        ReadOwner, ReadRootCA, LookupTarget, StoreCertificate,
        StoreCertificateFails, DeleteKey, DeleteCsr, SigningFails
  <1> QED
    BY <1>1, <1>3, <1>4

\* When no request is about, none comes about but by being made.
LEMMA QuietStep ==
  ASSUME TypeOK, Keyed, Quiet, [Next]_vars
  PROVE  Quiet' \/ RequestCsr
  <1>1. crec' = CIdle
    BY SigningStep DEF Quiet
  <1>2. ~(ApproveByHand \/ Issue \/ Approve \/ DeleteCsr)
    <2>1. NoCsr.approved = FALSE /\ "csr" \notin fresh
      BY DEF NoCsr, Keyed, Quiet
    <2> QED
      BY <2>1, IdleType DEF ApproveByHand, Issue, Approve, DeleteCsr, Quiet
  <1>3. ASSUME ~RequestCsr
        PROVE  csr' = NoCsr /\ csrCache' = NoCsr /\ csrWatch' = <<>>
    BY <1>2, <1>3, CsrStep, WatchStep DEF Quiet, DeliverCsr, Restart
  <1> QED
    BY <1>1, <1>3 DEF Quiet

--------------------------------------------------------------------------
(* One key at a time.                                                      *)

\* Everything there is belongs to the round of one key.
RequestsFor(k) == {c \in Requests : c.key \in {0, k}}

Numbers(k) ==
  /\ {qrec.key, crec.key, crec.cert} \subseteq {0, k}
  /\ csr \in RequestsFor(k) /\ csrCache \in RequestsFor(k)
  /\ csrWatch \in Seq(RequestsFor(k))

\* The stored key is that of the round once the request is about or due.
Paired(k) == \/ Quiet /\ qrec.pc \notin {"find", "request"}
             \/ keySecret.key \in {0, k}

Round(k) == Numbers(k) /\ Paired(k)

\* While a key is made and stored no request is about.
Waits == qrec.pc # "idle" => Quiet

OneRound == mixups = {} => Usable(target) /\ Waits /\ \E k \in Nat : Round(k)

\* A request of the round on its way to the informer is of the round.
LEMMA StoreCsrRound ==
  ASSUME NEW k, Numbers(k), NEW c \in RequestsFor(k),
         csr' = c, csrWatch' = Append(csrWatch, c), UNCHANGED csrCache
  PROVE  /\ csr' \in RequestsFor(k) /\ csrCache' \in RequestsFor(k)
         /\ csrWatch' \in Seq(RequestsFor(k))
  BY DEF Numbers

\* No step but making a key brings another key in.
LEMMA NumbersStep ==
  ASSUME TypeOK, Keyed, NEW k \in Nat, Numbers(k), Paired(k),
         [Next]_vars, ~Mint \/ qsecCache = 0, mixups' = {}
  PROVE  Numbers(k)'
  <1> USE DEF qsecVars, secretVars, csrVars, recVars
  <1>a. ASSUME UNCHANGED <<qrec, crec, csrVars>>
        PROVE  Numbers(k)'
    BY <1>a DEF Numbers
  <1>b. ASSUME UNCHANGED csrVars,
               qrec'.key \in {0, qrec.key},
               crec'.key \in {0, crec.key, k},
               crec'.cert \in {0, crec.cert, csrCache.key}
        PROVE  Numbers(k)'
    BY <1>b DEF Numbers, RequestsFor
  <1>1. CASE UNCHANGED vars
    BY <1>1, <1>a DEF vars
  <1>2. CASE \/ CreateQSec \/ DeleteQSec \/ Rotate \/ CreateUserSecret
             \/ CollectTarget \/ DeliverQSec \/ ResyncCsr
    BY <1>2, <1>a
    DEF CreateQSec, DeleteQSec, Rotate, CreateUserSecret, CollectTarget,
        DeliverQSec, ResyncCsr, PutTarget
  <1>3. CASE CollectKey
    BY <1>3, <1>a DEF CollectKey
  <1>4. CASE ApproveByHand \/ Issue \/ Approve
    <2>1. /\ [csr EXCEPT !.approved = TRUE] \in RequestsFor(k)
          /\ [csr EXCEPT !.issued = TRUE] \in RequestsFor(k)
      <3>1. csr # NoCsr
        BY <1>4 DEF ApproveByHand, Issue, Approve, NoCsr, Keyed
      <3> QED
        BY <3>1 DEF Numbers, RequestsFor, Requests, Request, NoCsr
    <2>2. /\ csr' \in RequestsFor(k) /\ csrWatch' = Append(csrWatch, csr')
          /\ UNCHANGED <<csrCache, qrec>>
      BY <1>4, <2>1 DEF ApproveByHand, Issue, Approve, PutCsr
    <2>3. crec'.key \in {0, crec.key} /\ crec'.cert \in {0, crec.cert}
      BY <1>4, IdleType
      DEF ApproveByHand, Issue, Approve, CDone, CRetry, CLeave
    <2> QED
      BY <2>2, <2>3, StoreCsrRound DEF Numbers
  <1>5. CASE DeliverCsr
    <2>1. /\ csrCache' \in RequestsFor(k)
          /\ csrWatch' \in Seq(RequestsFor(k))
      BY <1>5, HeadTail DEF DeliverCsr, Numbers
    <2> QED
      BY <1>5, <2>1 DEF DeliverCsr, Numbers
  <1>6. CASE SyncSecrets
    BY <1>6, <1>a DEF SyncSecrets
  <1>7. CASE Restart
    <2>1. <<>> \in Seq(RequestsFor(k))
      OBVIOUS
    <2> QED
      BY <1>7, <2>1, IdleType DEF Restart, Numbers
  <1>8. CASE Mint
    BY <1>8, <1>a DEF Mint
  <1>9. CASE CheckTarget \/ LookupKey \/ StoreKeyFails \/ FindCsr
               \/ RequestCsrFails \/ MintingFails
    <2>1. qrec'.key \in {0, qrec.key}
      BY <1>9, GotoType, IdleType
      DEF CheckTarget, LookupKey, StoreKeyFails, FindCsr, RequestCsrFails,
          MintingFails, QDone, QRetry
    <2> QED
      BY <1>9, <1>b, <2>1
      DEF CheckTarget, LookupKey, StoreKeyFails, FindCsr, RequestCsrFails,
          MintingFails
  <1>10. CASE StoreKey
    <2>1. qrec'.key \in {0, qrec.key}
      BY <1>10, GotoType, IdleType DEF StoreKey, QRetry
    <2> QED
      BY <1>10, <1>b, <2>1 DEF StoreKey
  <1>11. CASE RequestCsr
    <2>1. qrec.key \in {0, k} /\ qrec.key # 0
      BY <1>11 DEF RequestCsr, Numbers, Keyed
    <2>2. NewCsr(qrec.key) \in RequestsFor(k)
      BY <2>1 DEF NewCsr, NoCsr, RequestsFor, Requests, Request
    <2>3. qrec'.key = 0
      BY <1>11, IdleType DEF RequestCsr, QDone, QRetry
    <2> QED
      BY <1>11, <2>2, <2>3, StoreCsrRound DEF RequestCsr, Numbers
  <1>12. CASE TakeCsr
    <2>1. crec'.key \in {0, crec.key}
            /\ crec'.cert \in {0, crec.cert, csrCache.key}
      <3>1. [CIdle EXCEPT !.pc = "key", !.cert = csrCache.key].key = 0
        BY IdleType DEF Signing
      <3>2. [CIdle EXCEPT !.pc = "key", !.cert = csrCache.key].cert
              = csrCache.key
        BY IdleType DEF Signing
      <3> QED
        BY <1>12, <3>1, <3>2, GotoType DEF TakeCsr
    <2> QED
      BY <1>12, <1>b, <2>1 DEF TakeCsr
  <1>13. CASE GetCsr \/ ReadRootCA \/ LookupTarget \/ ApproveConflicts
                \/ StoreCertificateFails \/ SigningFails
    <2>1. crec'.key \in {0, crec.key} /\ crec'.cert \in {0, crec.cert}
      BY <1>13, GotoType, IdleType
      DEF GetCsr, ReadRootCA, LookupTarget, ApproveConflicts,
          StoreCertificateFails, SigningFails, CDone, CRetry, CLeave
    <2> QED
      BY <1>13, <1>b, <2>1
      DEF GetCsr, ReadRootCA, LookupTarget, ApproveConflicts,
          StoreCertificateFails, SigningFails
  <1>14. CASE ReadKey \/ ReadOwner
    <2>1. LET o == [crec EXCEPT !.pc = "owner", !.key = keyCache.key]
          IN o.key = keyCache.key /\ o.cert = crec.cert
      BY DEF TypeOK, Signing
    <2>2. LET o == [crec EXCEPT !.pc = "root", !.owner = qsecCache]
          IN o.key = crec.key /\ o.cert = crec.cert
      BY DEF TypeOK, Signing
    <2>3. ASSUME ReadKey, keyCache # NoKey
          PROVE  keyCache.key \in {0, k}
      <3>1. keyCache = keySecret
        BY <2>3 DEF ReadKey, Record
      <3>2. ~Quiet
        BY <2>3, IdleType DEF ReadKey, Quiet
      <3> QED
        BY <3>1, <3>2 DEF Paired
    <2>4. crec'.key \in {0, crec.key, k}
            /\ crec'.cert \in {0, crec.cert}
      BY <1>14, <2>1, <2>2, <2>3, IdleType
      DEF ReadKey, ReadOwner, CRetry, CLeave
    <2> QED
      BY <1>14, <1>b, <2>4 DEF ReadKey, ReadOwner
  <1>15. CASE StoreCertificate
    <2>1. crec'.key \in {0, crec.key} /\ crec'.cert \in {0, crec.cert}
      BY <1>15, GotoType, IdleType DEF StoreCertificate
    <2> QED
      BY <1>15, <1>b, <2>1 DEF StoreCertificate
  <1>16. CASE DeleteKey
    <2>1. crec'.key \in {0, crec.key} /\ crec'.cert \in {0, crec.cert}
      BY <1>16, GotoType, IdleType DEF DeleteKey, CRetry, CLeave
    <2> QED
      BY <1>16, <1>b, <2>1 DEF DeleteKey
  <1>17. CASE DeleteCsr
    <2>1. crec' = CIdle
      BY <1>17 DEF DeleteCsr, CDone, CRetry, CLeave
    <2>2. CASE csr = NoCsr
      BY <1>17, <1>b, <2>1, <2>2, IdleType DEF DeleteCsr
    <2>3. CASE csr # NoCsr
      <3>1. NoCsr \in RequestsFor(k)
        BY NoCsrType DEF RequestsFor, NoCsr
      <3> QED
        BY <1>17, <2>1, <2>3, <3>1, IdleType, StoreCsrRound
        DEF DeleteCsr, Numbers
    <2> QED
      BY <2>2, <2>3
  <1> QED
    BY <1>1, <1>2, <1>3, <1>4, <1>5, <1>6, <1>7, <1>8, <1>9, <1>10, <1>11,
       <1>12, <1>13, <1>14, <1>15, <1>16, <1>17
    DEF Next, User, Kubernetes, ReconcileQSec, ReconcileCsr

\* No request is about before the key of the round is stored.
LEMMA WaitsStep ==
  ASSUME TypeOK, Keyed, Waits, [Next]_vars, ~Mint \/ qsecCache = 0
  PROVE  Waits'
  BY MintingStep, QuietStep DEF Waits

\* Nothing but the key of the round is stored for its request.
LEMMA PairedStep ==
  ASSUME TypeOK, Keyed, NEW k \in Nat, Round(k), [Next]_vars,
         ~Mint \/ qsecCache = 0, mixups' = {}
  PROVE  Paired(k)'
  <1> USE DEF secretVars
  <1>1. CASE StoreKey
    <2>1. qrec.key \in {0, k} /\ keySecret'.key = qrec.key
      BY <1>1 DEF StoreKey, PutKey, Round, Numbers
    <2> QED
      BY <2>1 DEF Paired
  <1>2. CASE keySecret' = NoKey
    BY <1>2, Fields DEF Paired
  <1>3. CASE ~StoreKey /\ keySecret' = keySecret /\ keySecret' # NoKey
    <2>1. CASE keySecret.key \in {0, k}
      BY <1>3, <2>1 DEF Paired
    <2>2. CASE Quiet /\ qrec.pc \notin {"find", "request"}
      <3>1. ~(CheckTarget /\ QGoto("find"))
        <4> SUFFICES ASSUME CheckTarget, QGoto("find") PROVE FALSE
          OBVIOUS
        <4>1. ~QGoto("lookup")
          BY GotoType
        <4> QED
          BY <1>3, <4>1 DEF CheckTarget, Record
      <3>2. qrec'.pc \notin {"find", "request"}
        BY <1>3, <2>2, <3>1, MintingStep
      <3>3. Quiet'
        BY <2>2, QuietStep DEF RequestCsr
      <3> QED
        BY <3>2, <3>3 DEF Paired
    <2> QED
      BY <2>1, <2>2 DEF Round, Paired
  <1> QED
    BY <1>1, <1>2, <1>3, KeyStep DEF CollectKey, DeleteKey, PutKey

\* A round goes on until another key is made or keys are mixed up.
LEMMA RoundStep ==
  ASSUME TypeOK, Keyed, NEW k \in Nat, Round(k), [Next]_vars,
         ~Mint \/ qsecCache = 0, mixups' = {}
  PROVE  Round(k)'
  BY NumbersStep, PairedStep DEF Round

\* What is stored in a round is usable.
LEMMA UsableStep ==
  ASSUME TypeOK, Keyed, NEW k \in Nat, Round(k), Usable(target), [Next]_vars
  PROVE  Usable(target)'
  <1> USE DEF qsecVars, secretVars, csrVars, recVars
  <1>1. CASE StoreCertificate
    <2>1. crec.pc \in {"create", "update"}
      BY <1>1 DEF StoreCertificate, TargetAccepted
    <2>2. crec.key = crec.cert
      BY <2>1 DEF Keyed, Round, Numbers
    <2>3. Merged.key = crec.key /\ Merged.cert = crec.cert
      BY DEF Merged, TypeOK, Target
    <2> QED
      BY <1>1, <2>2, <2>3 DEF StoreCertificate, PutTarget, Usable
  <1>2. CASE CreateUserSecret \/ CollectTarget
    <2>1. /\ [NoTarget EXCEPT !.kind = "user"].key = 0
          /\ [NoTarget EXCEPT !.kind = "user"].cert = 0
          /\ NoTarget.key = 0 /\ NoTarget.cert = 0
      BY DEF NoTarget
    <2> QED
      BY <1>2, <2>1 DEF CreateUserSecret, CollectTarget, PutTarget, Usable
  <1>3. CASE ~(StoreCertificate \/ CreateUserSecret \/ CollectTarget)
    <2>1. target' = target
      BY <1>3
      DEF Next, User, Kubernetes, ReconcileQSec, ReconcileCsr, vars,
          CreateQSec, DeleteQSec, Rotate, ApproveByHand, CollectKey, Issue,
          DeliverQSec, DeliverCsr, ResyncCsr, SyncSecrets, Restart, Mint,
          CheckTarget, LookupKey, StoreKey, StoreKeyFails, FindCsr, RequestCsr,
          RequestCsrFails, MintingFails, TakeCsr, GetCsr, Approve,
          ApproveConflicts, ReadKey, ReadOwner, ReadRootCA, LookupTarget,
          StoreCertificateFails, DeleteKey, DeleteCsr, SigningFails, PutKey
    <2> QED
      BY <2>1 DEF Usable
  <1> QED
    BY <1>1, <1>2, <1>3

\* Nothing is mixed up by a key that is made while no request is about.
LEMMA MintQuiet ==
  ASSUME Mint, qsecCache # 0, mixups' = {}
  PROVE  Quiet /\ Quiet'
  <1>1. Quiet
    BY DEF Mint, Record
  <1> QED
    BY <1>1 DEF Mint, csrVars, Quiet

\* A key made when no request is about begins a round of its own.
LEMMA MintStep ==
  ASSUME TypeOK, Mint, qsecCache # 0, mixups' = {}
  PROVE  \E k \in Nat : k = NewKey /\ Round(k)'
  <1>1. Quiet /\ Quiet'
    BY MintQuiet
  <1>2. PICK k \in Nat : k = NewKey
    BY NewKeyType DEF Mint
  <1>3. qrec'.key = k /\ qrec'.pc = "check" /\ UNCHANGED crec
    BY <1>2 DEF Mint
  <1>4. NoCsr \in RequestsFor(k)
    BY NoCsrType DEF RequestsFor, NoCsr
  <1>5. <<>> \in Seq(RequestsFor(k))
    OBVIOUS
  <1>6. Numbers(k)'
    BY <1>1, <1>3, <1>4, <1>5, IdleType DEF Quiet, Numbers
  <1>7. Paired(k)'
    BY <1>1, <1>3 DEF Paired
  <1> QED
    BY <1>2, <1>6, <1>7 DEF Round

\* What was mixed up is remembered.
LEMMA MixupsStay ==
  ASSUME TypeOK, [Next]_vars, mixups' = {}
  PROVE  mixups = {}
  BY DEF Record, Next, User, Kubernetes, ReconcileQSec, ReconcileCsr, vars,
         CreateQSec, DeleteQSec, Rotate, CreateUserSecret, ApproveByHand,
         CollectKey, CollectTarget, Issue, DeliverQSec, DeliverCsr,
         ResyncCsr, SyncSecrets, Restart, Mint, CheckTarget, LookupKey,
         StoreKey, StoreKeyFails, FindCsr, RequestCsr, RequestCsrFails,
         MintingFails, TakeCsr, GetCsr, Approve, ApproveConflicts, ReadKey,
         ReadOwner, ReadRootCA, LookupTarget, StoreCertificate,
         StoreCertificateFails, DeleteKey, DeleteCsr, SigningFails

\* As long as nothing is mixed up, there is one round at a time.
LEMMA OneRoundStep ==
  TypeOK /\ Keyed /\ OneRound /\ [Next]_vars => OneRound'
  <1> SUFFICES ASSUME TypeOK, Keyed, OneRound, [Next]_vars, mixups' = {}
               PROVE  Usable(target)' /\ Waits' /\ \E k \in Nat : Round(k)'
    BY DEF OneRound
  <1>1. mixups = {}
    BY MixupsStay
  <1>2. PICK k \in Nat : Round(k)
    BY <1>1 DEF OneRound
  <1>3. Usable(target)'
    BY <1>1, <1>2, UsableStep DEF OneRound
  <1>4. Waits'
    <2>1. Mint /\ qsecCache # 0 => Quiet'
      BY MintQuiet
    <2> QED
      BY <1>1, <2>1, WaitsStep DEF OneRound, Waits
  <1>5. \E j \in Nat : Round(j)'
    BY <1>2, RoundStep, MintStep
  <1> QED
    BY <1>3, <1>4, <1>5

\* Nothing is there at first.
LEMMA FirstRound == Init => Round(0) /\ OneRound
  <1> SUFFICES ASSUME Init PROVE Round(0) /\ OneRound
    OBVIOUS
  <1>1. NoCsr \in RequestsFor(0) /\ NoKey.key = 0
    BY NoCsrType DEF RequestsFor, NoCsr, NoKey
  <1>2. csrWatch \in Seq(RequestsFor(0))
    BY DEF Init
  <1>3. Round(0) /\ Waits
    BY <1>1, <1>2, IdleType DEF Init, Round, Numbers, Paired, Waits, Quiet
  <1>4. Usable(target)
    BY DEF Init, Usable, NoTarget
  <1> QED
    BY <1>3, <1>4 DEF OneRound

\* The certificate secret holds the key its certificate was issued for,
\* whatever is deleted, restarted, edited or fails in between and however
\* often a retry replaces the stored key, if no key is made while a request is
\* about, none is dropped while an earlier one is stored, and the CSR
\* controller reads the key that is stored.
THEOREM CertificatesUsable == Spec => []CertificateUsable
  <1>1. OneRound => CertificateUsable
    BY DEF OneRound, CertificateUsable
  <1> QED
    BY <1>1, FirstRound, OneRoundStep, KeyedCorrect, PTL DEF Spec

--------------------------------------------------------------------------
(* Nothing is cleaned up before it is merged.                              *)

\* What is known of the certificate secret: the cache is right where it is
\* said to be, and a secret that is going to be updated is there.
Stored ==
  /\ "target" \in synced => targetCache = target
  /\ "target" \in fresh => target.kind # "none"
  /\ target.kind = "none" => target.key = 0

\* As long as no QuarksSecret was deleted there is one owner, so nothing is
\* garbage.
Owned ==
  spent["delete"] = 0 =>
    {qsecCache, qrec.uid, crec.owner, keySecret.owner, target.owner}
      \subseteq {0, qsec}

\* In the round of key k: at the clean-up the certificate secret holds k, and
\* it holds k for good once the cache has seen it there.
Merging(k) ==
  /\ Round(k)
  /\ crec.pc \in {"deleteKey", "deleteCsr"} => target.key = k
  /\ k # 0 /\ targetCache.key = k => target.key = k

OneMerge == Promised => \E k \in Nat : Merging(k)

\* Going on keeps whom a reconcile acts for.
LEMMA GotoOwner ==
  ASSUME TypeOK
  PROVE  /\ \A pc : QGoto(pc) => qrec'.uid = qrec.uid
         /\ \A pc : CGoto(pc) => crec'.owner = crec.owner
  BY DEF TypeOK, Minting, Signing, QGoto, CGoto

\* What the CSR controller stores.
LEMMA MergedFields ==
  ASSUME TypeOK
  PROVE  /\ Merged.key = crec.key
         /\ Merged.kind \in {"generated", target.kind}
         /\ Merged.owner \in {crec.owner, target.owner}
         /\ crec.pc = "create" => Merged.kind = "generated"
  BY DEF Merged, TypeOK, Target

\* Only the deletion of a QuarksSecret is counted as one.
LEMMA DeleteSpent ==
  ASSUME TypeOK, [Next]_vars, spent'["delete"] = 0
  PROVE  spent["delete"] = 0 /\ ~DeleteQSec
  <1> USE DEF Bounded
  <1>1. ASSUME NEW b \in Bounded, Spend(b)
        PROVE  /\ b # "delete" => spent'["delete"] = spent["delete"]
               /\ b = "delete" => spent'["delete"] # 0
    BY <1>1 DEF Spend, TypeOK
  <1>2. ~DeleteQSec
    BY <1>1 DEF DeleteQSec
  <1>3. spent' = spent \/ \E b \in Bounded : b # "delete" /\ Spend(b)
    BY <1>2
    DEF Next, User, Kubernetes, ReconcileQSec, ReconcileCsr, vars, CreateQSec,
        Rotate, CreateUserSecret, ApproveByHand, CollectKey, CollectTarget,
        Issue, DeliverQSec, DeliverCsr, ResyncCsr, SyncSecrets, Restart, Mint,
        CheckTarget, LookupKey, StoreKey, StoreKeyFails, FindCsr, RequestCsr,
        RequestCsrFails, MintingFails, TakeCsr, GetCsr, Approve,
        ApproveConflicts, ReadKey, ReadOwner, ReadRootCA, LookupTarget,
        StoreCertificate, StoreCertificateFails, DeleteKey, DeleteCsr,
        SigningFails
  <1> QED
    BY <1>1, <1>2, <1>3

\* A promise that stands now has stood before.
LEMMA PromisedStays ==
  ASSUME TypeOK, [Next]_vars, Promised'
  PROVE  Promised
  BY DeleteSpent, MixupsStay DEF Promised

\* The certificate secret changes in three ways, else only caches do.
LEMMA TargetStep ==
  ASSUME [Next]_vars
  PROVE  \/ StoreCertificate \/ CreateUserSecret \/ CollectTarget
         \/ SyncSecrets \/ Restart \/ LookupTarget
         \/ /\ UNCHANGED <<target, targetCache>>
            /\ synced' \subseteq synced
            /\ fresh' \cap {"target"} \subseteq fresh
  BY DEF Next, User, Kubernetes, ReconcileQSec, ReconcileCsr, vars,
         qsecVars, secretVars, csrVars, recVars, CreateQSec, DeleteQSec,
         Rotate, ApproveByHand, CollectKey, Issue, DeliverQSec, DeliverCsr,
         ResyncCsr, Mint, CheckTarget, LookupKey, StoreKey, StoreKeyFails,
         FindCsr, RequestCsr, RequestCsrFails, MintingFails, TakeCsr, GetCsr,
         Approve, ApproveConflicts, ReadKey, ReadOwner, ReadRootCA,
         StoreCertificateFails, DeleteKey, DeleteCsr, SigningFails, PutKey,
         PutCsr, QDone, QRetry, CDone, CRetry, CLeave

\* What is known of the certificate secret stays true.
LEMMA StoredStep ==
  TypeOK /\ Stored /\ [Next]_vars => Stored'
  <1> SUFFICES ASSUME TypeOK, Stored, [Next]_vars PROVE Stored'
    OBVIOUS
  <1> USE DEF qsecVars, secretVars, csrVars, recVars
  <1>1. CASE StoreCertificate
    <2>1. Merged.kind # "none"
      BY <1>1, MergedFields DEF StoreCertificate, TargetAccepted, Stored
    <2> QED
      BY <1>1, <2>1 DEF StoreCertificate, PutTarget, Stored
  <1>2. CASE CreateUserSecret \/ CollectTarget
    BY <1>2, Fields DEF CreateUserSecret, CollectTarget, PutTarget, Stored
  <1>3. CASE SyncSecrets \/ Restart
    BY <1>3 DEF SyncSecrets, Restart, Stored
  <1>4. CASE LookupTarget
    BY <1>4 DEF LookupTarget, Stored
  <1>5. CASE /\ UNCHANGED <<target, targetCache>>
             /\ synced' \subseteq synced
             /\ fresh' \cap {"target"} \subseteq fresh
    BY <1>5 DEF Stored
  <1> QED
    BY <1>1, <1>2, <1>3, <1>4, <1>5, TargetStep

\* There is one owner until a QuarksSecret is deleted.
LEMMA OwnedStep ==
  TypeOK /\ Owned /\ [Next]_vars => Owned'
  <1> SUFFICES ASSUME TypeOK, Owned, [Next]_vars, spent'["delete"] = 0
               PROVE  {qsecCache', qrec'.uid, crec'.owner, keySecret'.owner,
                       target'.owner} \subseteq {0, qsec'}
    BY DEF Owned
  <1> USE DEF qsecVars, secretVars, csrVars, recVars
  <1>a. /\ {qsecCache, qrec.uid, crec.owner, keySecret.owner, target.owner}
             \subseteq {0, qsec}
        /\ ~DeleteQSec
    BY DeleteSpent DEF Owned
  <1>b. ASSUME UNCHANGED qsec, qsecCache' \in {0, qsec},
               qrec'.uid \in {0, qsec}, crec'.owner \in {0, qsec},
               keySecret'.owner \in {0, qsec}, target'.owner \in {0, qsec}
        PROVE  {qsecCache', qrec'.uid, crec'.owner, keySecret'.owner,
                target'.owner} \subseteq {0, qsec'}
    BY <1>b
  <1>1. CASE UNCHANGED vars
    BY <1>a, <1>1 DEF vars
  <1>2. CASE CreateQSec
    BY <1>a, <1>2 DEF CreateQSec
  <1>3. CASE \/ Rotate \/ ApproveByHand \/ Issue \/ DeliverQSec \/ DeliverCsr
             \/ ResyncCsr \/ SyncSecrets
    BY <1>a, <1>b, <1>3
    DEF Rotate, ApproveByHand, Issue, DeliverQSec, DeliverCsr, ResyncCsr,
        SyncSecrets, PutCsr
  <1>4. CASE CreateUserSecret \/ CollectTarget \/ CollectKey
    BY <1>a, <1>b, <1>4, Fields
    DEF CreateUserSecret, CollectTarget, CollectKey, PutTarget, PutKey
  <1>5. CASE Restart
    BY <1>a, <1>b, <1>5, Fields DEF Restart
  <1>6. CASE Mint
    <2>1. qrec'.uid \in {0, qsec}
      BY <1>a, <1>6 DEF Mint
    <2> QED
      BY <1>a, <1>b, <1>6, <2>1 DEF Mint
  <1>7. CASE CheckTarget \/ LookupKey \/ StoreKeyFails \/ FindCsr
               \/ RequestCsr \/ RequestCsrFails \/ MintingFails
    <2>1. qrec'.uid \in {0, qsec}
      BY <1>a, <1>7, Fields, GotoOwner
      DEF CheckTarget, LookupKey, StoreKeyFails, FindCsr, RequestCsr,
          RequestCsrFails, MintingFails, QDone, QRetry
    <2> QED
      BY <1>a, <1>b, <1>7, <2>1
      DEF CheckTarget, LookupKey, StoreKeyFails, FindCsr, RequestCsr,
          RequestCsrFails, MintingFails
  <1>8. CASE StoreKey
    <2>1. qrec'.uid \in {0, qsec}
      BY <1>a, <1>8, Fields, GotoOwner DEF StoreKey, QRetry
    <2>2. keySecret'.owner \in {0, qsec}
      BY <1>a, <1>8 DEF StoreKey, PutKey
    <2> QED
      BY <1>a, <1>b, <1>8, <2>1, <2>2 DEF StoreKey, PutKey
  <1>9. CASE TakeCsr \/ GetCsr \/ Approve \/ ApproveConflicts \/ ReadKey
               \/ ReadOwner \/ ReadRootCA \/ LookupTarget
               \/ StoreCertificateFails \/ DeleteCsr \/ SigningFails
    <2>1. /\ [CIdle EXCEPT !.pc = "key", !.cert = csrCache.key].owner = 0
          /\ [crec EXCEPT !.pc = "owner", !.key = keyCache.key].owner
               = crec.owner
          /\ [crec EXCEPT !.pc = "root", !.owner = qsecCache].owner = qsecCache
      BY DEF CIdle, TypeOK, Signing
    <2>2. crec'.owner \in {0, crec.owner, qsecCache}
      BY <1>9, <2>1, Fields, GotoOwner
      DEF TakeCsr, GetCsr, Approve, ApproveConflicts, ReadKey, ReadOwner,
          ReadRootCA, LookupTarget, StoreCertificateFails, DeleteCsr,
          SigningFails, CDone, CRetry, CLeave
    <2>3. UNCHANGED <<qsec, qsecCache, qrec, keySecret, target>>
      BY <1>9
      DEF TakeCsr, GetCsr, Approve, ApproveConflicts, ReadKey, ReadOwner,
          ReadRootCA, LookupTarget, StoreCertificateFails, DeleteCsr,
          SigningFails
    <2> QED
      BY <1>a, <1>b, <2>2, <2>3
  <1>10. CASE StoreCertificate
    <2>1. crec'.owner \in {0, crec.owner}
      BY <1>10, Fields, GotoOwner DEF StoreCertificate
    <2>2. target'.owner \in {crec.owner, target.owner}
      BY <1>10, MergedFields DEF StoreCertificate, PutTarget
    <2> QED
      BY <1>a, <1>b, <1>10, <2>1, <2>2 DEF StoreCertificate, PutTarget
  <1>11. CASE DeleteKey
    <2>1. crec'.owner \in {0, crec.owner} /\ keySecret'.owner \in {0, qsec}
      BY <1>a, <1>11, Fields, GotoOwner
      DEF DeleteKey, PutKey, CRetry, CLeave
    <2> QED
      BY <1>a, <1>b, <1>11, <2>1 DEF DeleteKey, PutKey
  <1> QED
    BY <1>a, <1>1, <1>2, <1>3, <1>4, <1>5, <1>6, <1>7, <1>8, <1>9, <1>10,
       <1>11
    DEF Next, User, Kubernetes, ReconcileQSec, ReconcileCsr

\* A certificate secret that holds the key of the round keeps it.
LEMMA TargetKept ==
  ASSUME TypeOK, Keyed, Stored, Owned, spent["delete"] = 0,
         NEW k \in Nat, Round(k), target.key = k, [Next]_vars
  PROVE  target'.key = k
  <1> USE DEF secretVars
  <1>1. CASE StoreCertificate
    <2>1. crec.key = k
      BY <1>1 DEF StoreCertificate, TargetAccepted, Keyed, Round, Numbers
    <2> QED
      BY <1>1, <2>1, MergedFields DEF StoreCertificate, PutTarget
  <1>2. CASE CreateUserSecret
    BY <1>2, Fields DEF CreateUserSecret, PutTarget, Stored
  <1>3. ~CollectTarget
    BY DEF CollectTarget, Owned
  <1>4. CASE SyncSecrets \/ Restart \/ LookupTarget
    BY <1>4 DEF SyncSecrets, Restart, LookupTarget
  <1> QED
    BY <1>1, <1>2, <1>3, <1>4, TargetStep

\* The clean-up begins with the certificate stored or found, and goes on from
\* the key to the request.
LEMMA CleanUpBegins ==
  ASSUME TypeOK, [Next]_vars, crec'.pc \in {"deleteKey", "deleteCsr"}
  PROVE  \/ StoreCertificate /\ crec.pc \in {"create", "update"}
         \/ /\ LookupTarget /\ crec.pc = "lookup"
            /\ targetCache.key = crec.key
         \/ crec.pc \in {"deleteKey", "deleteCsr"}
  <1> USE DEF qsecVars, secretVars, csrVars, recVars
  <1>1. CASE StoreCertificate
    BY <1>1 DEF StoreCertificate, TargetAccepted
  <1>2. CASE LookupTarget
    BY <1>2, GotoType DEF LookupTarget
  <1>3. CASE DeleteKey
    BY <1>3 DEF DeleteKey
  <1>4. CASE TakeCsr \/ GetCsr \/ Approve \/ ApproveConflicts \/ ReadKey
               \/ ReadOwner \/ ReadRootCA \/ StoreCertificateFails
               \/ DeleteCsr \/ SigningFails \/ Restart
    <2>1. /\ [CIdle EXCEPT !.pc = "key", !.cert = csrCache.key].pc = "key"
          /\ [crec EXCEPT !.pc = "owner", !.key = keyCache.key].pc = "owner"
          /\ [crec EXCEPT !.pc = "root", !.owner = qsecCache].pc = "root"
      BY DEF CIdle, TypeOK, Signing
    <2>2. \/ crec'.pc \in {"idle", "get", "approve", "key", "owner", "root",
                           "lookup"}
          \/ UNCHANGED crec
      BY <1>4, <2>1, IdleType, GotoType
      DEF TakeCsr, GetCsr, Approve, ApproveConflicts, ReadKey, ReadOwner,
          ReadRootCA, StoreCertificateFails, DeleteCsr, SigningFails, Restart,
          CDone, CRetry, CLeave
    <2> QED
      BY <2>2
  <1>5. CASE UNCHANGED crec
    BY <1>5
  <1>6. UNCHANGED crec \/ Restart \/ ReconcileCsr \/ SigningFails
    BY DEF Next, User, Kubernetes, ReconcileQSec, vars, CreateQSec, DeleteQSec,
           Rotate, CreateUserSecret, ApproveByHand, CollectKey, CollectTarget,
           Issue, DeliverQSec, DeliverCsr, ResyncCsr, SyncSecrets, Mint,
           CheckTarget, LookupKey, StoreKey, StoreKeyFails, FindCsr,
           RequestCsr, RequestCsrFails, MintingFails
  <1> QED
    BY <1>1, <1>2, <1>3, <1>4, <1>5, <1>6 DEF ReconcileCsr

\* Within a round the clean-up comes after the merge.
LEMMA MergingStep ==
  ASSUME TypeOK, Keyed, Stored, Owned, spent["delete"] = 0,
         NEW k \in Nat, Merging(k), [Next]_vars, ~Mint \/ qsecCache = 0,
         mixups' = {}
  PROVE  Merging(k)'
  <1>1. Round(k) /\ Round(k)'
    BY RoundStep DEF Merging
  <1>2. k # 0 /\ target.key = k => target'.key = k
    BY <1>1, TargetKept
  <1>3. ASSUME crec'.pc \in {"deleteKey", "deleteCsr"}
        PROVE  target'.key = k
    <2>1. crec.key = k /\ k # 0
      BY <1>1, <1>3, CleanUpBegins DEF Keyed, Round, Numbers
    <2>2. CASE StoreCertificate
      BY <2>1, <2>2, MergedFields DEF StoreCertificate, PutTarget
    <2>3. CASE targetCache.key = crec.key
      BY <1>2, <2>1, <2>3 DEF Merging
    <2>4. CASE crec.pc \in {"deleteKey", "deleteCsr"}
      BY <1>2, <2>1, <2>4 DEF Merging
    <2> QED
      BY <1>3, <2>2, <2>3, <2>4, CleanUpBegins
  <1>4. ASSUME k # 0, targetCache'.key = k
        PROVE  target'.key = k
    <2>1. targetCache' \in {target, targetCache}
      BY TargetStep
      DEF StoreCertificate, CreateUserSecret, CollectTarget, SyncSecrets,
          Restart, LookupTarget, PutTarget, secretVars
    <2> QED
      BY <1>2, <1>4, <2>1 DEF Merging
  <1> QED
    BY <1>1, <1>3, <1>4 DEF Merging

\* A key is unlike the ones the certificate secret is seen with.
LEMMA MintMerging ==
  ASSUME TypeOK, Mint, qsecCache # 0, mixups' = {}
  PROVE  \E k \in Nat : k = NewKey /\ Merging(k)'
  <1>1. PICK k \in Nat : k = NewKey /\ Round(k)'
    BY MintStep
  <1>2. targetCache'.key # k /\ crec'.pc = "idle"
    BY <1>1, MintQuiet, IdleType, NewKeyType
    DEF Mint, secretVars, KeysInUse, Quiet
  <1> QED
    BY <1>1, <1>2 DEF Merging

\* In every round the clean-up comes after the merge.
LEMMA OneMergeStep ==
  TypeOK /\ Keyed /\ Stored /\ Owned /\ OneMerge /\ [Next]_vars => OneMerge'
  <1> SUFFICES ASSUME TypeOK, Keyed, Stored, Owned, OneMerge, [Next]_vars,
                      Promised'
               PROVE  \E k \in Nat : Merging(k)'
    BY DEF OneMerge
  <1>1. Promised
    BY PromisedStays
  <1>2. PICK k \in Nat : Merging(k)
    BY <1>1 DEF OneMerge
  <1> QED
    BY <1>1, <1>2, MergingStep, MintMerging DEF Promised

\* What a step may remove.
LEMMA RemovalStep ==
  ASSUME TypeOK, Keyed, Stored, Owned, OneRound, OneMerge, [Next]_vars,
         Promised
  PROVE  /\ keySecret # NoKey /\ keySecret' = NoKey
              => target.key = keySecret.key
         /\ csr # NoCsr /\ csr' = NoCsr => target.cert = csr.key
  <1> USE DEF qsecVars, secretVars, csrVars, recVars
  <1>1. PICK k \in Nat : Merging(k)
    BY DEF OneMerge
  <1>2. target.key = target.cert
    BY DEF OneRound, Usable, Promised
  <1>3. ASSUME keySecret # NoKey, keySecret' = NoKey
        PROVE  target.key = keySecret.key
    <2>1. ~CollectKey
      BY DEF CollectKey, Owned, Promised
    <2>2. ~StoreKey
      BY <1>3, Fields DEF StoreKey, KeyAccepted, PutKey, Keyed
    <2>3. DeleteKey
      BY <1>3, <2>1, <2>2
      DEF Next, User, Kubernetes, ReconcileQSec, ReconcileCsr, vars,
          CreateQSec, DeleteQSec, Rotate, CreateUserSecret, ApproveByHand,
          CollectTarget, Issue, DeliverQSec, DeliverCsr, ResyncCsr,
          SyncSecrets, Restart, Mint, CheckTarget, LookupKey, StoreKeyFails,
          FindCsr, RequestCsr, RequestCsrFails, MintingFails, TakeCsr, GetCsr,
          Approve, ApproveConflicts, ReadKey, ReadOwner, ReadRootCA,
          LookupTarget, StoreCertificate, StoreCertificateFails, DeleteCsr,
          SigningFails, PutTarget
    <2>4. target.key = k
      BY <1>1, <2>3 DEF DeleteKey, Merging
    <2>5. keySecret.key = k
      BY <1>1, <1>3, <2>3, IdleType
      DEF DeleteKey, Quiet, Merging, Round, Paired, Keyed
    <2> QED
      BY <2>4, <2>5
  <1>4. ASSUME csr # NoCsr, csr' = NoCsr
        PROVE  target.cert = csr.key
    <2>1. ~RequestCsr /\ ~ApproveByHand /\ ~Issue /\ ~Approve
      <3>1. NoCsr.approved = FALSE /\ NoCsr.issued = FALSE
        BY DEF NoCsr
      <3>2. /\ [csr EXCEPT !.approved = TRUE].approved
            /\ [csr EXCEPT !.issued = TRUE].issued
        BY DEF TypeOK, Request
      <3> QED
        BY <1>4, <3>1, <3>2
        DEF RequestCsr, ApproveByHand, Issue, Approve, PutCsr
    <2>2. DeleteCsr
      BY <1>4, <2>1
      DEF Next, User, Kubernetes, ReconcileQSec, ReconcileCsr, vars,
          CreateQSec, DeleteQSec, Rotate, CreateUserSecret, CollectKey,
          CollectTarget, DeliverQSec, DeliverCsr, ResyncCsr, SyncSecrets,
          Restart, Mint, CheckTarget, LookupKey, StoreKey, StoreKeyFails,
          FindCsr, RequestCsrFails, MintingFails, TakeCsr, GetCsr,
          ApproveConflicts, ReadKey, ReadOwner, ReadRootCA, LookupTarget,
          StoreCertificate, StoreCertificateFails, DeleteKey, SigningFails,
          PutTarget, PutKey
    <2>3. target.key = k
      BY <1>1, <2>2 DEF DeleteCsr, Merging
    <2>4. csr.key = k
      BY <1>1, <1>4 DEF Merging, Round, Numbers, RequestsFor, Requests
    <2> QED
      BY <1>2, <2>3, <2>4
  <1> QED
    BY <1>3, <1>4

\* As long as no keys are mixed up and no QuarksSecret was deleted, the clean-up
\* deletes a private key and a request only after both have been merged into
\* the certificate secret, for any supply of keys and through restarts,
\* conflicts, failing calls, retries that replace the key and users' secrets.
THEOREM NothingIsLost == Spec => NothingLost
  <1>1. Init => OneRound /\ Stored /\ Owned /\ OneMerge
    <2> SUFFICES ASSUME Init PROVE OneRound /\ Stored /\ Owned /\ OneMerge
      OBVIOUS
    <2>1. OneRound
      BY FirstRound
    <2>2. Stored /\ Owned
      BY Fields DEF Init, Stored, Owned
    <2>3. Round(0)
      BY FirstRound
    <2>4. Merging(0)
      BY <2>3, IdleType DEF Init, Merging
    <2> QED
      BY <2>1, <2>2, <2>4 DEF OneMerge
  <1>2. TypeOK /\ Keyed /\ Stored /\ Owned /\ OneRound /\ OneMerge
          /\ [Next]_vars
        => (\/ mixups = {} /\ spent["delete"] = 0 =>
                 /\ keySecret # NoKey /\ keySecret' = NoKey
                      => target.key = keySecret.key
                 /\ csr # NoCsr /\ csr' = NoCsr => target.cert = csr.key
            \/ UNCHANGED vars)
    BY RemovalStep DEF Promised
  <1> QED
    BY <1>1, <1>2, OneRoundStep, StoredStep, OwnedStep, OneMergeStep,
       KeyedCorrect, PTL
    DEF Spec, NothingLost

--------------------------------------------------------------------------
(* One hand does it all: SigningService is implemented.                    *)

\* The key that is being made and stored is not in the certificate secret yet.
Alone(k) == qrec.pc # "idle" => target.key # k

\* A request anybody has seen issued is stored as issued, until key and
\* request have been deleted for the certificate that is there.
Unissued == {c \in Request : ~c.issued}
Over(k) == csr = NoCsr /\ keySecret = NoKey /\ target.key = k
IssuedStands(k) ==
  \/ csr.issued \/ Over(k)
  \/ /\ csrCache \in Unissued /\ csrWatch \in Seq(Unissued)
     /\ crec.pc \in {"idle", "get", "approve"}

\* A key that was read is stored, until it is in the certificate secret.
KeyStands(k) == crec.key # 0 => keySecret # NoKey \/ target.key = k

KeyGone == crec.pc = "deleteCsr" => keySecret = NoKey

Handing(k) ==
  Merging(k) /\ Alone(k) /\ IssuedStands(k) /\ KeyStands(k) /\ KeyGone

OneHand == Promised => \E k \in Nat : Handing(k)

\* What is issued was approved; what is going to be replaced differs.
Approvals == csr.issued => csr.approved
Differs ==
  "target" \in fresh =>
    target.key # crec.key \/ target.cert # crec.cert

\* What was issued was approved.
LEMMA ApprovalsStep ==
  TypeOK /\ Approvals /\ [Next]_vars => Approvals'
  <1> SUFFICES ASSUME TypeOK, Approvals, [Next]_vars PROVE Approvals'
    OBVIOUS
  <1>1. /\ [csr EXCEPT !.approved = TRUE].approved
        /\ [csr EXCEPT !.issued = TRUE].approved = csr.approved
    BY DEF TypeOK, Request
  <1>2. NoCsr.issued = FALSE /\ \A k : NewCsr(k).issued = FALSE
    BY DEF NoCsr, NewCsr
  <1>3. CASE ApproveByHand \/ Approve
    BY <1>1, <1>3 DEF ApproveByHand, Approve, PutCsr, Approvals
  <1>4. CASE Issue
    BY <1>1, <1>4 DEF Issue, PutCsr, Approvals
  <1>5. CASE RequestCsr \/ DeleteCsr
    BY <1>2, <1>5 DEF RequestCsr, DeleteCsr, csrVars, Approvals
  <1> QED
    BY <1>3, <1>4, <1>5, CsrStep DEF Approvals

\* A reconcile that holds a current certificate secret is about to change it.
LEMMA DiffersStep ==
  TypeOK /\ Stored /\ Differs /\ [Next]_vars => Differs'
  <1> SUFFICES ASSUME TypeOK, Stored, Differs, [Next]_vars,
                      "target" \in fresh'
               PROVE  target'.key # crec'.key \/ target'.cert # crec'.cert
    BY DEF Differs
  <1> USE DEF qsecVars, secretVars, csrVars, recVars
  <1>1. CASE LookupTarget
    <2>1. CASE CGoto("update")
      BY <1>1, <2>1, GotoType, IdleType DEF LookupTarget, Stored, TypeOK
    <2>2. CASE UNCHANGED fresh
      BY <1>1, <2>2 DEF LookupTarget, TypeOK
    <2> QED
      BY <1>1, <2>1, <2>2 DEF LookupTarget
  <1>2. CASE ~LookupTarget
    <2>1. "target" \in fresh /\ UNCHANGED target
      BY <1>2, TargetStep
      DEF StoreCertificate, CreateUserSecret, CollectTarget, SyncSecrets,
          Restart, PutTarget
    <2>2. crec.pc = "update"
      BY <2>1 DEF TypeOK
    <2>3. UNCHANGED crec
      BY <1>2, <2>2, IdleType
      DEF Next, User, Kubernetes, ReconcileQSec, ReconcileCsr, vars,
          CreateQSec, DeleteQSec, Rotate, CreateUserSecret, ApproveByHand,
          CollectKey, CollectTarget, Issue, DeliverQSec, DeliverCsr,
          ResyncCsr, SyncSecrets, Restart, Mint, CheckTarget, LookupKey,
          StoreKey, StoreKeyFails, FindCsr, RequestCsr, RequestCsrFails,
          MintingFails, TakeCsr, GetCsr, Approve, ApproveConflicts, ReadKey,
          ReadOwner, ReadRootCA, StoreCertificate, StoreCertificateFails,
          DeleteKey, DeleteCsr, SigningFails, PutTarget, CRetry, CLeave
    <2> QED
      BY <2>1, <2>3 DEF Differs
  <1> QED
    BY <1>1, <1>2

\* Before the request is made the certificate secret does not get its key.
LEMMA AloneStep ==
  ASSUME TypeOK, Keyed, Stored, Waits, NEW k \in Nat, Merging(k), Alone(k),
         [Next]_vars, ~Mint \/ qsecCache = 0
  PROVE  Alone(k)'
  <1> SUFFICES ASSUME qrec'.pc # "idle" PROVE target'.key # k
    BY DEF Alone
  <1>1. Quiet /\ target.key # k /\ ~Restart
    BY MintingStep DEF Alone, Waits
  <1>2. k # 0
    BY MintingStep DEF Merging, Round, Numbers, Keyed
  <1>3. ~StoreCertificate
    BY <1>1, IdleType DEF StoreCertificate, TargetAccepted, Quiet
  <1> QED
    BY <1>1, <1>2, <1>3, TargetStep, Fields
    DEF CreateUserSecret, CollectTarget, SyncSecrets, LookupTarget, PutTarget,
        secretVars

\* The stored key goes only in the clean-up.
LEMMA KeyGoes ==
  ASSUME TypeOK, Keyed, Stored, Owned, spent["delete"] = 0,
         NEW k \in Nat, Merging(k), Alone(k), [Next]_vars
  PROVE  /\ keySecret # NoKey /\ keySecret' = NoKey
              => crec.pc = "deleteKey" /\ target.key = k
         /\ keySecret = NoKey /\ target.key = k => keySecret' = NoKey
  <1>1. ~CollectKey
    BY Fields DEF CollectKey, Owned
  <1>2. StoreKey => keySecret'.key # 0 /\ target.key # k
    BY IdleType DEF StoreKey, KeyAccepted, PutKey, Keyed, Alone
  <1>3. DeleteKey => crec.pc = "deleteKey" /\ target.key = k
    BY DEF DeleteKey, Merging
  <1>4. DeleteKey /\ keySecret = NoKey => keySecret' = NoKey
    BY DEF DeleteKey, secretVars
  <1> QED
    BY <1>1, <1>2, <1>3, <1>4, KeyStep, Fields

\* A key that was seen stays until it is merged.
LEMMA KeyStandsStep ==
  ASSUME TypeOK, Keyed, Stored, Owned, spent["delete"] = 0,
         NEW k \in Nat, Merging(k), Alone(k), KeyStands(k), [Next]_vars,
         mixups' = {}
  PROVE  KeyStands(k)'
  <1> SUFFICES ASSUME crec'.key # 0
               PROVE  keySecret' # NoKey \/ target'.key = k
    BY DEF KeyStands
  <1>1. target.key = k => target'.key = k
    BY TargetKept DEF Merging
  <1>2. CASE crec'.key = crec.key
    BY <1>1, <1>2, KeyGoes DEF KeyStands
  <1>3. CASE ReadKey /\ keyCache # NoKey
    BY <1>3 DEF ReadKey, Record, secretVars
  <1> QED
    BY <1>2, <1>3, SigningStep

\* The key is gone when the request is about to be deleted.
LEMMA KeyGoneStep ==
  ASSUME TypeOK, Keyed, Stored, Owned, spent["delete"] = 0,
         NEW k \in Nat, Merging(k), Alone(k), KeyGone, [Next]_vars
  PROVE  KeyGone'
  <1> SUFFICES ASSUME crec'.pc = "deleteCsr" PROVE keySecret' = NoKey
    BY DEF KeyGone
  <1>1. CASE DeleteKey
    BY <1>1 DEF DeleteKey, PutKey, secretVars
  <1>2. CASE crec.pc = "deleteCsr"
    BY <1>2, KeyGoes DEF KeyGone, Merging
  <1> QED
    BY <1>1, <1>2, SigningStep

\* A request that was seen issued stays as it is until the clean-up is over.
LEMMA IssuedStandsStep ==
  ASSUME TypeOK, Keyed, Stored, Owned, spent["delete"] = 0,
         NEW k \in Nat, Merging(k), Alone(k), IssuedStands(k), KeyGone,
         [Next]_vars
  PROVE  IssuedStands(k)'
  <1> USE DEF qsecVars, secretVars, csrVars, recVars
  <1>a. target.key = k => target'.key = k
    BY TargetKept DEF Merging
  <1>1. CASE csr.issued
    <2>1. CASE DeleteCsr
      <3>1. csr' = NoCsr /\ keySecret = NoKey /\ target.key = k
        BY <1>1, <2>1 DEF DeleteCsr, KeyGone, Merging, NoCsr
      <3> QED
        BY <1>a, <3>1, KeyGoes DEF IssuedStands, Over
    <2>2. CASE RequestCsr
      BY <1>1, <2>2 DEF RequestCsr, NoCsr
    <2>3. CASE ApproveByHand \/ Issue \/ Approve
      <3>1. /\ [csr EXCEPT !.approved = TRUE].issued = csr.issued
            /\ [csr EXCEPT !.issued = TRUE].issued
        BY DEF TypeOK, Request
      <3> QED
        BY <1>1, <2>3, <3>1
        DEF ApproveByHand, Issue, Approve, PutCsr, IssuedStands
    <2> QED
      BY <1>1, <2>1, <2>2, <2>3, CsrStep DEF IssuedStands
  <1>2. CASE Over(k)
    <2>1. csr' = NoCsr
      <3>1. ~RequestCsr
        BY <1>2, IdleType DEF RequestCsr, Alone, Over
      <3>2. ~(ApproveByHand \/ Issue \/ Approve)
        BY <1>2 DEF ApproveByHand, Issue, Approve, Keyed, Over, NoCsr
      <3> QED
        BY <1>2, <3>1, <3>2, CsrStep DEF DeleteCsr, Over
    <2> QED
      BY <1>2, <1>a, <2>1, KeyGoes DEF Over, IssuedStands
  <1>3. CASE /\ csrCache \in Unissued /\ csrWatch \in Seq(Unissued)
             /\ crec.pc \in {"idle", "get", "approve"} /\ ~csr'.issued
    <2>1. csr' \in Unissued
      BY <1>3, NextType DEF Unissued, TypeOK
    <2>2. csrCache' \in Unissued /\ csrWatch' \in Seq(Unissued)
      <3>1. CASE DeliverCsr
        BY <1>3, <3>1, HeadTail DEF DeliverCsr
      <3>2. CASE Restart
        <4>1. csrCache' = csr' /\ csrWatch' = <<>>
          BY <3>2 DEF Restart
        <4> QED
          BY <2>1, <4>1
      <3> QED
        BY <1>3, <2>1, <3>1, <3>2, WatchStep
    <2>3. crec'.pc \in {"idle", "get", "approve"}
      BY <1>3, SigningStep DEF Unissued
    <2> QED
      BY <2>2, <2>3 DEF IssuedStands
  <1> QED
    BY <1>1, <1>2, <1>3 DEF IssuedStands

\* In a round one hand does it all.
LEMMA HandingStep ==
  ASSUME TypeOK, Keyed, Stored, Owned, spent["delete"] = 0, Waits,
         NEW k \in Nat, Handing(k), [Next]_vars, ~Mint \/ qsecCache = 0,
         mixups' = {}
  PROVE  Handing(k)'
  <1>1. Merging(k)'
    BY MergingStep DEF Handing
  <1>2. Alone(k)'
    BY AloneStep DEF Handing
  <1>3. IssuedStands(k)'
    BY IssuedStandsStep DEF Handing
  <1>4. KeyStands(k)' /\ KeyGone'
    BY KeyStandsStep, KeyGoneStep DEF Handing
  <1> QED
    BY <1>1, <1>2, <1>3, <1>4 DEF Handing

\* A round begins with a key nobody else has.
LEMMA MintHanding ==
  ASSUME TypeOK, Mint, qsecCache # 0, mixups' = {}
  PROVE  \E k \in Nat : Handing(k)'
  <1>1. PICK k \in Nat : k = NewKey /\ Merging(k)'
    BY MintMerging
  <1>2. Quiet'
    BY MintQuiet
  <1>3. Alone(k)'
    BY <1>1, NewKeyType DEF Mint, secretVars, KeysInUse, Alone
  <1>4. IssuedStands(k)'
    <2>1. NoCsr \in Unissued /\ <<>> \in Seq(Unissued)
      BY NoCsrType DEF Unissued, Requests, NoCsr
    <2> QED
      BY <1>2, <2>1, IdleType DEF Quiet, IssuedStands
  <1>5. KeyStands(k)' /\ KeyGone'
    BY <1>2, IdleType DEF Quiet, KeyStands, KeyGone
  <1> QED
    BY <1>1, <1>3, <1>4, <1>5 DEF Handing

\* In every round one hand does it all.
LEMMA OneHandStep ==
  TypeOK /\ Keyed /\ Stored /\ Owned /\ OneRound /\ OneHand /\ [Next]_vars
    => OneHand'
  <1> SUFFICES ASSUME TypeOK, Keyed, Stored, Owned, OneRound, OneHand,
                      [Next]_vars, Promised'
               PROVE  \E k \in Nat : Handing(k)'
    BY DEF OneHand
  <1>1. Promised
    BY PromisedStays
  <1>2. PICK k \in Nat : Handing(k)
    BY <1>1 DEF OneHand
  <1> QED
    BY <1>1, <1>2, HandingStep, MintHanding DEF Promised, OneRound

\* The number on a request, and how far it is.
LEMMA Stages ==
  /\ NoCsr.key = 0 /\ StageOf(NoCsr) = "none"
  /\ \A c \in Requests : StageOf(c) = "none" => c = NoCsr
  /\ \A j \in Nat \ {0} : /\ NewCsr(j).key = j
                          /\ StageOf(NewCsr(j)) = "made"
  /\ \A c \in Requests :
       c # NoCsr =>
         LET a == [c EXCEPT !.approved = TRUE]
             i == [c EXCEPT !.issued = TRUE]
         IN /\ a.key = c.key /\ i.key = c.key
            /\ c.approved => a = c
            /\ ~c.approved /\ ~c.issued
                 => StageOf(c) = "made" /\ StageOf(a) = "approved"
            /\ c.approved /\ ~c.issued
                 => StageOf(c) = "approved" /\ StageOf(i) = "issued"
  BY DEF StageOf, NoCsr, NewCsr, Requests, Request

\* What makes the step of SigningService the invariants let a step be.
LEMMA ServiceStep ==
  ASSUME TypeOK, Keyed, Stored, Owned, OneRound, OneHand, Approvals, Differs,
         [Next]_vars
  PROVE  [Service!Next]_(Service!vars)
  <1> USE DEF qsecVars, secretVars, csrVars, recVars
  <1>1. CASE ~Promised'
    BY <1>1 DEF Service!Next, Service!Withdraw
  <1>2. CASE Promised'
    <2>1. Promised /\ Promised' = Promised
      BY <1>2, PromisedStays
    <2>2. PICK k \in Nat : Handing(k)
      BY <2>1 DEF OneHand
    <2>3. /\ spent["delete"] = 0 /\ target.key = target.cert
          /\ Merging(k) /\ Alone(k) /\ Waits /\ Numbers(k) /\ Paired(k)
      BY <2>1, <2>2 DEF Promised, OneRound, Usable, Handing, Merging, Round
    <2>4. ASSUME Service!Serve
          PROVE  [Service!Next]_(Service!vars)
      BY <2>1, <2>4 DEF Service!Next
    <2>5. ASSUME UNCHANGED <<keySecret, csr, ContentOf(target)>>
          PROVE  [Service!Next]_(Service!vars)
      BY <2>1, <2>5 DEF Service!vars
    <2>6. CASE StoreKey
      <3>1. qrec.pc \in {"create", "update"} /\ qrec.key = k /\ k # 0
        BY <2>3, <2>6 DEF StoreKey, KeyAccepted, Keyed, Numbers
      <3>2. csr = NoCsr /\ target.key # k
        BY <2>3, <3>1 DEF Alone, Waits, Quiet
      <3>3. keySecret'.key = k /\ UNCHANGED <<csr, target>>
        BY <2>6, <3>1 DEF StoreKey, PutKey
      <3>4. Service!StoreKey
        BY <3>1, <3>2, <3>3, Stages, Fields DEF Service!StoreKey, ContentOf
      <3> QED
        BY <2>4, <3>4 DEF Service!Serve
    <2>7. CASE RequestCsr
      <3>1. qrec.pc = "request" /\ qrec.key = k /\ k # 0
        BY <2>3, <2>7 DEF RequestCsr, Keyed, Numbers
      <3>2. csr = NoCsr /\ target.key # k /\ keySecret.key \in {0, k}
        BY <2>3, <3>1 DEF Alone, Waits, Quiet, Paired
      <3>3. csr' = NewCsr(k) /\ UNCHANGED <<keySecret, target>>
        BY <2>7, <3>1 DEF RequestCsr
      <3>4. csr'.key = k /\ StageOf(csr)' = "made" /\ csr.key = 0
        BY <3>1, <3>2, <3>3, Stages DEF StageOf
      <3>5. Service!MakeRequest
        BY <2>3, <3>1, <3>2, <3>3, <3>4 DEF Service!MakeRequest, ContentOf
      <3> QED
        BY <2>4, <3>5 DEF Service!Serve
    <2>8. CASE ApproveByHand \/ Approve
      <3>1. /\ csr \in Requests /\ csr # NoCsr
            /\ csr' = [csr EXCEPT !.approved = TRUE]
            /\ UNCHANGED <<keySecret, target>>
        BY <2>8 DEF ApproveByHand, Approve, PutCsr, Keyed
      <3>2. CASE csr.approved
        <4>1. csr' = csr
          BY <3>1, <3>2, Stages
        <4> QED
          BY <2>5, <3>1, <4>1 DEF ContentOf
      <3>3. CASE ~csr.approved
        <4>1. ~csr.issued
          BY <3>3 DEF Approvals
        <4>2. /\ StageOf(csr) = "made" /\ StageOf(csr)' = "approved"
              /\ csr'.key = csr.key
          BY <3>1, <3>3, <4>1, Stages DEF StageOf
        <4>3. Service!Approve
          BY <3>1, <4>2 DEF Service!Approve, ContentOf
        <4> QED
          BY <2>4, <4>3 DEF Service!Serve
      <3> QED
        BY <3>2, <3>3
    <2>9. CASE Issue
      <3>1. /\ csr \in Requests /\ csr # NoCsr
            /\ csr.approved /\ ~csr.issued
            /\ csr' = [csr EXCEPT !.issued = TRUE]
            /\ UNCHANGED <<keySecret, target>>
        BY <2>9 DEF Issue, PutCsr, Keyed, NoCsr
      <3>2. /\ StageOf(csr) = "approved" /\ StageOf(csr)' = "issued"
            /\ csr'.key = csr.key
        BY <3>1, Stages DEF StageOf
      <3>3. Service!Issue
        BY <3>1, <3>2 DEF Service!Issue, ContentOf
      <3> QED
        BY <2>4, <3>3 DEF Service!Serve
    <2>10. CASE StoreCertificate
      <3>1. /\ crec.pc \in {"create", "update"}
            /\ crec.key = k /\ crec.cert = k /\ k # 0
        BY <2>3, <2>10 DEF StoreCertificate, TargetAccepted, Keyed, Numbers
      <3>2. target.key # k
        <4>1. CASE crec.pc = "create"
          BY <2>10, <3>1, <4>1 DEF StoreCertificate, TargetAccepted, Stored
        <4>2. CASE "target" \in fresh
          BY <2>3, <3>1, <4>2 DEF Differs
        <4> QED
          BY <2>10, <4>1, <4>2 DEF StoreCertificate, TargetAccepted
      <3>3. csr.issued /\ keySecret # NoKey
        BY <2>2, <3>1, <3>2 DEF Handing, IssuedStands, Over, KeyStands
      <3>4. csr.key = k /\ keySecret.key = k
        BY <2>3, <3>1, <3>3, IdleType
        DEF Numbers, Paired, Quiet, RequestsFor, Requests, Keyed, NoCsr
      <3>5. /\ ContentOf(target)' = [key |-> k, cert |-> k]
            /\ UNCHANGED <<keySecret, csr>>
        <4>1. Merged.key = k /\ Merged.cert = k
          BY <3>1 DEF Merged, TypeOK, Target
        <4> QED
          BY <2>10, <4>1 DEF StoreCertificate, PutTarget, ContentOf
      <3>6. Service!Merge
        BY <2>3, <3>2, <3>3, <3>4, <3>5
        DEF Service!Merge, ContentOf, StageOf
      <3> QED
        BY <2>4, <3>6 DEF Service!Serve
    <2>11. CASE DeleteKey
      <3>1. CASE keySecret = NoKey
        BY <2>5, <2>11, <3>1 DEF DeleteKey
      <3>2. CASE keySecret # NoKey
        <4>1. target.key = k /\ crec.pc = "deleteKey"
          BY <2>3, <2>11 DEF DeleteKey, Merging
        <4>2. csr.issued
          BY <2>2, <3>2, <4>1 DEF Handing, IssuedStands, Over
        <4>3. keySecret.key = k /\ k # 0 /\ csr.key = k
          BY <2>3, <3>2, <4>1, <4>2, IdleType
          DEF Numbers, Paired, Quiet, RequestsFor, Requests, Keyed, NoCsr
        <4>4. keySecret' = NoKey /\ UNCHANGED <<csr, target>>
          BY <2>11, <3>2 DEF DeleteKey, PutKey
        <4>5. Service!ForgetKey
          BY <2>3, <4>1, <4>2, <4>3, <4>4, Fields
          DEF Service!ForgetKey, ContentOf, StageOf
        <4> QED
          BY <2>4, <4>5 DEF Service!Serve
      <3> QED
        BY <3>1, <3>2
    <2>12. CASE DeleteCsr
      <3>1. CASE csr = NoCsr
        BY <2>5, <2>12, <3>1 DEF DeleteCsr
      <3>2. CASE csr # NoCsr
        <4>1. target.key = k /\ crec.pc = "deleteCsr"
          BY <2>3, <2>12 DEF DeleteCsr, Merging
        <4>2. csr.issued /\ keySecret = NoKey
          BY <2>2, <3>2, <4>1 DEF Handing, IssuedStands, Over, KeyGone
        <4>3. csr.key = k
          BY <2>3, <3>2 DEF Numbers, RequestsFor, Requests
        <4>4. csr' = NoCsr /\ UNCHANGED <<keySecret, target>>
          BY <2>12, <3>2 DEF DeleteCsr
        <4>5. csr'.key = 0 /\ StageOf(csr)' = "none"
          BY <4>4, Stages DEF StageOf
        <4>6. Service!ForgetRequest
          BY <2>3, <4>1, <4>2, <4>3, <4>4, <4>5, Fields
          DEF Service!ForgetRequest, ContentOf, StageOf
        <4> QED
          BY <2>4, <4>6 DEF Service!Serve
      <3> QED
        BY <3>1, <3>2
    <2>13. CASE ~(StoreKey \/ RequestCsr \/ ApproveByHand \/ Approve \/ Issue
                    \/ StoreCertificate \/ DeleteKey \/ DeleteCsr)
      <3>1. ~CollectKey /\ ~CollectTarget
        BY <2>3 DEF CollectKey, CollectTarget, Owned
      <3>2. csr' = csr /\ keySecret' = keySecret
        BY <2>13, <3>1, CsrStep, KeyStep
      <3>3. target' = target \/ CreateUserSecret
        BY <2>13, <3>1, TargetStep DEF SyncSecrets, Restart, LookupTarget
      <3>4. CreateUserSecret => ContentOf(target)' = ContentOf(target)
        <4>1. [NoTarget EXCEPT !.kind = "user"].cert = 0
          BY DEF NoTarget
        <4> QED
          BY <2>3, <4>1, Fields
          DEF CreateUserSecret, PutTarget, Stored, ContentOf
      <3> QED
        BY <2>5, <3>2, <3>3, <3>4 DEF ContentOf
    <2> QED
      BY <2>6, <2>7, <2>8, <2>9, <2>10, <2>11, <2>12, <2>13
  <1> QED
    BY <1>1, <1>2

\* The controllers and the signer implement SigningService, for any supply of
\* keys, through restarts, conflicts, late caches and failing calls.
THEOREM SigningImplemented == Spec => SigningServiceKept
  <1>1. Init => /\ OneRound /\ Stored /\ Owned /\ OneHand
                /\ Approvals /\ Differs /\ Service!Init
    <2> SUFFICES ASSUME Init
                 PROVE  /\ OneRound /\ Stored /\ Owned /\ OneHand
                        /\ Approvals /\ Differs /\ Service!Init
      OBVIOUS
    <2>1. OneRound /\ Round(0)
      BY FirstRound
    <2>2. Stored /\ Owned
      BY Fields DEF Init, Stored, Owned
    <2>3. Merging(0)
      BY <2>1, IdleType DEF Init, Merging
    <2>4. Alone(0) /\ KeyStands(0) /\ KeyGone
      BY IdleType DEF Init, Alone, KeyStands, KeyGone
    <2>5. IssuedStands(0)
      <3>1. NoCsr \in Unissued /\ <<>> \in Seq(Unissued)
        BY NoCsrType DEF Unissued, Requests, NoCsr
      <3> QED
        BY <3>1, IdleType DEF Init, IssuedStands
    <2>6. Handing(0)
      BY <2>3, <2>4, <2>5 DEF Handing
    <2>7. Approvals /\ Differs
      BY DEF Init, Approvals, Differs, NoCsr
    <2>8. Service!Init
      BY Stages, Fields
      DEF Init, Service!Init, Promised, ContentOf, NoTarget, Bounded
    <2> QED
      BY <2>1, <2>2, <2>6, <2>7, <2>8 DEF OneHand
  <1>2. TypeOK /\ Keyed /\ Stored /\ Owned /\ OneRound /\ OneHand /\ Approvals
          /\ Differs /\ [Next]_vars
        => [Service!Next]_(Service!vars)
    BY ServiceStep
  <1> QED
    BY <1>1, <1>2, OneRoundStep, StoredStep, OwnedStep, OneHandStep,
       ApprovalsStep, DiffersStep, KeyedCorrect, PTL
    DEF Spec, SigningServiceKept, Service!Spec

=============================================================================
