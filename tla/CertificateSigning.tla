------------------------ MODULE CertificateSigning ------------------------
(***************************************************************************)
(* A certificate with the cluster signer: the QuarksSecret controller      *)
(* stores a private key and creates a certificate signing request, the CSR *)
(* controller approves it, Kubernetes issues the certificate, and the CSR  *)
(* controller merges key and certificate into the secret and cleans up.    *)
(*                                                                         *)
(* One QuarksSecret, by name: others share nothing with it.  A key is a    *)
(* number, drawn anew each time one is minted; a CSR and its certificate   *)
(* carry the number of the key they were made for.  What wakes the         *)
(* QuarksSecret controller, and its status, are the business of            *)
(* QuarksSecretController; here an edit or a rotation just wakes it.       *)
(***************************************************************************)
EXTENDS Naturals, Sequences, FiniteSets

CONSTANTS
  Keys,    \* numbers of the private keys in the world at one time
  Limit,   \* how often each thing the operator has no say in may happen
  Variety  \* how many different ones of them in one behaviour

\* What Limit bounds: QuarksSecrets created and deleted; edits and rotations;
\* secrets a user creates; requests somebody else approves; operator restarts;
\* reads of the root CA that fail; other API calls that do.
Bounded == {"birth", "delete", "rotate", "user", "hand", "restart", "root",
            "fault"}

ASSUME LimitAssumption == Limit \in [Bounded -> Nat] /\ Variety \in Nat
ASSUME KeysAssumption == Keys \subseteq Nat \ {0}

VARIABLES
  qsec, qsecCache,           \* uid of the QuarksSecret, 0 when there is none
  keySecret, keyCache,       \* private key secret, and its informer
  csr, csrWatch, csrCache,   \* signing request: API server, watch, informer
  target, targetCache,       \* the secret Spec.SecretName points to
  synced,                    \* which secrets are in the cache as stored
  work,                      \* whose work queue has a key
  qrec,                      \* reconcile of the QuarksSecret in progress
  crec,                      \* reconcile of the CSR in progress
  fresh,                     \* which copies in hand are not outdated
  mixups,                    \* history: how keys may have got mixed up
  spent                      \* how much of Limit has happened

qsecVars   == <<qsec, qsecCache>>
secretVars == <<keySecret, keyCache, target, targetCache, synced>>
csrVars    == <<csr, csrWatch, csrCache>>
recVars    == <<qrec, crec, fresh>>
vars == <<qsecVars, secretVars, csrVars, recVars, work, mixups, spent>>

KeySecret == [key: Nat, owner: Nat]
NoKey == [key |-> 0, owner |-> 0]

Request == [key: Nat, approved: BOOLEAN, issued: BOOLEAN]
NoCsr == [key |-> 0, approved |-> FALSE, issued |-> FALSE]
NewCsr(k) == [NoCsr EXCEPT !.key = k]

\* The certificate secret: "user" has no secret-kind=generated label; key and
\* cert say which key is stored and which key the certificate is for.
Target == [kind: {"none", "user", "generated"}, key: Nat, cert: Nat,
           owner: Nat]
NoTarget == [kind |-> "none", key |-> 0, cert |-> 0, owner |-> 0]

Minting == [pc: {"idle", "check", "lookup", "create", "update", "find",
                 "request"}, uid: Nat, key: Nat]
Signing == [pc: {"idle", "get", "approve", "key", "owner", "root", "lookup",
                 "create", "update", "deleteKey", "deleteCsr"},
            key: Nat, cert: Nat, owner: Nat]

QIdle == [pc |-> "idle", uid |-> 0, key |-> 0]
CIdle == [pc |-> "idle", key |-> 0, cert |-> 0, owner |-> 0]

Init ==
  /\ qsec = 0 /\ qsecCache = 0
  /\ keySecret = NoKey /\ keyCache = NoKey
  /\ csr = NoCsr /\ csrWatch = <<>> /\ csrCache = NoCsr
  /\ target = NoTarget /\ targetCache = NoTarget
  /\ synced = {"key", "target"}
  /\ work = {}
  /\ qrec = QIdle /\ crec = CIdle
  /\ fresh = {}
  /\ mixups = {}
  /\ spent = [b \in Bounded |-> 0]

\* A first QuarksSecret is no disturbance.
Expected(b) == IF b = "birth" THEN 1 ELSE 0

Spend(b) == /\ spent[b] < Limit[b]
            /\ spent' = [spent EXCEPT ![b] = @ + 1]
            /\ Cardinality({c \in Bounded : spent'[c] > Expected(c)}) <= Variety

--------------------------------------------------------------------------
(* The API server and the people who use it.                               *)

\* A stored object outdates the copies of it in caches and in hand.
PutKey(k) ==
  /\ keySecret' = k
  /\ synced' = synced \ {"key"}
  /\ fresh' = fresh \ {"key"}
  /\ UNCHANGED <<keyCache, target, targetCache>>

PutTarget(t) ==
  /\ target' = t
  /\ synced' = synced \ {"target"}
  /\ fresh' = fresh \ {"target"}
  /\ UNCHANGED <<targetCache, keySecret, keyCache>>

PutCsr(c) ==
  /\ csr' = c
  /\ csrWatch' = Append(csrWatch, c)
  /\ fresh' = fresh \ {"csr"}
  /\ UNCHANGED csrCache

CreateQSec ==
  /\ qsec = 0
  /\ Spend("birth")
  /\ qsec' = spent'["birth"]
  /\ UNCHANGED <<qsecCache, secretVars, csrVars, recVars, work, mixups>>

DeleteQSec ==
  /\ qsec # 0
  /\ Spend("delete")
  /\ qsec' = 0
  /\ UNCHANGED <<qsecCache, secretVars, csrVars, recVars, work, mixups>>

\* An edit or a rotation of an object the controller knows passes its Update
\* predicate.
Rotate ==
  /\ qsecCache # 0 /\ qsecCache = qsec
  /\ Spend("rotate")
  /\ work' = work \cup {"qsec"}
  /\ UNCHANGED <<qsecVars, secretVars, csrVars, recVars, mixups>>

CreateUserSecret ==
  /\ target.kind = "none"
  /\ Spend("user")
  /\ PutTarget([NoTarget EXCEPT !.kind = "user"])
  /\ UNCHANGED <<qsecVars, csrVars, qrec, crec, work, mixups>>

\* Kubernetes deletes secrets whose QuarksSecret is gone; a CSR has no owner.
CollectKey ==
  /\ keySecret.owner \notin {0, qsec}
  /\ PutKey(NoKey)
  /\ UNCHANGED <<qsecVars, csrVars, qrec, crec, work, mixups, spent>>

CollectTarget ==
  /\ target.owner \notin {0, qsec}
  /\ PutTarget(NoTarget)
  /\ UNCHANGED <<qsecVars, csrVars, qrec, crec, work, mixups, spent>>

\* Somebody else approves the request by hand.
ApproveByHand ==
  /\ csr # NoCsr /\ ~csr.approved
  /\ Spend("hand")
  /\ PutCsr([csr EXCEPT !.approved = TRUE])
  /\ UNCHANGED <<qsecVars, secretVars, qrec, crec, work, mixups>>

\* The signer of Kubernetes issues what has been approved.
Issue ==
  /\ csr.approved /\ ~csr.issued
  /\ PutCsr([csr EXCEPT !.issued = TRUE])
  /\ UNCHANGED <<qsecVars, secretVars, qrec, crec, work, mixups, spent>>

--------------------------------------------------------------------------
(* Informers and predicates.                                               *)

\* What listSecrets finds in the cache (or, after a restart, in the cluster).
OwnsSecret(uid, k, t) == (k.key # 0 /\ k.owner = uid)
                           \/ (t.kind = "generated" /\ t.owner = uid)

\* The QuarksSecret controller reconciles a new object that owns no secret.
DeliverQSec ==
  /\ qsecCache # qsec
  /\ qsecCache' = qsec
  /\ work' = IF qsec # 0 /\ ~OwnsSecret(qsec, keyCache, targetCache)
             THEN work \cup {"qsec"} ELSE work
  /\ UNCHANGED <<qsec, secretVars, csrVars, recVars, mixups, spent>>

\* Create and Update pass for a request that carries the operator's
\* annotations, as this one does; Delete does not.
Passes(c) == c.key # 0

DeliverCsr ==
  /\ csrWatch # <<>>
  /\ csrCache' = Head(csrWatch)
  /\ csrWatch' = Tail(csrWatch)
  /\ work' = IF Passes(Head(csrWatch)) THEN work \cup {"csr"} ELSE work
  /\ UNCHANGED <<qsecVars, secretVars, csr, recVars, mixups, spent>>

\* The informer shows its requests again; hours apart, so whatever is due at
\* that time has been done.
ResyncCsr ==
  /\ Passes(csrCache)
  /\ work = {} /\ csrWatch = <<>> /\ qrec = QIdle /\ crec = CIdle
  /\ work' = work \cup {"csr"}
  /\ UNCHANGED <<qsecVars, secretVars, csrVars, recVars, mixups, spent>>

SyncSecrets ==
  /\ \/ /\ synced' = synced \cup {"key"} /\ keyCache' = keySecret
        /\ UNCHANGED targetCache
     \/ /\ synced' = synced \cup {"target"} /\ targetCache' = target
        /\ UNCHANGED keyCache
  /\ UNCHANGED <<qsecVars, keySecret, target, csrVars, recVars, work, mixups,
                 spent>>

--------------------------------------------------------------------------
(* ReconcileQuarksSecret: createCertificateSecret with the cluster signer. *)

\* Leaving a reconcile: done, or with an error and hence again.
QDone  == qrec' = QIdle /\ fresh' = fresh \ {"key"} /\ UNCHANGED work
QRetry == qrec' = QIdle /\ fresh' = fresh \ {"key"} /\ work' = work \cup {"qsec"}

QGoto(pc) == qrec' = [qrec EXCEPT !.pc = pc]

\* No request is stored, on its way to the informer, cached or in hand.
Quiet == csr = NoCsr /\ csrCache = NoCsr /\ csrWatch = <<>> /\ crec = CIdle

\* Two controllers take a key and a request for a pair when nothing but their
\* names says so.  What may put them wrong is recorded in mixups:
\* "overlap", a key is made while there is a request; "dropped", a key is not
\* stored for a user's secret while an earlier key is; "stale", the CSR
\* controller reads a key from its cache that is not the one stored.
Record(m, happens) == mixups' = IF happens THEN mixups \cup {m} ELSE mixups

\* A key unlike every other there is; numbers no longer seen are used again.
KeysInUse ==
  {qrec.key, crec.key, crec.cert, keySecret.key, keyCache.key, csr.key,
   csrCache.key, target.key, target.cert, targetCache.key, targetCache.cert}
    \cup {csrWatch[i].key : i \in DOMAIN csrWatch} \cup {0}
NewKey == CHOOSE k \in Keys : k \notin KeysInUse

\* A new key and a request for it; nothing is stored yet.
Mint ==
  /\ "qsec" \in work /\ qrec = QIdle
  /\ work' = work \ {"qsec"}
  /\ IF qsecCache = 0
     THEN UNCHANGED <<qrec, mixups>>
     ELSE /\ Keys \ KeysInUse # {}
          /\ Record("overlap", ~Quiet)
          /\ qrec' = [pc |-> "check", uid |-> qsecCache, key |-> NewKey]
  /\ UNCHANGED <<qsecVars, secretVars, csrVars, crec, fresh, spent>>

\* skipCreation looks at the certificate secret, not at the key secret it
\* guards: with a user's secret there, the key is dropped and the request made.
\* A failing read is only logged.
CheckTarget ==
  /\ qrec.pc = "check"
  /\ \/ targetCache.kind = "user" /\ QGoto("find") /\ UNCHANGED spent
          /\ Record("dropped", keySecret # NoKey)
     \/ targetCache.kind # "user" /\ QGoto("lookup")
          /\ UNCHANGED <<mixups, spent>>
     \/ Spend("fault") /\ QGoto("lookup") /\ UNCHANGED mixups
  /\ UNCHANGED <<qsecVars, secretVars, csrVars, crec, fresh, work>>

LookupKey ==
  /\ qrec.pc = "lookup"
  /\ IF keyCache = NoKey
     THEN QGoto("create") /\ UNCHANGED fresh
     ELSE QGoto("update") /\ fresh' = fresh \cup ({"key"} \cap synced)
  /\ UNCHANGED <<qsecVars, secretVars, csrVars, crec, work, mixups, spent>>

KeyAccepted == \/ qrec.pc = "create" /\ keySecret = NoKey
               \/ qrec.pc = "update" /\ "key" \in fresh

\* CreateOrUpdate: an Update keeps the owner the secret had.
StoreKey ==
  /\ KeyAccepted
  /\ PutKey([key |-> qrec.key, owner |-> IF qrec.pc = "create" THEN qrec.uid
                                                   ELSE keySecret.owner])
  /\ \/ QGoto("find") /\ UNCHANGED <<work, spent>>
     \/ Spend("fault") /\ QRetry
  /\ UNCHANGED <<qsecVars, csrVars, crec, mixups>>

\* Mutant: a key that could not be stored is only logged.
StoreKeyLogged ==
  /\ qrec.pc \in {"create", "update"} /\ ~KeyAccepted
  /\ QGoto("find") /\ fresh' = fresh \ {"key"} /\ UNCHANGED work
  /\ UNCHANGED <<qsecVars, secretVars, csrVars, crec, mixups, spent>>

StoreKeyFails ==
  /\ qrec.pc \in {"create", "update"} /\ ~KeyAccepted
  /\ QRetry
  /\ UNCHANGED <<qsecVars, secretVars, csrVars, crec, mixups, spent>>

\* The spec of a request is immutable: one that is there already is kept.
FindCsr ==
  /\ qrec.pc = "find"
  /\ IF csrCache = NoCsr THEN QGoto("request") /\ UNCHANGED <<fresh, work>>
                         ELSE QDone
  /\ UNCHANGED <<qsecVars, secretVars, csrVars, crec, mixups, spent>>

RequestCsr ==
  /\ qrec.pc = "request"
  /\ csr = NoCsr
  /\ csr' = NewCsr(qrec.key) /\ csrWatch' = Append(csrWatch, csr')
  /\ UNCHANGED csrCache
  /\ \/ QDone /\ UNCHANGED spent
     \/ Spend("fault") /\ QRetry
  /\ UNCHANGED <<qsecVars, secretVars, crec, mixups>>

\* AlreadyExists.
RequestCsrFails ==
  /\ qrec.pc = "request" /\ csr # NoCsr
  /\ QRetry
  /\ UNCHANGED <<qsecVars, secretVars, csrVars, crec, mixups, spent>>

\* Mutant: the error of a failing call is only logged.
MintingGivesUp ==
  /\ qrec.pc \in {"lookup", "create", "update", "find", "request"}
  /\ Spend("fault")
  /\ QDone
  /\ UNCHANGED <<qsecVars, secretVars, csrVars, crec, mixups>>

\* A call of the reconcile fails before it has any effect.
MintingFails ==
  /\ qrec.pc \in {"lookup", "create", "update", "find", "request"}
  /\ Spend("fault")
  /\ QRetry
  /\ UNCHANGED <<qsecVars, secretVars, csrVars, crec, mixups>>

ReconcileQSec == \/ Mint \/ CheckTarget \/ LookupKey \/ StoreKey
                 \/ StoreKeyFails \/ FindCsr \/ RequestCsr \/ RequestCsrFails

--------------------------------------------------------------------------
(* ReconcileCertificateSigningRequest.                                     *)

\* Mutant: the copy read by this attempt is kept for the next one.
CLeaveWithCopy == crec' = CIdle /\ UNCHANGED fresh

CLeave == crec' = CIdle /\ fresh' = fresh \ {"csr", "target"}
CDone  == CLeave /\ UNCHANGED work
CRetry == CLeave /\ work' = work \cup {"csr"}

CGoto(pc) == crec' = [crec EXCEPT !.pc = pc]

\* Mutant: an approved request is taken for an issued one.
TakeApproved ==
  /\ "csr" \in work /\ crec = CIdle
  /\ work' = work \ {"csr"}
  /\ \/ csrCache = NoCsr /\ UNCHANGED crec
     \/ csrCache # NoCsr /\ ~csrCache.approved /\ CGoto("get")
     \/ csrCache.approved
          /\ crec' = [CIdle EXCEPT !.pc = "key", !.cert = csrCache.key]
  /\ UNCHANGED <<qsecVars, secretVars, csrVars, qrec, fresh, mixups, spent>>

\* The cached request decides: nothing to do, to be approved, or issued.
TakeCsr ==
  /\ "csr" \in work /\ crec = CIdle
  /\ work' = work \ {"csr"}
  /\ \/ csrCache = NoCsr /\ UNCHANGED crec
     \/ csrCache # NoCsr /\ ~csrCache.issued /\ CGoto("get")
     \/ csrCache.issued
          /\ crec' = [CIdle EXCEPT !.pc = "key", !.cert = csrCache.key]
  /\ UNCHANGED <<qsecVars, secretVars, csrVars, qrec, fresh, mixups, spent>>

\* approveRequest reads the request itself, past the cache.
GetCsr ==
  /\ crec.pc = "get"
  /\ \/ csr = NoCsr /\ CRetry
     \/ csr.approved /\ CDone
     \/ csr # NoCsr /\ ~csr.approved /\ CGoto("approve")
          /\ fresh' = fresh \cup {"csr"} /\ UNCHANGED work
  /\ UNCHANGED <<qsecVars, secretVars, csrVars, qrec, mixups, spent>>

Approve ==
  /\ crec.pc = "approve" /\ "csr" \in fresh
  /\ csr' = [csr EXCEPT !.approved = TRUE]
  /\ csrWatch' = Append(csrWatch, csr')
  /\ \/ CDone /\ UNCHANGED spent
     \/ Spend("fault") /\ CRetry
  /\ UNCHANGED <<qsecVars, secretVars, csrCache, qrec, mixups>>

ApproveConflicts ==
  /\ crec.pc = "approve" /\ "csr" \notin fresh
  /\ CRetry
  /\ UNCHANGED <<qsecVars, secretVars, csrVars, qrec, mixups, spent>>

\* Mutant: the request is taken care of only if its key is there.
ReadKeyOnce ==
  /\ crec.pc = "key"
  /\ IF keyCache = NoKey
     THEN CDone /\ UNCHANGED mixups
     ELSE /\ crec' = [crec EXCEPT !.pc = "owner", !.key = keyCache.key]
          /\ Record("stale", keyCache # keySecret)
          /\ UNCHANGED <<fresh, work>>
  /\ UNCHANGED <<qsecVars, secretVars, csrVars, qrec, spent>>

\* The issued request: wait for its private key.
ReadKey ==
  /\ crec.pc = "key"
  /\ IF keyCache = NoKey
     THEN CRetry /\ UNCHANGED mixups
     ELSE /\ crec' = [crec EXCEPT !.pc = "owner", !.key = keyCache.key]
          /\ Record("stale", keyCache # keySecret)
          /\ UNCHANGED <<fresh, work>>
  /\ UNCHANGED <<qsecVars, secretVars, csrVars, qrec, spent>>

ReadOwner ==
  /\ crec.pc = "owner"
  /\ IF qsecCache = 0
     THEN CRetry
     ELSE /\ crec' = [crec EXCEPT !.pc = "root", !.owner = qsecCache]
          /\ UNCHANGED <<fresh, work>>
  /\ UNCHANGED <<qsecVars, secretVars, csrVars, qrec, mixups, spent>>

\* getClusterRootCA; its failure ends the reconcile without an error.
ReadRootCA ==
  /\ crec.pc = "root"
  /\ \/ CGoto("lookup") /\ UNCHANGED <<fresh, work, spent>>
     \/ Spend("root") /\ CDone
  /\ UNCHANGED <<qsecVars, secretVars, csrVars, qrec, mixups>>

\* Mutant: a secret that is there already is taken for the result.
LookupTargetOnce ==
  /\ crec.pc = "lookup"
  /\ IF targetCache.kind = "none" THEN CGoto("create") ELSE CGoto("deleteKey")
  /\ UNCHANGED <<fresh, qsecVars, secretVars, csrVars, qrec, work, mixups,
                 spent>>

\* createSecret: CreateOrUpdate that compares and replaces only the data.
LookupTarget ==
  /\ crec.pc = "lookup"
  /\ \/ targetCache.kind = "none" /\ CGoto("create") /\ UNCHANGED fresh
     \/ targetCache.kind # "none" /\ targetCache.key = crec.key
          /\ targetCache.cert = crec.cert
          /\ CGoto("deleteKey") /\ UNCHANGED fresh
     \/ targetCache.kind # "none"
          /\ <<targetCache.key, targetCache.cert>> # <<crec.key, crec.cert>>
          /\ CGoto("update") /\ fresh' = fresh \cup ({"target"} \cap synced)
  /\ UNCHANGED <<qsecVars, secretVars, csrVars, qrec, work, mixups, spent>>

TargetAccepted == \/ crec.pc = "create" /\ target.kind = "none"
                  \/ crec.pc = "update" /\ "target" \in fresh

\* What is stored: an Update leaves label and owner as they were.
Merged ==
  IF crec.pc = "create"
  THEN [kind |-> "generated", key |-> crec.key, cert |-> crec.cert,
        owner |-> crec.owner]
  ELSE [target EXCEPT !.key = crec.key, !.cert = crec.cert]

StoreCertificate ==
  /\ TargetAccepted
  /\ PutTarget(Merged)
  /\ \/ CGoto("deleteKey") /\ UNCHANGED <<work, spent>>
     \/ Spend("fault") /\ crec' = CIdle /\ work' = work \cup {"csr"}
  /\ UNCHANGED <<qsecVars, csrVars, qrec, mixups>>

StoreCertificateFails ==
  /\ crec.pc \in {"create", "update"} /\ ~TargetAccepted
  /\ CRetry
  /\ UNCHANGED <<qsecVars, secretVars, csrVars, qrec, mixups, spent>>

\* Mutant: the request is left when its key is deleted.
DeleteKeyOnly ==
  /\ crec.pc = "deleteKey"
  /\ IF keySecret = NoKey
     THEN CRetry /\ UNCHANGED <<secretVars, spent>>
     ELSE PutKey(NoKey) /\ crec' = CIdle /\ UNCHANGED <<work, spent>>
  /\ UNCHANGED <<qsecVars, csrVars, qrec, mixups>>

\* Both are deleted by name, whatever they have become since they were read.
DeleteKey ==
  /\ crec.pc = "deleteKey"
  /\ IF keySecret = NoKey
     THEN CRetry /\ UNCHANGED <<secretVars, spent>>
     ELSE /\ PutKey(NoKey)
          /\ \/ CGoto("deleteCsr") /\ UNCHANGED <<work, spent>>
             \/ Spend("fault") /\ crec' = CIdle /\ work' = work \cup {"csr"}
  /\ UNCHANGED <<qsecVars, csrVars, qrec, mixups>>

DeleteCsr ==
  /\ crec.pc = "deleteCsr"
  /\ IF csr = NoCsr
     THEN CRetry /\ UNCHANGED <<csrVars, spent>>
     ELSE /\ csr' = NoCsr /\ csrWatch' = Append(csrWatch, NoCsr)
          /\ UNCHANGED csrCache
          /\ \/ CDone /\ UNCHANGED spent
             \/ Spend("fault") /\ CRetry
  /\ UNCHANGED <<qsecVars, secretVars, qrec, mixups>>

SigningFails ==
  /\ crec.pc \notin {"idle", "root"}
  /\ Spend("fault")
  /\ CRetry
  /\ UNCHANGED <<qsecVars, secretVars, csrVars, qrec, mixups>>

ReconcileCsr ==
  \/ TakeCsr \/ GetCsr \/ Approve \/ ApproveConflicts \/ ReadKey \/ ReadOwner
  \/ ReadRootCA \/ LookupTarget \/ StoreCertificate \/ StoreCertificateFails
  \/ DeleteKey \/ DeleteCsr

--------------------------------------------------------------------------

\* The operator stops and starts: every stored object is a Create event.
Restart ==
  /\ Spend("restart")
  /\ qsecCache' = qsec /\ keyCache' = keySecret /\ targetCache' = target
  /\ synced' = {"key", "target"}
  /\ csrCache' = csr /\ csrWatch' = <<>>
  /\ work' = {w \in {"qsec", "csr"} :
                IF w = "qsec"
                THEN qsec # 0 /\ ~OwnsSecret(qsec, keySecret, target)
                ELSE Passes(csr)}
  /\ qrec' = QIdle /\ crec' = CIdle /\ fresh' = {}
  /\ UNCHANGED <<qsec, keySecret, target, csr, mixups>>

User == \/ CreateQSec \/ DeleteQSec \/ Rotate \/ CreateUserSecret
        \/ ApproveByHand

Kubernetes == \/ CollectKey \/ CollectTarget \/ Issue
              \/ DeliverQSec \/ DeliverCsr \/ ResyncCsr \/ SyncSecrets

Next == \/ User \/ Kubernetes \/ Restart
        \/ ReconcileQSec \/ MintingFails
        \/ ReconcileCsr \/ SigningFails

Spec == Init /\ [][Next]_vars

--------------------------------------------------------------------------
(* Fairness: informers, the signer and the garbage collector do their work, *)
(* and a reconcile that is due or under way goes on.                        *)

Fairness ==
  /\ WF_vars(DeliverQSec) /\ WF_vars(DeliverCsr) /\ WF_vars(ResyncCsr)
  /\ \A s \in {"key", "target"} : WF_vars(SyncSecrets /\ s \in synced')
  /\ WF_vars(CollectKey) /\ WF_vars(CollectTarget) /\ WF_vars(Issue)
  /\ WF_vars(ReconcileQSec) /\ WF_vars(ReconcileCsr)

FairSpec == Spec /\ Fairness

--------------------------------------------------------------------------
(* Properties.                                                             *)

\* Every variable has its type, and a copy that may still be current belongs to
\* a step that will write it.
TypeOK ==
  /\ qsec \in Nat /\ qsecCache \in Nat
  /\ keySecret \in KeySecret /\ keyCache \in KeySecret
  /\ csr \in Request /\ csrCache \in Request /\ csrWatch \in Seq(Request)
  /\ target \in Target /\ targetCache \in Target
  /\ synced \subseteq {"key", "target"}
  /\ work \subseteq {"qsec", "csr"}
  /\ qrec \in Minting /\ crec \in Signing
  /\ fresh \subseteq {"key", "target", "csr"}
  /\ "key" \in fresh => qrec.pc = "update"
  /\ "target" \in fresh => crec.pc = "update"
  /\ "csr" \in fresh => crec.pc = "approve"
  /\ mixups \subseteq {"overlap", "dropped", "stale"}
  /\ spent \in [Bounded -> Nat]

Usable(t) == t.key = t.cert

\* The certificate secret holds the key its certificate was issued for,
\* whatever is deleted, restarted, edited by users or fails in between, and
\* also when a retry replaces a stored key for which there is no request yet:
\* as long as no key is made while there is a request, none is dropped while an
\* earlier one is stored, and the CSR controller reads the key that is stored.
CertificateUsable == mixups = {} => Usable(target)

\* A signing request is never left alone: until it is deleted something will
\* make the CSR controller look at it again, or the signer has to act.  Only
\* an unreadable root CA ends a reconcile without another.
RequestAttended ==
  csr # NoCsr /\ spent["root"] = 0 =>
    \/ "csr" \in work \/ csrWatch # <<>> \/ crec # CIdle
    \/ csr.approved /\ ~csr.issued

\* Where nothing was mixed up and no QuarksSecret was deleted, the clean-up
\* deletes a private key and a request only after they have been merged into
\* the certificate secret, although it deletes by name: through restarts,
\* conflicts and failing calls, and retries that replace the key.
NothingLost ==
  [][mixups = {} /\ spent["delete"] = 0 =>
       /\ keySecret # NoKey /\ keySecret' = NoKey
            => target.key = keySecret.key
       /\ csr # NoCsr /\ csr' = NoCsr => target.cert = csr.key]_vars

None(bs) == \A b \in bs : spent[b] = 0

\* A QuarksSecret gets its certificate, through rotations, failing calls and a
\* root CA that could not be read at first.  A restart between storing the key
\* and requesting the certificate is not survived.
CertificateIssued ==
  qsec # 0 ~> target.kind = "generated" \/ ~None({"delete", "user", "restart"})

\* For a request whose key is stored the certificate of that very key gets
\* into the secret while the request is still there, through restarts, failing
\* calls, an unreadable root CA and users' secrets, if no other key is made
\* meanwhile.
RequestServed ==
  csr # NoCsr /\ keySecret # NoKey
    ~> \/ csr # NoCsr /\ target.cert = csr.key
       \/ "overlap" \in mixups \/ ~None({"delete"})

\* Request and key are gone in the end; no restart, failing call or second
\* key may come between the two deletions.
CleanedUp ==
  csr # NoCsr
    ~> \/ csr = NoCsr /\ keySecret = NoKey
       \/ ~None({"delete", "user", "restart", "rotate", "fault"})
=============================================================================
