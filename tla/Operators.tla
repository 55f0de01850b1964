----------------------------- MODULE Operators -----------------------------
(***************************************************************************)
(* The life of operator processes, and several of them in one cluster:     *)
(* with the same monitored ID while a deployment is rolled over (there is  *)
(* no leader election), or with different ones, each for the namespaces    *)
(* that carry its ID.                                                      *)
(*                                                                         *)
(* One namespace with one QuarksSecret of a type that needs nothing else,  *)
(* and one config map that rotates it; two namespaces share nothing but    *)
(* the processes.  Of a process's five controllers there are the two that  *)
(* generate and rotate.  Their reconciles are those of                     *)
(* QuarksSecretController with one worker; the meltdown window, which only *)
(* delays, and user secrets are left to that module.                       *)
(***************************************************************************)
EXTENDS Naturals, Sequences, FiniteSets

CONSTANTS
  Procs,     \* operator processes
  IDs,       \* monitored IDs
  Deployed,  \* the IDs the processes may be started with
  Limit,     \* how often each thing the operator has no say in may happen
  Scenarios  \* which of them may come together in one behaviour

\* What Limit bounds: changes of the namespace's label; rotations; processes
\* killed; failing calls.
Bounded == {"label", "rotate", "restart", "fault"}

ASSUME OperatorsAssumption ==
  /\ "none" \notin IDs
  /\ Deployed \subseteq [Procs -> IDs]
  /\ Limit \in [Bounded -> Nat] /\ Scenarios \subseteq SUBSET Bounded

VARIABLES
  id,                    \* the monitored ID each process is started with
  proc,                  \* how far each process is
  crd,                   \* the API server knows QuarksSecrets
  label, labelCache,     \* the namespace's label; per process, in its cache
  qsec,                  \* the QuarksSecret
  qsecWatch, qsecCache,  \* per process
  secret, secretCache,   \* the credentials stored; per process, if it sees any
  synced,                \* processes whose cache has the secret as stored
  config, configSeen,    \* the rotation config map; who got its event
  queue, rotQueue,       \* processes that have work queued
  rec,                   \* per process: its reconcile of the QuarksSecret
  freshQSec, freshSecret,  \* processes whose copy in hand is not outdated
  early,                 \* history: the QuarksSecret came before its operator
                         \* knew the namespace to be its own
  entitled, acted,       \* history: since the start of the process, has the
                         \* namespace carried its ID, has one of the two
                         \* controllers modelled written anything
  spent                  \* how much of Limit has happened

procVars   == <<id, proc, crd>>
labelVars  == <<label, labelCache>>
qsecVars   == <<qsec, qsecWatch, qsecCache>>
secretVars == <<secret, secretCache, synced>>
configVars == <<config, configSeen, rotQueue>>
recVars    == <<queue, rec, freshQSec, freshSecret>>
history    == <<early, entitled, acted>>
vars == <<procVars, labelVars, qsecVars, secretVars, configVars, recVars,
          history, spent>>

QSec == [here: BOOLEAN, generated: {"nil", "false", "true"}]
NoQSec == [here |-> FALSE, generated |-> "nil"]
NewQSec == [here |-> TRUE, generated |-> "nil"]

\* Of credentials all that counts is whether they are those the secret held
\* when the last rotation was asked for.
Credentials == {"old", "new"}

\* What a reconcile is about to do.
Reconciling == {"idle", "lookup", "create", "update", "status"}

Running == {p \in Procs : proc[p] = "running"}

Init ==
  /\ id \in Deployed
  /\ proc = [p \in Procs |-> "down"]
  /\ crd \in BOOLEAN
  /\ label \in IDs \cup {"none"}
  /\ labelCache = [p \in Procs |-> "none"]
  /\ qsec = NoQSec
  /\ qsecWatch = [p \in Procs |-> <<>>]
  /\ qsecCache = [p \in Procs |-> NoQSec]
  /\ secret = "none" /\ secretCache = [p \in Procs |-> FALSE] /\ synced = {}
  /\ config = FALSE /\ configSeen = {}
  /\ queue = {} /\ rotQueue = {}
  /\ rec = [p \in Procs |-> "idle"] /\ freshQSec = {} /\ freshSecret = {}
  /\ early = FALSE /\ entitled = {} /\ acted = {}
  /\ spent = [b \in Bounded |-> 0]

Spend(b) == /\ spent[b] < Limit[b]
            /\ spent' = [spent EXCEPT ![b] = @ + 1]
            /\ \E s \in Scenarios : {c \in Bounded : spent'[c] > 0} \subseteq s

PutQSec(o) ==
  /\ qsec' = o
  /\ qsecWatch' = [p \in Procs |-> IF p \in Running THEN Append(qsecWatch[p], o)
                                                    ELSE <<>>]
  /\ freshQSec' = {}
  /\ UNCHANGED qsecCache

--------------------------------------------------------------------------
(* Users.                                                                  *)

\* The namespace is given another label, or none; not having been created yet
\* is having none.
LabelNamespace ==
  /\ Spend("label")
  /\ label' \in (IDs \cup {"none"}) \ {label}
  /\ early' = (early \/ qsec.here)
  /\ entitled' = entitled \cup {p \in Procs : proc[p] # "down" /\ id[p] = label'}
  /\ UNCHANGED <<procVars, labelCache, qsecVars, secretVars, configVars,
                 recVars, acted>>

CreateQSec ==
  /\ crd /\ ~qsec.here /\ qsec.generated = "nil"
  /\ PutQSec(NewQSec)
  /\ early' = (\E p \in Running : id[p] = label /\ labelCache[p] # label)
  /\ UNCHANGED <<procVars, labelVars, secretVars, configVars, queue, rec,
                 freshSecret, entitled, acted, spent>>

\* A config map that names the QuarksSecret once it is there; before, it is
\* passed over.
CreateConfig ==
  /\ ~config /\ qsec.here
  /\ Spend("rotate")
  /\ config' = TRUE
  /\ UNCHANGED <<procVars, labelVars, qsecVars, secretVars, configSeen,
                 rotQueue, recVars, history>>

--------------------------------------------------------------------------
(* A process starts, and stops.                                            *)

\* Mutant: any label will do.
MonitoredByAny(labelled, p) == labelled # "none"

\* IsMonitoredNamespace.
Monitored(labelled, p) == labelled = id[p]

\* A process that is down is started at once.  First the CRD is applied, unless
\* the chart did, and the process waits until it is ready.
ApplyCRDs(p) ==
  /\ proc[p] = "down"
  /\ crd' = TRUE
  /\ proc' = [proc EXCEPT ![p] = "manager"]
  /\ entitled' = IF id[p] = label THEN entitled \cup {p} ELSE entitled
  /\ UNCHANGED <<id, labelVars, qsecVars, secretVars, configVars, recVars,
                 early, acted, spent>>

\* Mutant: the manager is started although a controller could not be added.
StartAnyway(p) ==
  /\ proc[p] = "manager"
  /\ Spend("fault")
  /\ proc' = [proc EXCEPT ![p] = "running"]
  /\ UNCHANGED <<id, crd, labelVars, qsecVars, secretVars, configVars, recVars,
                 history>>

\* NewManager and Start: controllers are added, caches listed, and every
\* object is a Create event.
StartManager(p) ==
  /\ proc[p] = "manager"
  /\ proc' = [proc EXCEPT ![p] = "running"]
  /\ labelCache' = [labelCache EXCEPT ![p] = label]
  /\ qsecCache' = [qsecCache EXCEPT ![p] = qsec]
  /\ secretCache' = [secretCache EXCEPT ![p] = (secret # "none")]
  /\ synced' = synced \cup {p}
  /\ configSeen' = IF config THEN configSeen \cup {p} ELSE configSeen
  /\ queue' = IF qsec.here /\ secret = "none" /\ Monitored(label, p)
              THEN queue \cup {p} ELSE queue
  /\ rotQueue' = IF config /\ Monitored(label, p)
                 THEN rotQueue \cup {p} ELSE rotQueue
  /\ UNCHANGED <<id, crd, label, qsec, qsecWatch, secret, config, rec,
                 freshQSec, freshSecret, history, spent>>

\* An error ends the process; Kubernetes starts it again.
StartFails(p) ==
  /\ proc[p] = "manager"
  /\ Spend("fault")
  /\ proc' = [proc EXCEPT ![p] = "down"]
  /\ entitled' = entitled \ {p}
  /\ UNCHANGED <<id, crd, labelVars, qsecVars, secretVars, configVars, recVars,
                 early, acted>>

\* A running process ends, and with it all it has in memory.
Kill(p) ==
  /\ proc[p] = "running"
  /\ Spend("restart")
  /\ proc' = [proc EXCEPT ![p] = "down"]
  /\ labelCache' = [labelCache EXCEPT ![p] = "none"]
  /\ qsecWatch' = [qsecWatch EXCEPT ![p] = <<>>]
  /\ qsecCache' = [qsecCache EXCEPT ![p] = NoQSec]
  /\ secretCache' = [secretCache EXCEPT ![p] = FALSE]
  /\ synced' = synced \ {p} /\ configSeen' = configSeen \ {p}
  /\ queue' = queue \ {p} /\ rotQueue' = rotQueue \ {p}
  /\ rec' = [rec EXCEPT ![p] = "idle"]
  /\ freshQSec' = freshQSec \ {p} /\ freshSecret' = freshSecret \ {p}
  /\ entitled' = entitled \ {p} /\ acted' = acted \ {p}
  /\ UNCHANGED <<id, crd, label, qsec, secret, config, early>>

--------------------------------------------------------------------------
(* Informers and predicates of a running process.                          *)

\* Mutant: only the change to false is a request.
PassesOnReset(p, old, new) ==
  \/ ~old.here /\ new.here /\ ~secretCache[p]
  \/ old.here /\ old.generated # "false" /\ new.generated = "false"

\* Create: a QuarksSecret without a secret; Update: one that is not generated.
Passes(p, old, new) ==
  \/ ~old.here /\ new.here /\ ~secretCache[p]
  \/ old.here /\ new.generated = "false"

\* The namespace is looked up in the cache; one that is not there is not
\* monitored, and the event is gone.
DeliverQSec(p) ==
  /\ qsecWatch[p] # <<>>
  /\ qsecCache' = [qsecCache EXCEPT ![p] = Head(qsecWatch[p])]
  /\ qsecWatch' = [qsecWatch EXCEPT ![p] = Tail(@)]
  /\ queue' = IF /\ Monitored(labelCache[p], p)
                 /\ Passes(p, qsecCache[p], Head(qsecWatch[p]))
              THEN queue \cup {p} ELSE queue
  /\ UNCHANGED <<procVars, labelVars, qsec, secretVars, configVars, rec,
                 freshQSec, freshSecret, history, spent>>

\* The informer shows its object again; hours apart, so whatever is due at
\* that time has been done.
Resync(p) ==
  /\ p \in Running /\ qsecWatch[p] = <<>> /\ p \notin queue /\ rec[p] = "idle"
  /\ Monitored(labelCache[p], p) /\ Passes(p, qsecCache[p], qsecCache[p])
  /\ queue' = queue \cup {p}
  /\ UNCHANGED <<procVars, labelVars, qsecVars, secretVars, configVars, rec,
                 freshQSec, freshSecret, history, spent>>

DeliverConfig(p) ==
  /\ p \in Running /\ config /\ p \notin configSeen
  /\ configSeen' = configSeen \cup {p}
  /\ rotQueue' = IF Monitored(labelCache[p], p) THEN rotQueue \cup {p}
                                                ELSE rotQueue
  /\ UNCHANGED <<procVars, labelVars, qsecVars, secretVars, config, recVars,
                 history, spent>>

SyncLabel(p) ==
  /\ p \in Running /\ labelCache[p] # label
  /\ labelCache' = [labelCache EXCEPT ![p] = label]
  /\ UNCHANGED <<procVars, label, qsecVars, secretVars, configVars, recVars,
                 history, spent>>

SyncSecret(p) ==
  /\ p \in Running \ synced
  /\ synced' = synced \cup {p}
  /\ secretCache' = [secretCache EXCEPT ![p] = (secret # "none")]
  /\ UNCHANGED <<procVars, labelVars, qsecVars, secret, configVars, recVars,
                 history, spent>>

--------------------------------------------------------------------------
(* The reconciles of a process.                                            *)

\* Mutant: the copies read by this attempt are kept for the next one.
LeaveWithCopies(p) == /\ rec' = [rec EXCEPT ![p] = "idle"]
                      /\ UNCHANGED <<freshQSec, freshSecret>>

Leave(p) == /\ rec' = [rec EXCEPT ![p] = "idle"]
            /\ freshQSec' = freshQSec \ {p} /\ freshSecret' = freshSecret \ {p}
Retry(p) == Leave(p) /\ queue' = queue \cup {p}

\* Nobody looks at the status: credentials are made anew.
Begin(p) ==
  /\ p \in queue /\ rec[p] = "idle"
  /\ queue' = queue \ {p}
  /\ rec' = [rec EXCEPT ![p] = "lookup"]
  /\ freshQSec' = IF qsecWatch[p] = <<>> THEN freshQSec \cup {p} ELSE freshQSec
  /\ UNCHANGED <<procVars, labelVars, qsecVars, secretVars, configVars,
                 freshSecret, history, spent>>

Lookup(p) ==
  /\ rec[p] = "lookup"
  /\ rec' = [rec EXCEPT ![p] = IF secretCache[p] THEN "update" ELSE "create"]
  /\ freshSecret' = IF secretCache[p] /\ p \in synced THEN freshSecret \cup {p}
                                                      ELSE freshSecret
  /\ UNCHANGED <<procVars, labelVars, qsecVars, secretVars, configVars, queue,
                 freshQSec, history, spent>>

Accepted(p) == \/ rec[p] = "create" /\ secret = "none"
               \/ rec[p] = "update" /\ p \in freshSecret

Store(p) ==
  /\ Accepted(p)
  /\ secret' = "new" /\ synced' = {}
  /\ acted' = acted \cup {p}
  /\ freshSecret' = {}
  /\ \/ /\ rec' = [rec EXCEPT ![p] = "status"]
        /\ UNCHANGED <<queue, freshQSec, spent>>
     \/ /\ Spend("fault")
        /\ rec' = [rec EXCEPT ![p] = "idle"] /\ queue' = queue \cup {p}
        /\ freshQSec' = freshQSec \ {p}
  /\ UNCHANGED <<procVars, labelVars, qsecVars, secretCache, configVars,
                 early, entitled>>

\* The other process was faster, or the cache was late.
StoreConflicts(p) ==
  /\ rec[p] \in {"create", "update"} /\ ~Accepted(p)
  /\ Retry(p)
  /\ UNCHANGED <<procVars, labelVars, qsecVars, secretVars, configVars,
                 history, spent>>

\* Mutant: the status is written without a resourceVersion.
StatusAlwaysAccepted(p) == qsec.here

StatusAccepted(p) == p \in freshQSec

UpdateStatus(p) ==
  /\ rec[p] = "status"
  /\ rec' = [rec EXCEPT ![p] = "idle"]
  /\ \/ /\ StatusAccepted(p)
        /\ PutQSec([qsec EXCEPT !.generated = "true"])
        /\ UNCHANGED spent
     \/ /\ IF StatusAccepted(p) THEN Spend("fault") ELSE UNCHANGED spent
        /\ freshQSec' = freshQSec \ {p}
        /\ UNCHANGED qsecVars
  /\ UNCHANGED <<procVars, labelVars, secretVars, configVars, queue,
                 freshSecret, history>>

Reconcile(p) == \/ Begin(p) \/ Lookup(p) \/ Store(p) \/ StoreConflicts(p)
                \/ UpdateStatus(p)

\* ReconcileSecretRotation: reset Generated, if it is not reset already.  An
\* outdated copy conflicts, and is read again.  The secret stays as it is: what
\* it holds are the old credentials from now on.
ResetGenerated(p) ==
  /\ p \in rotQueue
  /\ IF qsecCache[p].here /\ qsecCache[p].generated # "false"
     THEN /\ qsecWatch[p] = <<>>
          /\ PutQSec([qsec EXCEPT !.generated = "false"])
          /\ secret' = IF secret = "none" THEN "none" ELSE "old"
          /\ acted' = acted \cup {p}
     ELSE UNCHANGED <<qsecVars, freshQSec, secret, acted>>
  /\ rotQueue' = rotQueue \ {p}
  /\ UNCHANGED <<procVars, labelVars, secretCache, synced, config, configSeen,
                 queue, rec, freshSecret, early, entitled, spent>>

--------------------------------------------------------------------------

Start(p) == ApplyCRDs(p) \/ StartManager(p)

Next ==
  \/ LabelNamespace \/ CreateQSec \/ CreateConfig
  \/ \E p \in Procs :
       \/ Start(p) \/ StartFails(p) \/ Kill(p)
       \/ DeliverQSec(p) \/ Resync(p) \/ DeliverConfig(p)
       \/ SyncLabel(p) \/ SyncSecret(p)
       \/ Reconcile(p) \/ ResetGenerated(p)

Spec == Init /\ [][Next]_vars

\* Kubernetes starts processes, informers deliver, and what a process has
\* queued or begun goes on.
Fairness ==
  \A p \in Procs :
    /\ WF_vars(Start(p))
    /\ WF_vars(DeliverQSec(p)) /\ WF_vars(Resync(p)) /\ WF_vars(DeliverConfig(p))
    /\ WF_vars(SyncLabel(p)) /\ WF_vars(SyncSecret(p))
    /\ WF_vars(Reconcile(p)) /\ WF_vars(ResetGenerated(p))

FairSpec == Spec /\ Fairness

--------------------------------------------------------------------------
(* Properties.                                                             *)

\* Every variable has its type; only a running process has work, and holds
\* current copies only while a reconcile uses them.
TypeOK ==
  /\ id \in [Procs -> IDs]
  /\ proc \in [Procs -> {"down", "manager", "running"}]
  /\ crd \in BOOLEAN
  /\ label \in IDs \cup {"none"}
  /\ labelCache \in [Procs -> IDs \cup {"none"}]
  /\ qsec \in QSec
  /\ qsecWatch \in [Procs -> Seq(QSec)] /\ qsecCache \in [Procs -> QSec]
  /\ secret \in {"none"} \cup Credentials /\ secretCache \in [Procs -> BOOLEAN]
  /\ config \in BOOLEAN
  /\ rec \in [Procs -> Reconciling]
  /\ synced \cup configSeen \cup queue \cup rotQueue \cup acted \subseteq Running
  /\ \A p \in Procs \ Running : rec[p] = "idle" /\ qsecWatch[p] = <<>>
  /\ freshQSec \subseteq {p \in Procs : rec[p] # "idle"}
  /\ freshSecret \subseteq {p \in Procs : rec[p] = "update"}
  /\ early \in BOOLEAN
  /\ entitled \subseteq Procs
  /\ spent \in [Bounded -> Nat]

\* Of operators with different IDs, one leaves generating and rotating to the
\* other: a QuarksSecret controller writes a secret, and a rotation controller
\* resets a status, only in a namespace that has carried the process's ID since
\* it was started, though the label is read from a cache and may be changed
\* while an event waits.  Nothing is said of a process's other controllers: the
\* one of the CSRs filters no namespaces (certificatesigningrequest_controller.go
\* lines 42 to 56), and copies are sent elsewhere (copy_reconciler.go lines 111
\* to 131).
GeneratesWhereWatched == acted \subseteq entitled

\* A rotation is effective, also with two operators at work on it: once the
\* status says generated again, the secret no longer holds the credentials it
\* held when the rotation was asked for.
RotatedAway == qsec.generated = "true" => secret # "old"

\* A QuarksSecret gets its secret, however often processes are killed or fail
\* to start, if the namespace was known to be monitored when it came.
ObjectServed ==
  qsec.here /\ (\E p \in Procs : id[p] = label) ~> secret # "none" \/ early

\* A rotation is answered with several operators as well: conflicts between
\* them do not make both of them give up.
RotationAnswered ==
  qsec.generated = "false" ~> qsec.generated = "true" \/ spent["label"] > 0
=============================================================================
