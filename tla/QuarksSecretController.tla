--------------------- MODULE QuarksSecretController ---------------------
(***************************************************************************)
(* The QuarksSecret controller and the secret-rotation controller, with    *)
(* the part of Kubernetes they stand on: the API server, the informer      *)
(* caches the typed client reads from, watch events, and work queues.      *)
(*                                                                         *)
(* A write of a QuarksSecret appends the new version to its watch;         *)
(* delivering it updates the cache and shows (old, new) to the predicates. *)
(* Nobody here reacts to events of secrets, so their cache just catches up *)
(* at times; synced says for which names it holds the latest version.      *)
(* Writes are guarded by resourceVersion, which is modelled by what it     *)
(* decides: freshQSec, freshRot and freshSecret say which copies in hand   *)
(* are still the version in the API server.                                *)
(***************************************************************************)
EXTENDS QuarksSecretTypes, FiniteSets, Sequences

CONSTANTS
  Offers,   \* Offers[q]: the specs users give q
  Refs,     \* Refs[q]: whose secrets a "refs" spec of q reads
  Configs,  \* names of the rotation config maps
  Names,    \* Names[c]: the quarks secrets config map c lists
  Garbled,  \* the config maps whose list is not valid JSON
  Workers,  \* MaxConcurrentReconciles of each controller
  Limit     \* how often each thing the operator has no say in may happen

\* What the bounds in Limit count: QuarksSecrets created, edited, deleted;
\* secrets a user creates or deletes; config maps created; operator restarts;
\* failing API calls; informer relists.
Bounded == {"birth", "edit", "delete", "secret", "config", "restart", "fault",
            "relist"}

ASSUME ControllerAssumption ==
  /\ Offers \in [QSecs -> SUBSET Specs]
  /\ Refs \in [QSecs -> SUBSET QSecs]
  /\ Names \in [Configs -> Seq(QSecs)]
  /\ Garbled \subseteq Configs
  /\ Workers \in Nat \ {0}
  /\ Limit \in [Bounded -> Nat]

VARIABLES
  qsec, qsecWatch, qsecCache,       \* per name: API server, watch, informer
  secret, secretCache, synced,      \* secret of that name, and its informer
  queue, delayed,                   \* of the QuarksSecret controller
  rec,                              \* rec[q]: the reconcile of q in progress
  freshQSec, freshSecret,           \* whose copy in rec is not outdated
  config, rotQueue, rotDelayed,     \* config maps; queue of the rotation
  rot, freshRot,                    \* rot[c]: the rotation reconcile of c
  spent                             \* how much of Limit has happened

qsecVars   == <<qsec, qsecWatch, qsecCache>>
secretVars == <<secret, secretCache, synced>>
queueVars  == <<queue, delayed>>
recVars    == <<rec, freshQSec, freshSecret>>
rotVars    == <<config, rotQueue, rotDelayed, rot, freshRot>>
vars == <<qsecVars, secretVars, queueVars, recVars, rotVars, spent>>

\* A reconcile in progress: its copy of the QuarksSecret and what skipCreation
\* read. Two fields are history: whether what was generated is stored, and
\* whether it was generated after the last rotation request.
Reconciling == [pc: {"idle", "generate", "check", "lookup", "create",
                     "update", "status"},
                obj: QuarksSecret,
                seen: {"unread", "none", "user", "generated"},
                stored: BOOLEAN, renewed: BOOLEAN]

Idle == [pc |-> "idle", obj |-> NoQSec, seen |-> "unread",
         stored |-> FALSE, renewed |-> FALSE]

Rotating == [pc: {"idle", "read", "write"}, todo: Seq(QSecs),
             obj: QuarksSecret]

RotIdle == [pc |-> "idle", todo |-> <<>>, obj |-> NoQSec]

Init ==
  /\ qsec = [q \in QSecs |-> NoQSec]
  /\ qsecWatch = [q \in QSecs |-> <<>>]
  /\ qsecCache = qsec
  /\ secret = [q \in QSecs |-> NoSecret]
  /\ secretCache = secret /\ synced = QSecs
  /\ queue = {} /\ delayed = {}
  /\ rec = [q \in QSecs |-> Idle]
  /\ freshQSec = {} /\ freshSecret = {}
  /\ config = [c \in Configs |-> "absent"]
  /\ rotQueue = {} /\ rotDelayed = {}
  /\ rot = [c \in Configs |-> RotIdle]
  /\ freshRot = {}
  /\ spent = [b \in Bounded |-> 0]

Spend(b) == /\ spent[b] < Limit[b]
            /\ spent' = [spent EXCEPT ![b] = @ + 1]

--------------------------------------------------------------------------
(* The API server.                                                         *)

\* Storing version o of q outdates every copy of q in a reconciler's hand.
PutQSec(q, o) ==
  /\ qsec' = [qsec EXCEPT ![q] = o]
  /\ qsecWatch' = [qsecWatch EXCEPT ![q] = Append(@, o)]
  /\ freshQSec' = freshQSec \ {q}
  /\ freshRot' = {c \in freshRot : Head(rot[c].todo) # q}
  /\ UNCHANGED qsecCache

PutSecret(q, s) ==
  /\ secret' = [secret EXCEPT ![q] = s]
  /\ synced' = synced \ {q}
  /\ freshSecret' = freshSecret \ {q}
  /\ UNCHANGED secretCache

\* A user creates a QuarksSecret; its status is still nil.
CreateQSec(q, s) ==
  /\ ~Present(qsec[q]) /\ s \in Offers[q]
  /\ Spend("birth")
  /\ PutQSec(q, NewQSec(spent'["birth"], s))
  /\ UNCHANGED <<secretVars, queueVars, rec, freshSecret, config, rotQueue,
                 rotDelayed, rot>>

\* A user changes the spec, or only the metadata (s is then the old spec).
EditQSec(q, s) ==
  /\ Present(qsec[q]) /\ s \in Offers[q] \cup {qsec[q].spec}
  /\ Spend("edit")
  /\ PutQSec(q, [qsec[q] EXCEPT !.spec = s])
  /\ UNCHANGED <<secretVars, queueVars, rec, freshSecret, config, rotQueue,
                 rotDelayed, rot>>

DeleteQSec(q) ==
  /\ Present(qsec[q])
  /\ Spend("delete")
  /\ PutQSec(q, NoQSec)
  /\ UNCHANGED <<secretVars, queueVars, rec, freshSecret, config, rotQueue,
                 rotDelayed, rot>>

\* A user creates a secret under the name the QuarksSecret uses.
CreateUserSecret(q) ==
  /\ secret[q].kind = "none"
  /\ Spend("secret")
  /\ PutSecret(q, UserSecret)
  /\ UNCHANGED <<qsecVars, queueVars, rec, freshQSec, rotVars>>

\* A user deletes the secret, generated or not.
DeleteSecret(q) ==
  /\ secret[q].kind # "none"
  /\ Spend("secret")
  /\ PutSecret(q, NoSecret)
  /\ UNCHANGED <<qsecVars, queueVars, rec, freshQSec, rotVars>>

\* Kubernetes deletes a secret whose controlling QuarksSecret is gone.
GarbageCollect(q) ==
  /\ secret[q].kind # "none"
  /\ secret[q].owner \notin {0, qsec[q].uid}
  /\ PutSecret(q, NoSecret)
  /\ UNCHANGED <<qsecVars, queueVars, rec, freshQSec, rotVars, spent>>

--------------------------------------------------------------------------
(* Informers, predicates and timers.                                       *)

\* The Create predicate: reconcile unless the cache has a secret of o's.
CreatePasses(q, o) == ~Owns(o, secretCache[q])

\* Mutants of the Update predicate: one that only sees Generated go from true
\* to false, one without the comparison of specs, one with nothing else.
UpdatePassesOnFallingEdge(old, new) ==
  IsGenerated(old) /\ (old.spec # new.spec \/ NotGenerated(new))
UpdatePassesOnRequest(old, new) == NotGenerated(new)
UpdatePassesOnChange(old, new) == IsGenerated(old) /\ old.spec # new.spec

\* The Update predicate: the spec of a generated object changed, or a
\* controller asked for a new generation.
UpdatePasses(old, new) ==
  \/ IsGenerated(old) /\ old.spec # new.spec
  \/ NotGenerated(new)

\* Deletions are not reconciled.
Passes(q, old, new) ==
  /\ Present(new)
  /\ IF Present(old) THEN UpdatePasses(old, new) ELSE CreatePasses(q, new)

Enqueued(q, old, new) ==
  IF Passes(q, old, new) THEN queue \cup {q} ELSE queue

DeliverQSec(q) ==
  /\ qsecWatch[q] # <<>>
  /\ qsecCache' = [qsecCache EXCEPT ![q] = Head(qsecWatch[q])]
  /\ qsecWatch' = [qsecWatch EXCEPT ![q] = Tail(@)]
  /\ queue' = Enqueued(q, qsecCache[q], Head(qsecWatch[q]))
  /\ UNCHANGED <<qsec, secretVars, delayed, recVars, rotVars, spent>>

\* A broken watch is replaced by a list: versions in between are never seen.
RelistQSec(q) ==
  /\ Len(qsecWatch[q]) > 1
  /\ Spend("relist")
  /\ qsecCache' = [qsecCache EXCEPT ![q] = qsec[q]]
  /\ qsecWatch' = [qsecWatch EXCEPT ![q] = <<>>]
  /\ queue' = Enqueued(q, qsecCache[q], qsec[q])
  /\ UNCHANGED <<qsec, secretVars, delayed, recVars, rotVars>>

\* The informer shows every cached object again, as an update to itself.
Resync(q) ==
  /\ Present(qsecCache[q])
  /\ queue' = Enqueued(q, qsecCache[q], qsecCache[q])
  /\ UNCHANGED <<qsecVars, secretVars, delayed, recVars, rotVars, spent>>

SyncSecret(q) ==
  /\ secretCache' = [secretCache EXCEPT ![q] = secret[q]]
  /\ synced' = synced \cup {q}
  /\ UNCHANGED <<qsecVars, secret, queueVars, recVars, rotVars, spent>>

\* RequeueAfter or the rate limiter's delay is over.
Requeue(q) ==
  /\ q \in delayed
  /\ queue' = queue \cup {q}
  /\ delayed' = delayed \ {q}
  /\ UNCHANGED <<qsecVars, secretVars, recVars, rotVars, spent>>

--------------------------------------------------------------------------
(* ReconcileQuarksSecret.Reconcile.                                        *)

\* A free worker takes q from the queue; its Get reads qsecCache[q].
Take(q) ==
  /\ q \in queue
  /\ rec[q] = Idle
  /\ Cardinality({p \in QSecs : rec[p] # Idle}) < Workers
  /\ queue' = queue \ {q}
  /\ UNCHANGED <<qsecVars, secretVars, freshSecret, rotVars>>

\* The Get finds nothing, or a type other controllers serve: nothing to do.
SkipReconcile(q) ==
  /\ Take(q)
  /\ \/ ~Present(qsecCache[q])
     \/ Present(qsecCache[q]) /\ Kind[qsecCache[q].spec] = "copy"
  /\ UNCHANGED <<delayed, rec, freshQSec, spent>>

\* Still inside the meltdown window after LastReconcile: try again later.
Meltdown(q) ==
  /\ Take(q)
  /\ qsecCache[q].stamped
  /\ delayed' = delayed \cup {q}
  /\ UNCHANGED <<rec, freshQSec, spent>>

\* An unknown type or a Get that fails is an error, which the rate limiter
\* retries.
RejectType(q) ==
  /\ Take(q)
  /\ \/ /\ Present(qsecCache[q]) /\ Kind[qsecCache[q].spec] = "invalid"
        /\ UNCHANGED spent
     \/ Spend("fault")
  /\ delayed' = delayed \cup {q}
  /\ UNCHANGED <<rec, freshQSec>>

BeginReconcile(q) ==
  /\ Take(q)
  /\ Present(qsecCache[q]) /\ Kind[qsecCache[q].spec] \in {"plain", "refs"}
  /\ rec' = [rec EXCEPT ![q] = [Idle EXCEPT !.pc = "generate",
                                            !.obj = qsecCache[q]]]
  /\ freshQSec' = IF qsecWatch[q] = <<>> THEN freshQSec \cup {q}
                                         ELSE freshQSec
  /\ UNCHANGED <<delayed, spent>>

\* Mutant: the copy read by this attempt is kept for the next one.
LeaveWithCopy(q) ==
  /\ rec' = [rec EXCEPT ![q] = Idle]
  /\ freshSecret' = freshSecret \ {q}
  /\ UNCHANGED freshQSec

\* Leaving Reconcile, with or without having the key retried later.
Leave(q) ==
  /\ rec' = [rec EXCEPT ![q] = Idle]
  /\ freshQSec' = freshQSec \ {q}
  /\ freshSecret' = freshSecret \ {q}

Retry(q) == Leave(q) /\ delayed' = delayed \cup {q}

\* The secrets a CA reference, template or image credential needs exist.
RefsReady(q) ==
  Kind[rec[q].obj.spec] = "refs" =>
    \A r \in Refs[q] : secretCache[r].kind # "none"

\* Credentials are minted before anything is written.
Generate(q) ==
  /\ rec[q].pc = "generate"
  /\ RefsReady(q)
  /\ rec' = [rec EXCEPT ![q].pc = "check", ![q].renewed = TRUE]
  /\ UNCHANGED <<qsecVars, secretVars, queueVars, freshQSec, freshSecret,
                 rotVars, spent>>

\* Mutant: the not-ready error is swallowed, and no retry asked for.
NotReadyForgets(q) ==
  /\ rec[q].pc = "generate"
  /\ ~RefsReady(q)
  /\ Leave(q)
  /\ UNCHANGED <<qsecVars, secretVars, queueVars, rotVars, spent>>

\* CA or secret not ready yet: RequeueAfter. A read of one that fails is an
\* error, and retried as well.
NotReady(q) ==
  /\ rec[q].pc = "generate"
  /\ \/ ~RefsReady(q) /\ UNCHANGED spent
     \/ Kind[rec[q].obj.spec] = "refs" /\ Spend("fault")
  /\ Retry(q)
  /\ UNCHANGED <<qsecVars, secretVars, queue, rotVars>>

\* Mutant: skipCreation without the test of the label.
SkipNever(kind) == FALSE

\* skipCreation: leave a secret alone that lacks the generated label.
SkipCreation(kind) == kind = "user"

CheckSecret(q) ==
  /\ rec[q].pc = "check"
  /\ LET kind == secretCache[q].kind IN
       rec' = [rec EXCEPT ![q].seen = kind,
                 ![q].pc = IF SkipCreation(kind) THEN "status" ELSE "lookup"]
  /\ UNCHANGED <<qsecVars, secretVars, queueVars, freshQSec, freshSecret,
                 rotVars, spent>>

\* createSecrets only logs a failing read and goes on to write.
CheckSecretFails(q) ==
  /\ rec[q].pc = "check"
  /\ Spend("fault")
  /\ rec' = [rec EXCEPT ![q].pc = "lookup"]
  /\ UNCHANGED <<qsecVars, secretVars, queueVars, freshQSec, freshSecret,
                 rotVars>>

\* The Get inside CreateOrUpdate.
LookupSecret(q) ==
  /\ rec[q].pc = "lookup"
  /\ IF secretCache[q].kind = "none"
     THEN /\ rec' = [rec EXCEPT ![q].pc = "create"]
          /\ UNCHANGED freshSecret
     ELSE /\ rec' = [rec EXCEPT ![q].pc = "update"]
          /\ freshSecret' = freshSecret \cup ({q} \cap synced)
  /\ UNCHANGED <<qsecVars, secretVars, queueVars, freshQSec, rotVars, spent>>

\* A template or an image credential that yields what the cached secret holds
\* already: CreateOrUpdate writes nothing.
KeepSecret(q) ==
  /\ rec[q].pc = "lookup"
  /\ Kind[rec[q].obj.spec] = "refs"
  /\ secretCache[q].kind = "generated"
  /\ secretCache[q].spec = rec[q].obj.spec
  /\ rec' = [rec EXCEPT ![q].pc = "status", ![q].stored = TRUE]
  /\ UNCHANGED <<qsecVars, secretVars, queueVars, freshQSec, freshSecret,
                 rotVars, spent>>

\* The API server takes the write: a Create when there is no such secret, an
\* Update of the version that was looked up.
Accepted(q) ==
  \/ rec[q].pc = "create" /\ secret[q].kind = "none"
  \/ rec[q].pc = "update" /\ q \in freshSecret

\* What it stores: an Update keeps the owner the secret had.
Written(q) ==
  GeneratedSecret(IF rec[q].pc = "create" THEN rec[q].obj.uid
                                          ELSE secret[q].owner,
                  rec[q].obj.spec)

WriteSecret(q) ==
  /\ Accepted(q)
  /\ PutSecret(q, Written(q))
  /\ rec' = [rec EXCEPT ![q].pc = "status", ![q].stored = TRUE]
  /\ UNCHANGED <<qsecVars, queueVars, freshQSec, rotVars, spent>>

\* AlreadyExists, a conflict or NotFound, or a call of CreateOrUpdate that
\* fails without effect: an error, retried later.
WriteSecretFails(q) ==
  /\ rec[q].pc \in {"lookup", "create", "update"}
  /\ \/ rec[q].pc # "lookup" /\ ~Accepted(q) /\ UNCHANGED spent
     \/ Spend("fault")
  /\ Retry(q)
  /\ UNCHANGED <<qsecVars, secretVars, queue, rotVars>>

\* The write is stored but the call times out, so Reconcile is run again.
WriteSecretUnanswered(q) ==
  /\ Accepted(q)
  /\ Spend("fault")
  /\ PutSecret(q, Written(q))
  /\ Retry(q)
  /\ UNCHANGED <<qsecVars, queue, rotVars>>

\* Mutant: the status is written without a resourceVersion.
StatusAlwaysAccepted(q) == TRUE

\* updateStatus; a conflict is only logged.
StatusAccepted(q) == q \in freshQSec

UpdateStatus(q) ==
  /\ rec[q].pc = "status"
  /\ StatusAccepted(q)
  /\ PutQSec(q, [rec[q].obj EXCEPT !.generated = "true", !.copied = "false",
                                   !.stamped = TRUE])
  /\ rec' = [rec EXCEPT ![q] = Idle]
  /\ UNCHANGED <<secretVars, queueVars, freshSecret, config, rotQueue,
                 rotDelayed, rot, spent>>

UpdateStatusFails(q) ==
  /\ rec[q].pc = "status"
  /\ IF StatusAccepted(q) THEN Spend("fault") ELSE UNCHANGED spent
  /\ Leave(q)
  /\ UNCHANGED <<qsecVars, secretVars, queueVars, rotVars>>

Reconcile(q) ==
  \/ SkipReconcile(q) \/ Meltdown(q) \/ RejectType(q) \/ BeginReconcile(q)
  \/ Generate(q) \/ NotReady(q)
  \/ CheckSecret(q) \/ CheckSecretFails(q)
  \/ LookupSecret(q) \/ KeepSecret(q)
  \/ WriteSecret(q) \/ WriteSecretFails(q) \/ WriteSecretUnanswered(q)
  \/ UpdateStatus(q) \/ UpdateStatusFails(q)

--------------------------------------------------------------------------
(* ReconcileSecretRotation.Reconcile and its config maps.                  *)

CreateConfig(c) ==
  /\ config[c] = "absent"
  /\ Spend("config")
  /\ config' = [config EXCEPT ![c] = "created"]
  /\ UNCHANGED <<qsecVars, secretVars, queueVars, recVars, rotQueue,
                 rotDelayed, rot, freshRot>>

DeleteConfig(c) ==
  /\ config[c] = "cached"
  /\ config' = [config EXCEPT ![c] = "absent"]
  /\ UNCHANGED <<qsecVars, secretVars, queueVars, recVars, rotQueue,
                 rotDelayed, rot, freshRot, spent>>

\* The Create predicate lets every labelled config map through.
DeliverConfig(c) ==
  /\ config[c] = "created"
  /\ config' = [config EXCEPT ![c] = "cached"]
  /\ rotQueue' = rotQueue \cup {c}
  /\ UNCHANGED <<qsecVars, secretVars, queueVars, recVars, rotDelayed, rot,
                 freshRot, spent>>

RequeueConfig(c) ==
  /\ c \in rotDelayed
  /\ rotQueue' = rotQueue \cup {c}
  /\ rotDelayed' = rotDelayed \ {c}
  /\ UNCHANGED <<qsecVars, secretVars, queueVars, recVars, config, rot,
                 freshRot, spent>>

TakeConfig(c) ==
  /\ c \in rotQueue
  /\ rot[c] = RotIdle
  /\ Cardinality({d \in Configs : rot[d] # RotIdle}) < Workers
  /\ rotQueue' = rotQueue \ {c}
  /\ UNCHANGED <<qsecVars, secretVars, queueVars, recVars, config, freshRot>>

SkipRotation(c) ==
  /\ TakeConfig(c)
  /\ config[c] # "cached"
  /\ UNCHANGED <<rotDelayed, rot, spent>>

\* A list that is not JSON, or a Get that fails, is an error.
RejectConfig(c) ==
  /\ TakeConfig(c)
  /\ \/ config[c] = "cached" /\ c \in Garbled /\ UNCHANGED spent
     \/ Spend("fault")
  /\ rotDelayed' = rotDelayed \cup {c}
  /\ UNCHANGED rot

BeginRotation(c) ==
  /\ TakeConfig(c)
  /\ config[c] = "cached" /\ c \notin Garbled
  /\ rot' = [rot EXCEPT ![c] = [RotIdle EXCEPT !.pc = "read",
                                               !.todo = Names[c]]]
  /\ UNCHANGED <<rotDelayed, spent>>

\* Mutant: a name that cannot be rotated ends the run with an error instead of
\* being passed over.
ReadNameOrFail(c) ==
  /\ rot[c].pc = "read" /\ rot[c].todo # <<>>
  /\ LET q == Head(rot[c].todo) IN
       IF Present(qsecCache[q]) /\ ~NotGenerated(qsecCache[q])
       THEN /\ rot' = [rot EXCEPT ![c].pc = "write",
                                  ![c].obj = qsecCache[q]]
            /\ freshRot' = IF qsecWatch[q] = <<>> THEN freshRot \cup {c}
                                                  ELSE freshRot
            /\ UNCHANGED rotDelayed
       ELSE /\ rot' = [rot EXCEPT ![c] = RotIdle]
            /\ rotDelayed' = rotDelayed \cup {c}
            /\ UNCHANGED freshRot
  /\ UNCHANGED <<qsecVars, secretVars, queueVars, recVars, config, rotQueue,
                 spent>>

\* One round of the loop reads the next name; one whose Get fails for any
\* reason or whose Generated is already false is passed over.
Rotatable(o) == Present(o) /\ ~NotGenerated(o)

PassOver(c) == /\ rot' = [rot EXCEPT ![c].todo = Tail(@)]
               /\ UNCHANGED freshRot

ReadName(c) ==
  /\ rot[c].pc = "read" /\ rot[c].todo # <<>>
  /\ LET q == Head(rot[c].todo) IN
       \/ /\ Rotatable(qsecCache[q])
          /\ rot' = [rot EXCEPT ![c].pc = "write",
                                ![c].obj = qsecCache[q]]
          /\ freshRot' = IF qsecWatch[q] = <<>> THEN freshRot \cup {c}
                                                ELSE freshRot
          /\ UNCHANGED spent
       \/ ~Rotatable(qsecCache[q]) /\ PassOver(c) /\ UNCHANGED spent
       \/ Spend("fault") /\ PassOver(c)
  /\ UNCHANGED <<qsecVars, secretVars, queueVars, recVars, config, rotQueue,
                 rotDelayed>>

\* Generated is reset to false. Credentials already in a reconcile's hand
\* were minted before this request. If the call times out all the same, all
\* names are gone through again.
ResetGenerated(c) ==
  /\ rot[c].pc = "write" /\ c \in freshRot
  /\ LET q == Head(rot[c].todo) IN
       /\ PutQSec(q, [rot[c].obj EXCEPT !.generated = "false"])
       /\ rec' = [rec EXCEPT ![q].renewed = FALSE]
  /\ \/ /\ rot' = [rot EXCEPT ![c] = [RotIdle EXCEPT !.pc = "read",
                                        !.todo = Tail(rot[c].todo)]]
        /\ UNCHANGED <<rotDelayed, spent>>
     \/ /\ Spend("fault")
        /\ rot' = [rot EXCEPT ![c] = RotIdle]
        /\ rotDelayed' = rotDelayed \cup {c}
  /\ UNCHANGED <<secretVars, queueVars, freshSecret, config, rotQueue>>

\* A failing status update ends the run; all names are gone through again.
ResetFails(c) ==
  /\ rot[c].pc = "write"
  /\ IF c \in freshRot THEN Spend("fault") ELSE UNCHANGED spent
  /\ rot' = [rot EXCEPT ![c] = RotIdle]
  /\ freshRot' = freshRot \ {c}
  /\ rotDelayed' = rotDelayed \cup {c}
  /\ UNCHANGED <<qsecVars, secretVars, queueVars, recVars, config, rotQueue>>

EndRotation(c) ==
  /\ rot[c].pc = "read" /\ rot[c].todo = <<>>
  /\ rot' = [rot EXCEPT ![c] = RotIdle]
  /\ UNCHANGED <<qsecVars, secretVars, queueVars, recVars, config, rotQueue,
                 rotDelayed, freshRot, spent>>

Rotate(c) ==
  \/ SkipRotation(c) \/ RejectConfig(c) \/ BeginRotation(c)
  \/ ReadName(c) \/ ResetGenerated(c) \/ ResetFails(c) \/ EndRotation(c)

--------------------------------------------------------------------------

\* The operator stops and starts again: queues, timers and reconciles are
\* gone, caches are listed anew, and every object is a Create event.
Restart ==
  /\ Spend("restart")
  /\ qsecCache' = qsec /\ qsecWatch' = [q \in QSecs |-> <<>>]
  /\ secretCache' = secret /\ synced' = QSecs
  /\ queue' = {q \in QSecs : Present(qsec[q]) /\ ~Owns(qsec[q], secret[q])}
  /\ delayed' = {}
  /\ rec' = [q \in QSecs |-> Idle]
  /\ freshQSec' = {} /\ freshSecret' = {}
  /\ config' = [c \in Configs |-> IF config[c] = "absent" THEN "absent"
                                                          ELSE "cached"]
  /\ rotQueue' = {c \in Configs : config[c] # "absent"}
  /\ rotDelayed' = {}
  /\ rot' = [c \in Configs |-> RotIdle]
  /\ freshRot' = {}
  /\ UNCHANGED <<qsec, secret>>

User ==
  \/ \E q \in QSecs, s \in Specs : CreateQSec(q, s) \/ EditQSec(q, s)
  \/ \E q \in QSecs : \/ DeleteQSec(q) \/ CreateUserSecret(q)
                      \/ DeleteSecret(q)
  \/ \E c \in Configs : CreateConfig(c) \/ DeleteConfig(c)

Kubernetes ==
  \/ \E q \in QSecs : \/ DeliverQSec(q) \/ RelistQSec(q) \/ Resync(q)
                      \/ SyncSecret(q) \/ Requeue(q) \/ GarbageCollect(q)
  \/ \E c \in Configs : DeliverConfig(c) \/ RequeueConfig(c)

Next ==
  \/ User \/ Kubernetes \/ Restart
  \/ \E q \in QSecs : Reconcile(q)
  \/ \E c \in Configs : Rotate(c)

Spec == Init /\ [][Next]_vars
--------------------------------------------------------------------------
(* Fairness. Informers deliver, timers fire, the garbage collector runs and *)
(* a reconcile that has begun goes on. Beginning one is strongly fair: the  *)
(* work queue is first in first out, so a key that keeps finding all        *)
(* workers busy gets its turn, and the meltdown window does not last.       *)

Begin(q) == SkipReconcile(q) \/ RejectType(q) \/ BeginReconcile(q)

Continue(q) ==
  \/ Generate(q) \/ NotReady(q) \/ CheckSecret(q) \/ LookupSecret(q)
  \/ KeepSecret(q) \/ WriteSecret(q) \/ WriteSecretFails(q)
  \/ UpdateStatus(q) \/ UpdateStatusFails(q)

Fairness ==
  /\ \A q \in QSecs :
       /\ WF_vars(DeliverQSec(q)) /\ WF_vars(SyncSecret(q))
       /\ WF_vars(Requeue(q)) /\ WF_vars(Resync(q))
       /\ WF_vars(GarbageCollect(q))
       /\ SF_vars(Begin(q)) /\ WF_vars(Continue(q))
  /\ \A c \in Configs :
       /\ WF_vars(DeliverConfig(c)) /\ WF_vars(RequeueConfig(c))
       /\ SF_vars(SkipRotation(c) \/ RejectConfig(c) \/ BeginRotation(c))
       /\ WF_vars(ReadName(c) \/ ResetGenerated(c) \/ ResetFails(c)
                  \/ EndRotation(c))

FairSpec == Spec /\ Fairness

--------------------------------------------------------------------------
(* Properties.                                                             *)

ApiType ==
  /\ qsec \in [QSecs -> QuarksSecret]
  /\ qsecWatch \in [QSecs -> Seq(QuarksSecret)]
  /\ qsecCache \in [QSecs -> QuarksSecret]
  /\ secret \in [QSecs -> Secret]
  /\ secretCache \in [QSecs -> Secret]
  /\ synced \subseteq QSecs

ReconcileType ==
  /\ queue \subseteq QSecs
  /\ delayed \subseteq QSecs
  /\ rec \in [QSecs -> Reconciling]
  /\ freshQSec \subseteq {q \in QSecs : rec[q].pc # "idle"}
  /\ freshSecret \subseteq {q \in QSecs : rec[q].pc = "update"}

RotationType ==
  /\ config \in [Configs -> {"absent", "created", "cached"}]
  /\ rotQueue \subseteq Configs
  /\ rotDelayed \subseteq Configs
  /\ rot \in [Configs -> Rotating]
  /\ freshRot \subseteq {c \in Configs : rot[c].pc = "write"}
  /\ \A c \in Configs : rot[c].pc = "write" => rot[c].todo # <<>>

\* Every variable has its type: the records are those of the code's structs,
\* and a copy that may still be current belongs to a step that will use it.
TypeOK ==
  /\ ApiType /\ ReconcileType /\ RotationType
  /\ spent \in [Bounded -> Nat]

\* Something will still make the controller look at the stored version of q:
\* a queued key, a timer, an event under way, or a reconcile that holds it.
Pending(q) ==
  \/ q \in queue \cup delayed
  \/ qsecWatch[q] # <<>>
  \/ q \in freshQSec

Undisturbed == spent["restart"] = 0 /\ spent["fault"] = 0

\* A rotation request is never dropped: as long as Generated is false, the
\* controller will get to the object, whatever it was doing when the request
\* came (the predicate, the ignored status conflict and the meltdown window
\* must work together for this).
NoLostWakeup ==
  Undisturbed =>
    \A q \in QSecs :
      NotGenerated(qsec[q]) /\ Kind[qsec[q].spec] # "copy" => Pending(q)

\* No change of the spec of a generated object is dropped: while its secret
\* holds data generated from another spec, the controller will get to the
\* object. Only a relist can hide the change from the predicate; and a stale
\* copy of the secret can make a reconcile do nothing, when it is a user's
\* or holds just what a template yields (so: plain types, no user secrets).
NoLostEdit ==
  Undisturbed /\ spent["relist"] = 0 /\ spent["secret"] = 0 =>
    \A q \in QSecs :
      /\ IsGenerated(qsec[q])
      /\ Kind[qsec[q].spec] = "plain"
      /\ secret[q].kind = "generated"
      /\ secret[q].spec # qsec[q].spec
      => \/ Pending(q)
         \/ /\ rec[q].pc \in {"generate", "check", "lookup", "create",
                             "update"}
            /\ rec[q].obj.spec = qsec[q].spec

\* Generated goes back to true only through a reconcile whose credentials
\* were minted after the rotation request it answers, and which stored them,
\* found them stored or left a user's secret alone: a reconcile that was
\* under way when the request came cannot claim it.
RotationRegenerates ==
  [][\A q \in QSecs :
       NotGenerated(qsec[q]) /\ IsGenerated(qsec[q]')
       => rec[q].renewed /\ (rec[q].stored \/ rec[q].seen = "user")]_vars

\* A user's secret that was in the cache when skipCreation looked is never
\* overwritten by that reconcile.
SeenUserSecretKept ==
  [][\A q \in QSecs :
       secret[q].kind = "user" /\ secret[q]'.kind = "generated"
       => rec[q].seen # "user"]_vars

\* The secret of q can be generated: q has a type for it and every secret it
\* refers to exists.
Wanted(q) ==
  /\ Present(qsec[q])
  /\ \/ Kind[qsec[q].spec] = "plain"
     \/ /\ Kind[qsec[q].spec] = "refs"
        /\ \A r \in Refs[q] : secret[r].kind # "none"

\* Every rotation request is answered, unless the secret cannot be generated
\* any more; restarts and lost status updates only delay the answer.
RotationServed ==
  \A q \in QSecs :
    NotGenerated(qsec[q]) ~> ~NotGenerated(qsec[q]) \/ ~Wanted(q)

\* A QuarksSecret gets its secret, also when it was created before the ones
\* it refers to, through restarts, rotations and failing calls. Users may not
\* interfere: an object edited from "copy", or a secret deleted after its
\* status said generated, is not looked at again.
Untouched == spent["edit"] = 0 /\ spent["delete"] = 0 /\ spent["secret"] = 0

SecretCreated ==
  \A q \in QSecs :
    Wanted(q) ~> secret[q].kind # "none" \/ ~Wanted(q) \/ ~Untouched

\* Every rotation ends, however often its status updates conflict.
RotationEnds ==
  \A c \in Configs \ Garbled :
    c \in rotQueue ~> rot[c] = RotIdle /\ c \notin rotQueue \cup rotDelayed

--------------------------------------------------------------------------
(* What comments of the code say and the code does not keep.               *)

\* "Skip creation when secret exists, but was not generated (user created
\* secret)": a reconcile never turns a user's secret into a generated one.
UserSecretKept ==
  [][\A q \in QSecs :
       secret[q].kind = "user" => secret[q]'.kind # "generated"]_vars

\* Generated "indicates if the secret has already been generated": once the
\* object has its secret, the status will say so.
GeneratedRecorded ==
  \A q \in QSecs :
    Owns(qsec[q], secret[q])
      ~> IsGenerated(qsec[q]) \/ ~Owns(qsec[q], secret[q])

\* The same, the other way round: an object whose status says so and whose
\* secret is missing will get one, or the status will be taken back.
GeneratedExists ==
  \A q \in QSecs :
    IsGenerated(qsec[q]) /\ secret[q].kind = "none"
      ~> ~IsGenerated(qsec[q]) \/ secret[q].kind # "none"
==========================================================================
