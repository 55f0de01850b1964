--------------------------- MODULE SecretCopies ---------------------------
(***************************************************************************)
(* What happens to a secret after it is there: the copy controller sends   *)
(* its content to secrets in other namespaces, the secret metadata         *)
(* controller applies new labels to it, and the QuarksSecret controller    *)
(* (in full in QuarksSecretController) generates it anew.  All three write *)
(* the status of the one QuarksSecret, each from a copy of its own.        *)
(*                                                                         *)
(* Data is a number: 0 for what a secret in another namespace holds of its *)
(* own, and at the source one that is nowhere else when it is written.     *)
(* Labels stand for labels and annotations; secret-copy-of and secret-kind *)
(* are fields of their own.                                                *)
(***************************************************************************)
EXTENDS Naturals, Sequences

CONSTANTS
  N,         \* number of copies in the spec
  Versions,  \* numbers of the source's data in the world at one time
  Labels,    \* values of Spec.SecretLabels; 0 for none
  Setups,    \* what there may be for each copy at first, as <<host, target>>
  Guests,    \* what a user may put there later
  Schemas,   \* who may have installed the CRD: the operator, or the chart
  Limit,     \* how often each thing the operator has no say in may happen
  Scenarios  \* which of them may come together in one behaviour

\* What Limit bounds: a user edits or creates the source secret, or drops it;
\* edits of the labels and of the rest of the spec; rotations; changes of what
\* is in the other namespaces; deletion of the QuarksSecret; operator restarts;
\* failing API calls.
Bounded == {"source", "drop", "labels", "spec", "rotate", "guest", "delete",
            "restart", "fault"}

Copies == 1..N

\* Status.Generated and Status.Copied are pointers to a bool.
OptionalBool == {"nil", "false", "true"}
QSec == [here: BOOLEAN, generated: OptionalBool, copied: OptionalBool,
         labels: Labels, spec: Nat]

Source == [kind: {"none", "user", "generated"}, data: Nat,
           labels: Labels]

\* A secret of the copy's name in its namespace, and whether it carries the
\* annotation secret-copy-of with the name of the QuarksSecret.
Target == [here: BOOLEAN, invites: BOOLEAN, data: Nat,
           labels: Labels]
NoTarget == [here |-> FALSE, invites |-> FALSE, data |-> 0, labels |-> 0]
Own(invites) == [NoTarget EXCEPT !.here = TRUE, !.invites = invites]

\* A QuarksSecret of the source's name there: one of type copy with the
\* annotation, or some other.
Host == {"none", "copy", "other"}

ASSUME CopiesAssumption ==
  /\ N \in Nat
  /\ Versions \subseteq Nat \ {0} /\ 1 \in Versions
  /\ Labels \subseteq Nat /\ 0 \in Labels
  /\ Schemas \subseteq {"operator", "chart"}
  /\ Guests \subseteq Host \X {NoTarget, Own(TRUE), Own(FALSE)}
  /\ Setups \subseteq [Copies -> Host \X {NoTarget, Own(TRUE), Own(FALSE)}]
  /\ Limit \in [Bounded -> Nat] /\ Scenarios \subseteq SUBSET Bounded

VARIABLES
  qsec, qsecWatch, qsecCache,  \* the QuarksSecret: API server, watch, informer
  source, sourceCache,         \* its secret
  host, hostCache,             \* per copy: QuarksSecret in that namespace
  target, targetCache,         \* per copy: secret in that namespace
  synced,                      \* which secrets are in the cache as stored
  work,                        \* whose work queue has the QuarksSecret
  gen, copy, meta,             \* reconciles of the three controllers
  schema,                      \* whose CRD the API server has
  fresh,                       \* which copies in hand are not outdated
  replaced,                    \* history: an Update gave it a copy nobody has
                               \* touched since
  invited,                     \* history: has invited copies at some time
  spent                        \* how much of Limit has happened

qsecVars   == <<qsec, qsecWatch, qsecCache>>
sourceVars == <<source, sourceCache>>
guestVars  == <<host, hostCache, target, targetCache>>
history    == <<replaced, invited, schema>>
vars == <<qsecVars, sourceVars, guestVars, synced, work, gen, copy, meta, fresh,
          history, spent>>

Generating == [pc: {"idle", "check", "lookup", "create", "update", "status"},
               labels: Labels]
\* latest is history: no other controller has stored a request for copies since
\* this reconcile began.
Copying == [pc: {"idle", "announce", "source", "validate", "update", "lookup",
                 "create", "patch", "done"},
            i: Nat, data: Nat, labels: Labels, latest: BOOLEAN]
Labelling == [pc: {"idle", "source", "write", "status"},
              labels: Labels]

GIdle == [pc |-> "idle", labels |-> 0]
CIdle == [pc |-> "idle", i |-> 0, data |-> 0, labels |-> 0, latest |-> FALSE]
MIdle == [pc |-> "idle", labels |-> 0]

Invites(h, t) == h = "copy" \/ (h = "none" /\ t.invites)

\* What the API server stores of a QuarksSecret: the operator's schema has all
\* fields of the status, the chart's has no Copied.
Stored(o) == IF schema = "chart" THEN [o EXCEPT !.copied = "nil"] ELSE o

\* A QuarksSecret has just got its secret, or found one of a user there, and
\* the copy controller has been told.
Init ==
  /\ schema \in Schemas
  /\ qsec = Stored([here |-> TRUE, generated |-> "true", copied |-> "false",
                    labels |-> 0, spec |-> 0])
  /\ qsecWatch = <<>> /\ qsecCache = qsec
  /\ \E k \in {"user", "generated"} :
       source = [kind |-> k, data |-> 1, labels |-> 0]
  /\ sourceCache = source
  /\ \E g \in Setups :
       /\ host = [i \in Copies |-> g[i][1]]
       /\ target = [i \in Copies |-> g[i][2]]
  /\ hostCache = host /\ targetCache = target
  /\ synced = Copies \cup {0}
  /\ work = {"copy"}
  /\ gen = GIdle /\ copy = CIdle /\ meta = MIdle
  /\ fresh = {}
  /\ replaced = {}
  /\ invited = {i \in Copies : Invites(host[i], target[i])}
  /\ spent = [b \in Bounded |-> 0]

Spend(b) == /\ spent[b] < Limit[b]
            /\ spent' = [spent EXCEPT ![b] = @ + 1]
            /\ \E s \in Scenarios : {c \in Bounded : spent'[c] > 0} \subseteq s

--------------------------------------------------------------------------
(* The API server and the people who use it.                               *)

\* Writing a version of the QuarksSecret outdates the copies of it in hand,
\* but the writer's.  An update without a change is none.
PutQSec(o, writer) ==
  IF o = qsec
  THEN UNCHANGED <<qsecVars, fresh>>
  ELSE /\ qsec' = o
       /\ qsecWatch' = Append(qsecWatch, o)
       /\ fresh' = fresh \ ({"genQSec", "copyQSec", "metaQSec"} \ {writer})
       /\ UNCHANGED qsecCache

\* The source secret is number 0 among the secrets.  A writer that leaves its
\* reconcile at once lets go of its copy of the QuarksSecret as well.
PutSource(s, left) ==
  /\ source' = s
  /\ synced' = synced \ {0}
  /\ fresh' = fresh \ ({"genSource", "metaSource"} \cup left)
  /\ UNCHANGED sourceCache

PutTarget(i, t, left) ==
  /\ target' = [target EXCEPT ![i] = t]
  /\ synced' = synced \ {i}
  /\ fresh' = fresh \ ({"target"} \cup left)
  /\ UNCHANGED <<host, hostCache, targetCache>>

VersionsInUse == {source.data, sourceCache.data, copy.data}
                   \cup {target[i].data : i \in Copies}
                   \cup {targetCache[i].data : i \in Copies}
VersionsLeft == Versions \ VersionsInUse
NewVersion == CHOOSE d \in Versions : d \notin VersionsInUse

\* A user creates the source secret, or changes the data of one made by a user.
EditSource ==
  /\ source.kind # "generated" /\ VersionsLeft # {}
  /\ Spend("source")
  /\ PutSource([source EXCEPT !.kind = "user", !.data = NewVersion], {})
  /\ UNCHANGED <<qsecVars, guestVars, work, gen, copy, meta, history>>

DropSource ==
  /\ source.kind # "none"
  /\ Spend("drop")
  /\ PutSource([source EXCEPT !.kind = "none"], {})
  /\ UNCHANGED <<qsecVars, guestVars, work, gen, copy, meta, history>>

\* The labels are changed, or something else the QuarksSecret controller
\* compares.
EditQSec ==
  /\ qsec.here
  /\ \/ /\ Spend("labels")
        /\ \E l \in Labels \ {qsec.labels} :
             PutQSec([qsec EXCEPT !.labels = l], "user")
     \/ /\ Spend("spec")
        /\ PutQSec([qsec EXCEPT !.spec = @ + 1], "user")
  /\ UNCHANGED <<sourceVars, guestVars, synced, work, gen, copy, meta, history>>

DeleteQSec ==
  /\ qsec.here
  /\ Spend("delete")
  /\ PutQSec([qsec EXCEPT !.here = FALSE], "user")
  /\ UNCHANGED <<sourceVars, guestVars, synced, work, gen, copy, meta, history>>

\* The secret-rotation controller resets Generated.
Rotate ==
  /\ qsec.here
  /\ Spend("rotate")
  /\ PutQSec([qsec EXCEPT !.generated = "false"], "rotation")
  /\ UNCHANGED <<sourceVars, guestVars, synced, work, gen, copy, meta, history>>

\* A user puts something else into the namespace of copy i.
ChangeGuest(i) ==
  /\ Spend("guest")
  /\ \E g \in Guests :
       /\ g # <<host[i], target[i]>>
       /\ target' = [target EXCEPT ![i] = g[2]]
       /\ host' = [host EXCEPT ![i] = g[1]]
       /\ invited' = IF Invites(g[1], g[2]) THEN invited \cup {i} ELSE invited
  /\ replaced' = replaced \ {i}
  /\ synced' = synced \ {i}
  /\ fresh' = fresh \ (IF copy.i = i THEN {"target"} ELSE {})
  /\ UNCHANGED <<qsecVars, sourceVars, hostCache, targetCache, work, gen, copy,
                 meta, schema>>

--------------------------------------------------------------------------
(* Informers and predicates.                                               *)

\* Mutant: a Copied that was never set asks for no copies, nor does false.
CopyPassesUnset(new) == new.copied = "nil"

\* What each controller's Update predicate makes of a new version.
CopyPasses(new) == new.copied # "true"
MetaPasses(old, new) == old.labels # new.labels
GenPasses(old, new) == \/ old.generated = "true" /\ old.spec # new.spec
                       \/ new.generated = "false"

DeliverQSec ==
  /\ qsecWatch # <<>>
  /\ qsecCache' = Head(qsecWatch)
  /\ qsecWatch' = Tail(qsecWatch)
  /\ LET old == qsecCache
         new == Head(qsecWatch)
     IN work' = work \cup
          IF ~new.here THEN {}
          ELSE {c \in {"gen", "copy", "meta"} :
                  CASE c = "gen"  -> GenPasses(old, new)
                    [] c = "copy" -> CopyPasses(new)
                    [] c = "meta" -> MetaPasses(old, new)}
  /\ UNCHANGED <<qsec, sourceVars, guestVars, synced, gen, copy, meta, fresh,
                 history, spent>>

\* Mutant: only new labels of the secret are looked at.
SourcePassesLabels(old, new) == new.kind = "user" /\ old.labels # new.labels

\* The copy controller's watch of secrets a user made: a change of content.
SourcePasses(old, new) == new.kind = "user" /\ old # new

\* Creations and deletions of secrets are not reconciled.
DeliverSource ==
  /\ 0 \notin synced
  /\ sourceCache' = source
  /\ synced' = synced \cup {0}
  /\ work' = IF /\ sourceCache.kind # "none" /\ source.kind # "none"
                /\ SourcePasses(sourceCache, source)
                /\ qsecCache.here
             THEN work \cup {"copy"} ELSE work
  /\ UNCHANGED <<qsecVars, source, guestVars, gen, copy, meta, fresh, history,
                 spent>>

DeliverGuest(i) ==
  /\ i \notin synced
  /\ hostCache' = [hostCache EXCEPT ![i] = host[i]]
  /\ targetCache' = [targetCache EXCEPT ![i] = target[i]]
  /\ synced' = synced \cup {i}
  /\ UNCHANGED <<qsecVars, sourceVars, host, target, work, gen, copy, meta,
                 fresh, history, spent>>

Current(tag) == IF qsecWatch = <<>> THEN {tag} ELSE {}

--------------------------------------------------------------------------
(* ReconcileQuarksSecret, reduced to what it writes.                       *)

GGoto(pc) == gen' = [gen EXCEPT !.pc = pc]

GLeave == gen' = GIdle /\ fresh' = fresh \ {"genQSec", "genSource"}
GRetry == GLeave /\ work' = work \cup {"gen"}

BeginGenerate ==
  /\ "gen" \in work /\ gen = GIdle
  /\ work' = work \ {"gen"}
  /\ IF qsecCache.here
     THEN /\ gen' = [pc |-> "check", labels |-> qsecCache.labels]
          /\ fresh' = fresh \cup Current("genQSec")
     ELSE UNCHANGED <<gen, fresh>>
  /\ UNCHANGED <<qsecVars, sourceVars, guestVars, synced, copy, meta, history,
                 spent>>

\* skipCreation leaves a user's secret alone; its failure is only logged.
GenerateCheck ==
  /\ gen.pc = "check"
  /\ \/ sourceCache.kind = "user" /\ GGoto("status") /\ UNCHANGED spent
     \/ sourceCache.kind # "user" /\ GGoto("lookup") /\ UNCHANGED spent
     \/ Spend("fault") /\ GGoto("lookup")
  /\ UNCHANGED <<qsecVars, sourceVars, guestVars, synced, work, copy, meta,
                 fresh, history>>

\* CreateOrUpdate reads again.
GenerateLookup ==
  /\ gen.pc = "lookup"
  /\ IF sourceCache.kind = "none"
     THEN GGoto("create") /\ UNCHANGED fresh
     ELSE /\ GGoto("update")
          /\ fresh' = fresh \cup IF 0 \in synced THEN {"genSource"} ELSE {}
  /\ UNCHANGED <<qsecVars, sourceVars, guestVars, synced, work, copy, meta,
                 history, spent>>

GenerateAccepted == \/ gen.pc = "create" /\ source.kind = "none"
                    \/ gen.pc = "update" /\ "genSource" \in fresh

\* The labels are those of the QuarksSecret that was read.
GenerateWrite ==
  /\ GenerateAccepted /\ VersionsLeft # {}
  /\ LET made == [kind |-> "generated", data |-> NewVersion,
                  labels |-> gen.labels]
     IN \/ /\ PutSource(made, {}) /\ GGoto("status")
           /\ UNCHANGED <<work, spent>>
        \/ /\ PutSource(made, {"genQSec"})
           /\ Spend("fault")
           /\ gen' = GIdle /\ work' = work \cup {"gen"}
  /\ UNCHANGED <<qsecVars, guestVars, copy, meta, history>>

GenerateConflicts ==
  /\ gen.pc \in {"create", "update"} /\ ~GenerateAccepted
  /\ GRetry
  /\ UNCHANGED <<qsecVars, sourceVars, guestVars, synced, copy, meta, history,
                 spent>>

\* A read or a write fails without an effect.
GenerateFails ==
  /\ gen.pc \in {"lookup", "create", "update"}
  /\ Spend("fault")
  /\ GRetry
  /\ UNCHANGED <<qsecVars, sourceVars, guestVars, synced, copy, meta, history>>

\* updateStatus asks for new copies, unless it conflicts or fails: only logged.
\* LastReconcile makes every such write a new version.
GenerateStatus ==
  /\ gen.pc = "status"
  /\ gen' = GIdle
  /\ \/ /\ "genQSec" \in fresh
        /\ qsec' = Stored([qsec EXCEPT !.generated = "true",
                                       !.copied = "false"])
        /\ qsecWatch' = Append(qsecWatch, qsec')
        /\ fresh' = fresh \ {"genQSec", "copyQSec", "metaQSec"}
        /\ copy' = [copy EXCEPT !.latest = FALSE]
        /\ UNCHANGED <<qsecCache, spent>>
     \/ /\ IF "genQSec" \in fresh THEN Spend("fault") ELSE UNCHANGED spent
        /\ fresh' = fresh \ {"genQSec"}
        /\ UNCHANGED <<qsecVars, copy>>
  /\ UNCHANGED <<sourceVars, guestVars, synced, work, meta, history>>

Generate == \/ BeginGenerate \/ GenerateCheck \/ GenerateLookup
            \/ GenerateWrite \/ GenerateConflicts \/ GenerateStatus

--------------------------------------------------------------------------
(* ReconcileCopy.                                                          *)

\* Mutant: the copy read by this attempt is kept for the next one.
CLeaveWithCopy == copy' = CIdle /\ UNCHANGED fresh

CLeave == copy' = CIdle /\ fresh' = fresh \ {"copyQSec", "target"}
CRetry == CLeave /\ work' = work \cup {"copy"}

CGoto(pc) == copy' = [copy EXCEPT !.pc = pc]

\* On to the next copy; every one reads the source again.
NextCopy == copy' = [copy EXCEPT !.pc = "source", !.i = @ + 1]

BeginCopy ==
  /\ "copy" \in work /\ copy = CIdle
  /\ work' = work \ {"copy"}
  /\ IF qsecCache.here
     THEN /\ copy' = [CIdle EXCEPT !.pc = "announce", !.i = 1,
                                   !.latest = TRUE]
          /\ fresh' = fresh \cup Current("copyQSec")
     ELSE UNCHANGED <<copy, fresh>>
  /\ UNCHANGED <<qsecVars, sourceVars, guestVars, synced, gen, meta, history,
                 spent>>

\* Mutant: the status is written without a resourceVersion.
SetCopiedAlways(value) ==
  IF qsec.here THEN PutQSec(Stored([qsec EXCEPT !.copied = value]), "copyQSec")
               ELSE UNCHANGED <<qsecVars, fresh>>

\* updateCopyStatus; a conflict or another failure is only logged.
SetCopied(value) ==
  IF "copyQSec" \in fresh
  THEN PutQSec(Stored([qsec EXCEPT !.copied = value]), "copyQSec")
  ELSE UNCHANGED <<qsecVars, fresh>>

AnnounceCopies ==
  /\ copy.pc = "announce"
  /\ CGoto("source")
  /\ \/ SetCopied("false") /\ UNCHANGED spent
     \/ Spend("fault") /\ UNCHANGED <<qsecVars, fresh>>
  /\ UNCHANGED <<sourceVars, guestVars, synced, work, gen, meta, history>>

\* GetSourceSecret: without the secret there is nothing to copy yet.
ReadSource ==
  /\ copy.pc = "source" /\ copy.i <= N
  /\ IF sourceCache.kind = "none"
     THEN CRetry
     ELSE /\ copy' = [copy EXCEPT !.pc = "validate", !.data = sourceCache.data,
                                  !.labels = sourceCache.labels]
          /\ UNCHANGED <<fresh, work>>
  /\ UNCHANGED <<qsecVars, sourceVars, guestVars, synced, gen, meta, history,
                 spent>>

\* Mutant: a secret that is there is taken for one that invites the copy.
ValidateFound(h, t) ==
  CASE h = "copy" -> "lookup"
    [] h = "none" /\ t.here -> "update"
    [] OTHER -> "skip"

\* validateTargetNamespace: a QuarksSecret there is preferred to a secret, and
\* must be a copy of this one; so must the secret.
Validate(h, t) ==
  CASE h = "copy" -> "lookup"
    [] h = "none" /\ t.here /\ t.invites -> "update"
    [] OTHER -> "skip"

ValidateTarget ==
  /\ copy.pc = "validate"
  /\ LET next == Validate(hostCache[copy.i], targetCache[copy.i])
     IN IF next = "skip" THEN NextCopy ELSE CGoto(next)
  /\ UNCHANGED <<qsecVars, sourceVars, guestVars, synced, work, gen, meta,
                 fresh, history, spent>>

\* What a copy is made of: data and labels of the source, and the annotation.
CopyOf == [here |-> TRUE, invites |-> TRUE, data |-> copy.data,
           labels |-> copy.labels]

\* updateCopySecret: an unconditional Update of a secret without a host.
UpdateCopy ==
  /\ copy.pc = "update"
  /\ IF target[copy.i].here
     THEN /\ replaced' = replaced \cup {copy.i}
          /\ \/ /\ PutTarget(copy.i, CopyOf, {})
                /\ NextCopy /\ UNCHANGED <<work, spent>>
             \/ /\ PutTarget(copy.i, CopyOf, {"copyQSec"})
                /\ Spend("fault")
                /\ copy' = CIdle /\ work' = work \cup {"copy"}
     ELSE CRetry /\ UNCHANGED <<guestVars, synced, replaced, spent>>
  /\ UNCHANGED <<qsecVars, sourceVars, gen, meta, invited, schema>>

\* createUpdateCopySecret: CreateOrUpdate, with a mutation that sets labels
\* and annotations and leaves the data of a secret that is there.
LookupCopy ==
  /\ copy.pc = "lookup"
  /\ LET t == targetCache[copy.i] IN
       \/ ~t.here /\ CGoto("create") /\ UNCHANGED fresh
       \/ t.here /\ t.invites /\ t.labels = copy.labels
            /\ NextCopy /\ UNCHANGED fresh
       \/ t.here /\ ~(t.invites /\ t.labels = copy.labels)
            /\ CGoto("patch")
            /\ fresh' = fresh \cup IF copy.i \in synced THEN {"target"} ELSE {}
  /\ UNCHANGED <<qsecVars, sourceVars, guestVars, synced, work, gen, meta,
                 history, spent>>

CopyAccepted == \/ copy.pc = "create" /\ ~target[copy.i].here
                \/ copy.pc = "patch" /\ "target" \in fresh

Patched == IF copy.pc = "create" THEN CopyOf
           ELSE [target[copy.i] EXCEPT !.invites = TRUE, !.labels = copy.labels]

StoreCopy ==
  /\ CopyAccepted
  /\ \/ /\ PutTarget(copy.i, Patched, {})
        /\ NextCopy /\ UNCHANGED <<work, spent>>
     \/ /\ PutTarget(copy.i, Patched, {"copyQSec"})
        /\ Spend("fault")
        /\ copy' = CIdle /\ work' = work \cup {"copy"}
  /\ UNCHANGED <<qsecVars, sourceVars, gen, meta, history>>

CopyConflicts ==
  /\ copy.pc \in {"create", "patch"} /\ ~CopyAccepted
  /\ CRetry
  /\ UNCHANGED <<qsecVars, sourceVars, guestVars, synced, gen, meta, history,
                 spent>>

FinishCopies ==
  /\ copy.pc = "source" /\ copy.i > N
  /\ CGoto("done")
  /\ \/ SetCopied("true") /\ UNCHANGED spent
     \/ Spend("fault") /\ UNCHANGED <<qsecVars, fresh>>
  /\ UNCHANGED <<sourceVars, guestVars, synced, work, gen, meta, history>>

EndCopies ==
  /\ copy.pc = "done"
  /\ CLeave
  /\ UNCHANGED <<qsecVars, sourceVars, guestVars, synced, work, gen, meta,
                 history, spent>>

\* A read or a write fails without an effect: all copies again.
CopyFails ==
  /\ copy.pc \notin {"idle", "announce", "done"} /\ copy.i <= N
  /\ Spend("fault")
  /\ CRetry
  /\ UNCHANGED <<qsecVars, sourceVars, guestVars, synced, gen, meta, history>>

ReconcileCopy ==
  \/ BeginCopy \/ AnnounceCopies \/ ReadSource \/ ValidateTarget \/ UpdateCopy
  \/ LookupCopy \/ StoreCopy \/ CopyConflicts \/ FinishCopies \/ EndCopies

--------------------------------------------------------------------------
(* ReconcileQuarksSecretSecretMeta.                                        *)

MLeave == meta' = MIdle /\ fresh' = fresh \ {"metaQSec", "metaSource"}
MRetry == MLeave /\ work' = work \cup {"meta"}

BeginLabels ==
  /\ "meta" \in work /\ meta = MIdle
  /\ work' = work \ {"meta"}
  /\ IF qsecCache.here
     THEN /\ meta' = [pc |-> "source", labels |-> qsecCache.labels]
          /\ fresh' = fresh \cup Current("metaQSec")
     ELSE UNCHANGED <<meta, fresh>>
  /\ UNCHANGED <<qsecVars, sourceVars, guestVars, synced, gen, copy, history,
                 spent>>

\* GetSourceSecret and the comparison with what it says.
CompareLabels ==
  /\ meta.pc = "source"
  /\ \/ sourceCache.kind = "none" /\ MRetry
     \/ /\ sourceCache.kind # "none" /\ sourceCache.labels = meta.labels
        /\ MLeave /\ UNCHANGED work
     \/ /\ sourceCache.kind # "none" /\ sourceCache.labels # meta.labels
        /\ meta' = [meta EXCEPT !.pc = "write"]
        /\ fresh' = fresh \cup IF 0 \in synced THEN {"metaSource"} ELSE {}
        /\ UNCHANGED work
  /\ UNCHANGED <<qsecVars, sourceVars, guestVars, synced, gen, copy, history,
                 spent>>

\* Mutant: a conflict is only logged.
WriteLabelsOnce ==
  /\ meta.pc = "write"
  /\ IF "metaSource" \in fresh
     THEN /\ PutSource([source EXCEPT !.labels = meta.labels], {})
          /\ meta' = [meta EXCEPT !.pc = "status"]
     ELSE MLeave /\ UNCHANGED <<sourceVars, synced>>
  /\ UNCHANGED <<qsecVars, guestVars, work, gen, copy, history, spent>>

WriteLabels ==
  /\ meta.pc = "write"
  /\ IF "metaSource" \in fresh
     THEN LET labelled == [source EXCEPT !.labels = meta.labels]
          IN \/ /\ PutSource(labelled, {})
                /\ meta' = [meta EXCEPT !.pc = "status"]
                /\ UNCHANGED <<work, spent>>
             \/ /\ PutSource(labelled, {"metaQSec"})
                /\ Spend("fault")
                /\ meta' = MIdle /\ work' = work \cup {"meta"}
     ELSE MRetry /\ UNCHANGED <<sourceVars, synced, spent>>
  /\ UNCHANGED <<qsecVars, guestVars, gen, copy, history>>

Reset == Stored([qsec EXCEPT !.copied = "false"])

\* Copied is reset.  After a conflict the labels are found to be right already
\* and it never is; and where Copied is false already nothing is stored, so that
\* a copy reconcile that has read the old labels does not conflict.
ResetCopied ==
  /\ meta.pc = "status"
  /\ meta' = MIdle
  /\ \/ /\ "metaQSec" \in fresh /\ Reset = qsec
        /\ fresh' = fresh \ {"metaQSec"}
        /\ UNCHANGED <<qsecVars, copy, work, spent>>
     \/ /\ "metaQSec" \in fresh /\ Reset # qsec
        /\ PutQSec(Reset, "user")
        /\ copy' = [copy EXCEPT !.latest = FALSE]
        /\ UNCHANGED <<work, spent>>
     \/ /\ IF "metaQSec" \in fresh THEN Spend("fault") ELSE UNCHANGED spent
        /\ fresh' = fresh \ {"metaQSec"}
        /\ work' = work \cup {"meta"}
        /\ UNCHANGED <<qsecVars, copy>>
  /\ UNCHANGED <<sourceVars, guestVars, synced, gen, history>>

ReconcileLabels == BeginLabels \/ CompareLabels \/ WriteLabels \/ ResetCopied

--------------------------------------------------------------------------

\* The operator stops and starts: every object is a Create event, which only
\* the QuarksSecret controller takes, for one that owns no secret.
Restart ==
  /\ Spend("restart")
  /\ qsecCache' = qsec /\ qsecWatch' = <<>>
  /\ sourceCache' = source /\ hostCache' = host /\ targetCache' = target
  /\ synced' = Copies \cup {0}
  /\ work' = IF qsec.here /\ source.kind # "generated" THEN {"gen"} ELSE {}
  /\ gen' = GIdle /\ copy' = CIdle /\ meta' = MIdle /\ fresh' = {}
  /\ UNCHANGED <<qsec, source, host, target, history>>

User == \/ EditSource \/ DropSource \/ EditQSec \/ DeleteQSec \/ Rotate
        \/ \E i \in Copies : ChangeGuest(i)

Kubernetes == \/ DeliverQSec \/ DeliverSource
              \/ \E i \in Copies : DeliverGuest(i)

Next == \/ User \/ Kubernetes \/ Restart \/ Generate \/ GenerateFails
        \/ ReconcileCopy \/ CopyFails \/ ReconcileLabels

Spec == Init /\ [][Next]_vars

\* Informers deliver, and a reconcile that is due or under way goes on.
Fairness ==
  /\ WF_vars(DeliverQSec) /\ WF_vars(DeliverSource)
  /\ \A i \in Copies : WF_vars(DeliverGuest(i))
  /\ WF_vars(Generate) /\ WF_vars(ReconcileCopy) /\ WF_vars(ReconcileLabels)

FairSpec == Spec /\ Fairness

--------------------------------------------------------------------------
(* Properties.                                                             *)

\* Every variable has its type, a copy that may still be current belongs to a
\* reconcile in progress, and what is checked or written is a copy in the spec.
TypeOK ==
  /\ qsec \in QSec /\ qsecCache \in QSec /\ qsecWatch \in Seq(QSec)
  /\ source \in Source /\ sourceCache \in Source
  /\ host \in [Copies -> Host] /\ hostCache \in [Copies -> Host]
  /\ target \in [Copies -> Target] /\ targetCache \in [Copies -> Target]
  /\ synced \subseteq Copies \cup {0}
  /\ work \subseteq {"gen", "copy", "meta"}
  /\ gen \in Generating /\ copy \in Copying /\ meta \in Labelling
  /\ fresh \subseteq {"genQSec", "copyQSec", "metaQSec", "genSource",
                      "metaSource", "target"}
  /\ "genQSec" \in fresh => gen.pc # "idle"
  /\ "copyQSec" \in fresh => copy.pc # "idle"
  /\ "metaQSec" \in fresh => meta.pc # "idle"
  /\ copy.pc # "idle" => copy.i > 0
  /\ copy.pc \in {"validate", "update", "lookup", "create", "patch"} =>
       copy.i \in Copies
  /\ replaced \subseteq Copies /\ invited \subseteq Copies
  /\ schema \in {"operator", "chart"}
  /\ spent \in [Bounded -> Nat]

None(bs) == \A b \in bs : spent[b] = 0

Quiet == /\ qsecWatch = <<>> /\ work = {} /\ synced = Copies \cup {0}
         /\ gen = GIdle /\ copy = CIdle /\ meta = MIdle

\* The content of a user's secret does not get stuck on the way: when nothing
\* is left to do, each secret that an Update of the copy controller once
\* replaced has the latest, through failing calls and whatever happens to
\* labels and status meanwhile.  Copies next to a QuarksSecret are written by
\* CreateOrUpdate and are not meant: see HostedCopiesUpdated.
SettledCopies ==
  /\ Quiet /\ qsec.here /\ source.kind = "user"
  /\ None({"drop", "guest", "restart"})
  => \A i \in replaced :
      <<target[i].data, target[i].labels>> = <<source.data, source.labels>>

\* Nothing is written in a namespace that never asked for copies: its secret
\* keeps its content, or stays absent.
StrangersUntouched ==
  \A i \in Copies \ invited : target[i].data = 0 /\ target[i].labels = 0

\* A request for copies that the QuarksSecret or the metadata controller has
\* stored is not taken for done by a copy reconcile that began before it: Copied
\* turns true only for one that began after the last of them.  (A reset of a
\* Copied that is false already stores nothing, and is no such request: the
\* copies may then keep the labels the reconcile under way has read.)
StoredRequestKept ==
  [][qsec.copied # "true" /\ qsec'.copied = "true" => copy.latest]_vars

\* A request for copies is answered.
CopiesAnswered ==
  qsec.copied = "false" ~>
    \/ qsec.copied = "true" \/ ~qsec.here \/ source.kind = "none"
    \/ ~None({"restart", "fault", "drop"})

\* New labels reach the secret, however the three controllers interleave, if
\* no other edit and no restart gets in between.
LabelsApplied ==
  spent["labels"] = 1 /\ source.kind # "none" ~>
    \/ source.labels = qsec.labels
    \/ ~qsec.here \/ source.kind = "none" \/ spent["labels"] > 1
    \/ ~None({"spec", "restart", "drop"})

--------------------------------------------------------------------------
(* What a test of the code says and the code does not keep.                *)

\* "should update the copies in other namespaces if copy quarks secret if
\* found": with Copied true and nothing left to do, the copies have the data.
HostedCopiesUpdated ==
  Quiet /\ qsec.copied = "true" /\ source.kind = "user" =>
    \A i \in Copies : host[i] = "copy" => target[i].data = source.data
=============================================================================
