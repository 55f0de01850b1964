# A TLA+ model of quarks-secret

quarks-secret is a Kubernetes operator. A user creates `QuarksSecret` objects; the operator
generates passwords, keys, certificates and templated configuration and stores them in Secrets,
rotates them on request, and copies them to other namespaces. Every part of it is a controller: an
informer feeds events through predicates into a work queue, workers take names from the queue and
run a `Reconcile` that reads from the informer's cache and writes to the API server. Nothing in it
is hard as a sequential program. What is hard is that the cache lags, that events are compared
with predicates only once, that four controllers write the same status, that a write may conflict
or time out, and that a restart forgets every queue. That is what this project models.

## Inventory

Paths are relative to `src/`; `controllers/` stands for `pkg/kube/controllers/quarkssecret/`.

| Component | Source | State | Operations | Modelled in |
|---|---|---|---|---|
| QuarksSecret controller | `controllers/quarkssecret_controller.go`, `quarkssecret_reconciler.go`, `generator.go`, `templated_config.go` | work queue, timers, one reconcile per name in progress; writes Secrets and `status.generated`, `copied`, `lastReconcile` | Create and Update predicates, Reconcile (read, meltdown, generate, skipCreation, CreateOrUpdate, updateStatus) | `QuarksSecretController`, `Credentials` |
| Secret rotation controller | `controllers/secret_rotation_*.go` | work queue, position in the list of names | Create predicate on labelled config maps, Reconcile: reset `generated` to false name by name | `QuarksSecretController` |
| API types | `pkg/kube/apis/quarkssecret/v1alpha1/types.go`, `register.go` | spec and a status of three pointers | IsGenerated, NotGenerated, IsCopied, NotCopied, IsMonitoredNamespace | `QuarksSecretTypes` and each module, partly |
| Certificates, local signer | `controllers/certificates.go` | none (reads CA certificate, key, services) | wait for services and CA, sign | `Credentials` |
| Certificates, cluster signer | `controllers/certificates.go`, `certificatesigningrequest_*.go` | private key Secret, CSR and its approval | make key and CSR, approve, merge into the Secret, clean up | `CertificateSigning` |
| Copy controller | `controllers/copy_*.go` | `status.copied`, copies in other namespaces | validate the target, update or create the copy, Copied false and true | `SecretCopies` |
| Secret metadata controller | `controllers/quarkssecret_secretmeta_*.go` | labels and annotations of the Secret | apply them, reset Copied | `SecretCopies` |
| Secret mutation | `pkg/kube/util/mutate/mutate.go` | none | what an update changes in an existing Secret | `Credentials`, `SecretCopies` |
| Namespace predicate | `controllers/namespace_predicate.go` | none (reads the cached namespace) | drop events of namespaces that are not monitored | `Operators` |
| Credential generation | `pkg/credsgen` | none | passwords, keys, certificates | `Credentials` |
| Template rendering | `pkg/helm/template` | none | render a chart of one template | `Credentials` |
| Bootstrap | `cmd/`, `pkg/kube/operator`, `controllers.go` | none | apply CRDs, start the manager with five controllers, no leader election | `Operators`, partly |
| Clients, listers, deep copies | `pkg/kube/client`, `zz_generated.deepcopy.go` | | | not modelled |
| Chart and CRDs | `deploy` | | | not modelled |
| Fakes and tests | `fakes`, `testing`, `integration`, `e2e` | | | not modelled |

How they interact. The controllers never call each other: they meet in the API server. The
rotation controller asks for a new generation by setting `generated` to false, the Update predicate
of the QuarksSecret controller lets that version through, and its reconcile sets `generated` back
to true; in the same update it sets `copied` to false, which wakes up the copy controller. The
metadata controller also resets `copied`. The QuarksSecret controller and the CSR controller
hand a certificate over through a key Secret and a CSR. Kubernetes' garbage collector removes
Secrets whose owner is gone. All controllers of a process read from caches they share and write
with optimistic concurrency (`resourceVersion`).

Which behaviours are hard, component by component, and what makes the component correct:

* QuarksSecret controller: no request or edit is lost although a failing status update is only
  logged; a reconcile never answers a request that came after its credentials were made; a user's
  Secret is left alone; everything that can be generated is, in the end.
* Rotation: runs end in spite of conflicts with the other controllers, although one conflict repeats the
  whole list; an answer means new credentials.
* Credentials: what is stored together was made together, although the CA and other secrets are
  replaced between the reads, types are edited, and entries are merged into an old Secret.
* CSR: key and certificate belong together; a crash or a failing call between two of its five writes
  does not leave a request that nobody looks at.
* Copies: `copied = true` is an answer to the last stored request for copies; content reaches the copies
  that asked for it, and no others.
* Metadata: labels arrive although two more controllers write the same Secret and status.
* Operators: of two in one cluster neither generates or rotates in the other's namespaces, or spoils its
  rotations.

The hazards with their lines are in `PROJECT.json`, each with the properties about it or the
reason why there is none.

## Modules

| Module | Models |
|---|---|
| `QuarksSecretTypes` | the QuarksSecret object, the Secret slot, the status predicates |
| `QuarksSecretController` | QuarksSecret controller, rotation controller, API server, informers, queues, restarts |
| `RotationService` | abstract: what a user may rely on when asking for new credentials |
| `QuarksSecretRefinement` | the mapping by which `QuarksSecretController` implements `RotationService` |
| `CertificateSigning` | a certificate signed by the cluster: QuarksSecret controller, CSR controller, signer |
| `SigningService` | abstract: key, request, certificate and clean-up as if one hand did it all |
| `SigningRefinement` | the mapping by which `CertificateSigning` implements `SigningService` |
| `SecretCopies` | copy controller, metadata controller and QuarksSecret controller on one object and its copies |
| `Credentials` | what goes into a Secret: every type, its references, the merge |
| `Operators` | several operator processes, their starts and deaths, the namespace predicate |
| `MCQuarksSecret`, `MCCertificateSigning`, `MCSecretCopies`, `MCCredentials`, `MCOperators` | values of the constants for TLC |
| `QuarksSecretController_proofs`, `QuarksSecretRotation_proofs`, `QuarksSecretEdits_proofs`, `QuarksSecretRefinement_proofs` | types, safety of rotation and of edits, refinement, proved |
| `CertificateSigning_proofs`, `SecretCopies_proofs`, `Credentials_proofs`, `Operators_proofs` | types and safety of the other four, and the refinement of signing, proved |

The system is cut by the state its controllers fight over, not by controller: rotation and generation
share `generated`; generation, copies and metadata share `copied` and the Secret; minting and
signing share key Secret and CSR. What one module has in full another has in the part that matters to
it: `SecretCopies` has the QuarksSecret controller with its two reads, its write and its status update,
`Operators` the same with processes around it.

### State and code

`QuarksSecretController`:

| Variable | In the system |
|---|---|
| `qsec`, `qsecWatch`, `qsecCache` | stored QuarksSecret, its versions not yet delivered, the informer's copy |
| `secret`, `secretCache`, `synced` | the Secret a QuarksSecret names, the informer's copy, and whether that is the stored version |
| `queue`, `delayed` | controller-runtime's work queue, and the keys waiting for RequeueAfter or for the rate limiter |
| `rec[q]` | the locals of a `ReconcileQuarksSecret.Reconcile` in progress and the call it is about to make |
| `freshQSec`, `freshSecret`, `freshRot` | which copies in a reconciler's hands still carry the stored resourceVersion |
| `config`, `rotQueue`, `rotDelayed`, `rot[c]` | rotation config maps, and the same for `ReconcileSecretRotation.Reconcile` |
| `spent` | bounds, see below |

A reconcile is cut where another actor can be seen in between: at each read of a cache and at each
write. `Generate` mints the credentials (or `NotReady` finds a referred-to secret missing),
`CheckSecret` is skipCreation's read, `LookupSecret` the read inside CreateOrUpdate, `WriteSecret`
its Create or Update, `UpdateStatus` the end. Each has its failing outcomes: `CheckSecretFails` (the
code logs the error and writes), `WriteSecretFails` (AlreadyExists, NotFound or conflict; retried),
`WriteSecretUnanswered` (stored, but the caller sees a timeout; retried), `UpdateStatusFails`
(conflict or lost call; logged and forgotten). `ResetGenerated` of the rotation has both: stored, and
stored but unanswered, which repeats the list; `ReadName` passes over a name whose Get fails, for whatever reason.
A Get that fails ends a reconcile with an error (`RejectType`, `RejectConfig`, `NotReady`). `KeepSecret` is CreateOrUpdate finding that the
update changes nothing. `Restart` is the end of the process and a new start: caches are listed
anew, and every object is shown to the Create predicates.

`CertificateSigning`: `qrec` is createCertificateSecret with the cluster signer (`Mint`,
`CheckTarget` = skipCreation, `LookupKey` and `StoreKey` = CreateOrUpdate of the key Secret, `FindCsr`
and `RequestCsr` = createCertificateSigningRequest); `crec` is the CSR controller (`TakeCsr` dispatches on the
cached request, `GetCsr` and `Approve` = approveRequest, which reads past the cache, `ReadKey`, `ReadOwner`,
`ReadRootCA`, `LookupTarget` and `StoreCertificate`, `DeleteKey`, `DeleteCsr`). `work` are the two
queues, `synced` and `fresh` as above. `Issue` is the signer of Kubernetes.

`SecretCopies`: `gen`, `copy` and `meta` are the three reconciles; `host[i]` is the QuarksSecret and
`target[i]` the Secret that the i-th copy's namespace has under its names. `AnnounceCopies` is the status update to
`copied = false`, `FinishCopies` the one to true, `ValidateTarget` validateTargetNamespace, `UpdateCopy`
the update of an annotated Secret, `LookupCopy` and `StoreCopy` CreateOrUpdate where a QuarksSecret of
type copy is in the namespace. `CompareLabels`, `WriteLabels` and `ResetCopied` are the metadata reconcile.
`DeliverQSec` runs the predicates of all three controllers on one event, `DeliverSource` the map function of the copy controller.
`schema` is the CRD the cluster has: the operator's (`register.go`), or with `applyCRD=false` the chart's (`crds.yaml`), which
has no `copied`, so that the API server drops it from every status it is sent (`Stored`).

`Credentials`: `rec.todo` are the references still to be read, `rec.got` what was read; `Read` is one
Get, `Generate` everything after the last one, `LookupTarget` and `StoreTarget` CreateOrUpdate with
SecretMutateFn. `Reads` and `Valid` are what each type and signer ask for, `DataOf` what they make of it.

`Operators`: `proc[p]` is down, `"manager"` (CRDs applied, controllers not added yet) or running; all
that a process has in memory is indexed by it. `DeliverQSec` and `DeliverConfig` pass the namespace predicate
first, which reads `labelCache[p]`.

History variables (`mixups`, `replaced`, `invited`, `latest` in `copy`, `from`, `early`, `entitled`,
`acted`) are read by properties only. `mixups` holds the ways in which key and request have parted so far:
`"overlap"`, a key made while there is a request, in the API server, in a cache, on its way or in a reconcile;
`"dropped"`, a key that skipCreation keeps from being stored while an earlier one is; `"stale"`, an earlier key
read from the CSR controller's cache. Every other retry leaves it empty, the one that replaces a stored key
for which there is no request yet included.

### Abstractions

* A resourceVersion is modelled by whether a copy is outdated (`fresh...`), a Secret's informer by a
  snapshot that catches up at some time: nobody acts on the versions in between. Where versions
  matter (QuarksSecrets, CSRs), the watch is a sequence and predicates see each version with its
  predecessor.
* The queue is a set: the work queue merges equal keys. That it is first-in-first-out is used only to
  justify fairness.
* How long a meltdown window, a delay or a resync lasts is left open. A resync is shown only when
  everything that is due has been done, which ten hours allow, except in `QuarksSecretController`, where it
  comes at any time.
* In `QuarksSecretController` a spec is an opaque value; `Kind` says which arm of the type switch it takes.
  Each QuarksSecret names one Secret of its own and edits do not change the name. Two QuarksSecrets
  that name the same Secret are not modelled.
* A credential is the number of its generation; a certificate is the pair of its own key and the
  signing key; a CSR carries the number of its key. Cryptography is taken to be right.
  Numbers (`Keys`, `Versions`, `Serials`) are drawn from those nowhere in the state, so a few are
  enough for ever; an action that needs one waits when there is none, which the proofs allow for
  and the instances never meet.
* Labels and annotations are one value, except for `secret-kind` and `secret-copy-of`, which are fields.
* A type the API server stores has been validated by it; null status fields mean nil.

### Bounds

`Limit` bounds what the operator has no say in, and nothing else: objects created, edited
and deleted, user actions on secrets, config maps, restarts, failing calls, relists. Everything
the controllers do is unbounded. `Variety` (in `CertificateSigning`) and `Scenarios` (in the other three) bound how many
different ones of these come together in one behaviour. The proofs hold for every `Limit`, `Variety`
and `Scenarios`.

## Runs

| Run | Checks | Instance |
|---|---|---|
| `safety` | `TypeOK`, `NoLostWakeup`, `NoLostEdit`, `RotationRegenerates`, `SeenUserSecretKept`, `RotationServiceKept` | one QuarksSecret, a plain and a templated spec; one creation, two edits, one deletion, one user action on the secret, one rotation, one relist |
| `liveness` | `RotationServed` | one QuarksSecret; one edit, one rotation, one restart, one failing call |
| `rotation_list` | `RotationEnds` | two QuarksSecrets, the second of type copy, a config map with both names, one failing call |
| `references` | `SecretCreated` | two QuarksSecrets, the second refers to the first; all four kinds; one restart, one failing call, one config map with a broken list |
| `signing` | `TypeOK`, `CertificateUsable`, `RequestAttended`, `NothingLost`, `SigningServiceKept`, `CertificateIssued`, `RequestServed`, `CleanedUp` | one name, two QuarksSecrets in a row, any two disturbances out of: deletion, rotation, user secret, approval by hand, restart, unreadable root CA, failing call |
| `copies` | `TypeOK`, `SettledCopies`, `StrangersUntouched`, `StoredRequestKept`, `CopiesAnswered`, `LabelsApplied` | one copy, annotated, not annotated, or next to a QuarksSecret of type copy; edits of secret, labels and spec, changes of the other namespace, rotation, deletion, restart, failing call in the combinations of `Together`; the operator's CRD and the chart's |
| `credentials` | `TypeOK`, `CertificateVerifies`, `OneGeneration`, `LatestServed`, `Served` | 20 requests of all types and signers, edited into each other once; two secrets or services referred to, there or not, changed twice; rotation, deletion of the secret, failing call |
| `operators` | `TypeOK`, `GeneratesWhereWatched`, `RotatedAway`, `ObjectServed`, `RotationAnswered` | two processes with the same or different IDs; a relabelled namespace, a rotation, a killed process, a failing call |
| `user_secret_kept` | `UserSecretKept`, violated | one QuarksSecret, one user action |
| `generated_recorded` | `GeneratedRecorded`, violated | one QuarksSecret, one edit |
| `generated_exists` | `GeneratedExists`, violated | one QuarksSecret created twice, deleted once |
| `copies_updated` | `HostedCopiesUpdated`, violated | one copy, one edit of the user's secret |

Why the instances are enough. Names share nothing but the workers, and one worker at a time holds a
name: two QuarksSecrets matter only where one refers to the other (`references`) or both are in one list
(`rotation_list`). There the second is of type copy, whose `generated` is nil: it can be reset, and its reset can
conflict or fail after the first has been reset and generated again, while its own reconciles, which would only
repeat those of the first, leave the state space at 324,160 states. One rotation and two
edits are enough for each write to meet every step of a reconcile and of its retry: one to
start from a generated object, one to race. In `signing` two disturbances are enough for each pair of
steps to have one crash and one other event between them; three take longer than a run may. In `copies`
the loop's position is all a second copy adds, some copies written and others not when an error ends the loop:
there is no room for it in a run, and what is known of it is proved, for any number of copies. In `credentials` two changes replace the CA before and between its two reads.
In `operators` a third process would be one more that loses a conflict.

Deadlock is not checked: an operator with nothing to do is the normal state.

What the passing runs show:

* `NoLostWakeup`: while `generated` is false, the controller has the name queued, on a timer, an
  event on the way, or a copy in a reconcile that the status update will accept. It holds although
  `updateStatus` ignores conflicts, because each conflict has a version behind it whose event
  passes the Update predicate.
* `NoLostEdit`: the same for an edit of a generated object with a plain type. It needs the premise
  that no watch broke and no user touched the secret; with a relist the code does lose edits (the
  predicate compares two versions far apart), and a cached Secret that is outdated can make
  skipCreation or a template's update do nothing.
* `RotationRegenerates`: `generated` returns to true only for credentials made after the request.
* `SeenUserSecretKept`: a reconcile that saw a user's Secret does not replace it.
* `RotationServiceKept`: the controllers implement `RotationService`: a request stands until it is
  answered or the object is gone, and no status update brings an object back or takes a request back.
* `RotationServed`, `SecretCreated`: requests are answered and secrets are made, under the fairness below,
  through a restart and a failing call.
* `RotationEnds`: a run over a list of two names ends, although a conflict or a failing call at the second repeats
  the list and resets the first again, which was regenerated in the meantime. Each round meets a version
  somebody else stored, and nobody stores versions for ever.
* `CertificateUsable`: the stored certificate belongs to the stored key through deletions of the QuarksSecret,
  restarts, users, conflicts and failing calls, as long as no keys are mixed up (`mixups` is empty). In
  particular the key secret may be stored and the call that follows fail, so that the retry stores another key
  before there is a request. Each of the three causes is one the code does not survive, alone: without it in
  the premise TLC finds a key and a certificate that do not belong together. With an overlap the immutable CSR is kept for
  the new key; a dropped key is requested all the same; a stale one is merged with the certificate of its successor.
* `NothingLost`: under the same premise, and as long as no QuarksSecret is deleted, the clean-up deletes nothing
  that was not merged before, though it deletes by name. What a deletion of the QuarksSecret lets the garbage
  collector do to the key secret is not meant.
* `SigningServiceKept`: under the premise of `NothingLost` the two controllers and the signer implement
  `SigningService`. Beyond the other two this says that the certificate is merged while its request is stored and issued and
  its key is stored, that no request is ever stored again in a round that is over or under way, that a key is
  replaced only while there is no request for it, and that the request outlives the key. A mix-up
  or a deletion of the QuarksSecret withdraws the promise (`Withdraw`), and what happens then is left open. A user's
  secret at the target is the reason why `MakeRequest` does not ask for a key.
* `RequestAttended`, `CertificateIssued`: a request is looked at until it is gone, and a QuarksSecret gets its
  certificate. Excluded: an unreadable root CA, after which only the resync looks again (`RequestAttended`;
  `CertificateIssued` shows that it does); a restart between key and CSR, which the code does not survive, since the Create
  predicate then finds the owned key Secret for ever; deletions, and a user's secret at the target.
* `RequestServed`: once a request is there and its key stored, the certificate of that very key gets into the
  secret while the request is there, unless another key is made meanwhile or the QuarksSecret is deleted. It holds
  through restarts and failing calls, which may come anywhere, because what the clean-up has not deleted is found again.
* `CleanedUp`: request and key are gone in the end, if nothing disturbs them. A failing call or a restart between
  the two deletions is not survived: the retry waits for the deleted key for ever. So are a user's secret at the
  target (the key is dropped, the CSR is made all the same and waits for it) and a rotation.
* `SettledCopies`: when everything is at rest, a secret without a QuarksSecret beside it that an Update of the
  copy controller has replaced has the latest content and labels of the user's secret. Not meant are hosted
  copies, next to a QuarksSecret, which keep their data (see `HostedCopiesUpdated`); and excluded a generated
  source read from an outdated cache, after which `copied` is true with the old content, a secret removed, a
  target changed by hand, and restarts.
* `StoredRequestKept`: `copied` turns true only for a copy reconcile that began after the last request of another
  controller that was stored. A reset of a `copied` that is false already stores nothing and outdates no copy: a copy
  reconcile that has read the old labels then still sets `copied` to true, and the copies keep the old labels. The
  metadata controller's reset is of that kind whenever it comes between the two status updates of a copy reconcile, and
  `integration/quarks_secret_copy_test.go:176-227` waits for labels that may not come.
* `CopiesAnswered`: `copied` does not stay false, in spite of conflicts that are only logged. That the copy
  controller comes to rest is not claimed: its own `copied = false` starts it again.
* `StrangersUntouched`: only namespaces that have asked are written to.
* `LabelsApplied`: one edit of the labels reaches the Secret, whichever controller writes last.
  That it reaches the copies is not claimed: after a conflict in the metadata controller's status update the
  retry finds equal labels, and `copied` is never reset.
* `CertificateVerifies`: a certificate verifies against the CA stored with it if certificate and key of the CA
  are in one secret, because the code then reads it once. A CA in two secrets can be torn apart.
* `OneGeneration`, `LatestServed`: entries of an earlier type stay in the Secret, but those the type calls for
  are of one generation and of the latest request.
* `Served` (credentials): once its references are there, a valid request is served; an invalid one is
  retried for ever, and that is all that happens to it.
* `GeneratesWhereWatched`: of the five controllers of a process two are in the module, the ones of the QuarksSecrets and
  of the rotation, and these write only in a namespace that has carried the process's ID since it was started. It is
  not true of the whole process, and not claimed: the controller of the CSRs has no namespace predicate
  (`certificatesigningrequest_controller.go:42-56`; it goes by an annotation of the CSR), and the copy
  controller writes to the namespaces that invite it (`copy_reconciler.go:111-131`).
* `RotatedAway`, `ObjectServed`, `RotationAnswered`: `generated = true` never stands over the credentials that were to
  be replaced; an object gets its secret however often processes are killed; and two processes that outdo
  each other do not both give up. A namespace labelled after its QuarksSecret was created is excluded (`early`):
  its Create event is gone.

What the violated ones show (details under "findings"):

* `UserSecretKept`: a user's Secret that arrives between the two reads is overwritten.
* `GeneratedRecorded`: after a conflict in the first reconcile `generated` stays nil for ever, and with
  it every later edit is ignored.
* `GeneratedExists`: an object deleted and created again loses its Secret to the garbage collector.
* `HostedCopiesUpdated`: a copy next to a QuarksSecret of type copy is created with the content and never
  updated.

What the models also show of the code, without a line of the repository that says otherwise:

* Rotation: an object that was never generated is reset, too: its `generated` is nil, of which `NotGenerated` is false
  (`types.go:188-194`), although the comment at `secret_rotation_reconciler.go:82` means to skip it. A name whose Get
  fails is skipped for good. A retried write replaces credentials that were handed out.
* Copies: the copy controller's own `copied = false` starts it again; a copy added to the spec by an
  invitation that comes later is served only by the next request; `copied` turns true even if all
  targets were passed over; `NotCopied` (`types.go:176`) is true when Copied is; Secrets of type
  basic-auth and dockerconfigjson never get `SecretLabels` (`generator.go:91,164`).
* Credentials: a change of a referenced secret or CA never renders or signs anew; a template that fails is
  stored as an empty value; an image credential can be a pair that never existed; the Secret
  keeps the Kubernetes type it was first created with.
* Operators: two processes with one ID generate twice for one request; names queued before a
  namespace is relabelled are reconciled after it; each start rotates every config map again.

## Fairness

In `QuarksSecretController`, `FairSpec` asks: informers deliver, timers fire, the resync comes
(controller-runtime's default of ten hours), the garbage collector runs, and a reconcile that has
begun goes on (weak fairness). Beginning a reconcile is strongly fair, because a worker may be busy
or the meltdown window open again and again: the queue is first-in-first-out and the window ends
a fixed time after the last status update.

The other modules have no windows and one worker per controller, so weak fairness of each controller's
steps taken together, of each informer and of Kubernetes' own controllers (signer, garbage collector,
starting a process that is down) is all they ask. `Credentials` and `SecretCopies` do not ask for a resync.

A failing read, a failing call or an unanswered write is never required to happen, and may happen
only as often as `Limit` says. Where an action has both outcomes, fairness asks for the action and not for
the outcome. Users do nothing by obligation.

## Proofs

Every theorem is proved for all values of the constants that satisfy the named assumptions of its module:
any number of objects, copies, processes, keys, and any bounds.

`QuarksSecretController_proofs` proves `TypeCorrect` (`Spec => []TypeOK`): one lemma per group
of variables, one step per action. `QuarksSecretRotation_proofs` proves

* `CopiesCurrent` (`Spec => []Views`), the inductive invariant the others rest on. `Views` says that
  the last undelivered version of an object is the stored one (`WatchEnds`); that a copy with the
  stored resourceVersion is equal to it and the watch is drained (`ReconcileCopies`,
  `RotationCopies`), which also shows that modelling resourceVersion by `freshQSec` and `freshRot` is
  sound; and that a rotation request never follows a deletion or creation the informer has not
  seen (`RequestsKnown`), so that it always arrives as an update.
* `RequestsKept` (`Spec => []NoLostWakeup`). `NoLostWakeup` is not inductive alone: when the event of a
  request is delivered, the predicate must pass, which takes `RequestsKnown`; when a worker takes the
  name and finds the object gone or of another type, the cache must be known to be current, which
  takes `WatchEnds`.
* `AnswersRenewed` (`Spec => RotationRegenerates`) and `SeenSecretKept` (`Spec => SeenUserSecretKept`), from
  `Progress`: what the locals of a reconcile say at each of its program counters, and that a copy which
  is still current has not been asked to rotate since its credentials were made.

`QuarksSecretRefinement_proofs` proves `ServiceImplemented` (`Spec => RotationServiceKept`) from these
invariants: one lemma per action says which step of `RotationService` it is, or that it is none.

`QuarksSecretEdits_proofs` proves `EditsKept` (`Spec => []NoLostEdit`). When a reconcile takes a name nothing tells it
about an edit but the spec in its copy, so `NoLostEdit` needs to know what that copy can be. `Seen`
says it: while an object is generated, every version on its way to the informer is a generated one, and so is
the cached one, unless the next to arrive has the same spec. So an edit that arrives is always compared with a generated
predecessor and passes the predicate. `Edits` follows the edit from there, as long as no watch broke, nothing failed and nobody touched
the secret (`Calm`): the secret is the controller's own (`OwnSecret`); a reconcile overtaken by an edit
is followed by another (`EditOutdates`); and while the stored secret is of an earlier spec, the edit is queued, on
its way, or in a reconcile that has yet to write it (`EditUnderWay`).

`CertificateSigning_proofs`:

* `TypeCorrect`, together with `Keyed`: nothing is stored, requested or in hand without its key. `TypeOK`
  alone is not inductive, because no key and no request are told apart by the number 0.
* `RequestsAttended` (`Spec => []RequestAttended`) from `Told`: what the informer will have seen in the end is
  what is stored, and a reconcile about to find its request approved is followed by an event or a key in the queue.
* `CertificatesUsable` (`Spec => []CertificateUsable`) from `OneRound`: as long as `mixups` is empty, one number `k`
  is on the request, wherever it is, and on what the CSR controller holds (`Round(k)`), and the key stored is `k`
  once the request is about or due (`Paired(k)`); the two numbers of the target agree. A key is made only while no request
  is about (`Waits`), so a retry that replaces the stored key starts a new round with nothing of the old one left.
* `NothingIsLost` (`Spec => NothingLost`) from `OneMerge`, under the two premises of the property: at the clean-up the
  target holds the key of the round, and it holds it for good once the cache has seen it there (`Merging(k)`). The second
  half is what `LookupTarget` relies on when it finds the secret as it should be and goes straight to the deletions; it
  is true because a new key is unlike the one in the target's cache. It needs `Owned` (with no QuarksSecret deleted
  nothing is garbage) and `Stored` (what the cache and a current copy say of the target).
* `SigningImplemented` (`Spec => SigningServiceKept`) from `OneHand`: as long as a key is new nobody knows of a
  request (`Alone`); a request seen issued, be it in the cache, on the watch or in a reconcile, is stored as issued until the round is
  over (`IssuedStands`); a key that was seen is stored until it is in the target (`KeyStands`); and a target that is
  going to be updated differs from what will be written (`Differs`). So `StoreCertificate` writes only while key and
  request are there, although it acts on caches. One step per action of `SigningService`, and the other
  actions leave its state alone.

`SecretCopies_proofs`: `TypeCorrect`; `CopiesByInvitation` (`Spec => []StrangersUntouched`) from `Guarded`, which adds that an
invitation is remembered while the API server or the caches show it and that a reconcile past the validation
saw one; `StoredRequestsKept` (`Spec => StoredRequestKept`) from `Latest`: while the API server would still take the
status of a copy reconcile, nobody has stored a request for copies since it began, which is no more than the
property says (a reset without a change is none); `ContentSettles` (`Spec => []SettledCopies`) from three parts. `Cached`: the
informers have the QuarksSecret as long as it is there, and while the source is a user's they have it or an earlier one of a user. `Places`: while
users leave the other namespaces alone, the caches know who receives copies, and what was replaced by one still does. `Sending`:
what a reconcile holds is what the cache has, and a copy that lacks that is still to be visited by it, unless
another reconcile is queued. `SettledCopies` speaks of the end only; `Sending` says of every state before
it where outdated content will be noticed.

`Credentials_proofs`: `TypeCorrect` from `Typed`, which adds that a reconcile that has begun is not for a copy (a copy
has nothing to generate); `CertificatesVerify` and `StoredTogether` from `Verifying`. It says that a CA somebody
looks after is always a matching pair (`Sealed`), that both entries of one CA are read in one step, and that what
is in hand (`Verifies`, `Whole`) and what is stored have what their request calls for; the merge keeps that because
it replaces every entry the request calls for. `LatestRequestServed` (`Spec => []LatestServed`) from `Latest`: what a
reconcile is about to write is in no secret, stored or cached, so that the lookup cannot find the secret of an
earlier request good enough; and a request that is not the one in hand has an event or a key in the queue.

`Operators_proofs`: `TypeCorrect`; `GenerationSeparate` (`Spec => []GeneratesWhereWatched`) from `Entitled`: whatever lets one
of the two controllers act on the namespace one day (label, cached label, a queued name, a reconcile) implies that its process is entitled;
`RotationEffective` (`Spec => []RotatedAway`) from `Answerable`: a status update the API server would take follows new
credentials.

Every invariant and every action property of the passing runs is proved, and so are both refinements. Each inductive
invariant was model-checked before it was proved, on the instance of its run or a smaller one. Only model-checked:
the liveness properties, which are out of the prover's reach with their fairness and ENABLED.

## Not modelled

* Generated clients, listers and deep copies, the chart and its CRDs, fakes and tests: no behaviour of the
  operator's own. Tests were read for what they expect.
* Of the API types, what only the API server looks at: which fields of the spec are required, and the values
  the CRD schema allows. The schema of the status is the one thing `SecretCopies` has of it (`Stored`).
* Of the bootstrap, flags, logging and scheme registration.
* Cryptography, texts, and the wording of events and logs.
* Two QuarksSecrets that name one Secret, and edits of `secretName`.

## Plan

1. An abstract specification of copying (asked for, sent, answered) that `SecretCopies` implements, as
   `RotationService` and `SigningService` are implemented.
2. Two QuarksSecrets with one Secret name, in `QuarksSecretController`.
