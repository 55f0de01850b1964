------------------------ MODULE QuarksSecretTypes ------------------------
(***************************************************************************)
(* The objects the operator works on, reduced to what its control flow     *)
(* reads: the QuarksSecret resource and the secret slot its                *)
(* Spec.SecretName points to (pkg/kube/apis/quarkssecret/v1alpha1).        *)
(*                                                                         *)
(* A spec is an opaque value; Kind says how the reconciler treats it.      *)
(* Labels, annotations, key material and names are abstracted away.        *)
(***************************************************************************)
EXTENDS Naturals

CONSTANTS
  QSecs,   \* names of the QuarksSecrets; each has a secret name of its own
  Specs,   \* the values a user may give to Spec
  Kind,    \* Kind[s]: which arm of the reconciler's type switch s takes
  NoSpec   \* the spec of an object that does not exist

Kinds == {"plain", "refs", "copy", "invalid"}

ASSUME SpecsAssumption == /\ NoSpec \notin Specs
                          /\ Kind \in [Specs -> Kinds]

\* A *bool of the status: nil, or a pointer to a boolean.
OptionalBool == {"nil", "true", "false"}

\* A version of a QuarksSecret. uid 0 stands for "there is no such object";
\* stamped says that LastReconcile has been set.
QuarksSecret == [uid: Nat, spec: Specs \cup {NoSpec},
                 generated: OptionalBool, copied: OptionalBool,
                 stamped: BOOLEAN]

NoQSec == [uid |-> 0, spec |-> NoSpec, generated |-> "nil",
           copied |-> "nil", stamped |-> FALSE]

NewQSec(uid, spec) == [NoQSec EXCEPT !.uid = uid, !.spec = spec]

Present(o) == o.uid # 0

\* A version of a secret: "user" has no secret-kind=generated label. owner is
\* the uid of the controlling QuarksSecret, 0 when it has none; spec is what
\* its data was generated from.
Secret == [kind: {"none", "user", "generated"}, owner: Nat,
           spec: Specs \cup {NoSpec}]

NoSecret == [kind |-> "none", owner |-> 0, spec |-> NoSpec]

UserSecret == [NoSecret EXCEPT !.kind = "user"]

GeneratedSecret(owner, spec) ==
  [kind |-> "generated", owner |-> owner, spec |-> spec]

\* A nil Generated is neither generated nor not generated.
IsGenerated(o) == o.generated = "true"
NotGenerated(o) == o.generated = "false"

\* What listSecrets finds: labelled generated and controlled by this object.
Owns(o, s) == s.kind = "generated" /\ s.owner = o.uid
==========================================================================
