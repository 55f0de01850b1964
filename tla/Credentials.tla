---------------------------- MODULE Credentials ----------------------------
(***************************************************************************)
(* What ReconcileQuarksSecret puts into a secret: the credentials of each  *)
(* type, made from the secrets and services its request refers to, which   *)
(* are read one call at a time while their owners replace them, and merged *)
(* into what the secret holds already.                                     *)
(*                                                                         *)
(* Status, meltdown, user secrets and restarts are in                      *)
(* QuarksSecretController, the cluster signer in CertificateSigning.       *)
(*                                                                         *)
(* A serial numbers everything random one reconcile draws.  A value in a   *)
(* secret is a pair: a certificate is <<its key, the key that signed it>>, *)
(* an image credential <<username, password>>, anything else <<n, n>>.     *)
(***************************************************************************)
EXTENDS Naturals

CONSTANTS
  Others,    \* names of the secrets and services requests refer to
  Requests,  \* what a user may give for Spec.Type and Spec.Request
  Setups,    \* what the secrets referred to may be at first
  Serials,   \* numbers of the credentials in the world at one time
  Limit,     \* how often each thing the operator has no say in may happen
  Scenarios  \* which of them may come together in one behaviour

\* What Limit bounds: writes and deletions of the secrets referred to; edits
\* of the request; rotations; deletions of the secret; failing calls.
Bounded == {"other", "edit", "rotate", "drop", "fault"}

\* The references of a request. "first" and "second" are CARef and CAKeyRef of
\* a certificate, Username and Password of image credentials, two Values of a
\* templated config; "" is a reference that is not given.
Roles == {"service", "first", "second"}

Types == {"password", "rsa", "ssh", "basic-auth", "certificate", "tls",
          "dockerconfigjson", "templatedconfig", "copy", "unknown"}

\* template: a template that renders, one that does not, another engine.
\* username: of the basic-auth request; 0 when it is to be generated.
Request == [type: Types, refs: [Roles -> Others \cup {""}],
            signer: {"", "local", "cluster", "unknown"}, isCA: BOOLEAN,
            template: {"helm", "broken", "other"}, username: Nat]

\* A secret somebody else looks after: two entries, written as a pair (a
\* certificate and its key, a username and its password); 0 when one is missing.
Other == [here: BOOLEAN, first: Nat, second: Nat]
Missing == [here |-> FALSE, first |-> 0, second |-> 0]
Pair(n) == [here |-> TRUE, first |-> n, second |-> n]
Half(n) == [Pair(n) EXCEPT !.second = 0]

ASSUME CredentialsAssumption ==
  /\ "" \notin Others
  /\ Requests \subseteq Request
  /\ \A r \in Requests :
       r.signer = "cluster" => r.type # "certificate"
  /\ Serials \subseteq Nat \ {0}
  /\ Setups \subseteq [Others -> {Missing} \cup {Pair(n) : n \in Serials}]
  /\ Limit \in [Bounded -> Nat] /\ Scenarios \subseteq SUBSET Bounded

VARIABLES
  request, requestCache,  \* of the QuarksSecret, and as in its informer
  generated,              \* it has been reconciled to the end once
  due,                    \* the work queue has the QuarksSecret
  other, otherCache,      \* per name: the secret or service referred to
  target, targetCache,    \* the secret Spec.SecretName points to
  synced,                 \* the cached target is the stored one
  rec,                    \* the reconcile in progress
  fresh,                  \* its copy of the target is not outdated
  from,                   \* history: the request the target was last made for
  spent                   \* how much of Limit has happened

vars == <<request, requestCache, generated, due, other, otherCache, target,
          targetCache, synced, rec, fresh, from, spent>>

\* Where a reference points to.
At(store, name) == IF name \in Others THEN store[name] ELSE Missing

Fields == {"password", "username", "private_key", "public_key",
           "public_key_fingerprint", "certificate", "is_ca", "ca", "tls.crt",
           "tls.key", ".dockerconfigjson", "one", "two"}

\* Data of a secret; no entries when there is none.
NoData == [f \in {} |-> <<0, 0>>]

NoRequest == [type |-> "unknown", refs |-> [r \in Roles |-> ""],
              signer |-> "", isCA |-> FALSE, template |-> "other",
              username |-> 0]

Idle == [pc |-> "idle", req |-> NoRequest, todo |-> {},
         got |-> [r \in Roles |-> 0], data |-> NoData]

Init ==
  /\ request \in Requests /\ requestCache = request
  /\ generated = FALSE /\ due = TRUE
  /\ other \in Setups /\ otherCache = other
  /\ target = NoData /\ targetCache = NoData /\ synced = TRUE
  /\ rec = Idle /\ fresh = FALSE
  /\ from = NoRequest
  /\ spent = [b \in Bounded |-> 0]

Spend(b) == /\ spent[b] < Limit[b]
            /\ spent' = [spent EXCEPT ![b] = @ + 1]
            /\ \E s \in Scenarios : {c \in Bounded : spent'[c] > 0} \subseteq s

ValuesIn(data) == UNION {{data[f][1], data[f][2]} : f \in DOMAIN data}

SerialsInUse ==
  {0} \cup {other[n].first : n \in Others}
      \cup {otherCache[n].first : n \in Others}
      \cup {rec.got[r] : r \in Roles}
      \cup UNION {ValuesIn(d) : d \in {target, targetCache, rec.data}}
SerialsLeft == Serials \ SerialsInUse
NewSerial == CHOOSE n \in Serials : n \notin SerialsInUse

--------------------------------------------------------------------------
(* Users, and the controllers that look after the other secrets.           *)

\* A secret is created or replaced, whole or with one entry missing, or
\* deleted.
ChangeOther(n) ==
  /\ SerialsLeft # {}
  /\ Spend("other")
  /\ \E o \in {Pair(NewSerial), Half(NewSerial), Missing} :
       /\ o # other[n]
       /\ other' = [other EXCEPT ![n] = o]
  /\ UNCHANGED <<request, requestCache, generated, due, otherCache, target,
                 targetCache, synced, rec, fresh, from>>

\* Only the edit of a generated QuarksSecret passes the Update predicate.  The
\* next one comes when the controller has seen the last.
EditRequest ==
  /\ generated /\ request = requestCache
  /\ Spend("edit")
  /\ request' \in Requests \ {request}
  /\ UNCHANGED <<requestCache, generated, due, other, otherCache, target,
                 targetCache, synced, rec, fresh, from>>

Rotate ==
  /\ generated
  /\ Spend("rotate")
  /\ due' = TRUE
  /\ UNCHANGED <<request, requestCache, generated, other, otherCache, target,
                 targetCache, synced, rec, fresh, from>>

DropTarget ==
  /\ target # NoData
  /\ Spend("drop")
  /\ target' = NoData /\ synced' = FALSE /\ fresh' = FALSE
  /\ from' = NoRequest
  /\ UNCHANGED <<request, requestCache, generated, due, other, otherCache,
                 targetCache, rec>>

DeliverRequest ==
  /\ request # requestCache
  /\ requestCache' = request
  /\ due' = TRUE
  /\ UNCHANGED <<request, generated, other, otherCache, target, targetCache,
                 synced, rec, fresh, from, spent>>

SyncOther(n) ==
  /\ otherCache[n] # other[n]
  /\ otherCache' = [otherCache EXCEPT ![n] = other[n]]
  /\ UNCHANGED <<request, requestCache, generated, due, other, target,
                 targetCache, synced, rec, fresh, from, spent>>

SyncTarget ==
  /\ ~synced
  /\ targetCache' = target /\ synced' = TRUE
  /\ UNCHANGED <<request, requestCache, generated, due, other, otherCache,
                 target, rec, fresh, from, spent>>
--------------------------------------------------------------------------
(* Credentials of each type; n is the serial of the reconcile.             *)

Same(n) == <<n, n>>

PasswordData(n) == [f \in {"password"} |-> Same(n)]

RSAData(n) == [f \in {"private_key", "public_key"} |-> Same(n)]

SSHData(n) ==
  [f \in {"private_key", "public_key", "public_key_fingerprint"} |-> Same(n)]

BasicAuthData(req, n) ==
  [f \in {"password", "username"} |->
     IF f = "username" /\ req.username # 0 THEN Same(req.username) ELSE Same(n)]

Signed(req) == req.refs["first"] # ""

\* A CA certificate without a CARef signs itself; every other one is signed
\* with the key that was read, which nobody compares with the CA certificate.
Certificate(req, got, n) == <<n, IF Signed(req) THEN got["second"] ELSE n>>

CertificateData(req, got, n) ==
  [f \in (IF req.type = "tls" THEN {"tls.crt", "tls.key"}
                              ELSE {"certificate", "private_key", "is_ca"})
           \cup (IF Signed(req) THEN {"ca"} ELSE {}) |->
     CASE f \in {"tls.crt", "certificate"} -> Certificate(req, got, n)
       [] f \in {"tls.key", "private_key"} -> Same(n)
       [] f = "is_ca" -> Same(IF req.isCA THEN 1 ELSE 0)
       [] f = "ca" -> Same(got["first"])]

\* What is not referred to is generated.
DockerData(req, got, n) ==
  [f \in {".dockerconfigjson"} |-> [i \in {1, 2} |->
     LET r == <<"first", "second">>[i]
     IN IF req.refs[r] = "" THEN n ELSE got[r]]]

\* One template for each value.  An error of the engine is printed, and what
\* it failed to render is stored as an empty string.
TemplatedData(req, got) ==
  [f \in {"one", "two"} |->
     IF req.template # "helm" THEN <<0, 0>>
     ELSE Same(got[IF f = "one" THEN "first" ELSE "second"])]

DataOf(req, got, n) ==
  CASE req.type = "password"   -> PasswordData(n)
    [] req.type = "rsa"        -> RSAData(n)
    [] req.type = "ssh"        -> SSHData(n)
    [] req.type = "basic-auth" -> BasicAuthData(req, n)
    [] req.type \in {"certificate", "tls"} -> CertificateData(req, got, n)
    [] req.type = "dockerconfigjson"       -> DockerData(req, got, n)
    [] req.type = "templatedconfig"        -> TemplatedData(req, got)

\* Types and requests that are an error; nothing is generated for a copy.
Valid(req) ==
  /\ req.type # "unknown"
  /\ req.type \in {"certificate", "tls"} =>
       req.signer \in {"", "local"} /\ (req.isCA \/ Signed(req))
  /\ req.type = "templatedconfig" => req.template # "other"

\* What has to be read first.  The key of a CA is read whenever there is one.
Reads(req) ==
  CASE req.type \in {"certificate", "tls"} ->
         {r \in {"service"} : req.refs[r] # ""}
           \cup IF Signed(req) /\ req.signer \in {"", "local"}
                THEN {"first", "second"} ELSE {}
    [] req.type \in {"dockerconfigjson", "templatedconfig"} ->
         {r \in {"first", "second"} : req.refs[r] # ""}
    [] OTHER -> {}

--------------------------------------------------------------------------
(* The reconcile.                                                          *)

\* Mutant: the copy read by this attempt is kept for the next one.
RetryWithCopy == rec' = Idle /\ due' = TRUE /\ UNCHANGED <<fresh, generated>>

Done  == rec' = Idle /\ fresh' = FALSE /\ generated' = TRUE /\ UNCHANGED due
Retry == rec' = Idle /\ fresh' = FALSE /\ due' = TRUE /\ UNCHANGED generated

Begin ==
  /\ due /\ rec = Idle
  /\ due' = FALSE
  /\ rec' = IF requestCache.type = "copy" THEN Idle
            ELSE [Idle EXCEPT !.pc = "read", !.req = requestCache,
                              !.todo = Reads(requestCache)]
  /\ UNCHANGED <<request, requestCache, generated, other, otherCache, target,
                 targetCache, synced, fresh, from, spent>>

\* References are read in order, but values of a template in any.
Earlier(a, b) == <<a, b>> \in {<<"service", "first">>, <<"service", "second">>,
                               <<"first", "second">>}
Readable(role) ==
  /\ role \in rec.todo
  /\ rec.req.type # "templatedconfig" => ~\E r \in rec.todo : Earlier(r, role)

\* Mutant: the key of a CA is always read by itself.
ReadTogetherNever(role) == {role}

\* One read serves for CA certificate and key when the secret is the same.
ReadTogether(role) ==
  IF /\ rec.req.type \in {"certificate", "tls"} /\ role = "first"
     /\ rec.req.refs["second"] = rec.req.refs["first"]
  THEN {"first", "second"} ELSE {role}

Entry(o, role) == CASE role = "first"  -> o.first
                    [] role = "second" -> o.second
                    [] role = "service" -> 1

Has(o, role) == o.here /\ Entry(o, role) # 0

\* Mutant: a reference that is not there ends the matter.
ReadOnce(role) ==
  /\ rec.pc = "read" /\ Readable(role)
  /\ LET o == At(otherCache, rec.req.refs[role])
     IN IF Has(o, role)
        THEN /\ rec' = [rec EXCEPT !.todo = @ \ {role},
                                   !.got[role] = Entry(o, role)]
             /\ UNCHANGED fresh
        ELSE rec' = Idle /\ fresh' = FALSE
  /\ UNCHANGED <<request, requestCache, generated, due, other, otherCache,
                 target, targetCache, synced, from, spent>>

\* Not there, or without the entry: again later, from the beginning.  (A CA
\* without its entry fails only when the certificate is signed.)
Read(role) ==
  /\ rec.pc = "read" /\ Readable(role)
  /\ LET o == At(otherCache, rec.req.refs[role])
         rs == ReadTogether(role)
     IN IF \A r \in rs : Has(o, r)
        THEN /\ rec' = [rec EXCEPT !.todo = @ \ rs,
                          !.got = [r \in Roles |-> IF r \in rs THEN Entry(o, r)
                                                               ELSE @[r]]]
             /\ UNCHANGED <<due, fresh, generated>>
        ELSE Retry
  /\ UNCHANGED <<request, requestCache, other, otherCache, target, targetCache,
                 synced, from, spent>>

Reject ==
  /\ rec.pc = "read" /\ rec.todo = {} /\ ~Valid(rec.req)
  /\ Retry
  /\ UNCHANGED <<request, requestCache, other, otherCache, target, targetCache,
                 synced, from, spent>>

Generate ==
  /\ rec.pc = "read" /\ rec.todo = {} /\ Valid(rec.req) /\ SerialsLeft # {}
  /\ rec' = [rec EXCEPT !.pc = "lookup",
                        !.data = DataOf(rec.req, rec.got, NewSerial)]
  /\ UNCHANGED <<request, requestCache, generated, due, other, otherCache,
                 target, targetCache, synced, fresh, from, spent>>

\* Mutant: an entry that is not there is no difference.
DiffersInEntries(data, old) ==
  \E f \in DOMAIN data \cap DOMAIN old : old[f] # data[f]

\* SecretMutateFn: one entry that differs is enough to write them all.
Differs(data, old) ==
  \E f \in DOMAIN data : f \notin DOMAIN old \/ old[f] # data[f]

LookupTarget ==
  /\ rec.pc = "lookup"
  /\ IF targetCache # NoData /\ ~Differs(rec.data, targetCache)
     THEN Done
     ELSE /\ rec' = [rec EXCEPT !.pc = IF targetCache = NoData THEN "create"
                                                               ELSE "update"]
          /\ fresh' = (targetCache # NoData /\ synced)
          /\ UNCHANGED <<due, generated>>
  /\ UNCHANGED <<request, requestCache, other, otherCache, target, targetCache,
                 synced, from, spent>>

Accepted == \/ rec.pc = "create" /\ target = NoData
            \/ rec.pc = "update" /\ fresh

Over(d, e) == [f \in DOMAIN d \cup DOMAIN e |-> IF f \in DOMAIN d THEN d[f]
                                                                   ELSE e[f]]

\* Mutant: an entry that is there keeps its value.
MergedOld(data, old) == Over(old, data)

\* StringData is laid over Data: entries of an earlier type stay.
Merged(data, old) == Over(data, old)

StoreTarget ==
  /\ Accepted
  /\ target' = Merged(rec.data, target) /\ synced' = FALSE
  /\ from' = rec.req
  /\ \/ Done /\ UNCHANGED spent
     \/ Retry /\ Spend("fault")
  /\ UNCHANGED <<request, requestCache, other, otherCache, targetCache>>

StoreConflicts ==
  /\ rec.pc \in {"create", "update"} /\ ~Accepted
  /\ Retry
  /\ UNCHANGED <<request, requestCache, other, otherCache, target, targetCache,
                 synced, from, spent>>

ReconcileFails ==
  /\ rec # Idle
  /\ Spend("fault")
  /\ Retry
  /\ UNCHANGED <<request, requestCache, other, otherCache, target, targetCache,
                 synced, from>>

Reconcile ==
  \/ Begin \/ (\E r \in Roles : Read(r)) \/ Reject \/ Generate
  \/ LookupTarget \/ StoreTarget \/ StoreConflicts

Next ==
  \/ \E n \in Others : ChangeOther(n) \/ SyncOther(n)
  \/ EditRequest \/ Rotate \/ DropTarget \/ DeliverRequest \/ SyncTarget
  \/ Reconcile \/ ReconcileFails

Spec == Init /\ [][Next]_vars

\* Informers catch up, and a reconcile that is due or under way goes on.
Fairness ==
  /\ \A n \in Others : WF_vars(SyncOther(n))
  /\ WF_vars(DeliverRequest) /\ WF_vars(SyncTarget)
  /\ WF_vars(Reconcile)

FairSpec == Spec /\ Fairness

--------------------------------------------------------------------------
(* Properties.                                                             *)

IsData(d) == /\ DOMAIN d \subseteq Fields
             /\ \A f \in DOMAIN d : d[f][1] \in Nat /\ d[f][2] \in Nat

\* Every variable has its type, what is still to be read belongs to the
\* request in hand, and a current copy to an update.
TypeOK ==
  /\ request \in Requests /\ requestCache \in Requests
  /\ generated \in BOOLEAN /\ due \in BOOLEAN
  /\ other \in [Others -> Other] /\ otherCache \in [Others -> Other]
  /\ IsData(target) /\ IsData(targetCache) /\ synced \in BOOLEAN
  /\ rec.pc \in {"idle", "read", "lookup", "create", "update"}
  /\ rec.req \in Requests \cup {NoRequest}
  /\ rec.todo \subseteq Reads(rec.req)
  /\ rec.got \in [Roles -> Nat] /\ IsData(rec.data)
  /\ fresh => rec.pc = "update" /\ synced
  /\ from \in Requests \cup {NoRequest}
  /\ spent \in [Bounded -> Nat]

KeyField(type) == IF type = "tls" THEN "tls.key" ELSE "private_key"
CertificateField(type) == IF type = "tls" THEN "tls.crt" ELSE "certificate"

\* A certificate verifies against the CA certificate that is stored with it,
\* however often the CA is replaced while it is made, if both entries of the
\* CA come from one secret.
CertificateVerifies ==
  /\ from.type \in {"certificate", "tls"} /\ Signed(from)
  /\ from.refs["first"] = from.refs["second"]
  => target[CertificateField(from.type)][2] = target["ca"][1]

\* The entries of a type that are made from one another.
EntriesOf(type) ==
  CASE type = "rsa" -> DOMAIN RSAData(0)
    [] type = "ssh" -> DOMAIN SSHData(0)
    [] type \in {"certificate", "tls"} -> {KeyField(type), CertificateField(type)}
    [] OTHER -> {}

\* The entries a type calls for belong together: private key, public key,
\* fingerprint and certificate come from one generation, through every change
\* of type, conflict and retry, although the entries of other types stay.
OneGeneration ==
  \A f \in EntriesOf(from.type) : target[f][1] = target[KeyField(from.type)][1]

Quiet == ~due /\ rec = Idle /\ request = requestCache

\* When nothing is left to do, the secret was made for the latest request,
\* and not found to be good enough (a template may yield what is there).
LatestServed ==
  Quiet /\ generated /\ spent["drop"] = 0
    /\ request.type \notin {"templatedconfig", "dockerconfigjson", "copy"}
  => from = request

Complete ==
  /\ Valid(request) /\ request.type # "copy"
  /\ \A r \in Reads(request) : Has(At(other, request.refs[r]), r)

\* A QuarksSecret whose references are all there, in whatever order they came
\* and however often they were replaced, gets its secret.
Served == ~generated ~> generated \/ ~Complete
=============================================================================
