------------------------ MODULE Credentials_proofs ------------------------
(***************************************************************************)
(* Proofs, for any number of secrets and serials, that a certificate is    *)
(* stored with the CA certificate that signed it, that what is made        *)
(* together is stored together, and that it is made for the latest request.*)
(***************************************************************************)
EXTENDS Credentials, TLAPS

\* An entry written over others is the one that is read back.
LEMMA MergedEntry ==
  ASSUME NEW d, NEW e, NEW f \in DOMAIN d
  PROVE  Over(d, e)[f] = d[f] /\ f \in DOMAIN Over(d, e)
  BY DEF Over

\* Both entries of the CA come from one secret.
OneCA(req) == /\ req.type \in {"certificate", "tls"} /\ Signed(req)
              /\ req.refs["first"] = req.refs["second"]

\* What data with a certificate of the CA must have.
Verifies(req, d) ==
  /\ CertificateField(req.type) \in DOMAIN d /\ "ca" \in DOMAIN d
  /\ d[CertificateField(req.type)][2] = d["ca"][1]

\* What data of a type must have: entries of one generation.
Whole(type, d) ==
  /\ EntriesOf(type) \subseteq DOMAIN d
  /\ \A f \in EntriesOf(type) : d[f][1] = d[KeyField(type)][1]

\* A CA that is there has a certificate and a key that belong together, unless
\* the key is missing.
Sealed(o) == o.second \in {0, o.first}

\* What a reconcile has read of one CA belongs together at every moment, and
\* so does what it made of it.
Verifying ==
  /\ rec = [pc |-> rec.pc, req |-> rec.req, todo |-> rec.todo,
            got |-> rec.got, data |-> rec.data]
  /\ rec.got = [r \in Roles |-> rec.got[r]]
  /\ other \in [Others -> Other] /\ otherCache \in [Others -> Other]
  /\ \A n \in Others : Sealed(other[n]) /\ Sealed(otherCache[n])
  /\ rec.pc = "read" /\ OneCA(rec.req) /\ rec.req.signer \in {"", "local"} =>
       /\ "first" \in rec.todo <=> "second" \in rec.todo
       /\ "first" \notin rec.todo => rec.got["first"] = rec.got["second"]
  /\ rec.pc \in {"lookup", "create", "update"} /\ OneCA(rec.req) =>
       Verifies(rec.req, rec.data)
  /\ rec.pc \in {"lookup", "create", "update"} =>
       Whole(rec.req.type, rec.data)
  /\ Whole(from.type, target)
  /\ OneCA(from) => Verifies(from, target)

\* The secrets users put there.
LEMMA OtherType ==
  /\ Missing \in Other /\ Sealed(Missing)
  /\ \A n \in Nat : /\ Pair(n) \in Other /\ Sealed(Pair(n))
                    /\ Half(n) \in Other /\ Sealed(Half(n))
  <1>1. Missing \in Other /\ Sealed(Missing)
    BY DEF Missing, Other, Sealed
  <1>2. ASSUME NEW n \in Nat
        PROVE  /\ Pair(n) \in Other /\ Sealed(Pair(n))
               /\ Half(n) \in Other /\ Sealed(Half(n))
    <2>1. Pair(n) \in Other /\ Sealed(Pair(n))
      BY DEF Pair, Other, Sealed
    <2>2. Half(n) \in Other
      BY <2>1 DEF Half, Other
    <2>3. Half(n).second = 0
      BY <2>1 DEF Half, Other
    <2> QED
      BY <2>1, <2>2, <2>3 DEF Sealed
  <1> QED
    BY <1>1, <1>2

\* A serial that is drawn is a number.
LEMMA NewSerialType ==
  ASSUME SerialsLeft # {}
  PROVE  NewSerial \in Nat
  <1>1. \E n \in Serials : n \notin SerialsInUse
    BY DEF SerialsLeft
  <1> HIDE DEF SerialsInUse
  <1> QED
    BY <1>1, CredentialsAssumption DEF NewSerial

\* An idle reconcile has nothing in hand.
LEMMA IdleShape ==
  /\ Idle.pc = "idle"
  /\ Idle = [pc |-> Idle.pc, req |-> Idle.req, todo |-> Idle.todo,
             got |-> Idle.got, data |-> Idle.data]
  /\ Idle.got = [r \in Roles |-> Idle.got[r]]
  /\ ~OneCA(NoRequest) /\ \A d : Whole(NoRequest.type, d)
  BY DEF Idle, NoRequest, OneCA, Whole, EntriesOf

\* Letting go of everything keeps what is stored as it is.
LEMMA LetGo ==
  ASSUME Verifying, rec' = Idle, UNCHANGED <<other, otherCache, from, target>>
  PROVE  Verifying'
  BY IdleShape DEF Verifying

\* Nothing verifies less at first.
LEMMA InitVerifying == Init => Verifying
  <1> SUFFICES ASSUME Init PROVE Verifying
    OBVIOUS
  <1>1. \A n \in Others : other[n] \in {Missing} \cup {Pair(k) : k \in Serials}
    <2>1. other \in [Others -> {Missing} \cup {Pair(k) : k \in Serials}]
      BY CredentialsAssumption DEF Init
    <2> QED
      BY <2>1
  <1>2. \A n \in Others : other[n] \in Other /\ Sealed(other[n])
    <2> SUFFICES ASSUME NEW n \in Others
                 PROVE  other[n] \in Other /\ Sealed(other[n])
      OBVIOUS
    <2>1. CASE other[n] = Missing
      BY <2>1, OtherType
    <2>2. ASSUME NEW k \in Serials, other[n] = Pair(k)
          PROVE  other[n] \in Other /\ Sealed(other[n])
      <3>1. k \in Nat
        BY CredentialsAssumption
      <3> QED
        BY <2>2, <3>1, OtherType
    <2> QED
      BY <1>1, <2>1, <2>2
  <1>3. other \in [Others -> Other]
    BY <1>2, CredentialsAssumption DEF Init
  <1> QED
    BY <1>2, <1>3, IdleShape DEF Init, Verifying

\* The entries of a certificate that are read back.
LEMMA CertificateEntries ==
  ASSUME NEW req, NEW got, NEW n, OneCA(req), got["first"] = got["second"]
  PROVE  Verifies(req, DataOf(req, got, n))
  <1>1. DataOf(req, got, n) = CertificateData(req, got, n)
    BY DEF DataOf, OneCA
  <1>2. /\ Certificate(req, got, n)[2] = got["second"]
        /\ Same(got["first"])[1] = got["first"]
    BY DEF Certificate, Same, OneCA
  <1>3. CertificateField(req.type) \in {"tls.crt", "certificate"}
    BY DEF CertificateField
  <1>4. /\ CertificateField(req.type) \in DOMAIN CertificateData(req, got, n)
        /\ CertificateData(req, got, n)[CertificateField(req.type)]
             = Certificate(req, got, n)
    BY <1>3 DEF CertificateData, CertificateField
  <1>5. /\ "ca" \in DOMAIN CertificateData(req, got, n)
        /\ CertificateData(req, got, n)["ca"] = Same(got["first"])
    BY DEF CertificateData, OneCA
  <1> QED
    BY <1>1, <1>2, <1>4, <1>5 DEF Verifies

\* The key of a type is one of the entries that belong together.
LEMMA KeyEntry ==
  ASSUME NEW type, NEW f \in EntriesOf(type)
  PROVE  KeyField(type) \in EntriesOf(type)
  BY DEF EntriesOf, KeyField, RSAData, SSHData

\* What one reconcile makes is of one generation.
LEMMA DataWhole ==
  ASSUME NEW req, NEW got, NEW n
  PROVE  Whole(req.type, DataOf(req, got, n))
  <1>1. CASE req.type = "rsa"
    BY <1>1 DEF DataOf, Whole, EntriesOf, KeyField, RSAData
  <1>2. CASE req.type = "ssh"
    BY <1>2 DEF DataOf, Whole, EntriesOf, KeyField, SSHData
  <1>3. CASE req.type \in {"certificate", "tls"}
    <2> DEFINE d == CertificateData(req, got, n)
    <2>1. DataOf(req, got, n) = d
      BY <1>3 DEF DataOf
    <2>2. /\ {KeyField(req.type), CertificateField(req.type)} \subseteq DOMAIN d
          /\ d[KeyField(req.type)] = Same(n)
          /\ d[CertificateField(req.type)] = Certificate(req, got, n)
      BY <1>3 DEF CertificateData, KeyField, CertificateField
    <2>3. Certificate(req, got, n)[1] = n /\ Same(n)[1] = n
      BY DEF Certificate, Same
    <2>4. EntriesOf(req.type) = {KeyField(req.type), CertificateField(req.type)}
      BY <1>3 DEF EntriesOf
    <2> HIDE DEF d
    <2> QED
      BY <2>1, <2>2, <2>3, <2>4 DEF Whole
  <1>4. CASE req.type \notin {"rsa", "ssh", "certificate", "tls"}
    BY <1>4 DEF Whole, EntriesOf
  <1> QED
    BY <1>1, <1>2, <1>3, <1>4

\* One read takes both entries of one CA.
LEMMA ReadVerifying ==
  ASSUME Verifying, NEW role \in Roles, Read(role)
  PROVE  Verifying'
  <1> DEFINE o == At(otherCache, rec.req.refs[role])
             rs == ReadTogether(role)
             got == [r \in Roles |-> IF r \in rs THEN Entry(o, r)
                                                 ELSE rec.got[r]]
  <1>1. CASE rec' = Idle
    BY <1>1, LetGo DEF Read
  <1>2. CASE /\ \A r \in rs : Has(o, r)
             /\ rec' = [rec EXCEPT !.todo = @ \ rs, !.got = got]
    <2>1. /\ rec'.pc = "read" /\ rec'.req = rec.req /\ rec'.todo = rec.todo \ rs
          /\ rec'.got = got /\ rec'.data = rec.data
          /\ rec' = [pc |-> rec'.pc, req |-> rec'.req, todo |-> rec'.todo,
                     got |-> rec'.got, data |-> rec'.data]
      <3>1. rec.pc = "read"
        BY DEF Read
      <3> HIDE DEF rs, got
      <3> QED
        BY <1>2, <3>1 DEF Verifying
    <2>2. rec'.got = [r \in Roles |-> rec'.got[r]]
      BY <2>1
    <2>3. ASSUME OneCA(rec.req), rec.req.signer \in {"", "local"}
          PROVE  /\ "first" \in rec'.todo <=> "second" \in rec'.todo
                 /\ "first" \notin rec'.todo =>
                      rec'.got["first"] = rec'.got["second"]
      <3>1. /\ "first" \in rec.todo <=> "second" \in rec.todo
            /\ "first" \notin rec.todo => rec.got["first"] = rec.got["second"]
            /\ role \in rec.todo
        BY <2>3 DEF Verifying, Read, Readable
      <3>2. role # "second"
        BY <2>3, <3>1 DEF Read, Readable, Earlier, OneCA
      <3>3. CASE role = "first"
        <4>1. rs = {"first", "second"}
          BY <2>3, <3>3 DEF ReadTogether, OneCA
        <4>2. Sealed(o) /\ Has(o, "second")
          BY <1>2, <4>1, OtherType DEF At, Verifying
        <4>3. o.first = o.second
          BY <4>2 DEF Sealed, Has, Entry
        <4>4. got["first"] = o.first /\ got["second"] = o.second
          BY <4>1 DEF Entry, Roles
        <4> HIDE DEF rs, got, o
        <4> QED
          BY <2>1, <4>1, <4>3, <4>4
      <3>4. CASE role = "service"
        <4>1. rs = {"service"}
          BY <3>4 DEF ReadTogether
        <4>2. /\ got["first"] = rec.got["first"]
              /\ got["second"] = rec.got["second"]
          BY <4>1 DEF Roles
        <4> HIDE DEF rs, got, o
        <4> QED
          BY <2>1, <3>1, <4>1, <4>2
      <3> QED
        BY <3>2, <3>3, <3>4 DEF Roles
    <2> HIDE DEF rs, got, o
    <2> QED
      BY <2>1, <2>2, <2>3 DEF Read, Verifying
  <1> QED
    BY <1>1, <1>2 DEF Read, Retry

\* Every step keeps what was read, made and stored together.
LEMMA VerifyingStep == Verifying /\ [Next]_vars => Verifying'
  <1> SUFFICES ASSUME Verifying, [Next]_vars PROVE Verifying'
    OBVIOUS
  <1>a. ASSUME UNCHANGED <<rec, other, otherCache, from, target>>
        PROVE  Verifying'
    BY <1>a DEF Verifying
  <1>1. CASE UNCHANGED vars
    BY <1>1, <1>a DEF vars
  <1>2. CASE EditRequest \/ Rotate \/ DeliverRequest \/ SyncTarget
    BY <1>2, <1>a DEF EditRequest, Rotate, DeliverRequest, SyncTarget
  <1>3. ASSUME NEW n \in Others, ChangeOther(n) PROVE Verifying'
    <2>1. PICK o \in {Pair(NewSerial), Half(NewSerial), Missing} :
            other' = [other EXCEPT ![n] = o]
      BY <1>3 DEF ChangeOther
    <2>2. NewSerial \in Nat
      BY <1>3, NewSerialType DEF ChangeOther
    <2>3. o \in Other /\ Sealed(o)
      BY <2>1, <2>2, OtherType
    <2>4. UNCHANGED <<rec, otherCache, from, target>>
      BY <1>3 DEF ChangeOther
    <2> HIDE DEF Sealed
    <2> QED
      BY <2>1, <2>3, <2>4 DEF Verifying
  <1>4. ASSUME NEW n \in Others, SyncOther(n) PROVE Verifying'
    BY <1>4 DEF SyncOther, Verifying
  <1>5. CASE DropTarget
    BY <1>5, IdleShape DEF DropTarget, Verifying
  <1>6. CASE Begin
    <2>1. CASE rec' = Idle
      BY <1>6, <2>1, LetGo DEF Begin
    <2>2. CASE rec' = [Idle EXCEPT !.pc = "read", !.req = requestCache,
                                   !.todo = Reads(requestCache)]
      <3>1. rec' = [pc |-> "read", req |-> requestCache,
                    todo |-> Reads(requestCache),
                    got |-> [r \in Roles |-> 0], data |-> NoData]
        BY <2>2 DEF Idle
      <3>2. OneCA(requestCache) /\ requestCache.signer \in {"", "local"} =>
              /\ "first" \in Reads(requestCache)
              /\ "second" \in Reads(requestCache)
        BY DEF OneCA, Reads
      <3> HIDE DEF Reads
      <3> QED
        BY <1>6, <3>1, <3>2 DEF Begin, Verifying
    <2> QED
      BY <1>6, <2>1, <2>2 DEF Begin
  <1>7. ASSUME NEW r \in Roles, Read(r) PROVE Verifying'
    BY <1>7, ReadVerifying
  <1>8. CASE Reject \/ StoreConflicts \/ ReconcileFails
    BY <1>8, LetGo DEF Reject, StoreConflicts, ReconcileFails, Retry
  <1>9. CASE Generate
    <2> DEFINE data == DataOf(rec.req, rec.got, NewSerial)
    <2>1. OneCA(rec.req) => Verifies(rec.req, data)
      <3> SUFFICES ASSUME OneCA(rec.req) PROVE Verifies(rec.req, data)
        OBVIOUS
      <3>1. rec.got["first"] = rec.got["second"]
        BY <1>9 DEF Generate, Valid, Verifying, OneCA
      <3> QED
        BY <3>1, CertificateEntries
    <2>2. rec' = [rec EXCEPT !.pc = "lookup", !.data = data]
      BY <1>9 DEF Generate
    <2>a. Whole(rec.req.type, data)
      BY DataWhole
    <2> HIDE DEF data
    <2>3. rec' = [pc |-> "lookup", req |-> rec.req, todo |-> rec.todo,
                  got |-> rec.got, data |-> data]
      BY <2>2 DEF Verifying
    <2>4. UNCHANGED <<other, otherCache, from, target>>
      BY <1>9 DEF Generate
    <2> QED
      BY <2>a, <2>1, <2>3, <2>4 DEF Verifying
  <1>10. CASE LookupTarget
    <2>1. CASE rec' = Idle
      BY <1>10, <2>1, LetGo DEF LookupTarget
    <2>2. CASE rec' = [rec EXCEPT !.pc = IF targetCache = NoData THEN "create"
                                                                 ELSE "update"]
      <3>1. rec' = [pc |-> IF targetCache = NoData THEN "create" ELSE "update",
                    req |-> rec.req, todo |-> rec.todo,
                    got |-> rec.got, data |-> rec.data]
        BY <2>2 DEF Verifying
      <3> QED
        BY <1>10, <3>1 DEF LookupTarget, Verifying
    <2> QED
      BY <1>10, <2>1, <2>2 DEF LookupTarget, Done
  <1>11. CASE StoreTarget
    <2>1. rec' = Idle /\ from' = rec.req /\ target' = Over(rec.data, target)
      BY <1>11 DEF StoreTarget, Done, Retry, Merged
    <2>2. OneCA(rec.req) => Verifies(rec.req, Over(rec.data, target))
      <3>1. OneCA(rec.req) => Verifies(rec.req, rec.data)
        BY <1>11 DEF StoreTarget, Accepted, Verifying
      <3> QED
        BY <3>1, MergedEntry DEF Verifies
    <2>3. Whole(rec.req.type, Over(rec.data, target))
      <3>1. Whole(rec.req.type, rec.data)
        BY <1>11 DEF StoreTarget, Accepted, Verifying
      <3> QED
        BY <3>1, MergedEntry, KeyEntry DEF Whole
    <2> QED
      BY <1>11, <2>1, <2>2, <2>3, IdleShape DEF StoreTarget, Verifying
  <1> QED
    BY <1>1, <1>2, <1>3, <1>4, <1>5, <1>6, <1>7, <1>8, <1>9, <1>10, <1>11
    DEF Next, Reconcile

\* However many secrets there are, and however often a CA is replaced while
\* certificates are made from it, each certificate is signed by the CA it is
\* stored with.
THEOREM CertificatesVerify == Spec => []CertificateVerifies
  <1>1. Verifying => CertificateVerifies
    BY DEF Verifying, OneCA, Verifies, CertificateVerifies
  <1> QED
    BY <1>1, InitVerifying, VerifyingStep, PTL DEF Spec

\* Through every change of type, conflict and retry, the entries that are made
\* from one another are stored together, for any number of credentials.
THEOREM StoredTogether == Spec => []OneGeneration
  <1>1. Verifying => OneGeneration
    BY DEF Verifying, Whole, OneGeneration
  <1> QED
    BY <1>1, InitVerifying, VerifyingStep, PTL DEF Spec

--------------------------------------------------------------------------
(* Types.                                                                  *)

\* A reconcile has begun for a request it knows what to do with.
Typed == TypeOK /\ (rec.pc # "idle" => rec.req.type # "copy")

\* Nothing is of the type of data, and so is nothing in hand.
LEMMA IdleType ==
  /\ IsData(NoData) /\ NoRequest \in Request
  /\ Idle.req = NoRequest /\ Idle.todo = {}
  /\ Idle.got \in [Roles -> Nat] /\ IsData(Idle.data)
  <1>1. IsData(NoData)
    BY DEF NoData, IsData
  <1>2. NoRequest \in Request
    BY DEF NoRequest, Request, Types
  <1> QED
    BY <1>1, <1>2 DEF Idle

\* What a reconcile makes is data.
LEMMA DataType ==
  ASSUME NEW req \in Request, req.type \notin {"copy", "unknown"},
         NEW got \in [Roles -> Nat], NEW n \in Nat
  PROVE  IsData(DataOf(req, got, n))
  <1>a. \A k \in Nat : Same(k)[1] \in Nat /\ Same(k)[2] \in Nat
    BY DEF Same
  <1>b. got["first"] \in Nat /\ got["second"] \in Nat
    BY DEF Roles
  <1>1. CASE req.type \in {"password", "rsa", "ssh"}
    <2>1. IsData(PasswordData(n)) /\ IsData(RSAData(n)) /\ IsData(SSHData(n))
      BY <1>a DEF IsData, PasswordData, RSAData, SSHData, Fields
    <2> QED
      BY <1>1, <2>1 DEF DataOf
  <1>2. CASE req.type = "basic-auth"
    <2>1. req.username \in Nat
      BY DEF Request
    <2>2. IsData(BasicAuthData(req, n))
      BY <1>a, <2>1 DEF IsData, BasicAuthData, Fields
    <2> QED
      BY <1>2, <2>2 DEF DataOf
  <1>3. CASE req.type \in {"certificate", "tls"}
    <2> DEFINE d == CertificateData(req, got, n)
    <2>1. /\ Certificate(req, got, n)[1] \in Nat
          /\ Certificate(req, got, n)[2] \in Nat
      BY <1>b DEF Certificate
    <2>2. /\ Same(IF req.isCA THEN 1 ELSE 0)[1] \in Nat
          /\ Same(IF req.isCA THEN 1 ELSE 0)[2] \in Nat
      BY <1>a
    <2>3. DOMAIN d \subseteq {"tls.crt", "tls.key", "certificate",
                              "private_key", "is_ca", "ca"}
      BY DEF CertificateData
    <2>4. ASSUME NEW f \in DOMAIN d
          PROVE  d[f] \in {Certificate(req, got, n), Same(n),
                           Same(IF req.isCA THEN 1 ELSE 0), Same(got["first"])}
      BY <2>3, <2>4 DEF CertificateData
    <2>5. DataOf(req, got, n) = d
      BY <1>3 DEF DataOf
    <2> HIDE DEF d
    <2> QED
      BY <1>a, <1>b, <2>1, <2>2, <2>3, <2>4, <2>5 DEF IsData, Fields
  <1>4. CASE req.type = "dockerconfigjson"
    <2> DEFINE part(i) == LET r == <<"first", "second">>[i]
                          IN IF req.refs[r] = "" THEN n ELSE got[r]
    <2>1. part(1) \in Nat /\ part(2) \in Nat
      BY <1>b
    <2>2. DockerData(req, got, n)
            = [f \in {".dockerconfigjson"} |-> [i \in {1, 2} |-> part(i)]]
      BY DEF DockerData
    <2> HIDE DEF part
    <2>3. IsData(DockerData(req, got, n))
      BY <2>1, <2>2 DEF IsData, Fields
    <2> QED
      BY <1>4, <2>3 DEF DataOf
  <1>5. CASE req.type = "templatedconfig"
    <2>1. \A f \in {"one", "two"} :
            got[IF f = "one" THEN "first" ELSE "second"] \in Nat
      BY <1>b
    <2>2. IsData(TemplatedData(req, got))
      BY <1>a, <2>1 DEF IsData, TemplatedData, Fields
    <2> QED
      BY <1>5, <2>2 DEF DataOf
  <1> QED
    BY <1>1, <1>2, <1>3, <1>4, <1>5 DEF Request, Types

\* Data laid over data is data.
LEMMA OverType ==
  ASSUME NEW d, NEW e, IsData(d), IsData(e)
  PROVE  IsData(Over(d, e))
  BY DEF IsData, Over

\* A bound that is spent stays a number.
LEMMA SpendType ==
  ASSUME TypeOK, NEW b \in Bounded, Spend(b)
  PROVE  spent' \in [Bounded -> Nat]
  BY DEF TypeOK, Spend

\* The initial state has the types.
LEMMA InitTyped == Init => Typed
  <1> SUFFICES ASSUME Init PROVE Typed
    OBVIOUS
  <1>1. other \in [Others -> Other]
    BY InitVerifying DEF Verifying
  <1> QED
    BY <1>1, IdleType, IdleShape DEF Init, Typed, TypeOK, Bounded

\* A reconcile that ends lets go of everything.
LEMMA LeaveTyped ==
  ASSUME Typed, rec' = Idle, fresh' = FALSE,
         generated' \in BOOLEAN, due' \in BOOLEAN,
         UNCHANGED <<request, requestCache, other, otherCache, target,
                     targetCache, synced, from>>,
         spent' \in [Bounded -> Nat]
  PROVE  Typed'
  BY IdleType, IdleShape DEF Typed, TypeOK

\* Reading keeps to what the request refers to.
LEMMA ReadTyped ==
  ASSUME Typed, Verifying, NEW role \in Roles, Read(role)
  PROVE  Typed'
  <1> DEFINE o == At(otherCache, rec.req.refs[role])
             rs == ReadTogether(role)
             got == [r \in Roles |-> IF r \in rs THEN Entry(o, r)
                                                 ELSE rec.got[r]]
  <1>1. CASE Retry
    BY <1>1, LeaveTyped DEF Read, Retry, Typed, TypeOK
  <1>2. CASE /\ rec' = [rec EXCEPT !.todo = @ \ rs, !.got = got]
             /\ UNCHANGED <<due, fresh, generated>>
    <2>1. o \in Other
      BY OtherType DEF At, Typed, TypeOK
    <2>2. got \in [Roles -> Nat]
      <3>1. \A r \in Roles : Entry(o, r) \in Nat
        BY <2>1 DEF Entry, Other, Roles
      <3> HIDE DEF rs, o
      <3> QED
        BY <3>1 DEF Typed, TypeOK
    <2> HIDE DEF rs, got, o
    <2>3. /\ rec'.pc = rec.pc /\ rec'.req = rec.req
          /\ rec'.todo = rec.todo \ rs /\ rec'.got = got
          /\ rec'.data = rec.data
      BY <1>2 DEF Verifying
    <2> QED
      BY <1>2, <2>2, <2>3 DEF Read, Typed, TypeOK
  <1> QED
    BY <1>1, <1>2 DEF Read

\* Every step keeps the types.
LEMMA TypedStep == Typed /\ Verifying /\ [Next]_vars => Typed'
  <1> SUFFICES ASSUME Typed, Verifying, [Next]_vars PROVE Typed'
    OBVIOUS
  <1>a. TypeOK
    BY DEF Typed
  <1>1. CASE UNCHANGED vars
    BY <1>1 DEF vars, Typed, TypeOK
  <1>2. ASSUME NEW n \in Others, ChangeOther(n) PROVE Typed'
    <2>1. PICK o \in {Pair(NewSerial), Half(NewSerial), Missing} :
            other' = [other EXCEPT ![n] = o]
      BY <1>2 DEF ChangeOther
    <2>2. o \in Other
      BY <1>2, <2>1, NewSerialType, OtherType DEF ChangeOther
    <2>3. spent' \in [Bounded -> Nat]
      BY <1>2, <1>a, SpendType DEF ChangeOther, Bounded
    <2> QED
      BY <1>2, <2>1, <2>2, <2>3 DEF ChangeOther, Typed, TypeOK
  <1>3. CASE EditRequest \/ Rotate \/ DropTarget
    <2>1. spent' \in [Bounded -> Nat]
      BY <1>3, <1>a, SpendType DEF EditRequest, Rotate, DropTarget, Bounded
    <2>2. CASE EditRequest
      BY <2>1, <2>2 DEF EditRequest, Typed, TypeOK
    <2>3. CASE Rotate
      BY <2>1, <2>3 DEF Rotate, Typed, TypeOK
    <2>4. CASE DropTarget
      BY <2>1, <2>4, IdleType DEF DropTarget, Typed, TypeOK
    <2> QED
      BY <1>3, <2>2, <2>3, <2>4
  <1>4. CASE DeliverRequest \/ SyncTarget
    <2>1. CASE DeliverRequest
      BY <2>1 DEF DeliverRequest, Typed, TypeOK
    <2>2. CASE SyncTarget
      BY <2>2 DEF SyncTarget, Typed, TypeOK
    <2> QED
      BY <1>4, <2>1, <2>2
  <1>5. ASSUME NEW n \in Others, SyncOther(n) PROVE Typed'
    BY <1>5 DEF SyncOther, Typed, TypeOK
  <1>6. CASE Begin
    <2>1. CASE rec' = Idle
      BY <1>6, <2>1, IdleType, IdleShape DEF Begin, Typed, TypeOK
    <2>2. CASE /\ requestCache.type # "copy"
               /\ rec' = [Idle EXCEPT !.pc = "read", !.req = requestCache,
                                      !.todo = Reads(requestCache)]
      <3>1. /\ rec'.pc = "read" /\ rec'.req = requestCache
            /\ rec'.todo = Reads(rec'.req)
            /\ rec'.got = Idle.got /\ rec'.data = Idle.data
        BY <2>2 DEF Idle
      <3>2. ~fresh
        BY <1>6, IdleShape DEF Begin, Typed, TypeOK
      <3> HIDE DEF Reads
      <3> QED
        BY <1>6, <2>2, <3>1, <3>2, IdleType DEF Begin, Typed, TypeOK
    <2> QED
      BY <1>6, <2>1, <2>2 DEF Begin
  <1>7. ASSUME NEW r \in Roles, Read(r) PROVE Typed'
    BY <1>7, ReadTyped
  <1>8. CASE Reject \/ StoreConflicts
    BY <1>8, LeaveTyped DEF Reject, StoreConflicts, Retry, Typed, TypeOK
  <1>9. CASE Generate
    <2> DEFINE data == DataOf(rec.req, rec.got, NewSerial)
    <2>1. rec.req \in Request /\ rec.req.type \notin {"copy", "unknown"}
      BY <1>9, IdleType, CredentialsAssumption
      DEF Generate, Valid, Typed, TypeOK
    <2>2. IsData(data)
      BY <1>9, <2>1, NewSerialType, DataType DEF Generate, Typed, TypeOK
    <2>3. rec' = [rec EXCEPT !.pc = "lookup", !.data = data]
      BY <1>9 DEF Generate
    <2> HIDE DEF data
    <2>4. /\ rec'.pc = "lookup" /\ rec'.req = rec.req /\ rec'.todo = rec.todo
          /\ rec'.got = rec.got /\ rec'.data = data
      BY <2>3 DEF Verifying
    <2>5. ~fresh
      BY <1>9 DEF Generate, Typed, TypeOK
    <2> QED
      BY <1>9, <2>1, <2>2, <2>4, <2>5 DEF Generate, Typed, TypeOK
  <1>10. CASE LookupTarget
    <2>1. CASE Done
      BY <1>10, <2>1, LeaveTyped DEF LookupTarget, Done, Typed, TypeOK
    <2>2. CASE /\ rec' = [rec EXCEPT !.pc = IF targetCache = NoData
                                            THEN "create" ELSE "update"]
               /\ fresh' = (targetCache # NoData /\ synced)
               /\ UNCHANGED <<due, generated>>
      <3>1. /\ rec'.pc = IF targetCache = NoData THEN "create" ELSE "update"
            /\ rec'.req = rec.req /\ rec'.todo = rec.todo
            /\ rec'.got = rec.got /\ rec'.data = rec.data
        BY <2>2 DEF Verifying
      <3> QED
        BY <1>10, <2>2, <3>1 DEF LookupTarget, Typed, TypeOK
    <2> QED
      BY <1>10, <2>1, <2>2 DEF LookupTarget
  <1>11. CASE StoreTarget
    <2>1. /\ rec' = Idle /\ fresh' = FALSE
          /\ generated' \in BOOLEAN /\ due' \in BOOLEAN
      BY <1>11 DEF StoreTarget, Done, Retry, Typed, TypeOK
    <2>2. IsData(target')
      BY <1>11, OverType DEF StoreTarget, Merged, Typed, TypeOK
    <2>3. spent' \in [Bounded -> Nat]
      BY <1>11, <1>a, SpendType DEF StoreTarget, Bounded, TypeOK
    <2> QED
      BY <1>11, <2>1, <2>2, <2>3, IdleType, IdleShape
      DEF StoreTarget, Typed, TypeOK
  <1>12. CASE ReconcileFails
    <2>1. spent' \in [Bounded -> Nat]
      BY <1>12, <1>a, SpendType DEF ReconcileFails, Bounded
    <2> QED
      BY <1>12, <2>1, LeaveTyped DEF ReconcileFails, Retry, Typed, TypeOK
  <1> QED
    BY <1>1, <1>2, <1>3, <1>4, <1>5, <1>6, <1>7, <1>8, <1>9, <1>10, <1>11,
       <1>12
    DEF Next, Reconcile

\* Every variable keeps its type, for any requests, secrets and serials.
THEOREM TypeCorrect == Spec => []TypeOK
  <1>1. Typed => TypeOK
    BY DEF Typed
  <1> QED
    BY <1>1, InitTyped, TypedStep, InitVerifying, VerifyingStep, PTL DEF Spec

--------------------------------------------------------------------------
(* The latest request.                                                     *)

\* Types whose data holds something drawn for it.
DrawnTypes == Types \ {"templatedconfig", "dockerconfigjson", "copy", "unknown"}

\* The entry that no other data has.
DrawnField(type) == IF type \in {"password", "basic-auth"} THEN "password"
                                                          ELSE KeyField(type)

\* Data made before the secret was looked up is not in it.
Unlike(d, e) == /\ DrawnField(rec.req.type) \in DOMAIN d
                /\ DrawnField(rec.req.type) \in DOMAIN e =>
                     d[DrawnField(rec.req.type)] # e[DrawnField(rec.req.type)]

\* Unless the controller has been told to look again, a reconcile is for the
\* request in the cache, and the last one that went to the end was: it wrote
\* the secret, which cannot have held by chance what was drawn for it.
Latest ==
  /\ rec.pc # "idle" /\ ~due => rec.req = requestCache
  /\ rec.pc \in {"lookup", "create", "update"} => rec.req.type # "unknown"
  /\ rec.pc = "lookup" /\ rec.req.type \in DrawnTypes =>
       Unlike(rec.data, target) /\ Unlike(rec.data, targetCache)
  /\ rec.pc = "idle" /\ ~due /\ generated /\ spent["drop"] = 0
       /\ requestCache.type \in DrawnTypes \cup {"unknown"} =>
       from = requestCache

\* Data of a type that draws has the serial that was drawn.
LEMMA DrawnData ==
  ASSUME NEW req, req.type \in DrawnTypes, NEW got, NEW n
  PROVE  /\ DrawnField(req.type) \in DOMAIN DataOf(req, got, n)
         /\ DataOf(req, got, n)[DrawnField(req.type)] = Same(n)
  <1>1. CASE req.type = "password"
    BY <1>1 DEF DataOf, PasswordData, DrawnField
  <1>2. CASE req.type = "basic-auth"
    BY <1>2 DEF DataOf, BasicAuthData, DrawnField
  <1>3. CASE req.type = "rsa"
    BY <1>3 DEF DataOf, RSAData, DrawnField, KeyField
  <1>4. CASE req.type = "ssh"
    BY <1>4 DEF DataOf, SSHData, DrawnField, KeyField
  <1>5. CASE req.type = "certificate"
    BY <1>5 DEF DataOf, CertificateData, DrawnField, KeyField
  <1>6. CASE req.type = "tls"
    BY <1>6 DEF DataOf, CertificateData, DrawnField, KeyField
  <1> QED
    BY <1>1, <1>2, <1>3, <1>4, <1>5, <1>6 DEF DrawnTypes, Types

\* A serial that is drawn is in no secret.
LEMMA DrawnSerial ==
  ASSUME SerialsLeft # {}, NEW d \in {target, targetCache}, NEW f \in DOMAIN d
  PROVE  d[f] # Same(NewSerial)
  <1>1. NewSerial \notin SerialsInUse
    <2>1. \E n \in Serials : n \notin SerialsInUse
      BY DEF SerialsLeft
    <2> HIDE DEF SerialsInUse
    <2> QED
      BY <2>1 DEF NewSerial
  <1>2. d[f][1] \in ValuesIn(d)
    BY DEF ValuesIn
  <1>3. ValuesIn(d) \subseteq SerialsInUse
    BY DEF SerialsInUse
  <1> QED
    BY <1>1, <1>2, <1>3 DEF Same

\* Leaving with a key in the queue keeps the invariant.
LEMMA RetryLatest ==
  ASSUME rec' = Idle, due'
  PROVE  Latest'
  BY IdleShape DEF Latest

\* So does a step that changes nothing but the other secrets, or less of what
\* is looked at.
LEMMA SameLatest ==
  ASSUME Latest, UNCHANGED <<requestCache, generated, rec, from>>,
         due' = due \/ due',
         target' \in {target, NoData}, targetCache' \in {target, targetCache},
         spent'["drop"] = 0 => spent["drop"] = 0
  PROVE  Latest'
  BY DEF Latest, Unlike, NoData

\* What is stored is for the latest request when nothing is left to do.
LEMMA LatestStep ==
  TypeOK /\ Typed /\ Verifying /\ Latest /\ [Next]_vars => Latest'
  <1> SUFFICES ASSUME TypeOK, Typed, Verifying, Latest, [Next]_vars
               PROVE  Latest'
    OBVIOUS
  <1> USE DEF Bounded
  <1>a. ASSUME NEW b \in Bounded \ {"drop"}, Spend(b)
        PROVE  spent'["drop"] = spent["drop"]
    BY <1>a DEF Spend, TypeOK
  <1>1. CASE UNCHANGED vars
    BY <1>1, SameLatest DEF vars
  <1>2. ASSUME NEW n \in Others, ChangeOther(n) PROVE Latest'
    BY <1>2, <1>a, SameLatest DEF ChangeOther
  <1>3. CASE EditRequest
    BY <1>3, <1>a, SameLatest DEF EditRequest
  <1>4. CASE Rotate
    BY <1>4, <1>a, SameLatest DEF Rotate
  <1>5. CASE DropTarget
    <2>1. spent'["drop"] # 0
      BY <1>5 DEF DropTarget, Spend, TypeOK
    <2> QED
      BY <1>5, <2>1 DEF DropTarget, Latest, Unlike, NoData
  <1>6. CASE DeliverRequest
    BY <1>6 DEF DeliverRequest, Latest, Unlike
  <1>7. ASSUME NEW n \in Others, SyncOther(n) PROVE Latest'
    BY <1>7, SameLatest DEF SyncOther
  <1>8. CASE SyncTarget
    BY <1>8, SameLatest DEF SyncTarget
  <1>9. CASE Begin
    <2>1. CASE requestCache.type = "copy"
      BY <1>9, <2>1, IdleShape DEF Begin, Latest, DrawnTypes
    <2>2. CASE requestCache.type # "copy"
      <3>1. rec'.pc = "read" /\ rec'.req = requestCache
        BY <1>9, <2>2 DEF Begin, Idle
      <3> QED
        BY <1>9, <3>1 DEF Begin, Latest
    <2> QED
      BY <2>1, <2>2
  <1>10. ASSUME NEW r \in Roles, Read(r) PROVE Latest'
    <2>1. CASE Retry
      BY <2>1, RetryLatest DEF Retry
    <2>2. CASE ~Retry
      <3>1. /\ rec'.pc = "read" /\ rec.pc = "read" /\ rec'.req = rec.req
            /\ UNCHANGED <<due, requestCache>>
        BY <1>10, <2>2 DEF Read, Verifying
      <3> QED
        BY <3>1 DEF Latest
    <2> QED
      BY <2>1, <2>2
  <1>11. CASE Reject \/ StoreConflicts \/ ReconcileFails
    BY <1>11, RetryLatest DEF Reject, StoreConflicts, ReconcileFails, Retry
  <1>12. CASE Generate
    <2> DEFINE data == DataOf(rec.req, rec.got, NewSerial)
    <2>1. rec' = [rec EXCEPT !.pc = "lookup", !.data = data]
      BY <1>12 DEF Generate
    <2>2. ASSUME rec.req.type \in DrawnTypes, NEW d \in {target, targetCache}
          PROVE  Unlike(data, d)
      BY <1>12, <2>2, DrawnData, DrawnSerial DEF Generate, Unlike
    <2> HIDE DEF data
    <2>3. rec'.pc = "lookup" /\ rec'.req = rec.req /\ rec'.data = data
      BY <2>1 DEF Verifying
    <2> QED
      BY <1>12, <2>2, <2>3 DEF Generate, Valid, Latest, Unlike
  <1>13. CASE LookupTarget
    <2>1. CASE targetCache # NoData /\ ~Differs(rec.data, targetCache)
      <3>1. rec.req.type \notin DrawnTypes
        BY <1>13, <2>1 DEF LookupTarget, Differs, Latest, Unlike
      <3>2. rec.req.type # "unknown"
        BY <1>13 DEF LookupTarget, Latest
      <3> QED
        BY <1>13, <2>1, <3>1, <3>2, IdleShape DEF LookupTarget, Done, Latest
    <2>2. CASE ~(targetCache # NoData /\ ~Differs(rec.data, targetCache))
      <3>1. /\ rec'.pc \in {"create", "update"} /\ rec'.req = rec.req
            /\ rec.pc = "lookup"
        BY <1>13, <2>2 DEF LookupTarget, Verifying
      <3> QED
        BY <1>13, <2>2, <3>1 DEF LookupTarget, Latest
    <2> QED
      BY <2>1, <2>2
  <1>14. CASE StoreTarget
    <2>1. CASE Done
      BY <1>14, <2>1, IdleShape DEF StoreTarget, Accepted, Done, Latest
    <2>2. CASE Retry
      BY <2>2, RetryLatest DEF Retry
    <2> QED
      BY <1>14, <2>1, <2>2 DEF StoreTarget
  <1> QED
    BY <1>1, <1>2, <1>3, <1>4, <1>5, <1>6, <1>7, <1>8, <1>9, <1>10, <1>11,
       <1>12, <1>13, <1>14
    DEF Next, Reconcile

\* LatestServed: when nothing is left to do, the secret was made for the
\* latest request, however edits, rotations, conflicts and lost answers
\* interleave with the reconcile.
THEOREM LatestRequestServed == Spec => []LatestServed
  <1>1. Init => Latest
    BY DEF Init, Idle, Latest
  <1>2. TypeOK /\ Latest => LatestServed
    BY IdleShape, CredentialsAssumption
    DEF TypeOK, Latest, LatestServed, Quiet, DrawnTypes, Request
  <1>3. Typed => TypeOK
    BY DEF Typed
  <1>4. Spec => []Typed
    BY InitTyped, TypedStep, InitVerifying, VerifyingStep, PTL DEF Spec
  <1>5. Spec => []Verifying
    BY InitVerifying, VerifyingStep, PTL DEF Spec
  <1> QED
    BY <1>1, <1>2, <1>3, <1>4, <1>5, LatestStep, PTL DEF Spec
=============================================================================
