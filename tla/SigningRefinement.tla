------------------------- MODULE SigningRefinement -------------------------
(* The controllers and the signer of CertificateSigning implement          *)
(* SigningService.                                                         *)
EXTENDS CertificateSigning

\* How far a request has come, as its status tells.
StageOf(c) == IF c.issued THEN "issued"
              ELSE IF c.approved THEN "approved"
              ELSE IF c = NoCsr THEN "none" ELSE "made"

\* What a secret of the user's has is nobody's key and certificate.
ContentOf(t) == [key |-> t.key, cert |-> t.cert]

\* No keys mixed up, and one QuarksSecret.
Promised == mixups = {} /\ spent["delete"] = 0

Service == INSTANCE SigningService
             WITH promised <- Promised, key <- keySecret.key,
                  request <- csr.key, stage <- StageOf(csr),
                  secret <- ContentOf(target)

\* Two controllers with late caches, conflicts, failing calls and restarts, and
\* a signer, behave as if one of them did it all: in particular the certificate
\* is merged with the key it was issued for while both are stored, nothing
\* is stored or requested twice, and nothing goes before it is merged.
SigningServiceKept == Service!Spec
=============================================================================
