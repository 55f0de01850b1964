--------------------------- MODULE SigningService ---------------------------
(***************************************************************************)
(* What the QuarksSecret controller, the CSR controller and the signer     *)
(* promise together about a certificate, as long as they mix up no keys:   *)
(* a new key is stored, perhaps in the place of one nothing was requested  *)
(* for, a request for that key is made, approved and issued, key and       *)
(* certificate are put into the secret in one step while both are still    *)
(* stored, and only then deleted, first the key, then the request.  Any    *)
(* step may be the last.                                                   *)
(***************************************************************************)
EXTENDS Naturals

VARIABLES
  promised,  \* no keys were mixed up, and the object was never deleted
  key,       \* the private key stored for the request; 0 is none
  request,   \* the key a certificate is requested for
  stage,     \* of the request
  secret     \* the key in the secret, and the one its certificate is for

vars == <<promised, key, request, stage, secret>>

Init == /\ promised = TRUE
        /\ key = 0 /\ request = 0 /\ stage = "none"
        /\ secret = [key |-> 0, cert |-> 0]

StoreKey ==
  /\ request = 0
  /\ key' \notin {0, secret.key}
  /\ UNCHANGED <<request, stage, secret>>

\* Without a key where a user's secret is: nobody will need it.
MakeRequest ==
  /\ request = 0
  /\ request' \notin {0, secret.cert} /\ key \in {0, request'}
  /\ stage' = "made"
  /\ UNCHANGED <<key, secret>>

Approve == /\ stage = "made" /\ stage' = "approved"
           /\ UNCHANGED <<key, request, secret>>

Issue == /\ stage = "approved" /\ stage' = "issued"
         /\ UNCHANGED <<key, request, secret>>

Merge ==
  /\ stage = "issued" /\ key = request /\ secret.cert # request
  /\ secret' = [key |-> key, cert |-> request]
  /\ UNCHANGED <<key, request, stage>>

ForgetKey ==
  /\ stage = "issued" /\ key # 0 /\ secret = [key |-> key, cert |-> request]
  /\ key' = 0
  /\ UNCHANGED <<request, stage, secret>>

ForgetRequest ==
  /\ stage = "issued" /\ key = 0 /\ secret.cert = request
  /\ request' = 0 /\ stage' = "none"
  /\ UNCHANGED <<key, secret>>

Serve == \/ StoreKey \/ MakeRequest \/ Approve \/ Issue \/ Merge
         \/ ForgetKey \/ ForgetRequest

\* Keys mixed up, or the object deleted: nothing is promised any more.
Withdraw == ~promised'

Next == Withdraw \/ (Serve /\ UNCHANGED promised)

Spec == Init /\ [][Next]_vars
=============================================================================
