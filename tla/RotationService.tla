-------------------------- MODULE RotationService --------------------------
(***************************************************************************)
(* What the QuarksSecret controller and the rotation controller promise    *)
(* together about an object and its credentials: a request for new ones    *)
(* stands until it is answered or the object is gone, and an answer is     *)
(* given only for credentials made after the request and put in their      *)
(* place.  Attempts may be given up, and all of them are in a crash.       *)
(***************************************************************************)
CONSTANT QSecs

VARIABLES
  state,   \* of the object: what its status tells the user
  attempt  \* at new credentials, one at a time for each object

vars == <<state, attempt>>

States == {"absent", "fresh", "asked", "served"}

\* "outdated": the credentials were minted before the last request.
Attempts == {"none", "begun", "minted", "placed", "outdated"}

Init == /\ state = [q \in QSecs |-> "absent"]
        /\ attempt = [q \in QSecs |-> "none"]

Become(q, s) == state' = [state EXCEPT ![q] = s]
Advance(q, a) == attempt' = [attempt EXCEPT ![q] = a]

Create(q) == state[q] = "absent" /\ Become(q, "fresh") /\ UNCHANGED attempt

Delete(q) == state[q] # "absent" /\ Become(q, "absent") /\ UNCHANGED attempt

\* Whatever has been minted does not answer this request.
Ask(q) ==
  /\ state[q] # "absent"
  /\ Become(q, "asked")
  /\ Advance(q, IF attempt[q] \in {"minted", "placed"} THEN "outdated"
                                                       ELSE attempt[q])

Begin(q) == attempt[q] = "none" /\ Advance(q, "begun") /\ UNCHANGED state
Mint(q) == attempt[q] = "begun" /\ Advance(q, "minted") /\ UNCHANGED state

\* The secret holds them; or it is a user's, who is to be left alone.
Place(q) == attempt[q] = "minted" /\ Advance(q, "placed") /\ UNCHANGED state

Answer(q) ==
  /\ state[q] # "absent" /\ attempt[q] = "placed"
  /\ Become(q, "served") /\ Advance(q, "none")

GiveUp(q) == attempt[q] # "none" /\ Advance(q, "none") /\ UNCHANGED state

Crash == attempt' = [q \in QSecs |-> "none"] /\ UNCHANGED state

Next ==
  \/ \E q \in QSecs : \/ Create(q) \/ Delete(q) \/ Ask(q)
                      \/ Begin(q) \/ Mint(q) \/ Place(q)
                      \/ Answer(q) \/ GiveUp(q)
  \/ Crash

Spec == Init /\ [][Next]_vars
=============================================================================
