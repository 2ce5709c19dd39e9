------------------------- MODULE AdmissionContract -------------------------
(***************************************************************************)
(* What the admission controller of app/core/admission.py promises to the  *)
(* chat handler, with the queue, the events and the semaphore left out: a  *)
(* request is outside, waits, runs, or is over; at most MaxActive requests *)
(* run together; a request that is over never comes back; and, where the   *)
(* bodies end, no request waits or runs forever.                           *)
(***************************************************************************)
EXTENDS Integers, FiniteSets

CONSTANTS Req,        \* the requests
          MaxActive   \* execution slots (SYN_MAX_ACTIVE_REQUESTS)

VARIABLE status       \* status[r]: where request r stands

Running == {r \in Req : status[r] = "running"}

Init == status = [r \in Req |-> "outside"]

(* The request is admitted, at once or after a wait, if a slot is free.    *)
Admit(r) ==
  /\ status[r] \in {"outside", "waiting"}
  /\ Cardinality(Running) < MaxActive
  /\ status' = [status EXCEPT ![r] = "running"]

(* The request finds no slot and stays in front of the door.               *)
Wait(r) ==
  /\ status[r] = "outside"
  /\ status' = [status EXCEPT ![r] = "waiting"]

(* The request is refused, gives up waiting, or gives its slot back.       *)
Leave(r) ==
  /\ status[r] # "over"
  /\ status' = [status EXCEPT ![r] = "over"]

Next == \E r \in Req : Admit(r) \/ Wait(r) \/ Leave(r)

(* Nobody has to arrive; whoever waits or runs must move on.               *)
Fairness == \A r \in Req : WF_status(status[r] # "outside" /\ Leave(r))

Spec == Init /\ [][Next]_status
FairSpec == Spec /\ Fairness
=============================================================================
