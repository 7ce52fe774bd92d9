---------------------------- MODULE DeliveryLifecycle ----------------------------
(***************************************************************************)
(* What the delivery module promises about one logical delivery, without   *)
(* workers, claims, transactions or the provider's wire: a delivery is      *)
(* requested once, at most one email ever leaves for it, it is put back in *)
(* the queue or failed for good only if no email left, and it is called    *)
(* sent only if one did.                                                   *)
(*                                                                         *)
(* domain/invoice_deliveries.py gives the states; the promise itself is    *)
(* the reason RetryableEmailDeliveryError, DefinitiveEmailDeliveryError and *)
(* AmbiguousEmailDeliveryError are told apart in                           *)
(* application/email_provider.py.                                          *)
(***************************************************************************)
EXTENDS Naturals

CONSTANT Deliveries

VARIABLES phase,   \* the state a client of the API reads
          mailed   \* how many emails the provider has accepted

vars == <<phase, mailed>>

States == {"absent", "pending", "in_progress", "sent", "failed"}

Init ==
  /\ phase = [d \in Deliveries |-> "absent"]
  /\ mailed = [d \in Deliveries |-> 0]

Move(d, from, to) ==
  /\ phase[d] = from
  /\ phase' = [phase EXCEPT ![d] = to]
  /\ UNCHANGED mailed

Request(d) == Move(d, "absent", "pending")

Claim(d) == Move(d, "pending", "in_progress")

\* The provider takes the email: only for a claimed delivery, and once.
Mail(d) ==
  /\ phase[d] = "in_progress"
  /\ mailed[d] = 0
  /\ mailed' = [mailed EXCEPT ![d] = 1]
  /\ UNCHANGED phase

\* Back to the queue, or failed for good: nothing left for the client.
Retry(d)  == mailed[d] = 0 /\ Move(d, "in_progress", "pending")
Reject(d) == mailed[d] = 0 /\ Move(d, "in_progress", "failed")

Accept(d) == mailed[d] = 1 /\ Move(d, "in_progress", "sent")

Next == \E d \in Deliveries :
          Request(d) \/ Claim(d) \/ Mail(d) \/ Retry(d) \/ Reject(d) \/ Accept(d)

Spec == Init /\ [][Next]_vars
=============================================================================
