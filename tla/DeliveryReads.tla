------------------------------ MODULE DeliveryReads ------------------------------
(***************************************************************************)
(* Reads of a delivery that take no lock, beside everything InvoiceDelivery *)
(* does: GET of a delivery, and a repeated request, which locks the         *)
(* approval but not the delivery row.  Such a read is two statements: the   *)
(* row, then its attempts.  Under READ COMMITTED each sees what is          *)
(* committed when it starts, so workers can commit in between; the read     *)
(* then reconstructs an InvoiceDelivery, which checks row against attempts  *)
(* and raises when they disagree.                                           *)
(*                                                                         *)
(* Left out: the columns no check compares with the attempts (message,      *)
(* requested_at) and sent_at, which follows the state.                      *)
(***************************************************************************)
EXTENDS InvoiceDelivery

CONSTANT Readers   \* callers of get and of a repeated request

ASSUME ReadersAssumption == None \notin Readers

VARIABLES
  reading,   \* reader -> the delivery it reads, None when it does not
  seen,      \* reader -> the row its first statement returned
  result     \* reader -> "none", or how its last read ended: "returned", "raised"

readVars == <<reading, seen, result>>

NoRow == [state |-> "absent", active |-> None, count |-> 0]

ReadInit ==
  /\ Init
  /\ reading = [r \in Readers |-> None]
  /\ seen = [r \in Readers |-> NoRow]
  /\ result = [r \in Readers |-> "none"]

-----------------------------------------------------------------------------
\* attempt_count counts the attempts that were committed with the row.
RowOf(d) == [state |-> state[d], active |-> active[d], count |-> Len(attempts[d])]

\* get_by_approval, get: the first statement
ReadDelivery(r, d) ==
  /\ reading[r] = None
  /\ state[d] # "absent"
  /\ reading' = [reading EXCEPT ![r] = d]
  /\ seen' = [seen EXCEPT ![r] = RowOf(d)]
  /\ UNCHANGED <<result, vars>>

Ended(history, outcomes) == {i \in 1 .. Len(history) : history[i].outcome \in outcomes}

\* Mutant of Reconstructs: row and attempts are not checked against each other.
AlwaysReconstructs(row, history) == TRUE

\* The count check of _delivery and InvoiceDelivery.__post_init__
Reconstructs(row, history) ==
  LET n == Len(history) IN
  /\ n = row.count
  /\ row.state # "in_progress" => row.active = None /\ Ended(history, {"open"}) = {}
  /\ row.state = "pending" =>
       Ended(history, {"sent", "rejected", "ambiguous"}) = {}
  /\ row.state = "in_progress" =>
       /\ Ended(history, {"open", "ambiguous"}) = {n}
       /\ n > 0 /\ row.active = history[n].id
       /\ Ended(history, {"sent", "rejected"}) = {}
  /\ row.state = "sent" => n > 0 /\ Ended(history, {"sent"}) = {n}
  /\ row.state = "failed" =>
       /\ n > 0 /\ Ended(history, {"rejected"}) = {n}
       /\ Ended(history, {"ambiguous", "sent"}) = {}

\* _delivery: the second statement and the reconstruction
ReadAttempts(r) ==
  /\ reading[r] # None
  /\ result' = [result EXCEPT ![r] =
                  IF Reconstructs(seen[r], attempts[reading[r]]) THEN "returned" ELSE "raised"]
  /\ reading' = [reading EXCEPT ![r] = None]
  /\ seen' = [seen EXCEPT ![r] = NoRow]
  /\ UNCHANGED vars

Read == \E r \in Readers : ReadAttempts(r) \/ \E d \in Deliveries : ReadDelivery(r, d)

ReadNext == (Next /\ UNCHANGED readVars) \/ Read

ReadSpec == ReadInit /\ [][ReadNext]_<<vars, readVars>>

-----------------------------------------------------------------------------
(* Properties *)

\* A read that returns tells the truth at the moment it returns: workers that
\* committed between its two statements cannot make it mix an old state or
\* claim with newer attempts.
ReturnedTrue ==
  \A r \in Readers : reading[r] # None /\ reading'[r] = None /\ result'[r] = "returned" =>
    /\ seen[r].state = state[reading[r]]
    /\ seen[r].active = active[reading[r]]
ReadsAreTrue == [][ReturnedTrue]_<<vars, readVars>>

\* A repeated request, or a read, of an existing delivery returns it
\* (docs/billing-rules.md:112, "repeating that exact request returns the
\* existing record unchanged").
RequestReturnsExisting == \A r \in Readers : result[r] # "raised"
=============================================================================
