-------------------------- MODULE DeliveryReads_proofs --------------------------
(***************************************************************************)
(* Proofs about DeliveryReads for every set of deliveries, workers and      *)
(* readers.                                                                *)
(*                                                                         *)
(* Readers disturb nothing, so what InvoiceDelivery_proofs shows holds      *)
(* beside them.  That a read which returns tells the truth rests on what    *)
(* can have happened to the row since the first statement: every claim adds *)
(* an attempt, so a history of the length seen means at most that the claim *)
(* seen has ended, and then its attempt is no longer open or ambiguous.     *)
(***************************************************************************)
EXTENDS DeliveryReads, InvoiceDelivery_proofs

(* The inductive invariant *)

ReadTypeOK ==
  /\ reading \in [Readers -> Deliveries \cup {None}]
  /\ seen \in [Readers -> [state : States, active : AttemptIds \cup {None}, count : Nat]]
  /\ result \in [Readers -> {"none", "returned", "raised"}]

\* The row that was seen is the row of now, or attempts have been added, or the
\* claim that was seen has ended.
SeenStands ==
  \A r \in Readers, d \in Deliveries : reading[r] = d =>
    /\ state[d] # "absent"
    /\ seen[r].count <= Len(attempts[d])
    /\ seen[r].count = Len(attempts[d]) =>
         \/ seen[r].state = state[d] /\ seen[r].active = active[d]
         \/ seen[r].state = "in_progress" /\ state[d] # "in_progress"

ReadInv == RowInv /\ ReadTypeOK /\ SeenStands

-----------------------------------------------------------------------------
(* Readers beside workers *)

\* What a step of InvoiceDelivery may do to a row that exists.
RowMoves ==
  \A d \in Deliveries : state[d] # "absent" =>
    /\ state'[d] # "absent"
    /\ Len(attempts'[d]) >= Len(attempts[d])
    /\ Len(attempts'[d]) = Len(attempts[d]) =>
         \/ state'[d] = state[d] /\ active'[d] = active[d]
         \/ state[d] = "in_progress" /\ state'[d] # "in_progress"

\* A claim adds an attempt to its delivery.
LEMMA SaveClaimMoves ==
  ASSUME RowInv, NEW w \in Workers, NEW a \in AttemptIds, SaveClaim(w, a)
  PROVE  RowMoves
<1>1. PICK d \in Deliveries : d = job[w]
  BY DEF RowInv, WorkerShape, TypeOK, SaveClaim
<1>2. attempts[d] \in Seq(Attempts) /\ Len(attempts[d]) \in Nat
  BY LenProperties DEF RowInv, TypeOK
<1>3. [id |-> a, outcome |-> "open", messageId |-> 0] \in Attempts
  BY DEF Attempts, Outcomes
<1>4. Len(attempts'[d]) = Len(attempts[d]) + 1 /\ state'[d] = "in_progress"
  BY <1>1, <1>2, <1>3, AppendLast DEF RowInv, TypeOK, SaveClaim
<1>5. \A e \in Deliveries \ {d} : /\ attempts'[e] = attempts[e] /\ state'[e] = state[e]
                                  /\ active'[e] = active[e] /\ Len(attempts[e]) \in Nat
  BY <1>1, LenProperties DEF RowInv, TypeOK, SaveClaim
<1>6. QED
  BY <1>2, <1>4, <1>5 DEF RowMoves

\* A completed attempt leaves the delivery claimed as it was, or ends the claim.
LEMMA CompleteMoves ==
  ASSUME RowInv, NEW w \in Workers, NEW kind, NEW outcome, NEW next,
         next # "absent", Complete(w, kind, outcome, next)
  PROVE  RowMoves
<1>1. PICK d \in Deliveries : d = job[w]
  BY DEF RowInv, WorkerShape, TypeOK, Complete
<1>2. /\ attempts[d] \in Seq(Attempts) /\ Len(attempts[d]) \in Nat /\ Len(attempts[d]) > 0
      /\ state[d] = "in_progress"
  BY <1>1, LenProperties DEF RowInv, TypeOK, UnderLock, HoldsClaim, Complete
<1>3. attempts'[d] = [attempts[d] EXCEPT ![Len(attempts[d])] = Completed(w, outcome)]
  BY <1>1 DEF RowInv, TypeOK, Complete
<1>4. Len(attempts'[d]) = Len(attempts[d])
  BY <1>2, <1>3
<1>5. /\ state'[d] = next
      /\ next = "in_progress" => active'[d] = active[d]
  BY <1>1 DEF RowInv, TypeOK, Complete
<1>6. \A e \in Deliveries \ {d} : /\ attempts'[e] = attempts[e] /\ state'[e] = state[e]
                                  /\ active'[e] = active[e] /\ Len(attempts[e]) \in Nat
  BY <1>1, LenProperties DEF RowInv, TypeOK, Complete
<1>7. QED
  BY <1>2, <1>4, <1>5, <1>6 DEF RowMoves

\* Every step of InvoiceDelivery moves rows like this.
LEMMA RowMovesStep == RowInv /\ [Next]_vars => RowMoves
<1> SUFFICES ASSUME RowInv, [Next]_vars PROVE RowMoves
  OBVIOUS
<1>1. \A d \in Deliveries : Len(attempts[d]) \in Nat
  BY LenProperties DEF RowInv, TypeOK
<1>2. ASSUME UNCHANGED <<state, active, attempts>> PROVE RowMoves
  BY <1>1, <1>2 DEF RowMoves
<1>3. ASSUME NEW d \in Deliveries, Request(d) PROVE RowMoves
  BY <1>1, <1>3 DEF RowInv, TypeOK, Request, RowMoves
<1>4. ASSUME NEW w \in Workers, NEW a \in AttemptIds, SaveClaim(w, a) PROVE RowMoves
  BY <1>4, SaveClaimMoves
<1>5. ASSUME NEW w \in Workers,
             SaveSent(w) \/ SaveFailure(w) \/ SaveRejection(w) \/ SaveAmbiguous(w)
      PROVE  RowMoves
  BY <1>5, CompleteMoves DEF SaveSent, SaveFailure, SaveRejection, SaveAmbiguous
<1>6. ASSUME NEW d \in Deliveries, NEW c \in Contents, TakeFromWire(d, c)
      PROVE  UNCHANGED <<state, active, attempts>>
  BY <1>6 DEF TakeFromWire, rowVars
<1>7. ASSUME NEW w \in Workers, Claim(w) PROVE RowMoves
  BY <1>2, <1>4, <1>7 DEF Claim, ClaimLock, rowVars
<1>8. ASSUME NEW w \in Workers, Send(w) PROVE UNCHANGED <<state, active, attempts>>
  BY <1>8 DEF Send, PrepareLock, PrepareRefused, SaveMessage, rowVars
<1>9. ASSUME NEW w \in Workers, Provider(w) PROVE UNCHANGED <<state, active, attempts>>
  BY <1>9 DEF Provider, ProviderAccepts, ProviderReplays, ProviderDefers, ProviderRejects,
     ProviderSilent, Answered, rowVars
<1>10. ASSUME NEW w \in Workers, Record(w) PROVE RowMoves
  BY <1>2, <1>5, <1>10 DEF Record, RecordLock, RecordStale, rowVars
<1>11. ASSUME NEW w \in Workers, WorkerFails(w) \/ \E d \in Deliveries, a \in AttemptIds : Resume(w, d, a)
       PROVE  UNCHANGED <<state, active, attempts>>
  BY <1>11 DEF WorkerFails, Resume, rowVars
<1>12. ASSUME Next PROVE RowMoves
  <2>1. CASE \E d \in Deliveries : Request(d) \/ ForgetKey(d)
    BY <1>2, <1>3, <2>1 DEF ForgetKey, rowVars
  <2>2. CASE \E d \in Deliveries, c \in Contents : TakeFromWire(d, c)
    BY <1>2, <1>6, <2>2
  <2>3. CASE \E w \in Workers :
               \/ Claim(w) \/ Send(w) \/ Provider(w) \/ Record(w) \/ WorkerFails(w)
               \/ \E d \in Deliveries, a \in AttemptIds : Resume(w, d, a)
    BY <1>2, <1>7, <1>8, <1>9, <1>10, <1>11, <2>3
  <2>4. QED
    BY <1>12, <2>1, <2>2, <2>3 DEF Next
<1>13. QED
  BY <1>2, <1>12 DEF vars, rowVars

\* No reader has begun.
LEMMA InitReadInv == ReadInit => ReadInv
<1> SUFFICES ASSUME ReadInit PROVE ReadInv
  OBVIOUS
<1>1. RowInv
  BY InitRowInv DEF ReadInit
<1>2. ReadTypeOK
  BY DEF ReadInit, ReadTypeOK, NoRow, States
<1>3. SeenStands
  BY ConstantsAssumption DEF ReadInit, SeenStands
<1>4. QED
  BY <1>1, <1>2, <1>3 DEF ReadInv

\* A step of InvoiceDelivery: the row seen stays, grows or loses its claim.
LEMMA WorkersKeepSeen ==
  ASSUME ReadInv, Next, UNCHANGED readVars
  PROVE  ReadInv'
<1>1. RowInv' /\ RowMoves
  BY RowInvStep, RowMovesStep DEF ReadInv
<1>2. ReadTypeOK'
  BY DEF ReadInv, ReadTypeOK, readVars
<1>3. SeenStands'
  <2> SUFFICES ASSUME NEW r \in Readers, NEW d \in Deliveries, reading[r] = d
               PROVE  /\ state'[d] # "absent"
                      /\ seen[r].count <= Len(attempts'[d])
                      /\ seen[r].count = Len(attempts'[d]) =>
                           \/ seen[r].state = state'[d] /\ seen[r].active = active'[d]
                           \/ seen[r].state = "in_progress" /\ state'[d] # "in_progress"
    BY DEF SeenStands, readVars
  <2>1. seen[r].count \in Nat /\ Len(attempts[d]) \in Nat /\ Len(attempts'[d]) \in Nat
    BY <1>1, LenProperties DEF ReadInv, ReadTypeOK, RowInv, TypeOK
  <2>2. /\ state[d] # "absent" /\ seen[r].count <= Len(attempts[d])
        /\ seen[r].count = Len(attempts[d]) =>
             \/ seen[r].state = state[d] /\ seen[r].active = active[d]
             \/ seen[r].state = "in_progress" /\ state[d] # "in_progress"
    BY DEF ReadInv, SeenStands
  <2>3. QED
    BY <1>1, <2>1, <2>2 DEF RowMoves
<1>4. QED
  BY <1>1, <1>2, <1>3 DEF ReadInv

\* The first statement sees the committed row.
LEMMA ReadDeliveryInv ==
  ASSUME ReadInv, NEW r \in Readers, NEW d \in Deliveries, ReadDelivery(r, d)
  PROVE  ReadInv'
<1> USE DEF ReadDelivery
<1>1. RowInv'
  BY RowInvStep DEF ReadInv
<1>2. /\ Len(attempts[d]) \in Nat /\ state[d] \in States /\ active[d] \in AttemptIds \cup {None}
      /\ UNCHANGED <<state, active, attempts>>
  BY LenProperties DEF ReadInv, RowInv, TypeOK, vars, rowVars
<1>3. /\ reading'[r] = d /\ seen'[r] = RowOf(d)
      /\ \A s \in Readers \ {r} : reading'[s] = reading[s] /\ seen'[s] = seen[s]
  BY DEF ReadInv, ReadTypeOK
<1>4. ReadTypeOK'
  BY <1>2 DEF ReadInv, ReadTypeOK, RowOf
<1>5. SeenStands'
  BY <1>2, <1>3 DEF ReadInv, SeenStands, RowOf
<1>6. QED
  BY <1>1, <1>4, <1>5 DEF ReadInv

\* The second statement ends the read.
LEMMA ReadAttemptsInv ==
  ASSUME ReadInv, NEW r \in Readers, ReadAttempts(r)
  PROVE  ReadInv'
<1> USE DEF ReadAttempts
<1>1. RowInv'
  BY RowInvStep DEF ReadInv
<1>2. reading'[r] = None /\ \A s \in Readers \ {r} : reading'[s] = reading[s] /\ seen'[s] = seen[s]
  BY DEF ReadInv, ReadTypeOK
<1>3. ReadTypeOK'
  BY DEF ReadInv, ReadTypeOK, NoRow, States
<1>4. SeenStands'
  BY <1>2, ConstantsAssumption DEF ReadInv, SeenStands, vars, rowVars
<1>5. QED
  BY <1>1, <1>3, <1>4 DEF ReadInv

\* Every step keeps the invariant.
LEMMA ReadInvStep == ReadInv /\ [ReadNext]_<<vars, readVars>> => ReadInv'
<1> SUFFICES ASSUME ReadInv, [ReadNext]_<<vars, readVars>> PROVE ReadInv'
  OBVIOUS
<1>1. CASE UNCHANGED <<vars, readVars>>
  <2>1. RowInv'
    BY <1>1, RowInvStep DEF ReadInv
  <2>2. QED
    BY <1>1, <2>1 DEF ReadInv, ReadTypeOK, SeenStands, readVars, vars, rowVars
<1>2. QED
  BY <1>1, WorkersKeepSeen, ReadDeliveryInv, ReadAttemptsInv DEF ReadNext, Read

-----------------------------------------------------------------------------
(* The theorems *)

\* Readers take no lock and write nothing: with them the workers and the provider
\* do what InvoiceDelivery says, so its theorems hold here too.
THEOREM ReadsDisturbNothing == ReadSpec => Spec
<1>1. ReadInit => Init
  BY DEF ReadInit
<1>2. [ReadNext]_<<vars, readVars>> => [Next]_vars
  BY DEF ReadNext, Read, ReadDelivery, ReadAttempts
<1>3. QED
  BY <1>1, <1>2, PTL DEF ReadSpec, Spec

\* The rows, and what each reader has seen of them.
THEOREM ReadInvariance == ReadSpec => []ReadInv
  BY InitReadInv, ReadInvStep, PTL DEF ReadSpec

\* An attempt of a claim that has ended is neither open nor ambiguous.
LEMMA EndedClaimsShow ==
  ASSUME RowInv, NEW d \in Deliveries, state[d] # "in_progress",
         Len(attempts[d]) \in Nat \ {0}
  PROVE  Last(d).outcome \notin {"open", "ambiguous"}
<1>1. WellFormed(d) /\ state[d] \in {"absent", "pending", "sent", "failed"}
  BY DEF RowInv, RowsReload, TypeOK, States
<1>2. /\ state[d] = "absent" => Len(attempts[d]) = 0
      /\ state[d] = "pending" => Last(d).outcome = "failed"
      /\ state[d] = "sent" => Last(d).outcome = "sent"
      /\ state[d] = "failed" => Last(d).outcome = "rejected"
  BY <1>1 DEF WellFormed
<1>3. QED
  BY <1>1, <1>2

\* A read that returns reports the state and the claim the delivery has at that
\* moment, whatever workers committed between its two statements.
THEOREM ReadsStayTrue == ReadSpec => ReadsAreTrue
<1>1. ASSUME ReadInv, [ReadNext]_<<vars, readVars>>
      PROVE  ReturnedTrue \/ UNCHANGED <<vars, readVars>>
  <2> SUFFICES ASSUME NEW r \in Readers, reading[r] # None, reading'[r] = None,
                      result'[r] = "returned", ReadNext
               PROVE  seen[r].state = state[reading[r]] /\ seen[r].active = active[reading[r]]
    BY <1>1 DEF ReturnedTrue
  <2>1. ReadAttempts(r)
    <3>1. \A s \in Readers, d \in Deliveries : ~ReadDelivery(s, d)
      BY <1>1, ConstantsAssumption DEF ReadInv, ReadTypeOK, ReadDelivery
    <3>2. \A s \in Readers : ReadAttempts(s) => s = r
      BY <1>1 DEF ReadInv, ReadTypeOK, ReadAttempts
    <3>3. QED
      BY <3>1, <3>2 DEF ReadNext, Read, readVars
  <2>2. PICK d \in Deliveries : d = reading[r]
    BY <1>1 DEF ReadInv, ReadTypeOK
  <2>3. Reconstructs(seen[r], attempts[d])
    BY <1>1, <2>1, <2>2 DEF ReadInv, ReadTypeOK, ReadAttempts
  <2>4. Len(attempts[d]) \in Nat /\ seen[r].count = Len(attempts[d])
    BY <1>1, <2>3, LenProperties DEF ReadInv, RowInv, TypeOK, Reconstructs
  <2>5. \/ seen[r].state = state[d] /\ seen[r].active = active[d]
        \/ seen[r].state = "in_progress" /\ state[d] # "in_progress"
    BY <1>1, <2>2, <2>4 DEF ReadInv, SeenStands
  <2>6. ~(seen[r].state = "in_progress" /\ state[d] # "in_progress")
    <3> SUFFICES ASSUME seen[r].state = "in_progress", state[d] # "in_progress" PROVE FALSE
      OBVIOUS
    <3>1. Len(attempts[d]) > 0 /\ Len(attempts[d]) \in Ended(attempts[d], {"open", "ambiguous"})
      BY <2>3 DEF Reconstructs
    <3>2. Last(d).outcome \in {"open", "ambiguous"}
      BY <3>1 DEF Ended, Last
    <3>3. QED
      BY <1>1, <2>4, <3>1, <3>2, EndedClaimsShow DEF ReadInv
  <2>7. QED
    BY <2>2, <2>5, <2>6
<1>2. QED
  BY <1>1, ReadInvariance, PTL DEF ReadSpec, ReadsAreTrue
=============================================================================
