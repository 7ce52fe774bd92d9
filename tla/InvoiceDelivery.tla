----------------------------- MODULE InvoiceDelivery -----------------------------
(***************************************************************************)
(* The delivery module: durable delivery rows and their attempts, the      *)
(* workers that claim and send them, and the email provider.               *)
(*                                                                         *)
(* A use case of InvoiceDeliveryService or InvoiceDeliverySender is one    *)
(* database transaction that first locks its delivery row (FOR UPDATE, or  *)
(* FOR UPDATE SKIP LOCKED to claim) and decides on what it read under the  *)
(* lock.  It is two steps here, so that every other worker can move while  *)
(* it is open: a ...Lock step takes the lock, reads and decides; a step     *)
(* named after the save writes and commits.  A failure between the two     *)
(* rolls back.  The call to the provider lies between two transactions.    *)
(*                                                                         *)
(* Left out: workspaces (each is its own copy of this state); the clock     *)
(* checks, the artifact check and constraint violations (each raises in a  *)
(* transaction, which WorkerFails covers); attempt_count (the length of    *)
(* the history under the lock; DeliveryReads has it).                      *)
(***************************************************************************)
EXTENDS Naturals, Sequences

CONSTANTS
  Deliveries,   \* logical deliveries, one per approval
  Workers,      \* callers of claim_next and send_claimed
  AttemptIds,   \* claim tokens (uuid4)
  Contents,     \* InvoiceEmailContent values callers prepare
  Instants,     \* clock readings for requested_at
  None,         \* SQL NULL, and a worker's empty slot
  TokenReuse,   \* may send_claimed be called again with a token once claimed?
  KeyExpires,   \* may the provider forget an idempotency key?
  Failures      \* may workers crash and transactions fail?

ASSUME ConstantsAssumption ==
  /\ None \notin Deliveries \cup AttemptIds \cup Contents
  /\ Instants \subseteq Nat
  /\ TokenReuse \in BOOLEAN /\ KeyExpires \in BOOLEAN /\ Failures \in BOOLEAN

VARIABLES
  \* the database
  state,        \* delivery -> its state column, "absent" before the row exists
  active,       \* delivery -> active_attempt_id
  message,      \* delivery -> the message snapshot columns
  requestedAt,  \* delivery -> requested_at
  attempts,     \* delivery -> its attempt rows, in sequence order
  \* the workers
  pc,           \* worker -> where it is
  job,          \* worker -> the delivery it works on
  token,        \* worker -> the attempt id it holds
  content,      \* worker -> the content it was given to send
  answer,       \* worker -> what the provider answered
  \* the provider
  emails,       \* delivery -> the emails accepted under its key, in order
  remembered,   \* delivery -> which of them its key still stands for, 0 if none
  wire          \* requests the provider may still take with no caller waiting

rowVars == <<state, active, message, requestedAt, attempts>>
workerVars == <<pc, job, token, content, answer>>
providerVars == <<emails, remembered, wire>>
vars == <<rowVars, workerVars, providerVars>>

States == {"absent", "pending", "in_progress", "sent", "failed"}
Outcomes == {"open", "sent", "failed", "rejected", "ambiguous"}

\* messageId = n stands for the provider's id of the delivery's n-th email.
Attempts == [id : AttemptIds, outcome : Outcomes, messageId : Nat]
Answers == [kind : {"none", "accepted", "retryable", "definitive", "ambiguous"},
            messageId : Nat]
NoAnswer == [kind |-> "none", messageId |-> 0]

InTransaction == {"claiming", "preparing", "recording"}
Steps == {"idle", "claimed", "sending", "answered"} \cup InTransaction

Init ==
  /\ state = [d \in Deliveries |-> "absent"]
  /\ active = [d \in Deliveries |-> None]
  /\ message = [d \in Deliveries |-> None]
  /\ requestedAt = [d \in Deliveries |-> 0]
  /\ attempts = [d \in Deliveries |-> <<>>]
  /\ pc = [w \in Workers |-> "idle"]
  /\ job = [w \in Workers |-> None]
  /\ token = [w \in Workers |-> None]
  /\ content = [w \in Workers |-> None]
  /\ answer = [w \in Workers |-> NoAnswer]
  /\ emails = [d \in Deliveries |-> <<>>]
  /\ remembered = [d \in Deliveries |-> 0]
  /\ wire = {}

-----------------------------------------------------------------------------
Last(d) == attempts[d][Len(attempts[d])]

\* Mutant of RowLocked: plain SELECT instead of FOR UPDATE (SKIP LOCKED).
NeverLocked(d) == FALSE

RowLocked(d) == \E w \in Workers : job[w] = d /\ pc[w] \in InTransaction

\* Mutant of HoldsClaim: an attempt completed as ambiguous is still claimable.
HoldsClaimAnyOutcome(d, a) ==
  /\ state[d] = "in_progress"
  /\ active[d] = a
  /\ Len(attempts[d]) > 0
  /\ Last(d).id = a

\* Mutant of HoldsClaim: the token is compared with the first attempt.
HoldsFirstClaim(d, a) ==
  /\ state[d] = "in_progress"
  /\ active[d] = a
  /\ Len(attempts[d]) > 0
  /\ attempts[d][1].id = a
  /\ attempts[d][1].outcome = "open"

\* _active_attempt: the token is the delivery's active claim and still open.
HoldsClaim(d, a) ==
  /\ state[d] = "in_progress"
  /\ active[d] = a
  /\ Len(attempts[d]) > 0
  /\ Last(d).id = a
  /\ Last(d).outcome = "open"

Fresh(a) == \A d \in Deliveries : \A i \in DOMAIN attempts[d] : attempts[d][i].id # a

Goto(w, step) == pc' = [pc EXCEPT ![w] = step]

\* The use case is over for this worker: it returned or raised.
Release(w) ==
  /\ Goto(w, "idle")
  /\ job' = [job EXCEPT ![w] = None]
  /\ token' = [token EXCEPT ![w] = None]
  /\ content' = [content EXCEPT ![w] = None]
  /\ answer' = [answer EXCEPT ![w] = NoAnswer]

-----------------------------------------------------------------------------
(* Requesting and claiming *)

\* A request for an approval that has its delivery already changes nothing.
Request(d) ==
  /\ state[d] = "absent"
  /\ state' = [state EXCEPT ![d] = "pending"]
  /\ \E t \in Instants : requestedAt' = [requestedAt EXCEPT ![d] = t]
  /\ UNCHANGED <<active, message, attempts, workerVars, providerVars>>

\* The oldest pending row no one has locked; equal times fall back on the
\* random row id, so either may come first.
Claimable(d) == state[d] = "pending" /\ ~RowLocked(d)

ClaimLock(w, d) ==
  /\ pc[w] = "idle"
  /\ Claimable(d)
  /\ \A e \in Deliveries : Claimable(e) => requestedAt[d] <= requestedAt[e]
  /\ Goto(w, "claiming")
  /\ job' = [job EXCEPT ![w] = d]
  /\ UNCHANGED <<rowVars, token, content, answer, providerVars>>

SaveClaim(w, a) ==
  /\ pc[w] = "claiming"
  /\ Fresh(a)
  /\ LET d == job[w] IN
       /\ state' = [state EXCEPT ![d] = "in_progress"]
       /\ active' = [active EXCEPT ![d] = a]
       /\ attempts' = [attempts EXCEPT ![d] =
                         Append(@, [id |-> a, outcome |-> "open", messageId |-> 0])]
  /\ Goto(w, "claimed")
  /\ token' = [token EXCEPT ![w] = a]
  /\ UNCHANGED <<message, requestedAt, job, content, answer, providerVars>>

\* send_claimed called once more with a token claim_next gave out earlier.
Resume(w, d, a) ==
  /\ TokenReuse
  /\ pc[w] = "idle"
  /\ \E i \in DOMAIN attempts[d] : attempts[d][i].id = a
  /\ Goto(w, "claimed")
  /\ job' = [job EXCEPT ![w] = d]
  /\ token' = [token EXCEPT ![w] = a]
  /\ UNCHANGED <<rowVars, content, answer, providerVars>>

-----------------------------------------------------------------------------
(* send_claimed: freeze the message, then call the provider *)

\* Mutants of CanPrepare: the message may change between attempts; a message
\* may be prepared only once.
CanPrepareAny(w, c) == HoldsClaim(job[w], token[w])
CanPrepareOnce(w, c) == HoldsClaim(job[w], token[w]) /\ message[job[w]] = None

CanPrepare(w, c) ==
  /\ HoldsClaim(job[w], token[w])
  /\ message[job[w]] \in {None, c}

PrepareLock(w, c) ==
  /\ pc[w] = "claimed"
  /\ ~RowLocked(job[w])
  /\ CanPrepare(w, c)
  /\ Goto(w, "preparing")
  /\ content' = [content EXCEPT ![w] = c]
  /\ UNCHANGED <<rowVars, job, token, answer, providerVars>>

\* Stale token or another message than the frozen one: send_claimed raises.
PrepareRefused(w, c) ==
  /\ pc[w] = "claimed"
  /\ ~RowLocked(job[w])
  /\ ~CanPrepare(w, c)
  /\ Release(w)
  /\ UNCHANGED <<rowVars, providerVars>>

\* Mutant of SaveMessage: the claim token lands in the message columns.
SaveMessageWrongColumn(w) ==
  /\ pc[w] = "preparing"
  /\ message' = [message EXCEPT ![job[w]] = token[w]]
  /\ Goto(w, "sending")
  /\ UNCHANGED <<state, active, requestedAt, attempts,
                 job, token, content, answer, providerVars>>

SaveMessage(w) ==
  /\ pc[w] = "preparing"
  /\ message' = [message EXCEPT ![job[w]] = content[w]]
  /\ Goto(w, "sending")
  /\ UNCHANGED <<state, active, requestedAt, attempts,
                 job, token, content, answer, providerVars>>

-----------------------------------------------------------------------------
(* The provider *)

\* Mutant of KeyKnown: the Idempotency-Key header is not sent.
NoKey(d) == FALSE

\* Does the provider know the key?  provider_operation_key names the delivery,
\* not the attempt: "invoice-delivery/<d>".
KeyKnown(d) == remembered[d] # 0

Answered(w, kind, messageId) ==
  /\ Goto(w, "answered")
  /\ answer' = [answer EXCEPT ![w] = [kind |-> kind, messageId |-> messageId]]
  /\ UNCHANGED <<rowVars, job, token, content>>

NewEmail(d, c) ==
  /\ emails' = [emails EXCEPT ![d] = Append(@, c)]
  /\ remembered' = [remembered EXCEPT ![d] = Len(emails[d]) + 1]

\* 2xx with an email id, for a key the provider does not know
ProviderAccepts(w) ==
  /\ pc[w] = "sending"
  /\ ~KeyKnown(job[w])
  /\ NewEmail(job[w], content[w])
  /\ Answered(w, "accepted", Len(emails[job[w]]) + 1)
  /\ UNCHANGED wire

\* 2xx with the id of the email the key already stands for
ProviderReplays(w) ==
  /\ pc[w] = "sending"
  /\ KeyKnown(job[w])
  /\ emails[job[w]][remembered[job[w]]] = content[w]
  /\ Answered(w, "accepted", remembered[job[w]])
  /\ UNCHANGED providerVars

\* 429, or 409 while another request under the same key is being served
ProviderDefers(w) ==
  /\ pc[w] = "sending"
  /\ Answered(w, "retryable", 0)
  /\ UNCHANGED providerVars

\* any other 4xx, among them 409 for a key that stands for another payload
ProviderRejects(w) ==
  /\ pc[w] = "sending"
  /\ Answered(w, "definitive", 0)
  /\ UNCHANGED providerVars

\* The request is given up on without an answer that tells its fate: it is
\* lost, or the provider has it and may still take it.
LeavesWire(w) ==
  /\ \/ UNCHANGED wire
     \/ wire' = wire \cup {<<job[w], content[w]>>}
  /\ UNCHANGED <<emails, remembered>>

\* timeout, network loss, 408, 5xx, or a 2xx without an email id
ProviderSilent(w) ==
  /\ pc[w] = "sending"
  /\ Answered(w, "ambiguous", 0)
  /\ LeavesWire(w)

TakeFromWire(d, c) ==
  /\ <<d, c>> \in wire
  /\ wire' = wire \ {<<d, c>>}
  /\ IF KeyKnown(d) THEN UNCHANGED <<emails, remembered>> ELSE NewEmail(d, c)
  /\ UNCHANGED <<rowVars, workerVars>>

ForgetKey(d) ==
  /\ KeyExpires
  /\ KeyKnown(d)
  /\ remembered' = [remembered EXCEPT ![d] = 0]
  /\ UNCHANGED <<rowVars, workerVars, emails, wire>>

-----------------------------------------------------------------------------
(* Recording the outcome *)

RecordLock(w) ==
  /\ pc[w] = "answered"
  /\ ~RowLocked(job[w])
  /\ HoldsClaim(job[w], token[w])
  /\ Goto(w, "recording")
  /\ UNCHANGED <<rowVars, job, token, content, answer, providerVars>>

RecordStale(w) ==
  /\ pc[w] = "answered"
  /\ ~RowLocked(job[w])
  /\ ~HoldsClaim(job[w], token[w])
  /\ Release(w)
  /\ UNCHANGED <<rowVars, providerVars>>

\* Mutant of Completed: save_sent forgets the provider's message id.
CompletedWithoutId(w, outcome) ==
  [id |-> Last(job[w]).id, outcome |-> outcome, messageId |-> 0]

\* The attempt as a record_... use case completes it.
Completed(w, outcome) ==
  [id |-> Last(job[w]).id, outcome |-> outcome, messageId |-> answer[w].messageId]

\* The write every record_... use case shares: the open attempt is completed,
\* the row moves on and, unless ambiguous, gives up its active attempt.
Complete(w, kind, outcome, next) ==
  /\ pc[w] = "recording"
  /\ answer[w].kind = kind
  /\ LET d == job[w] IN
       /\ attempts' = [attempts EXCEPT ![d] =
                         [@ EXCEPT ![Len(@)] = Completed(w, outcome)]]
       /\ state' = [state EXCEPT ![d] = next]
       /\ active' = [active EXCEPT ![d] = IF next = "in_progress" THEN @ ELSE None]
  /\ Release(w)
  /\ UNCHANGED <<message, requestedAt, providerVars>>

SaveSent(w)      == Complete(w, "accepted", "sent", "sent")
SaveFailure(w)   == Complete(w, "retryable", "failed", "pending")
SaveRejection(w) == Complete(w, "definitive", "rejected", "failed")

\* Mutant of SaveAmbiguous: an unknown outcome is retried.
SaveAmbiguousRetried(w) == Complete(w, "ambiguous", "failed", "pending")
SaveAmbiguous(w) == Complete(w, "ambiguous", "ambiguous", "in_progress")

\* A crash, or an exception that is not one of the answers: an open
\* transaction rolls back, a request already made may still reach the
\* provider, and the token is gone.
WorkerFails(w) ==
  /\ Failures
  /\ pc[w] # "idle"
  /\ Release(w)
  /\ IF pc[w] = "sending" THEN LeavesWire(w) ELSE UNCHANGED providerVars
  /\ UNCHANGED rowVars

-----------------------------------------------------------------------------
Send(w) ==
  \/ \E c \in Contents : PrepareLock(w, c) \/ PrepareRefused(w, c)
  \/ SaveMessage(w)

Provider(w) ==
  \/ ProviderAccepts(w) \/ ProviderReplays(w) \/ ProviderDefers(w)
  \/ ProviderRejects(w) \/ ProviderSilent(w)

Record(w) ==
  \/ RecordLock(w) \/ RecordStale(w)
  \/ SaveSent(w) \/ SaveFailure(w) \/ SaveRejection(w) \/ SaveAmbiguous(w)

Claim(w) ==
  \/ \E d \in Deliveries : ClaimLock(w, d)
  \/ \E a \in AttemptIds : SaveClaim(w, a)

Next ==
  \/ \E d \in Deliveries : Request(d) \/ ForgetKey(d)
  \/ \E d \in Deliveries, c \in Contents : TakeFromWire(d, c)
  \/ \E w \in Workers :
       \/ Claim(w) \/ Send(w) \/ Provider(w) \/ Record(w) \/ WorkerFails(w)
       \/ \E d \in Deliveries, a \in AttemptIds : Resume(w, d, a)

Spec == Init /\ [][Next]_vars

\* A running worker keeps taking its own steps, and the HTTP timeout bounds how
\* long the provider keeps it waiting.
FairSpec ==
  Spec /\ \A w \in Workers :
            WF_vars(Send(w)) /\ WF_vars(Provider(w)) /\ WF_vars(Record(w))

-----------------------------------------------------------------------------
(* Properties *)

TypeOK ==
  /\ state \in [Deliveries -> States]
  /\ active \in [Deliveries -> AttemptIds \cup {None}]
  /\ message \in [Deliveries -> Contents \cup {None}]
  /\ requestedAt \in [Deliveries -> Nat]
  /\ attempts \in [Deliveries -> Seq(Attempts)]
  /\ pc \in [Workers -> Steps]
  /\ job \in [Workers -> Deliveries \cup {None}]
  /\ token \in [Workers -> AttemptIds \cup {None}]
  /\ content \in [Workers -> Contents \cup {None}]
  /\ answer \in [Workers -> Answers]
  /\ emails \in [Deliveries -> Seq(Contents)]
  /\ remembered \in [Deliveries -> Nat]
  /\ wire \subseteq Deliveries \X Contents

\* InvoiceDelivery.__post_init__, which every read of a row runs: a committed
\* row it refuses could never be read, claimed or completed again.  Every
\* attempt but the last is a retryable failure, and the state says how the
\* last one ended.
WellFormed(d) ==
  LET n == Len(attempts[d]) IN
  /\ \A i \in 1 .. n - 1 : attempts[d][i].outcome = "failed"
  /\ active[d] = IF state[d] = "in_progress" THEN Last(d).id ELSE None
  /\ state[d] = "absent"      => n = 0 /\ message[d] = None
  /\ state[d] = "pending"     => (n > 0 => Last(d).outcome = "failed")
  /\ state[d] = "in_progress" => n > 0 /\ Last(d).outcome \in {"open", "ambiguous"}
  /\ state[d] = "sent"        => n > 0 /\ Last(d).outcome = "sent"
  /\ state[d] = "failed"      => n > 0 /\ Last(d).outcome = "rejected"

\* Whatever transactions were open, failed or crashed, every committed row can
\* be read back (domain/invoice_deliveries.py, __post_init__).
RowsReload == \A d \in Deliveries : WellFormed(d)

\* A sent delivery names an email the provider really accepted, and that email
\* is the frozen message (record_sent, prepare_invoice_delivery_message).
SentIsBacked ==
  \A d \in Deliveries : state[d] = "sent" =>
    /\ Last(d).messageId \in 1 .. Len(emails[d])
    /\ emails[d][Last(d).messageId] = message[d]

\* All emails that leave for a delivery, also under different attempts, carry
\* one content: the snapshot frozen before the first call.
OneContentPerDelivery ==
  \A d \in Deliveries :
    /\ \A i \in 1 .. Len(emails[d]) : emails[d][i] = message[d]
    /\ \A c \in Contents : <<d, c>> \in wire => c = message[d]

\* No delivery is emailed twice.
AtMostOneEmail == \A d \in Deliveries : Len(emails[d]) <= 1

\* SKIP LOCKED hands a delivery to one caller: while one works on it no other
\* is given it, whoever crashed before.
ExclusiveWork == \A v, w \in Workers : job[v] = job[w] /\ job[v] # None => v = w

\* What an attempt ended with, the frozen message and a terminal state are
\* history: nothing rewrites them.
HistoryKept ==
  \A d \in Deliveries :
    /\ state[d] \in {"sent", "failed"} => state'[d] = state[d]
    /\ message[d] # None => message'[d] = message[d]
    /\ Len(attempts'[d]) >= Len(attempts[d])
    /\ \A i \in 1 .. Len(attempts[d]) :
         attempts[d][i].outcome # "open" => attempts'[d][i] = attempts[d][i]
HistoryIsFinal == [][HistoryKept]_vars

\* As long as no worker fails and callers prepare the same content for a retry,
\* an attempt without an outcome has a worker: no check of a token, no lock that
\* is waited for and no answer makes the last one that holds it give it up.
OpenHasWorker ==
  \A d \in Deliveries : \A i \in DOMAIN attempts[d] : attempts[d][i].outcome = "open" =>
    \E w \in Workers : job[w] = d /\ token[w] = attempts[d][i].id

\* An attempt, once claimed, gets an outcome, as long as no worker fails and
\* callers prepare the same content for a retry.
Open(a) == \E d \in Deliveries : \E i \in DOMAIN attempts[d] :
             attempts[d][i].id = a /\ attempts[d][i].outcome = "open"
EveryClaimIsDecided == \A a \in AttemptIds : Open(a) ~> ~Open(a)

\* The module implements what it promises about a delivery: no retry and no
\* final failure once an email may have left, sent only after one did, and
\* never a second one.
Lifecycle == INSTANCE DeliveryLifecycle
               WITH phase <- state, mailed <- [d \in Deliveries |-> Len(emails[d])]
ImplementsLifecycle == Lifecycle!Spec
=============================================================================
