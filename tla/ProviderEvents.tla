------------------------------ MODULE ProviderEvents ------------------------------
(***************************************************************************)
(* Correlation of provider events with the deliveries they are about.      *)
(*                                                                         *)
(* Two kinds of transaction meet here.  A recorder runs record_sent: it     *)
(* locks its delivery row, then the provider message id (an advisory lock), *)
(* checks the claim, completes the attempt and matches the events already   *)
(* stored for that id.  A hook runs ingest for a verified webhook: it locks *)
(* the message id, inserts the event or reads the one stored under its      *)
(* identity, looks for the delivery that was sent under the message id and  *)
(* adds the match; the foreign keys of a match take KEY SHARE on the        *)
(* delivery row, which waits for a FOR UPDATE.  PostgreSQL runs READ         *)
(* COMMITTED: a statement sees what was committed when it started, and a     *)
(* transaction's own writes show when it commits.                           *)
(*                                                                         *)
(* Left out: how a delivery gets to be accepted (InvoiceDelivery); clock    *)
(* readings (nothing compares them); signature checks, which happen before  *)
(* ingest.                                                                  *)
(***************************************************************************)
EXTENDS Naturals, FiniteSets

CONSTANTS
  Deliveries, Messages,   \* deliveries in progress, and the provider's ids
  Acceptances,            \* <<d, m>>: the provider accepted d and named it m
  Events,                 \* verified webhooks: [id, message, body] records
  Recorders, Hooks,       \* concurrent callers of record_sent and of ingest
  None,                   \* SQL NULL, no match, an empty slot
  Failures                \* may transactions fail?

EventIds == {v.id : v \in Events}

ASSUME ConstantsAssumption ==
  /\ None \notin Deliveries \cup Messages \cup Events
  /\ Acceptances \subseteq Deliveries \X Messages
  /\ \A v \in Events : v.message \in Messages \cup {None}
  /\ Recorders \cap Hooks = {}
  /\ Failures \in BOOLEAN

VARIABLES
  \* committed rows
  sent,         \* delivery -> the message id of its accepted attempt
  events,       \* event id -> the stored event
  matches,      \* event id -> the delivery it is matched to
  \* the callers, and what their transactions hold and have read
  pc,           \* caller -> where it is
  delivery,     \* recorder -> its delivery; hook -> the target it found
  message,      \* recorder -> the message id it records
  unmatched,    \* recorder -> the events its reconciliation read
  event,        \* hook -> the event it ingests
  inserted,     \* hook -> did its INSERT add the event row?
  acknowledged  \* events answered with success

committed == <<sent, events, matches>>
recorderVars == <<message, unmatched>>
hookVars == <<event, inserted>>
vars == <<committed, pc, delivery, recorderVars, hookVars, acknowledged>>

Callers == Recorders \cup Hooks

Init ==
  /\ sent = [d \in Deliveries |-> None]
  /\ events = [i \in EventIds |-> None]
  /\ matches = [i \in EventIds |-> None]
  /\ pc = [p \in Callers |-> "idle"]
  /\ delivery = [p \in Callers |-> None]
  /\ message = [r \in Recorders |-> None]
  /\ unmatched = [r \in Recorders |-> {}]
  /\ event = [h \in Hooks |-> None]
  /\ inserted = [h \in Hooks |-> FALSE]
  /\ acknowledged = {}

-----------------------------------------------------------------------------
(* Locks: who holds what follows from where the callers are. *)

HoldsRow(r, d) == r \in Recorders /\ delivery[r] = d /\ pc[r] # "idle"
HoldsKeyShare(h, d) == h \in Hooks /\ delivery[h] = d /\ pc[h] = "matched"

HoldsMessage(p, m) ==
  \/ p \in Recorders /\ message[p] = m /\ pc[p] \in {"holding", "reconciled"}
  \/ p \in Hooks /\ pc[p] \notin {"idle", "received"} /\ event[p].message = m

HoldsEvent(h, i) == inserted[h] /\ event[h].id = i

\* FOR UPDATE waits for KEY SHARE and for FOR UPDATE, KEY SHARE for the latter.
RowFree(d) == \A p \in Callers : ~HoldsRow(p, d) /\ ~HoldsKeyShare(p, d)

\* Mutant of MessageFree: neither side takes the advisory lock.
NoMessageLock(m) == TRUE

\* pg_advisory_xact_lock on the message id, held to the end of the transaction
MessageFree(m) == \A p \in Callers : ~HoldsMessage(p, m)

Goto(p, step) == pc' = [pc EXCEPT ![p] = step]

\* The transaction is over, committed or rolled back.
End(p) ==
  /\ Goto(p, "idle")
  /\ delivery' = [delivery EXCEPT ![p] = None]
  /\ IF p \in Recorders
       THEN /\ message' = [message EXCEPT ![p] = None]
            /\ unmatched' = [unmatched EXCEPT ![p] = {}]
            /\ UNCHANGED hookVars
       ELSE /\ event' = [event EXCEPT ![p] = None]
            /\ inserted' = [inserted EXCEPT ![p] = FALSE]
            /\ UNCHANGED recorderVars

-----------------------------------------------------------------------------
(* record_sent *)

RecordLock(r, d, m) ==
  /\ pc[r] = "idle"
  /\ <<d, m>> \in Acceptances
  /\ RowFree(d)
  /\ Goto(r, "locked")
  /\ delivery' = [delivery EXCEPT ![r] = d]
  /\ message' = [message EXCEPT ![r] = m]
  /\ UNCHANGED <<committed, unmatched, hookVars, acknowledged>>

RecordMessageLock(r) ==
  /\ pc[r] = "locked"
  /\ MessageFree(message[r])
  /\ Goto(r, "holding")
  /\ UNCHANGED <<committed, delivery, recorderVars, hookVars, acknowledged>>

\* The claim is still open, and no other attempt has the message id (unique).
CanSave(d, m) == sent[d] = None /\ \A e \in Deliveries : sent[e] # m

RecordRefused(r) ==
  /\ pc[r] = "holding"
  /\ ~CanSave(delivery[r], message[r])
  /\ End(r)
  /\ UNCHANGED <<committed, acknowledged>>

\* The stored events of a message id that have no match.
Unmatched(m) ==
  {i \in EventIds : events[i] # None /\ events[i].message = m /\ matches[i] = None}

\* save_sent and the query of reconcile_provider_events
Reconcile(r) ==
  /\ pc[r] = "holding"
  /\ CanSave(delivery[r], message[r])
  /\ unmatched' = [unmatched EXCEPT ![r] = Unmatched(message[r])]
  /\ Goto(r, "reconciled")
  /\ UNCHANGED <<committed, delivery, message, hookVars, acknowledged>>

\* Mutant of RecordCommit: the wrong id is written to the attempt.
RecordCommitWrongId(r) ==
  /\ pc[r] = "reconciled"
  /\ sent' = [sent EXCEPT ![delivery[r]] = delivery[r]]
  /\ matches' = [i \in EventIds |-> IF i \in unmatched[r] THEN delivery[r] ELSE matches[i]]
  /\ End(r)
  /\ UNCHANGED <<events, acknowledged>>

RecordCommit(r) ==
  /\ pc[r] = "reconciled"
  /\ sent' = [sent EXCEPT ![delivery[r]] = message[r]]
  /\ matches' = [i \in EventIds |-> IF i \in unmatched[r] THEN delivery[r] ELSE matches[i]]
  /\ End(r)
  /\ UNCHANGED <<events, acknowledged>>

-----------------------------------------------------------------------------
(* ingest *)

Receive(h, v) ==
  /\ pc[h] = "idle"
  /\ Goto(h, "received")
  /\ event' = [event EXCEPT ![h] = v]
  /\ UNCHANGED <<committed, delivery, recorderVars, inserted, acknowledged>>

HookMessageLock(h) ==
  /\ pc[h] = "received"
  /\ event[h].message = None \/ MessageFree(event[h].message)
  /\ Goto(h, "locked")
  /\ UNCHANGED <<committed, delivery, recorderVars, hookVars, acknowledged>>

\* Mutant of SameEvent: the stored event is found by its identity alone.
SameIdentity(v, w) == v.id = w.id

\* _same_immutable_event: everything but our id and receipt time agrees.
SameEvent(v, w) == v = w

\* INSERT ... ON CONFLICT DO NOTHING waits for an uncommitted row of the same
\* identity; without a stored one it inserts.
HookInsert(h) ==
  /\ pc[h] = "locked"
  /\ \A g \in Hooks : ~HoldsEvent(g, event[h].id)
  /\ events[event[h].id] = None
  /\ inserted' = [inserted EXCEPT ![h] = TRUE]
  /\ Goto(h, "stored")
  /\ UNCHANGED <<committed, delivery, recorderVars, event, acknowledged>>

HookExisting(h) ==
  /\ pc[h] = "locked"
  /\ events[event[h].id] # None
  /\ SameEvent(events[event[h].id], event[h])
  /\ Goto(h, "stored")
  /\ UNCHANGED <<committed, delivery, recorderVars, hookVars, acknowledged>>

HookConflict(h) ==
  /\ pc[h] = "locked"
  /\ events[event[h].id] # None
  /\ ~SameEvent(events[event[h].id], event[h])
  /\ End(h)
  /\ UNCHANGED <<committed, acknowledged>>

\* Mutant of HookTarget: an attempt need not be recorded as sent to be found.
HookTargetUnsent(h) ==
  /\ pc[h] = "stored"
  /\ matches[event[h].id] = None
  /\ \E d \in Deliveries :
       /\ <<d, event[h].message>> \in Acceptances
       /\ delivery' = [delivery EXCEPT ![h] = d]
  /\ Goto(h, "targeted")
  /\ UNCHANGED <<committed, recorderVars, hookVars, acknowledged>>

\* get_match and find_delivery_target
HookTarget(h) ==
  /\ pc[h] = "stored"
  /\ matches[event[h].id] = None
  /\ \E d \in Deliveries :
       /\ sent[d] # None /\ sent[d] = event[h].message
       /\ delivery' = [delivery EXCEPT ![h] = d]
  /\ Goto(h, "targeted")
  /\ UNCHANGED <<committed, recorderVars, hookVars, acknowledged>>

HookNoTarget(h) ==
  /\ pc[h] = "stored"
  /\ \/ matches[event[h].id] # None
     \/ event[h].message = None
     \/ \A d \in Deliveries : sent[d] # event[h].message
  /\ Goto(h, "ready")
  /\ UNCHANGED <<committed, delivery, recorderVars, hookVars, acknowledged>>

\* add_match: its foreign key locks the delivery row against deletion.
HookAddMatch(h) ==
  /\ pc[h] = "targeted"
  /\ \A r \in Recorders : ~HoldsRow(r, delivery[h])
  /\ Goto(h, "matched")
  /\ UNCHANGED <<committed, delivery, recorderVars, hookVars, acknowledged>>

HookCommit(h) ==
  /\ pc[h] \in {"ready", "matched"}
  /\ events' = [events EXCEPT ![event[h].id] = IF inserted[h] THEN event[h] ELSE @]
  /\ matches' = [matches EXCEPT ![event[h].id] = IF pc[h] = "matched" THEN delivery[h] ELSE @]
  /\ acknowledged' = acknowledged \cup {event[h]}
  /\ End(h)
  /\ UNCHANGED sent

-----------------------------------------------------------------------------
(* Rollbacks *)

\* p cannot go on before q's transaction ends.
WaitsFor(p, q) ==
  \/ p \in Recorders /\ pc[p] = "locked" /\ HoldsMessage(q, message[p])
  \/ p \in Hooks /\ pc[p] = "received" /\ event[p].message # None
       /\ HoldsMessage(q, event[p].message)
  \/ p \in Hooks /\ q \in Hooks /\ pc[p] = "locked" /\ HoldsEvent(q, event[p].id)
  \/ p \in Hooks /\ pc[p] = "targeted" /\ HoldsRow(q, delivery[p])

\* Callers of which each waits for another and is waited for.
Deadlocked(P) == \A p \in P : \E q, o \in P : WaitsFor(p, q) /\ WaitsFor(o, p)

\* PostgreSQL ends a deadlock by failing one of its transactions.
DeadlockAbort(p) ==
  /\ \E P \in SUBSET Callers : p \in P /\ Deadlocked(P)
  /\ End(p)
  /\ UNCHANGED <<committed, acknowledged>>

TransactionFails(p) ==
  /\ Failures
  /\ pc[p] # "idle"
  /\ End(p)
  /\ UNCHANGED <<committed, acknowledged>>

-----------------------------------------------------------------------------
RecordSent(r) ==
  \/ \E d \in Deliveries, m \in Messages : RecordLock(r, d, m)
  \/ RecordMessageLock(r) \/ RecordRefused(r) \/ Reconcile(r) \/ RecordCommit(r)

Ingest(h) ==
  \/ \E v \in Events : Receive(h, v)
  \/ HookMessageLock(h) \/ HookInsert(h) \/ HookExisting(h) \/ HookConflict(h)
  \/ HookTarget(h) \/ HookNoTarget(h) \/ HookAddMatch(h) \/ HookCommit(h)

Next ==
  \/ \E r \in Recorders : RecordSent(r)
  \/ \E h \in Hooks : Ingest(h)
  \/ \E p \in Callers : DeadlockAbort(p) \/ TransactionFails(p)

Spec == Init /\ [][Next]_vars

-----------------------------------------------------------------------------
(* Properties *)

RecorderSteps == {"idle", "locked", "holding", "reconciled"}
HookSteps == {"idle", "received", "locked", "stored", "targeted", "ready", "matched"}

TypeOK ==
  /\ sent \in [Deliveries -> Messages \cup {None}]
  /\ events \in [EventIds -> Events \cup {None}]
  /\ matches \in [EventIds -> Deliveries \cup {None}]
  /\ pc \in [Callers -> RecorderSteps \cup HookSteps]
  /\ \A r \in Recorders : pc[r] \in RecorderSteps
  /\ \A h \in Hooks : pc[h] \in HookSteps
  /\ delivery \in [Callers -> Deliveries \cup {None}]
  /\ message \in [Recorders -> Messages \cup {None}]
  /\ unmatched \in [Recorders -> SUBSET EventIds]
  /\ event \in [Hooks -> Events \cup {None}]
  /\ inserted \in [Hooks -> BOOLEAN]
  /\ acknowledged \subseteq Events

\* Once a delivery is recorded as sent under a message id and an event with that
\* id is stored, they are matched, in whichever order and however closely the
\* two transactions ran (docs/billing-rules.md:120).
Correlated ==
  \A i \in EventIds, d \in Deliveries :
    events[i] # None /\ sent[d] # None /\ sent[d] = events[i].message => matches[i] = d

\* A match joins a stored event with the delivery sent under its message id.
\* This and the next are proved by name; a run has them within ImplementsLedger.
MatchesAreTrue ==
  \A i \in EventIds : matches[i] # None =>
    /\ events[i] # None
    /\ sent[matches[i]] # None /\ sent[matches[i]] = events[i].message

\* A webhook answered with success is stored exactly as it was verified, and
\* stays so: a second event under its identity never replaces it.
AcknowledgedIsStored == \A v \in acknowledged : events[v.id] = v

\* The three kinds of lock (delivery row, message id, event identity) are waited
\* for in a circle only if someone repeats record_sent for a delivery that is
\* recorded already: record_sent and ingest take the first two in opposite
\* orders, but ingest reaches for a row only once its delivery is sent.
OnlyRepeatsDeadlock ==
  \A P \in SUBSET Callers : P # {} /\ Deadlocked(P) =>
    \E r \in P \cap Recorders : sent[delivery[r]] # None

\* However transactions overlap, what they commit is what one transaction after
\* the other would have: every acceptance and every event takes effect at one
\* instant, with all the matches it makes (docs/billing-rules.md:118-120).
Ledger == INSTANCE EventLedger
ImplementsLedger == Ledger!Spec
=============================================================================
