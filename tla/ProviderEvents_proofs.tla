------------------------- MODULE ProviderEvents_proofs -------------------------
(***************************************************************************)
(* Proofs about ProviderEvents for every set of deliveries, messages,       *)
(* events and concurrent transactions.                                     *)
(*                                                                         *)
(* A recorder and a hook each read what the other is about to write, so     *)
(* that every event finds its delivery is not inductive.  The inductive     *)
(* invariant EventInv adds what each lock protects until its transaction    *)
(* ends: the message lock, what a recorder read of the events and a hook of *)
(* the deliveries; the row lock, the open claim; the uncommitted insert,    *)
(* the identity of an event.                                               *)
(***************************************************************************)
EXTENDS ProviderEvents, TLAPS

(* The inductive invariant *)

\* A delivery row is locked by one recorder, a message id by one caller, the
\* identity of an uncommitted event by the hook that inserted it.
RowExclusive ==
  \A r, s \in Recorders : \A d \in Deliveries : HoldsRow(r, d) /\ HoldsRow(s, d) => r = s
MessageExclusive ==
  \A p, q \in Callers : \A m \in Messages : HoldsMessage(p, m) /\ HoldsMessage(q, m) => p = q
EventExclusive ==
  \A g, h \in Hooks : \A i \in EventIds : HoldsEvent(g, i) /\ HoldsEvent(h, i) => g = h

LocksExclusive == RowExclusive /\ MessageExclusive /\ EventExclusive

\* What a recorder read before its save still stands.
RecorderReads(r) ==
  /\ pc[r] # "idle" => delivery[r] \in Deliveries /\ message[r] \in Messages
  /\ pc[r] = "reconciled" =>
       CanSave(delivery[r], message[r]) /\ unmatched[r] = Unmatched(message[r])

\* The steps at which the event of a hook is stored, by it or before it.
Storing == {"stored", "targeted", "ready", "matched"}

\* What a hook stored and read still stands.
HookReads(h) ==
  /\ pc[h] # "idle" => event[h] \in Events
  /\ inserted[h] => pc[h] \in Storing /\ events[event[h].id] = None
  /\ pc[h] \in Storing /\ ~inserted[h] => events[event[h].id] = event[h]
  /\ pc[h] \in {"targeted", "matched"} =>
       /\ delivery[h] \in Deliveries
       /\ sent[delivery[h]] # None /\ sent[delivery[h]] = event[h].message
       /\ matches[event[h].id] = None
  /\ pc[h] = "ready" =>
       \/ matches[event[h].id] # None
       \/ event[h].message = None
       \/ \A d \in Deliveries : sent[d] # event[h].message

CallersRead == (\A r \in Recorders : RecorderReads(r)) /\ (\A h \in Hooks : HookReads(h))

\* No two deliveries are sent under one message id.
SentUnique == \A d, e \in Deliveries : sent[d] # None /\ sent[d] = sent[e] => d = e

RecordsTrue == SentUnique /\ Correlated /\ MatchesAreTrue /\ AcknowledgedIsStored

EventInv == TypeOK /\ LocksExclusive /\ CallersRead /\ RecordsTrue

-----------------------------------------------------------------------------
(* Steps of one caller that commit nothing *)

\* The transaction of p moved; the others' variables are as before.
OthersStay(p) ==
  /\ \A q \in Callers \ {p} : pc'[q] = pc[q] /\ delivery'[q] = delivery[q]
  /\ \A r \in Recorders \ {p} : message'[r] = message[r] /\ unmatched'[r] = unmatched[r]
  /\ \A h \in Hooks \ {p} : event'[h] = event[h] /\ inserted'[h] = inserted[h]

\* What p locks after its step no one else has locked.
LocksAlone(p) ==
  /\ \A d \in Deliveries : HoldsRow(p, d)' => \A r \in Recorders \ {p} : ~HoldsRow(r, d)
  /\ \A m \in Messages : HoldsMessage(p, m)' => \A q \in Callers \ {p} : ~HoldsMessage(q, m)
  /\ p \in Hooks =>
       \A i \in EventIds : HoldsEvent(p, i)' => \A h \in Hooks \ {p} : ~HoldsEvent(h, i)

\* Locks stay exclusive when the one caller that moves takes only free ones.
LEMMA LocksStayExclusive ==
  ASSUME EventInv, NEW p \in Callers, OthersStay(p), LocksAlone(p)
  PROVE  LocksExclusive'
<1> USE DEF Callers
<1>1. RowExclusive'
  <2>1. \A d \in Deliveries : \A r \in Recorders \ {p} : HoldsRow(r, d)' <=> HoldsRow(r, d)
    BY DEF OthersStay, HoldsRow
  <2>2. \A r, s \in Recorders : \A d \in Deliveries : HoldsRow(r, d)' /\ HoldsRow(s, d)' => r = s
    BY <2>1 DEF EventInv, LocksExclusive, RowExclusive, LocksAlone
  <2>3. QED
    BY <2>2 DEF RowExclusive
<1>2. MessageExclusive'
  <2>1. \A m \in Messages : \A q \in Callers \ {p} : HoldsMessage(q, m)' <=> HoldsMessage(q, m)
    BY DEF OthersStay, HoldsMessage
  <2>2. \A q, s \in Callers : \A m \in Messages :
          HoldsMessage(q, m)' /\ HoldsMessage(s, m)' => q = s
    BY <2>1 DEF EventInv, LocksExclusive, MessageExclusive, LocksAlone
  <2>3. QED
    BY <2>2 DEF MessageExclusive
<1>3. EventExclusive'
  <2>1. \A i \in EventIds : \A h \in Hooks \ {p} : HoldsEvent(h, i)' <=> HoldsEvent(h, i)
    BY DEF OthersStay, HoldsEvent
  <2>2. \A g, h \in Hooks : \A i \in EventIds : HoldsEvent(g, i)' /\ HoldsEvent(h, i)' => g = h
    BY <2>1 DEF EventInv, LocksExclusive, EventExclusive, LocksAlone
  <2>3. QED
    BY <2>2 DEF EventExclusive
<1>4. QED
  BY <1>1, <1>2, <1>3 DEF LocksExclusive

\* Nothing is committed: the others' reads stand, and so do the records.
LEMMA LocalStep ==
  ASSUME EventInv, NEW p \in Callers, OthersStay(p), LocksAlone(p), TypeOK',
         UNCHANGED <<committed, acknowledged>>,
         p \in Recorders => RecorderReads(p)', p \in Hooks => HookReads(p)'
  PROVE  EventInv'
<1>1. LocksExclusive'
  BY LocksStayExclusive
<1>2. CallersRead'
  <2>1. \A r \in Recorders \ {p} : RecorderReads(r)'
    BY DEF EventInv, CallersRead, RecorderReads, OthersStay, committed, CanSave, Unmatched, Callers
  <2>2. \A h \in Hooks \ {p} : HookReads(h)'
    BY DEF EventInv, CallersRead, HookReads, OthersStay, committed, Callers
  <2>3. QED
    BY <2>1, <2>2 DEF CallersRead
<1>3. RecordsTrue'
  BY DEF EventInv, RecordsTrue, SentUnique, Correlated, MatchesAreTrue, AcknowledgedIsStored, committed
<1>4. QED
  BY <1>1, <1>2, <1>3 DEF EventInv

\* A transaction that ends holds nothing.
LEMMA EndCall ==
  ASSUME EventInv, NEW p \in Callers, End(p)
  PROVE  /\ OthersStay(p) /\ LocksAlone(p)
         /\ pc'[p] = "idle" /\ (p \in Hooks => inserted'[p] = FALSE)
         /\ pc' \in [Callers -> RecorderSteps \cup HookSteps]
         /\ \A r \in Recorders : pc'[r] \in RecorderSteps
         /\ \A h \in Hooks : pc'[h] \in HookSteps
         /\ delivery' \in [Callers -> Deliveries \cup {None}]
         /\ message' \in [Recorders -> Messages \cup {None}]
         /\ unmatched' \in [Recorders -> SUBSET EventIds]
         /\ event' \in [Hooks -> Events \cup {None}]
         /\ inserted' \in [Hooks -> BOOLEAN]
<1> USE DEF End, Goto, EventInv
<1>1. /\ pc' \in [Callers -> RecorderSteps \cup HookSteps]
      /\ \A r \in Recorders : pc'[r] \in RecorderSteps
      /\ \A h \in Hooks : pc'[h] \in HookSteps
      /\ delivery' \in [Callers -> Deliveries \cup {None}]
  BY DEF TypeOK, RecorderSteps, HookSteps, Callers
<1>2. /\ message' \in [Recorders -> Messages \cup {None}]
      /\ unmatched' \in [Recorders -> SUBSET EventIds]
      /\ event' \in [Hooks -> Events \cup {None}]
      /\ inserted' \in [Hooks -> BOOLEAN]
  BY DEF TypeOK, recorderVars, hookVars
<1>3. pc'[p] = "idle" /\ (p \in Hooks => inserted'[p] = FALSE)
  BY ConstantsAssumption DEF TypeOK
<1>4. OthersStay(p)
  BY DEF OthersStay, TypeOK, recorderVars, hookVars, Callers
<1>5. LocksAlone(p)
  BY <1>3 DEF LocksAlone, HoldsRow, HoldsMessage, HoldsEvent
<1>6. QED
  BY <1>1, <1>2, <1>3, <1>4, <1>5

\* A transaction that ends without a commit: a refusal, a conflict, a deadlock, a failure.
LEMMA RollbackInv ==
  ASSUME EventInv, NEW p \in Callers, End(p), UNCHANGED <<committed, acknowledged>>
  PROVE  EventInv'
<1>1. TypeOK'
  BY EndCall DEF EventInv, TypeOK, committed
<1>2. p \in Recorders => RecorderReads(p)'
  BY EndCall DEF RecorderReads
<1>3. p \in Hooks => HookReads(p)'
  BY EndCall DEF HookReads, Storing
<1>4. QED
  BY <1>1, <1>2, <1>3, EndCall, LocalStep

\* What p holds before a step no one else holds.
LEMMA HeldAlone ==
  ASSUME EventInv, NEW p \in Callers
  PROVE  /\ \A d \in Deliveries : HoldsRow(p, d) => \A r \in Recorders \ {p} : ~HoldsRow(r, d)
         /\ \A m \in Messages : HoldsMessage(p, m) =>
              \A q \in Callers \ {p} : ~HoldsMessage(q, m)
         /\ p \in Hooks => \A i \in EventIds : HoldsEvent(p, i) =>
              \A h \in Hooks \ {p} : ~HoldsEvent(h, i)
<1>1. p \notin Recorders => \A d \in Deliveries : ~HoldsRow(p, d)
  BY DEF HoldsRow
<1>2. QED
  BY <1>1 DEF EventInv, LocksExclusive, RowExclusive, MessageExclusive, EventExclusive, Callers

-----------------------------------------------------------------------------
(* record_sent, before its commit *)

\* The row lock is taken only when no one has it.
LEMMA RecordLockInv ==
  ASSUME EventInv, NEW r \in Recorders, NEW d \in Deliveries, NEW m \in Messages, RecordLock(r, d, m)
  PROVE  EventInv'
<1> USE DEF RecordLock, Goto, hookVars
<1>1. TypeOK'
  BY DEF EventInv, TypeOK, Callers, RecorderSteps, HookSteps, committed
<1>2. pc'[r] = "locked" /\ delivery'[r] = d /\ message'[r] = m
  BY DEF EventInv, TypeOK, Callers
<1>3. OthersStay(r)
  BY DEF EventInv, TypeOK, OthersStay, Callers
<1>4. LocksAlone(r)
  BY <1>2, ConstantsAssumption DEF LocksAlone, HoldsRow, HoldsMessage, RowFree, Callers
<1>5. RecorderReads(r)'
  BY <1>2 DEF RecorderReads
<1>6. QED
  BY <1>1, <1>3, <1>4, <1>5, ConstantsAssumption, LocalStep DEF Callers

\* The message lock is taken only when no one has it.
LEMMA RecordMessageLockInv ==
  ASSUME EventInv, NEW r \in Recorders, RecordMessageLock(r)
  PROVE  EventInv'
<1> USE DEF RecordMessageLock, Goto, recorderVars, hookVars
<1>1. TypeOK'
  BY ConstantsAssumption DEF EventInv, TypeOK, Callers, RecorderSteps, HookSteps, committed
<1>2. pc[r] = "locked" /\ pc'[r] = "holding"
  BY DEF EventInv, TypeOK, Callers
<1>3. OthersStay(r)
  BY DEF EventInv, TypeOK, OthersStay, Callers
<1>4. LocksAlone(r)
  <2>1. \A d \in Deliveries : HoldsRow(r, d)' => HoldsRow(r, d)
    BY <1>2 DEF HoldsRow
  <2>2. \A n \in Messages : HoldsMessage(r, n)' => n = message[r]
    BY ConstantsAssumption DEF HoldsMessage
  <2>3. r \in Callers /\ r \notin Hooks
    BY ConstantsAssumption DEF Callers
  <2>4. QED
    BY <2>1, <2>2, <2>3, HeldAlone DEF LocksAlone, MessageFree
<1>5. RecorderReads(r)'
  BY <1>2 DEF RecorderReads, EventInv, CallersRead
<1>6. QED
  BY <1>1, <1>3, <1>4, <1>5, ConstantsAssumption, LocalStep DEF Callers

\* save_sent and the query see what is committed, which the locks keep so.
LEMMA ReconcileInv ==
  ASSUME EventInv, NEW r \in Recorders, Reconcile(r)
  PROVE  EventInv'
<1> USE DEF Reconcile, Goto, hookVars
<1>1. TypeOK'
  <2>1. Unmatched(message[r]) \in SUBSET EventIds
    BY DEF Unmatched
  <2>2. QED
    BY <2>1 DEF EventInv, TypeOK, Callers, RecorderSteps, HookSteps, committed
<1>2. pc[r] = "holding" /\ pc'[r] = "reconciled" /\ unmatched'[r] = Unmatched(message[r])
  BY DEF EventInv, TypeOK, Callers
<1>3. OthersStay(r)
  BY DEF EventInv, TypeOK, OthersStay, Callers
<1>4. LocksAlone(r)
  <2>1. \A d \in Deliveries : HoldsRow(r, d)' => HoldsRow(r, d)
    BY <1>2 DEF HoldsRow
  <2>2. \A n \in Messages : HoldsMessage(r, n)' => HoldsMessage(r, n)
    BY <1>2, ConstantsAssumption DEF HoldsMessage
  <2>3. r \in Callers /\ r \notin Hooks
    BY ConstantsAssumption DEF Callers
  <2>4. QED
    BY <2>1, <2>2, <2>3, HeldAlone DEF LocksAlone
<1>5. RecorderReads(r)'
  BY <1>2 DEF RecorderReads, EventInv, CallersRead, committed, CanSave, Unmatched
<1>6. QED
  BY <1>1, <1>3, <1>4, <1>5, ConstantsAssumption, LocalStep DEF Callers

-----------------------------------------------------------------------------
(* ingest, before its commit *)

\* A verified webhook arrives; it holds nothing yet.
LEMMA ReceiveInv ==
  ASSUME EventInv, NEW h \in Hooks, NEW v \in Events, Receive(h, v)
  PROVE  EventInv'
<1> USE DEF Receive, Goto, recorderVars
<1>1. TypeOK'
  BY ConstantsAssumption DEF EventInv, TypeOK, Callers, RecorderSteps, HookSteps, committed
<1>2. pc'[h] = "received" /\ event'[h] = v /\ inserted'[h] = FALSE
  <2>1. inserted[h] = FALSE
    BY DEF EventInv, TypeOK, CallersRead, HookReads, Storing
  <2>2. QED
    BY <2>1 DEF EventInv, TypeOK, Callers
<1>3. OthersStay(h)
  BY DEF EventInv, TypeOK, OthersStay, Callers
<1>4. LocksAlone(h)
  BY <1>2, ConstantsAssumption DEF LocksAlone, HoldsRow, HoldsMessage, HoldsEvent
<1>5. HookReads(h)'
  BY <1>2 DEF HookReads, Storing
<1>6. QED
  BY <1>1, <1>3, <1>4, <1>5, ConstantsAssumption, LocalStep DEF Callers

\* The hook takes the message lock; an event without a message id needs none.
LEMMA HookMessageLockInv ==
  ASSUME EventInv, NEW h \in Hooks, HookMessageLock(h)
  PROVE  EventInv'
<1> USE DEF HookMessageLock, Goto, recorderVars, hookVars
<1>1. TypeOK'
  BY ConstantsAssumption DEF EventInv, TypeOK, Callers, RecorderSteps, HookSteps, committed
<1>2. pc[h] = "received" /\ pc'[h] = "locked" /\ h \in Callers
  BY DEF EventInv, TypeOK, Callers
<1>3. OthersStay(h)
  BY DEF EventInv, TypeOK, OthersStay, Callers
<1>4. LocksAlone(h)
  <2>1. \A d \in Deliveries : ~HoldsRow(h, d)'
    BY ConstantsAssumption DEF HoldsRow
  <2>2. \A n \in Messages : HoldsMessage(h, n)' => n = event[h].message /\ n # None
    BY ConstantsAssumption DEF HoldsMessage
  <2>3. \A i \in EventIds : HoldsEvent(h, i)' => HoldsEvent(h, i)
    BY DEF HoldsEvent
  <2>4. QED
    BY <1>2, <2>1, <2>2, <2>3, HeldAlone DEF LocksAlone, MessageFree
<1>5. HookReads(h)'
  BY <1>2 DEF HookReads, EventInv, CallersRead, Storing
<1>6. QED
  BY <1>1, <1>3, <1>4, <1>5, LocalStep, ConstantsAssumption DEF Callers

\* A hook that goes on under the message lock it has takes at most its event's identity.
LEMMA HookGoesOn ==
  ASSUME EventInv, NEW h \in Hooks, pc[h] \notin {"idle", "received"},
         NEW step \in HookSteps, Goto(h, step), OthersStay(h),
         UNCHANGED <<committed, recorderVars, event, acknowledged>>,
         delivery' \in [Callers -> Deliveries \cup {None}], inserted' \in [Hooks -> BOOLEAN],
         inserted'[h] => inserted[h] \/ \A g \in Hooks : ~HoldsEvent(g, event[h].id),
         HookReads(h)'
  PROVE  EventInv'
<1> USE DEF recorderVars
<1>1. TypeOK'
  BY ConstantsAssumption
     DEF EventInv, TypeOK, Callers, RecorderSteps, HookSteps, committed, Goto
<1>2. h \in Callers
  BY DEF Callers
<1>3. LocksAlone(h)
  <2>1. \A d \in Deliveries : ~HoldsRow(h, d)'
    BY ConstantsAssumption DEF HoldsRow
  <2>2. \A n \in Messages : HoldsMessage(h, n)' => HoldsMessage(h, n)
    BY ConstantsAssumption DEF HoldsMessage
  <2>3. \A i \in EventIds : HoldsEvent(h, i)' =>
          HoldsEvent(h, i) \/ \A g \in Hooks : ~HoldsEvent(g, i)
    BY DEF HoldsEvent
  <2>4. QED
    BY <1>2, <2>1, <2>2, <2>3, HeldAlone DEF LocksAlone
<1>4. QED
  BY <1>1, <1>2, <1>3, LocalStep, ConstantsAssumption DEF Callers

\* The event is stored, by the hook's own insert or by an earlier commit.
LEMMA HookStoreInv ==
  ASSUME EventInv, NEW h \in Hooks, HookInsert(h) \/ HookExisting(h)
  PROVE  EventInv'
<1> USE DEF hookVars
<1>1. /\ pc[h] = "locked" /\ Goto(h, "stored") /\ event[h] \in Events /\ inserted[h] = FALSE
      /\ UNCHANGED <<committed, recorderVars, event, delivery, acknowledged>>
  BY DEF HookInsert, HookExisting, EventInv, TypeOK, CallersRead, HookReads, Storing
<1>2. /\ pc'[h] = "stored" /\ OthersStay(h)
      /\ inserted' \in [Hooks -> BOOLEAN]
  BY <1>1 DEF HookInsert, HookExisting, EventInv, TypeOK, OthersStay, Callers, Goto, recorderVars
<1>3. /\ inserted'[h] => (\A g \in Hooks : ~HoldsEvent(g, event[h].id)) /\ events[event[h].id] = None
      /\ ~inserted'[h] => events[event[h].id] = event[h]
  BY <1>1 DEF HookInsert, HookExisting, SameEvent, EventInv, TypeOK
<1>4. HookReads(h)'
  BY <1>1, <1>2, <1>3 DEF HookReads, Storing, committed
<1>5. "stored" \in HookSteps /\ delivery' \in [Callers -> Deliveries \cup {None}]
  BY <1>1 DEF HookSteps, EventInv, TypeOK
<1>6. QED
  BY <1>1, <1>2, <1>3, <1>4, <1>5, HookGoesOn

\* The target is the delivery sent under the message id of the event.
LEMMA HookTargetInv ==
  ASSUME EventInv, NEW h \in Hooks, HookTarget(h)
  PROVE  EventInv'
<1> USE DEF hookVars, HookTarget
<1>1. PICK d \in Deliveries : /\ sent[d] # None /\ sent[d] = event[h].message
                              /\ delivery' = [delivery EXCEPT ![h] = d]
  OBVIOUS
<1>2. /\ pc[h] = "stored" /\ pc'[h] = "targeted" /\ delivery'[h] = d
      /\ delivery' \in [Callers -> Deliveries \cup {None}] /\ inserted' \in [Hooks -> BOOLEAN]
      /\ OthersStay(h)
  BY <1>1 DEF EventInv, TypeOK, Callers, Goto, OthersStay, recorderVars
<1>3. HookReads(h)'
  BY <1>1, <1>2 DEF HookReads, Storing, EventInv, CallersRead, committed
<1>4. "targeted" \in HookSteps
  BY DEF HookSteps
<1>5. QED
  BY <1>2, <1>3, <1>4, HookGoesOn

\* The match exists, or there is nothing to match.
LEMMA HookNoTargetInv ==
  ASSUME EventInv, NEW h \in Hooks, HookNoTarget(h)
  PROVE  EventInv'
<1> USE DEF hookVars, HookNoTarget
<1>1. /\ pc[h] = "stored" /\ pc'[h] = "ready"
      /\ delivery' \in [Callers -> Deliveries \cup {None}] /\ inserted' \in [Hooks -> BOOLEAN]
      /\ OthersStay(h)
  BY DEF EventInv, TypeOK, Callers, Goto, OthersStay, recorderVars
<1>2. HookReads(h)'
  BY <1>1 DEF HookReads, Storing, EventInv, CallersRead, committed
<1>3. "ready" \in HookSteps
  BY DEF HookSteps
<1>4. QED
  BY <1>1, <1>2, <1>3, HookGoesOn

\* Adding the match changes nothing the hook has read.
LEMMA HookAddMatchInv ==
  ASSUME EventInv, NEW h \in Hooks, HookAddMatch(h)
  PROVE  EventInv'
<1> USE DEF hookVars, HookAddMatch
<1>1. /\ pc[h] = "targeted" /\ pc'[h] = "matched"
      /\ delivery' \in [Callers -> Deliveries \cup {None}] /\ inserted' \in [Hooks -> BOOLEAN]
      /\ OthersStay(h)
  BY DEF EventInv, TypeOK, Callers, Goto, OthersStay, recorderVars
<1>2. HookReads(h)'
  BY <1>1 DEF HookReads, Storing, EventInv, CallersRead, committed
<1>3. "matched" \in HookSteps
  BY DEF HookSteps
<1>4. QED
  BY <1>1, <1>2, <1>3, HookGoesOn

-----------------------------------------------------------------------------
(* The two commits *)

\* A recorder writes the message id of its delivery and matches what it read; the
\* message lock kept everyone else from events of this id.
LEMMA RecordCommitInv ==
  ASSUME EventInv, NEW r \in Recorders, RecordCommit(r)
  PROVE  EventInv'
<1>1. PICK d \in Deliveries, m \in Messages : d = delivery[r] /\ m = message[r]
  BY DEF RecordCommit, EventInv, CallersRead, RecorderReads
<1>2. /\ pc[r] = "reconciled" /\ m # None
      /\ sent[d] = None /\ \A e \in Deliveries : sent[e] # m
      /\ unmatched[r] = Unmatched(m)
      /\ r \in Callers /\ r \notin Hooks
  BY <1>1, ConstantsAssumption
     DEF RecordCommit, EventInv, CallersRead, RecorderReads, CanSave, Callers
<1>3. /\ sent'[d] = m /\ \A e \in Deliveries \ {d} : sent'[e] = sent[e]
      /\ sent' \in [Deliveries -> Messages \cup {None}]
      /\ matches' \in [EventIds -> Deliveries \cup {None}]
      /\ \A i \in EventIds : matches'[i] = IF i \in Unmatched(m) THEN d ELSE matches[i]
      /\ events' = events /\ acknowledged' = acknowledged
  BY <1>1, <1>2 DEF RecordCommit, EventInv, TypeOK
<1>4. OthersStay(r) /\ pc'[r] = "idle" /\ LocksExclusive'
  BY <1>2, EndCall, LocksStayExclusive DEF RecordCommit
<1>5. TypeOK'
  BY <1>2, <1>3, EndCall DEF RecordCommit, EventInv, TypeOK
<1>6. \A s \in Recorders \ {r} : RecorderReads(s)'
  <2> SUFFICES ASSUME NEW s \in Recorders \ {r}, pc[s] = "reconciled"
               PROVE  CanSave(delivery[s], message[s])' /\ unmatched'[s] = Unmatched(message[s])'
    BY <1>4 DEF RecorderReads, EventInv, CallersRead, OthersStay, Callers
  <2>1. PICK e \in Deliveries, n \in Messages : e = delivery[s] /\ n = message[s]
    BY DEF EventInv, CallersRead, RecorderReads
  <2>2. delivery'[s] = e /\ message'[s] = n /\ unmatched'[s] = unmatched[s]
    BY <1>4, <2>1 DEF OthersStay, Callers
  <2>3. e # d /\ n # m
    BY <1>1, <1>2, <2>1
       DEF EventInv, LocksExclusive, RowExclusive, MessageExclusive, HoldsRow, HoldsMessage, Callers
  <2>4. /\ sent[e] = None /\ \A f \in Deliveries : sent[f] # n
        /\ unmatched[s] = Unmatched(n)
    BY <2>1 DEF EventInv, CallersRead, RecorderReads, CanSave
  <2>5. sent'[e] = None /\ \A f \in Deliveries : sent'[f] # n
    BY <1>3, <2>3, <2>4
  <2>6. \A i \in EventIds : events[i] # None /\ events[i].message = n => matches'[i] = matches[i]
    BY <1>3, <2>3 DEF Unmatched
  <2>7. Unmatched(n)' = Unmatched(n)
    BY <1>3, <2>6 DEF Unmatched
  <2>8. QED
    BY <2>2, <2>4, <2>5, <2>7 DEF CanSave, Unmatched
<1>7. \A h \in Hooks : HookReads(h)'
  <2> SUFFICES ASSUME NEW h \in Hooks PROVE HookReads(h)'
    OBVIOUS
  <2>1. /\ pc'[h] = pc[h] /\ delivery'[h] = delivery[h]
        /\ event'[h] = event[h] /\ inserted'[h] = inserted[h]
    BY <1>2, <1>4 DEF OthersStay, Callers
  <2>2. HookReads(h)
    BY DEF EventInv, CallersRead
  <2>3. pc[h] \notin {"idle", "received"} =>
          event[h] \in Events /\ event[h].id \in EventIds /\ event[h].message # m
    BY <1>1, <1>2, <2>2
       DEF EventInv, LocksExclusive, MessageExclusive, HoldsMessage, Callers, HookReads, EventIds
  <2>4. pc[h] \in Storing => matches'[event[h].id] = matches[event[h].id]
    <3>1. pc[h] \in Storing => events[event[h].id] = None \/ events[event[h].id].message # m
      BY <2>2, <2>3 DEF HookReads, Storing
    <3>2. QED
      BY <1>3, <2>3, <3>1 DEF Unmatched, Storing
  <2>5. pc[h] \in {"targeted", "matched"} => sent'[delivery[h]] = sent[delivery[h]]
    BY <1>2, <1>3, <2>2 DEF HookReads
  <2>6. pc[h] = "ready" /\ (\A e \in Deliveries : sent[e] # event[h].message) =>
          \A e \in Deliveries : sent'[e] # event[h].message
    BY <1>3, <2>3
  <2>7. QED
    BY <1>3, <2>1, <2>2, <2>4, <2>5, <2>6 DEF HookReads, Storing
<1>8. SentUnique'
  BY <1>2, <1>3 DEF EventInv, RecordsTrue, SentUnique
<1>9. \A i \in EventIds : events[i] # None /\ events[i].message = m => i \in Unmatched(m)
  BY <1>2 DEF EventInv, RecordsTrue, MatchesAreTrue, Unmatched, TypeOK
<1>10. Correlated'
  <2> SUFFICES ASSUME NEW i \in EventIds, NEW e \in Deliveries, events[i] # None,
                      sent'[e] # None, sent'[e] = events[i].message
               PROVE  matches'[i] = e
    BY <1>3 DEF Correlated
  <2>1. CASE e = d
    BY <1>3, <1>9, <2>1
  <2>2. CASE e # d
    <3>1. sent[e] # None /\ sent[e] = events[i].message /\ events[i].message # m
      BY <1>2, <1>3, <2>2
    <3>2. QED
      BY <1>3, <3>1 DEF EventInv, RecordsTrue, Correlated, Unmatched
  <2>3. QED
    BY <2>1, <2>2
<1>11. MatchesAreTrue'
  <2> SUFFICES ASSUME NEW i \in EventIds, matches'[i] # None
               PROVE  /\ events[i] # None
                      /\ sent'[matches'[i]] # None /\ sent'[matches'[i]] = events[i].message
    BY <1>3 DEF MatchesAreTrue
  <2>1. CASE i \in Unmatched(m)
    BY <1>2, <1>3, <2>1 DEF Unmatched
  <2>2. CASE i \notin Unmatched(m)
    <3>1. matches'[i] = matches[i] /\ matches[i] \in Deliveries
      BY <1>3, <2>2 DEF EventInv, TypeOK
    <3>2. sent[matches[i]] # None
      BY <3>1 DEF EventInv, RecordsTrue, MatchesAreTrue
    <3>3. QED
      BY <1>2, <1>3, <3>1, <3>2 DEF EventInv, RecordsTrue, MatchesAreTrue
  <2>3. QED
    BY <2>1, <2>2
<1>12. AcknowledgedIsStored'
  BY <1>3 DEF EventInv, RecordsTrue, AcknowledgedIsStored
<1>13. RecorderReads(r)'
  BY <1>4 DEF RecorderReads
<1>14. QED
  BY <1>4, <1>5, <1>6, <1>7, <1>8, <1>10, <1>11, <1>12, <1>13 DEF EventInv, CallersRead, RecordsTrue

\* A hook commits its event and the match it found; the message lock kept a recorder
\* from sending under its message id, the row inserted kept other hooks from it.
LEMMA HookCommitInv ==
  ASSUME EventInv, NEW h \in Hooks, HookCommit(h)
  PROVE  EventInv'
<1>1. PICK v \in Events : v = event[h]
  BY DEF HookCommit, EventInv, CallersRead, HookReads
<1>2. PICK i \in EventIds : i = v.id
  BY DEF EventIds
<1>3. /\ pc[h] \in {"ready", "matched"} /\ pc[h] \in Storing
      /\ v # None /\ v.message \in Messages \cup {None}
      /\ h \in Callers /\ h \notin Recorders
      /\ inserted[h] => events[i] = None
      /\ ~inserted[h] => events[i] = v
  BY <1>1, <1>2, ConstantsAssumption
     DEF HookCommit, EventInv, CallersRead, HookReads, Callers, Storing
<1>4. pc[h] = "matched" =>
        /\ delivery[h] \in Deliveries /\ delivery[h] # None /\ matches[i] = None
        /\ sent[delivery[h]] # None /\ sent[delivery[h]] = v.message
  BY <1>1, <1>2, ConstantsAssumption DEF EventInv, CallersRead, HookReads
<1>5. /\ events'[i] = v /\ \A j \in EventIds \ {i} : events'[j] = events[j]
      /\ events' \in [EventIds -> Events \cup {None}]
  BY <1>1, <1>2, <1>3 DEF HookCommit, EventInv, TypeOK
<1>6. /\ matches'[i] = IF pc[h] = "matched" THEN delivery[h] ELSE matches[i]
      /\ \A j \in EventIds \ {i} : matches'[j] = matches[j]
      /\ matches' \in [EventIds -> Deliveries \cup {None}]
  BY <1>1, <1>2, <1>4 DEF HookCommit, EventInv, TypeOK
<1>7. acknowledged' = acknowledged \cup {v} /\ sent' = sent
  BY <1>1 DEF HookCommit
<1>8. OthersStay(h) /\ pc'[h] = "idle" /\ inserted'[h] = FALSE /\ LocksExclusive'
  BY <1>3, EndCall, LocksStayExclusive DEF HookCommit
<1>9. TypeOK'
  BY <1>3, <1>5, <1>6, <1>7, EndCall DEF HookCommit, EventInv, TypeOK
<1>10. \A r \in Recorders : RecorderReads(r)'
  <2> SUFFICES ASSUME NEW r \in Recorders, pc[r] = "reconciled"
               PROVE  CanSave(delivery[r], message[r])' /\ unmatched'[r] = Unmatched(message[r])'
    BY <1>3, <1>8 DEF RecorderReads, EventInv, CallersRead, OthersStay, Callers
  <2>1. PICK e \in Deliveries, n \in Messages : e = delivery[r] /\ n = message[r]
    BY DEF EventInv, CallersRead, RecorderReads
  <2>2. delivery'[r] = e /\ message'[r] = n /\ unmatched'[r] = unmatched[r]
    BY <1>3, <1>8, <2>1 DEF OthersStay, Callers
  <2>3. v.message # n
    BY <1>1, <1>3, <2>1
       DEF EventInv, LocksExclusive, MessageExclusive, HoldsMessage, Callers, Storing
  <2>4. CanSave(e, n) /\ unmatched[r] = Unmatched(n)
    BY <2>1 DEF EventInv, CallersRead, RecorderReads
  <2>5. Unmatched(n)' = Unmatched(n)
    BY <1>3, <1>5, <1>6, <2>3 DEF Unmatched
  <2>6. QED
    BY <1>7, <2>2, <2>4, <2>5 DEF CanSave, Unmatched
<1>11. \A g \in Hooks \ {h} : HookReads(g)'
  <2> SUFFICES ASSUME NEW g \in Hooks \ {h} PROVE HookReads(g)'
    OBVIOUS
  <2>1. /\ pc'[g] = pc[g] /\ delivery'[g] = delivery[g]
        /\ event'[g] = event[g] /\ inserted'[g] = inserted[g]
    BY <1>8 DEF OthersStay, Callers
  <2>2. HookReads(g)
    BY DEF EventInv, CallersRead
  <2>3. pc[g] \in Storing => event[g] \in Events /\ event[g].id \in EventIds
    BY <2>2 DEF HookReads, Storing, EventIds
  <2>4. pc[g] \in Storing /\ event[g].id = i => inserted[g] = FALSE /\ event[g] = v /\ events[i] = v
    <3>1. inserted[g] /\ inserted[h] => event[g].id # i
      BY <1>1, <1>2 DEF EventInv, LocksExclusive, EventExclusive, HoldsEvent
    <3>2. inserted[g] \in BOOLEAN
      BY DEF EventInv, TypeOK
    <3>3. QED
      BY <1>3, <2>2, <2>3, <3>1, <3>2, ConstantsAssumption DEF HookReads
  <2>5. pc[g] \in Storing => events'[event[g].id] = events[event[g].id]
    BY <1>5, <2>3, <2>4
  <2>6. pc[g] \in {"targeted", "matched"} => event[g].id # i
    <3>1. pc[g] \in {"targeted", "matched"} => event[g].message \in Messages
      BY <2>2 DEF HookReads, EventInv, TypeOK
    <3>2. pc[g] \in {"targeted", "matched"} => event[g].message # v.message
      BY <1>1, <1>3, <3>1
         DEF EventInv, LocksExclusive, MessageExclusive, HoldsMessage, Callers, Storing
    <3>3. QED
      BY <2>4, <3>2 DEF Storing
  <2>7. pc[g] \in {"targeted", "matched"} => matches'[event[g].id] = matches[event[g].id]
    BY <1>6, <2>3, <2>6 DEF Storing
  <2>8. pc[g] = "ready" /\ matches[event[g].id] # None => matches'[event[g].id] # None
    BY <1>4, <1>6, <2>3 DEF Storing
  <2>9. inserted[g] => pc[g] \in Storing
    BY <2>2 DEF HookReads
  <2>10. QED
    BY <1>7, <2>1, <2>2, <2>5, <2>7, <2>8, <2>9 DEF HookReads, Storing
<1>12. HookReads(h)'
  BY <1>8 DEF HookReads, Storing
<1>13. SentUnique'
  BY <1>7 DEF EventInv, RecordsTrue, SentUnique
<1>14. Correlated'
  <2> SUFFICES ASSUME NEW j \in EventIds, NEW d \in Deliveries, events'[j] # None,
                      sent[d] # None, sent[d] = events'[j].message
               PROVE  matches'[j] = d
    BY <1>7 DEF Correlated
  <2>1. CASE j # i
    BY <1>5, <1>6, <2>1 DEF EventInv, RecordsTrue, Correlated
  <2>2. CASE j = i /\ pc[h] = "matched"
    BY <1>4, <1>5, <1>6, <2>2 DEF EventInv, RecordsTrue, SentUnique
  <2>3. CASE j = i /\ pc[h] = "ready"
    <3>1. sent[d] = v.message
      BY <1>5, <2>3
    <3>2. matches[i] # None
      BY <1>1, <1>2, <3>1, <2>3 DEF EventInv, CallersRead, HookReads
    <3>3. events[i] # None
      BY <3>2 DEF EventInv, RecordsTrue, MatchesAreTrue
    <3>4. matches[i] = d
      BY <1>3, <3>1, <3>3 DEF EventInv, RecordsTrue, Correlated, TypeOK
    <3>5. QED
      BY <1>6, <2>3, <3>4
  <2>4. QED
    BY <1>3, <2>1, <2>2, <2>3
<1>15. MatchesAreTrue'
  <2> SUFFICES ASSUME NEW j \in EventIds, matches'[j] # None
               PROVE  /\ events'[j] # None
                      /\ sent[matches'[j]] # None /\ sent[matches'[j]] = events'[j].message
    BY <1>7 DEF MatchesAreTrue
  <2>1. CASE j # i
    BY <1>5, <1>6, <2>1 DEF EventInv, RecordsTrue, MatchesAreTrue
  <2>2. CASE j = i /\ pc[h] = "matched"
    BY <1>3, <1>4, <1>5, <1>6, <2>2
  <2>3. CASE j = i /\ pc[h] # "matched"
    <3>1. matches[i] # None /\ matches'[j] = matches[i]
      BY <1>6, <2>3
    <3>2. events[i] # None /\ sent[matches[i]] # None /\ sent[matches[i]] = events[i].message
      BY <3>1 DEF EventInv, RecordsTrue, MatchesAreTrue
    <3>3. QED
      BY <1>3, <1>5, <2>3, <3>1, <3>2
  <2>4. QED
    BY <2>1, <2>2, <2>3
<1>16. AcknowledgedIsStored'
  <2> SUFFICES ASSUME NEW w \in acknowledged' PROVE events'[w.id] = w
    BY DEF AcknowledgedIsStored
  <2>1. CASE w = v
    BY <1>2, <1>5, <2>1
  <2>2. CASE w \in acknowledged
    <3>1. w \in Events /\ w.id \in EventIds /\ w # None /\ events[w.id] = w
      BY <2>2, ConstantsAssumption
         DEF EventInv, TypeOK, RecordsTrue, AcknowledgedIsStored, EventIds
    <3>2. QED
      BY <1>3, <1>5, <3>1
  <2>3. QED
    BY <1>7, <2>1, <2>2
<1>17. QED
  BY <1>8, <1>9, <1>10, <1>11, <1>12, <1>13, <1>14, <1>15, <1>16
     DEF EventInv, CallersRead, RecordsTrue

-----------------------------------------------------------------------------
(* EventInv: initially, and after every step *)

\* Nothing is stored and no transaction has begun.
LEMMA InitEventInv == Init => EventInv
<1> SUFFICES ASSUME Init PROVE EventInv
  OBVIOUS
<1> USE DEF Init
<1>1. TypeOK
  BY DEF TypeOK, Callers, RecorderSteps, HookSteps
<1>2. LocksExclusive
  BY DEF LocksExclusive, RowExclusive, MessageExclusive, EventExclusive, HoldsRow, HoldsMessage,
         HoldsEvent, Callers
<1>3. CallersRead
  BY DEF CallersRead, RecorderReads, HookReads, Storing, Callers
<1>4. RecordsTrue
  BY DEF RecordsTrue, SentUnique, Correlated, MatchesAreTrue, AcknowledgedIsStored
<1>5. QED
  BY <1>1, <1>2, <1>3, <1>4 DEF EventInv

\* Every step keeps the invariant.
LEMMA EventInvStep == EventInv /\ [Next]_vars => EventInv'
<1> SUFFICES ASSUME EventInv, [Next]_vars PROVE EventInv'
  OBVIOUS
<1>1. ASSUME NEW r \in Recorders, RecordSent(r) PROVE EventInv'
  <2>1. RecordRefused(r) => EventInv'
    BY RollbackInv DEF RecordRefused, Callers
  <2>2. QED
    BY <1>1, <2>1, RecordLockInv, RecordMessageLockInv, ReconcileInv, RecordCommitInv DEF RecordSent
<1>2. ASSUME NEW h \in Hooks, Ingest(h) PROVE EventInv'
  <2>1. HookConflict(h) => EventInv'
    BY RollbackInv DEF HookConflict, Callers
  <2>2. QED
    BY <1>2, <2>1, ReceiveInv, HookMessageLockInv, HookStoreInv, HookTargetInv, HookNoTargetInv,
       HookAddMatchInv, HookCommitInv DEF Ingest
<1>3. ASSUME NEW p \in Callers, DeadlockAbort(p) \/ TransactionFails(p) PROVE EventInv'
  BY <1>3, RollbackInv DEF DeadlockAbort, TransactionFails
<1>4. ASSUME UNCHANGED vars PROVE EventInv'
  <2> USE <1>4 DEF vars, committed, recorderVars, hookVars
  <2>1. TypeOK'
    BY DEF EventInv, TypeOK
  <2>2. LocksExclusive'
    BY DEF EventInv, LocksExclusive, RowExclusive, MessageExclusive, EventExclusive, HoldsRow,
           HoldsMessage, HoldsEvent
  <2>3. CallersRead'
    BY DEF EventInv, CallersRead, RecorderReads, HookReads, CanSave, Unmatched
  <2>4. RecordsTrue'
    BY DEF EventInv, RecordsTrue, SentUnique, Correlated, MatchesAreTrue, AcknowledgedIsStored
  <2>5. QED
    BY <2>1, <2>2, <2>3, <2>4 DEF EventInv
<1>5. QED
  BY <1>1, <1>2, <1>3, <1>4 DEF Next

-----------------------------------------------------------------------------
(* Deadlocks *)

\* Only three kinds of caller wait at all, and a hook that waits for a delivery row
\* waits for a recorder of a delivery that is sent already.
LEMMA WaitingCallers ==
  ASSUME EventInv, NEW p \in Callers, NEW q \in Callers, WaitsFor(p, q)
  PROVE  \/ p \in Recorders /\ pc[p] = "locked" /\ HoldsMessage(q, message[p])
         \/ p \in Hooks /\ pc[p] = "received" /\ HoldsMessage(q, event[p].message)
         \/ /\ p \in Hooks /\ pc[p] = "locked"
            /\ q \in Hooks /\ pc[q] \in Storing
         \/ /\ p \in Hooks /\ pc[p] = "targeted"
            /\ q \in Recorders /\ sent[delivery[q]] # None
BY DEF WaitsFor, HoldsEvent, HoldsRow, EventInv, CallersRead, HookReads

\* In a deadlock of first recordings no one waits for a row; so no one inserts and
\* waits, no hook waits for an insert, and no one who has a message lock waits at all.
LEMMA OnlyRepeats == EventInv => OnlyRepeatsDeadlock
<1> SUFFICES ASSUME EventInv, NEW P \in SUBSET Callers, P # {}, Deadlocked(P),
                    \A r \in P \cap Recorders : sent[delivery[r]] = None
             PROVE  FALSE
  BY DEF OnlyRepeatsDeadlock
<1>1. \A p \in P : \E q \in P : WaitsFor(p, q)
  BY DEF Deadlocked
<1>2. \A p \in P : ~(p \in Hooks /\ pc[p] = "targeted")
  BY <1>1, WaitingCallers, ConstantsAssumption
<1>3. \A p \in P : ~(p \in Hooks /\ pc[p] \in Storing)
  BY <1>1, <1>2, WaitingCallers, ConstantsAssumption DEF Storing
<1>4. \A p \in P : ~(p \in Hooks /\ pc[p] = "locked")
  BY <1>1, <1>3, WaitingCallers, ConstantsAssumption
<1>5. \A p \in P : \A m : ~HoldsMessage(p, m)
  <2> SUFFICES ASSUME NEW p \in P, NEW m, HoldsMessage(p, m) PROVE FALSE
    OBVIOUS
  <2>1. CASE p \in Recorders
    BY <1>1, <2>1, WaitingCallers, ConstantsAssumption DEF HoldsMessage
  <2>2. CASE p \in Hooks
    BY <1>3, <1>4, <2>2, ConstantsAssumption
       DEF HoldsMessage, EventInv, TypeOK, HookSteps, Storing
  <2>3. QED
    BY <2>1, <2>2 DEF Callers
<1>6. QED
  BY <1>1, <1>2, <1>4, <1>5, WaitingCallers

-----------------------------------------------------------------------------
(* ProviderEvents implements EventLedger *)

\* Nothing is sent, stored or matched at first.
LEMMA LedgerInit == Init => Ledger!Init
BY DEF Init, Ledger!Init

\* An event is matched to the delivery it is about, and to nothing else.
LEMMA LedgerJoined == EventInv => Ledger!Joined
<1> SUFFICES ASSUME EventInv, NEW i \in EventIds, NEW d \in Deliveries
             PROVE  matches[i] = d <=> Ledger!About(i, d)
  BY DEF Ledger!Joined
<1>1. d # None
  BY ConstantsAssumption
<1>2. matches[i] = d => Ledger!About(i, d)
  BY <1>1 DEF EventInv, RecordsTrue, MatchesAreTrue, Ledger!About
<1>3. Ledger!About(i, d) => matches[i] = d
  BY DEF EventInv, RecordsTrue, Correlated, Ledger!About
<1>4. QED
  BY <1>2, <1>3

\* The same of what every step leaves.
LEMMA LedgerLeft ==
  EventInv' => matches' \in [EventIds -> Deliveries \cup {None}] /\ Ledger!Joined'
<1>1. EventInv' => Ledger!Joined'
  BY LedgerJoined, PTL
<1>2. QED
  BY <1>1 DEF EventInv, TypeOK

\* What record_sent commits is an acceptance: the claim was open, the id its own.
LEMMA LedgerAccept ==
  ASSUME EventInv, NEW r \in Recorders, RecordCommit(r)
  PROVE  \E d \in Deliveries, m \in Messages : Ledger!Accept(d, m)
<1>1. pc[r] = "reconciled" /\ RecorderReads(r)
  BY DEF RecordCommit, EventInv, CallersRead
<1>2. PICK d \in Deliveries, m \in Messages :
        d = delivery[r] /\ m = message[r] /\ CanSave(d, m)
  BY <1>1 DEF RecorderReads
<1>3. sent' = [sent EXCEPT ![d] = m] /\ UNCHANGED <<events, acknowledged>>
  BY <1>2 DEF RecordCommit
<1>4. Ledger!Accept(d, m)
  BY <1>2, <1>3 DEF CanSave, Ledger!Accept
<1>5. QED
  BY <1>4

\* What ingest commits is an event: it was stored already or nothing was.
LEMMA LedgerStore ==
  ASSUME EventInv, NEW h \in Hooks, HookCommit(h)
  PROVE  \E v \in Events : Ledger!Store(v)
<1>1. pc[h] \in {"ready", "matched"} /\ HookReads(h)
  BY DEF HookCommit, EventInv, CallersRead
<1>2. PICK v \in Events : v = event[h]
  BY <1>1 DEF HookReads
<1>3. /\ inserted[h] => events[v.id] = None
      /\ ~inserted[h] => events[v.id] = v
  BY <1>1, <1>2 DEF HookReads, Storing
<1>4. /\ events' = [events EXCEPT ![v.id] = IF inserted[h] THEN v ELSE @]
      /\ acknowledged' = acknowledged \cup {v} /\ UNCHANGED sent
  BY <1>2 DEF HookCommit
<1>5. events' = [events EXCEPT ![v.id] = v]
  BY <1>3, <1>4
<1>6. Ledger!Store(v)
  BY <1>3, <1>4, <1>5 DEF Ledger!Store
<1>7. QED
  BY <1>6

\* Every step commits an acceptance or an event, or nothing.
LEMMA LedgerStep == EventInv /\ [Next]_vars => [Ledger!Next]_(Ledger!vars)
<1> SUFFICES ASSUME EventInv, [Next]_vars PROVE [Ledger!Next]_(Ledger!vars)
  OBVIOUS
<1>1. EventInv'
  BY EventInvStep
<1>2. matches' \in [EventIds -> Deliveries \cup {None}] /\ Ledger!Joined'
  BY <1>1, LedgerLeft
<1>3. ASSUME UNCHANGED <<committed, acknowledged>> PROVE UNCHANGED Ledger!vars
  BY <1>3 DEF committed, Ledger!vars
<1>4. ASSUME NEW r \in Recorders, RecordCommit(r) PROVE Ledger!Next
  BY <1>2, <1>4, LedgerAccept DEF Ledger!Next
<1>5. ASSUME NEW h \in Hooks, HookCommit(h) PROVE Ledger!Next
  BY <1>2, <1>5, LedgerStore DEF Ledger!Next
<1>6. ASSUME NEW r \in Recorders, RecordSent(r)
      PROVE  RecordCommit(r) \/ UNCHANGED <<committed, acknowledged>>
  BY <1>6 DEF RecordSent, RecordLock, RecordMessageLock, RecordRefused, Reconcile
<1>7. ASSUME NEW h \in Hooks, Ingest(h)
      PROVE  HookCommit(h) \/ UNCHANGED <<committed, acknowledged>>
  BY <1>7 DEF Ingest, Receive, HookMessageLock, HookInsert, HookExisting, HookConflict,
     HookTarget, HookNoTarget, HookAddMatch
<1>8. ASSUME NEW p \in Callers, DeadlockAbort(p) \/ TransactionFails(p)
      PROVE  UNCHANGED <<committed, acknowledged>>
  BY <1>8 DEF DeadlockAbort, TransactionFails
<1>9. ASSUME UNCHANGED vars PROVE UNCHANGED <<committed, acknowledged>>
  BY <1>9 DEF vars
<1>10. CASE Next
  BY <1>3, <1>4, <1>5, <1>6, <1>7, <1>8, <1>10 DEF Next
<1>11. QED
  BY <1>3, <1>9, <1>10

-----------------------------------------------------------------------------
(* The theorems *)

\* The locks are exclusive and what was read under them stands until the commit.
THEOREM EventInvariance == Spec => []EventInv
  BY InitEventInv, EventInvStep, PTL DEF Spec

\* Every row and every local variable is of its type.
THEOREM TypeCorrect == Spec => []TypeOK
<1>1. EventInv => TypeOK
  BY DEF EventInv
<1>2. QED
  BY <1>1, EventInvariance, PTL

\* record_sent and ingest between them match every stored event of a sent message.
THEOREM EventsAreCorrelated == Spec => []Correlated
<1>1. EventInv => Correlated
  BY DEF EventInv, RecordsTrue
<1>2. QED
  BY <1>1, EventInvariance, PTL

\* No event is matched to a delivery that was not sent under its message id.
THEOREM MatchesStayTrue == Spec => []MatchesAreTrue
<1>1. EventInv => MatchesAreTrue
  BY DEF EventInv, RecordsTrue
<1>2. QED
  BY <1>1, EventInvariance, PTL

\* What ingest acknowledged is stored as it was verified.
THEOREM AcknowledgedStaysStored == Spec => []AcknowledgedIsStored
<1>1. EventInv => AcknowledgedIsStored
  BY DEF EventInv, RecordsTrue
<1>2. QED
  BY <1>1, EventInvariance, PTL

\* Transactions that record different deliveries, each once, never deadlock with
\* hooks, however many there are.
THEOREM FirstRecordingsNeverDeadlock == Spec => []OnlyRepeatsDeadlock
<1>1. EventInv => OnlyRepeatsDeadlock
  BY OnlyRepeats
<1>2. QED
  BY <1>1, EventInvariance, PTL

\* Under READ COMMITTED, record_sent and ingest commit what they would have one after
\* the other: ProviderEvents implements EventLedger.
THEOREM RefinesLedger == Spec => ImplementsLedger
<1>1. Init => Ledger!Init
  BY LedgerInit
<1>2. EventInv /\ [Next]_vars => [Ledger!Next]_(Ledger!vars)
  BY LedgerStep
<1>3. QED
  BY <1>1, <1>2, EventInvariance, PTL DEF Spec, ImplementsLedger, Ledger!Spec
=============================================================================
