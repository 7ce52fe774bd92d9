------------------------- MODULE InvoiceDelivery_proofs -------------------------
(***************************************************************************)
(* Proofs about InvoiceDelivery for every set of deliveries, workers,      *)
(* attempt ids and contents.                                               *)
(*                                                                         *)
(* Two inductive invariants.  RowInv holds however tokens are reused and   *)
(* whatever the provider forgets; it says what the row lock and the token  *)
(* check protect.  ClaimInv holds when a token is used by one call of      *)
(* send_claimed at a time (~TokenReuse): then a claim belongs to one        *)
(* worker, and that is what rules out a second email.                      *)
(*                                                                         *)
(* ClaimHasWorker, beside RowInv, holds while no worker fails and callers  *)
(* prepare one content: it is the safety half of EveryClaimIsDecided.      *)
(***************************************************************************)
EXTENDS InvoiceDelivery, SequenceTheorems, TLAPS

(* The inductive invariants *)

\* What a worker holds at each step.
WorkerShape ==
  \A w \in Workers :
    /\ job[w] = None <=> pc[w] = "idle"
    /\ pc[w] \notin {"idle", "claiming"} => token[w] \in AttemptIds
    /\ pc[w] \in {"preparing", "sending", "answered", "recording"} =>
         content[w] \in Contents

\* FOR UPDATE: one open transaction per delivery row.
LockExclusive ==
  \A v, w \in Workers :
    pc[v] \in InTransaction /\ pc[w] \in InTransaction /\ job[v] = job[w] => v = w

\* What a transaction read when it took the lock is still so when it writes.
UnderLock ==
  \A w \in Workers :
    /\ pc[w] = "claiming" => state[job[w]] = "pending"
    /\ pc[w] \in {"preparing", "recording"} => HoldsClaim(job[w], token[w])
    /\ pc[w] = "preparing" => message[job[w]] \in {None, content[w]}

\* From the call to the provider on, what a worker sends is the frozen message.
MessageFrozen ==
  \A w \in Workers :
    pc[w] \in {"sending", "answered", "recording"} => message[job[w]] = content[w]

\* An accepted answer names an email of this delivery.
AnswerBacked ==
  \A w \in Workers : answer[w].kind = "accepted" =>
    /\ pc[w] \in {"answered", "recording"}
    /\ answer[w].messageId \in 1 .. Len(emails[job[w]])

KeysStand == \A d \in Deliveries : remembered[d] \in 0 .. Len(emails[d])

RowInv ==
  /\ TypeOK /\ WorkerShape /\ LockExclusive /\ UnderLock /\ RowsReload
  /\ MessageFrozen /\ AnswerBacked /\ KeysStand
  /\ OneContentPerDelivery /\ SentIsBacked

\* A worker past the claim holds it until it records an outcome.
ClaimHeld ==
  \A w \in Workers :
    pc[w] \notin {"idle", "claiming"} => HoldsClaim(job[w], token[w])

\* An email left for d or may still leave.
MayBeMailed(d) == emails[d] # <<>> \/ \E c \in Contents : <<d, c>> \in wire

\* Once an email may have left, the delivery stays with the worker that learns
\* of it, or with no one.
MailedStaysClaimed ==
  \A d \in Deliveries : MayBeMailed(d) =>
    /\ state[d] \in {"in_progress", "sent"}
    /\ \A w \in Workers : job[w] = d =>
         /\ pc[w] \in {"answered", "recording"}
         /\ answer[w].kind \in {"accepted", "ambiguous"}

\* What is on the wire is the first email.
WireIsFirst == \A d \in Deliveries, c \in Contents : <<d, c>> \in wire => emails[d] = <<>>

ClaimInv ==
  /\ RowInv
  /\ ExclusiveWork /\ ClaimHeld /\ MailedStaysClaimed /\ WireIsFirst /\ AtMostOneEmail

-----------------------------------------------------------------------------
(* Sequences *)

\* Replacing the last element of a history: what record_... does to it.
LEMMA ReplaceLast ==
  ASSUME NEW T, NEW s \in Seq(T), Len(s) > 0, NEW e \in T
  PROVE  LET r == [s EXCEPT ![Len(s)] = e] IN
           /\ r \in Seq(T)
           /\ Len(r) = Len(s)
           /\ r[Len(r)] = e
           /\ \A i \in 1 .. Len(s) - 1 : r[i] = s[i]
<1>1. Len(s) \in Nat /\ Len(s) \in 1 .. Len(s)
  BY LenProperties
<1>2. QED
  BY <1>1, ExceptSeq

\* Appending to a history.
LEMMA AppendLast ==
  ASSUME NEW T, NEW s \in Seq(T), NEW e \in T
  PROVE  LET r == Append(s, e) IN
           /\ r \in Seq(T)
           /\ Len(r) = Len(s) + 1
           /\ r[Len(r)] = e
           /\ \A i \in 1 .. Len(s) : r[i] = s[i]
<1>1. Len(s) \in Nat
  BY LenProperties
<1>2. QED
  BY <1>1

\* An accepted email is the delivery's next one, and the key stands for it.
LEMMA NewEmailAppends ==
  ASSUME TypeOK, NEW d \in Deliveries, NEW c \in Contents, NewEmail(d, c)
  PROVE  /\ emails' \in [Deliveries -> Seq(Contents)]
         /\ remembered' \in [Deliveries -> Nat]
         /\ Len(emails[d]) \in Nat /\ Len(emails'[d]) = Len(emails[d]) + 1
         /\ emails'[d][Len(emails[d]) + 1] = c
         /\ \A i \in 1 .. Len(emails[d]) : emails'[d][i] = emails[d][i]
         /\ remembered'[d] = Len(emails[d]) + 1
         /\ \A e \in Deliveries \ {d} : emails'[e] = emails[e] /\ remembered'[e] = remembered[e]
<1>1. emails[d] \in Seq(Contents) /\ emails'[d] = Append(emails[d], c)
  BY DEF TypeOK, NewEmail
<1>2. Len(emails[d]) \in Nat
  BY <1>1, LenProperties
<1>3. /\ Append(emails[d], c) \in Seq(Contents)
      /\ Len(Append(emails[d], c)) = Len(emails[d]) + 1
      /\ Append(emails[d], c)[Len(emails[d]) + 1] = c
      /\ \A i \in 1 .. Len(emails[d]) : Append(emails[d], c)[i] = emails[d][i]
  BY <1>1, AppendLast
<1>4. QED
  BY <1>1, <1>2, <1>3 DEF TypeOK, NewEmail

\* An email with the frozen message keeps what is said about emails.
LEMMA NewEmailKeeps ==
  ASSUME RowInv, NEW d \in Deliveries, message[d] \in Contents, NewEmail(d, message[d]),
         UNCHANGED rowVars
  PROVE  /\ KeysStand' /\ SentIsBacked'
         /\ \A e \in Deliveries : \A i \in 1 .. Len(emails'[e]) : emails'[e][i] = message[e]
         /\ \A e \in Deliveries : Len(emails[e]) \in Nat /\ Len(emails'[e]) \in Nat
                                 /\ Len(emails[e]) <= Len(emails'[e])
<1> USE DEF RowInv, rowVars
<1>1. /\ emails' \in [Deliveries -> Seq(Contents)]
      /\ Len(emails[d]) \in Nat /\ Len(emails'[d]) = Len(emails[d]) + 1
      /\ emails'[d][Len(emails[d]) + 1] = message[d]
      /\ \A i \in 1 .. Len(emails[d]) : emails'[d][i] = emails[d][i]
      /\ remembered'[d] = Len(emails[d]) + 1
      /\ \A e \in Deliveries \ {d} : emails'[e] = emails[e] /\ remembered'[e] = remembered[e]
  BY NewEmailAppends
<1>2. \A e \in Deliveries : Len(emails[e]) \in Nat /\ Len(emails'[e]) \in Nat
                             /\ Len(emails[e]) <= Len(emails'[e])
  <2> SUFFICES ASSUME NEW e \in Deliveries
               PROVE  /\ Len(emails[e]) \in Nat /\ Len(emails'[e]) \in Nat
                      /\ Len(emails[e]) <= Len(emails'[e])
    OBVIOUS
  <2>1. Len(emails[e]) \in Nat
    BY LenProperties DEF TypeOK
  <2>2. QED
    BY <1>1, <2>1
<1>3. KeysStand'
  <2> SUFFICES ASSUME NEW e \in Deliveries PROVE remembered'[e] \in 0 .. Len(emails'[e])
    BY DEF KeysStand
  <2>1. remembered[e] \in 0 .. Len(emails[e])
    BY DEF KeysStand
  <2>2. QED
    BY <1>1, <1>2, <2>1
<1>4. ASSUME NEW e \in Deliveries, NEW i \in 1 .. Len(emails'[e]) PROVE emails'[e][i] = message[e]
  <2>1. CASE e # d
    BY <1>1, <2>1 DEF OneContentPerDelivery
  <2>2. CASE e = d /\ i = Len(emails[d]) + 1
    BY <1>1, <2>2
  <2>3. CASE e = d /\ i # Len(emails[d]) + 1
    BY <1>1, <2>3 DEF OneContentPerDelivery
  <2>4. QED
    BY <2>1, <2>2, <2>3
<1>5. SentIsBacked'
  <2> SUFFICES ASSUME NEW e \in Deliveries, state[e] = "sent"
               PROVE  /\ Last(e).messageId \in 1 .. Len(emails'[e])
                      /\ emails'[e][Last(e).messageId] = message[e]
    BY DEF SentIsBacked, Last
  <2>1. /\ Last(e).messageId \in 1 .. Len(emails[e])
        /\ emails[e][Last(e).messageId] = message[e]
    BY DEF SentIsBacked
  <2>2. QED
    BY <1>1, <2>1
<1>6. QED
  BY <1>2, <1>3, <1>4, <1>5

\* A request that is given up on carries the frozen message.
LEMMA LeavesWireKeeps ==
  ASSUME RowInv, NEW w \in Workers, pc[w] = "sending", LeavesWire(w), UNCHANGED rowVars
  PROVE  wire' \subseteq Deliveries \X Contents /\ OneContentPerDelivery'
<1> USE DEF RowInv, rowVars, LeavesWire
<1>1. job[w] \in Deliveries /\ content[w] \in Contents /\ message[job[w]] = content[w]
  BY DEF WorkerShape, MessageFrozen, TypeOK
<1>2. wire' \subseteq Deliveries \X Contents
  BY <1>1 DEF TypeOK
<1>3. \A d \in Deliveries, c \in Contents : <<d, c>> \in wire' => c = message[d]
  BY <1>1 DEF OneContentPerDelivery
<1>4. QED
  BY <1>2, <1>3 DEF OneContentPerDelivery

\* A step that writes neither a row nor the provider's records disturbs only
\* what is said about workers.
LEMMA NothingWritten ==
  ASSUME RowInv, UNCHANGED <<rowVars, providerVars>>
  PROVE  (RowsReload /\ KeysStand /\ OneContentPerDelivery /\ SentIsBacked)'
BY DEF RowInv, rowVars, providerVars, RowsReload, WellFormed, KeysStand, OneContentPerDelivery,
       SentIsBacked, Last

-----------------------------------------------------------------------------
(* RowInv: initially, and after every step *)

\* At first there is no row, no worker at work and no email.
LEMMA InitRowInv == Init => RowInv
<1> SUFFICES ASSUME Init PROVE RowInv
  OBVIOUS
<1> USE DEF Init
<1>1. TypeOK
  BY ConstantsAssumption DEF TypeOK, States, Steps, InTransaction, Answers, NoAnswer
<1>2. WorkerShape /\ LockExclusive /\ UnderLock /\ MessageFrozen /\ AnswerBacked
  BY ConstantsAssumption DEF WorkerShape, LockExclusive, UnderLock, MessageFrozen, AnswerBacked,
        InTransaction, NoAnswer
<1>3. RowsReload
  <2> SUFFICES ASSUME NEW d \in Deliveries PROVE WellFormed(d)
    BY DEF RowsReload
  <2>1. attempts[d] = <<>> /\ Len(attempts[d]) = 0 /\ active[d] = None
        /\ state[d] = "absent" /\ message[d] = None
    BY EmptySeq
  <2>2. QED
    BY <2>1 DEF WellFormed
<1>4. KeysStand /\ OneContentPerDelivery /\ SentIsBacked
  BY ConstantsAssumption, EmptySeq DEF KeysStand, OneContentPerDelivery, SentIsBacked
<1>5. QED
  BY <1>1, <1>2, <1>3, <1>4 DEF RowInv

\* A new row is pending, with an empty history.
LEMMA RequestRowInv ==
  ASSUME RowInv, NEW d \in Deliveries, Request(d)
  PROVE  RowInv'
<1> USE DEF RowInv, Request, rowVars, workerVars, providerVars
<1>1. TypeOK'
  BY ConstantsAssumption DEF TypeOK, States
<1>2. (WorkerShape /\ LockExclusive /\ MessageFrozen /\ AnswerBacked)'
  BY DEF WorkerShape, LockExclusive, MessageFrozen, AnswerBacked
<1>3. UnderLock'
  BY DEF UnderLock, HoldsClaim, Last, TypeOK
<1>4. RowsReload'
  BY DEF RowsReload, WellFormed, Last, TypeOK
<1>5. (KeysStand /\ OneContentPerDelivery /\ SentIsBacked)'
  BY DEF KeysStand, OneContentPerDelivery, SentIsBacked, Last, TypeOK
<1>6. QED
  BY <1>1, <1>2, <1>3, <1>4, <1>5

\* The message is frozen once: the lock keeps others out, and a frozen one is kept.
LEMMA SaveMessageRowInv ==
  ASSUME RowInv, NEW w \in Workers, SaveMessage(w)
  PROVE  RowInv'
<1> USE DEF RowInv, SaveMessage, Goto, rowVars, workerVars, providerVars
<1>1. TypeOK'
  BY ConstantsAssumption DEF TypeOK, States, Steps, InTransaction, Answers, NoAnswer
<1>2. (WorkerShape /\ LockExclusive)'
  BY ConstantsAssumption DEF WorkerShape, LockExclusive, InTransaction, RowLocked, TypeOK, Steps
<1>3. (UnderLock /\ MessageFrozen)'
  BY ConstantsAssumption DEF UnderLock, MessageFrozen, HoldsClaim, Last, TypeOK, WorkerShape,
        LockExclusive, InTransaction
<1>4. AnswerBacked'
  BY DEF AnswerBacked, TypeOK, NoAnswer
<1>5. RowsReload'
  BY DEF RowsReload, WellFormed, Last, TypeOK, UnderLock, HoldsClaim, WorkerShape
<1>6. (KeysStand /\ OneContentPerDelivery /\ SentIsBacked)'
  <2>1. state[job[w]] = "in_progress" /\ message[job[w]] \in {None, content[w]}
        /\ job[w] \in Deliveries
    BY DEF UnderLock, HoldsClaim, WorkerShape, TypeOK
  <2>2. SentIsBacked' /\ KeysStand'
    BY <2>1 DEF SentIsBacked, KeysStand, Last, TypeOK
  <2>3. OneContentPerDelivery'
    <3> SUFFICES ASSUME NEW e \in Deliveries
                 PROVE  /\ \A i \in 1 .. Len(emails[e]) : emails[e][i] = message'[e]
                        /\ \A c \in Contents : <<e, c>> \in wire => c = message'[e]
      BY DEF OneContentPerDelivery
    <3>1. CASE message[e] = message'[e]
      BY <3>1 DEF OneContentPerDelivery
    <3>2. CASE message[e] # message'[e]
      <4>1. message[e] = None
        BY <2>1, <3>2 DEF TypeOK
      <4>2. \A c \in Contents : <<e, c>> \notin wire
        BY <4>1, ConstantsAssumption DEF OneContentPerDelivery
      <4>3. emails[e] \in Seq(Contents)
        BY DEF TypeOK
      <4>4. \A i \in 1 .. Len(emails[e]) : emails[e][i] \in Contents /\ emails[e][i] = None
        BY <4>1, <4>3, ElementOfSeq DEF OneContentPerDelivery
      <4>5. QED
        BY <4>2, <4>4, ConstantsAssumption
    <3>3. QED
      BY <3>1, <3>2
  <2>4. QED
    BY <2>2, <2>3
<1>7. QED
  BY <1>1, <1>2, <1>3, <1>4, <1>5, <1>6

\* The provider takes the frozen message, and the answer names the email it made of it.
LEMMA ProviderAcceptsRowInv ==
  ASSUME RowInv, NEW w \in Workers, ProviderAccepts(w)
  PROVE  RowInv'
<1> USE DEF RowInv, ProviderAccepts, Goto, Answered, rowVars
<1>0. /\ job[w] \in Deliveries /\ content[w] \in Contents /\ message[job[w]] = content[w]
      /\ NewEmail(job[w], message[job[w]])
  BY DEF WorkerShape, MessageFrozen, TypeOK
<1>a. /\ emails' \in [Deliveries -> Seq(Contents)]
      /\ remembered' \in [Deliveries -> Nat]
      /\ Len(emails[job[w]]) \in Nat /\ Len(emails'[job[w]]) = Len(emails[job[w]]) + 1
  BY <1>0, NewEmailAppends
<1>b. /\ KeysStand' /\ SentIsBacked'
      /\ \A e \in Deliveries : \A i \in 1 .. Len(emails'[e]) : emails'[e][i] = message[e]
      /\ \A e \in Deliveries : Len(emails[e]) \in Nat /\ Len(emails'[e]) \in Nat
                              /\ Len(emails[e]) <= Len(emails'[e])
  BY <1>0, NewEmailKeeps
<1>1. TypeOK'
  <2>1. answer' \in [Workers -> Answers]
    BY <1>a DEF TypeOK, Answers
  <2>2. QED
    BY <1>a, <2>1 DEF TypeOK, Steps, InTransaction
<1>2. (WorkerShape /\ LockExclusive)'
  BY ConstantsAssumption DEF WorkerShape, LockExclusive, InTransaction, TypeOK
<1>3. (UnderLock /\ MessageFrozen)'
  BY DEF UnderLock, MessageFrozen, HoldsClaim, Last, TypeOK
<1>4. AnswerBacked'
  <2> SUFFICES ASSUME NEW v \in Workers, answer'[v].kind = "accepted"
               PROVE  /\ pc'[v] \in {"answered", "recording"}
                      /\ answer'[v].messageId \in 1 .. Len(emails'[job'[v]])
    BY DEF AnswerBacked
  <2>1. CASE v = w
    BY <1>0, <1>a, <2>1 DEF TypeOK
  <2>2. CASE v # w
    <3>1. answer[v].kind = "accepted" /\ answer'[v] = answer[v] /\ pc'[v] = pc[v] /\ job'[v] = job[v]
      BY <2>2 DEF TypeOK
    <3>2. pc[v] \in {"answered", "recording"} /\ answer[v].messageId \in 1 .. Len(emails[job[v]])
      BY <3>1 DEF AnswerBacked
    <3>3. job[v] \in Deliveries
      BY <3>2 DEF WorkerShape, TypeOK
    <3>4. QED
      BY <1>b, <3>1, <3>2, <3>3
  <2>3. QED
    BY <2>1, <2>2
<1>5. RowsReload'
  BY DEF RowsReload, WellFormed, Last, TypeOK
<1>6. OneContentPerDelivery'
  BY <1>b DEF OneContentPerDelivery
<1>7. QED
  BY <1>b, <1>1, <1>2, <1>3, <1>4, <1>5, <1>6

\* Under a key it knows the provider answers with the email the key stands for.
LEMMA ProviderReplaysRowInv ==
  ASSUME RowInv, NEW w \in Workers, ProviderReplays(w)
  PROVE  RowInv'
<1> USE DEF RowInv, ProviderReplays, Goto, Answered, KeyKnown, rowVars, workerVars, providerVars
<1>1. TypeOK'
  <2>1. remembered[job[w]] \in Nat
    BY DEF TypeOK, WorkerShape
  <2>2. answer' \in [Workers -> Answers]
    BY <2>1 DEF TypeOK, Answers
  <2>3. QED
    BY <2>2 DEF TypeOK, Steps, InTransaction
<1>2. (WorkerShape /\ LockExclusive)'
  BY ConstantsAssumption DEF WorkerShape, LockExclusive, InTransaction, RowLocked, TypeOK, Steps
<1>3. (UnderLock /\ MessageFrozen)'
  BY ConstantsAssumption DEF UnderLock, MessageFrozen, HoldsClaim, Last, TypeOK, WorkerShape, InTransaction, RowLocked
<1>4. AnswerBacked'
  <2>1. job[w] \in Deliveries /\ remembered[job[w]] \in 1 .. Len(emails[job[w]])
    BY LenProperties DEF WorkerShape, KeysStand, TypeOK
  <2>2. QED
    BY <2>1 DEF AnswerBacked, TypeOK
<1>5. RowsReload'
  BY DEF RowsReload, WellFormed, Last, TypeOK
<1>6. (KeysStand /\ OneContentPerDelivery /\ SentIsBacked)'
  BY DEF KeysStand, OneContentPerDelivery, SentIsBacked, Last, TypeOK
<1>7. QED
  BY <1>1, <1>2, <1>3, <1>4, <1>5, <1>6

\* No answer: the request is lost, or still on the wire with the frozen message.
LEMMA ProviderSilentRowInv ==
  ASSUME RowInv, NEW w \in Workers, ProviderSilent(w)
  PROVE  RowInv'
<1> USE DEF RowInv, ProviderSilent, Goto, Answered, rowVars, workerVars, providerVars
<1>1. TypeOK'
  <2>1. wire' \subseteq Deliveries \X Contents
    BY LeavesWireKeeps
  <2>2. answer' \in [Workers -> Answers]
    BY DEF TypeOK, Answers
  <2>3. QED
    BY <2>1, <2>2 DEF LeavesWire, TypeOK, Steps, InTransaction
<1>2. (WorkerShape /\ LockExclusive)'
  BY ConstantsAssumption DEF LeavesWire, WorkerShape, LockExclusive, InTransaction, RowLocked, TypeOK, Steps
<1>3. (UnderLock /\ MessageFrozen)'
  BY ConstantsAssumption DEF UnderLock, MessageFrozen, HoldsClaim, Last, TypeOK, WorkerShape, InTransaction, RowLocked
<1>4. AnswerBacked'
  BY DEF LeavesWire, AnswerBacked, TypeOK, NoAnswer
<1>5. RowsReload'
  BY DEF LeavesWire, RowsReload, WellFormed, Last, TypeOK
<1>6. (KeysStand /\ OneContentPerDelivery /\ SentIsBacked)'
  BY LeavesWireKeeps DEF LeavesWire, KeysStand, SentIsBacked, Last, TypeOK
<1>7. QED
  BY <1>1, <1>2, <1>3, <1>4, <1>5, <1>6

\* A late request is taken, with or without its key still known.
LEMMA TakeFromWireRowInv ==
  ASSUME RowInv, NEW d \in Deliveries, NEW c \in Contents, TakeFromWire(d, c)
  PROVE  RowInv'
<1> USE DEF RowInv, TakeFromWire, rowVars, workerVars
<1>1. wire' \subseteq wire /\ c = message[d] /\ message[d] \in Contents
  BY DEF OneContentPerDelivery
<1>2. (WorkerShape /\ LockExclusive /\ UnderLock /\ MessageFrozen /\ RowsReload)'
  BY DEF WorkerShape, LockExclusive, UnderLock, HoldsClaim, MessageFrozen, RowsReload,
         WellFormed, Last
<1>3. CASE KeyKnown(d)
  <2>1. emails' = emails /\ remembered' = remembered
    BY <1>3
  <2>2. TypeOK'
    BY <1>1, <2>1 DEF TypeOK
  <2>3. AnswerBacked' /\ KeysStand' /\ SentIsBacked'
    BY <2>1 DEF AnswerBacked, KeysStand, SentIsBacked, Last
  <2>4. OneContentPerDelivery'
    BY <1>1, <2>1 DEF OneContentPerDelivery
  <2>5. QED
    BY <1>2, <2>2, <2>3, <2>4
<1>4. CASE ~KeyKnown(d)
  <2>1. NewEmail(d, message[d])
    BY <1>1, <1>4
  <2>2. TypeOK'
    BY <1>1, <2>1, NewEmailAppends DEF TypeOK
  <2>3. /\ KeysStand' /\ SentIsBacked'
        /\ \A e \in Deliveries : \A i \in 1 .. Len(emails'[e]) : emails'[e][i] = message[e]
        /\ \A e \in Deliveries : Len(emails[e]) \in Nat /\ Len(emails'[e]) \in Nat
                                /\ Len(emails[e]) <= Len(emails'[e])
    BY <1>1, <2>1, NewEmailKeeps
  <2>4. AnswerBacked'
    BY <2>3 DEF AnswerBacked, WorkerShape, TypeOK
  <2>5. OneContentPerDelivery'
    BY <1>1, <2>3 DEF OneContentPerDelivery
  <2>6. QED
    BY <1>2, <2>2, <2>3, <2>4, <2>5
<1>5. QED
  BY <1>3, <1>4

\* A lock is taken on a row that is pending and that nobody has locked.
LEMMA ClaimLockRowInv ==
  ASSUME RowInv, NEW w \in Workers, NEW d \in Deliveries, ClaimLock(w, d)
  PROVE  RowInv'
<1> USE DEF RowInv, ClaimLock, Goto, rowVars, providerVars
<1>1. (TypeOK /\ WorkerShape /\ LockExclusive)'
  BY ConstantsAssumption
  DEF TypeOK, WorkerShape, LockExclusive, Claimable, RowLocked, InTransaction, Steps
<1>2. (UnderLock /\ MessageFrozen)'
  BY ConstantsAssumption DEF UnderLock, MessageFrozen, HoldsClaim, Last, TypeOK, Claimable
<1>3. AnswerBacked'
  BY DEF AnswerBacked, TypeOK
<1>4. QED
  BY <1>1, <1>2, <1>3, NothingWritten

\* send_claimed starts with a token: nothing is read or written yet.
LEMMA ResumeRowInv ==
  ASSUME RowInv, NEW w \in Workers, NEW d \in Deliveries, NEW a \in AttemptIds, Resume(w, d, a)
  PROVE  RowInv'
<1> USE DEF RowInv, Resume, Goto, rowVars, providerVars
<1>1. (TypeOK /\ WorkerShape /\ LockExclusive)'
  BY ConstantsAssumption
  DEF TypeOK, WorkerShape, LockExclusive, InTransaction, Steps
<1>2. (UnderLock /\ MessageFrozen)'
  BY ConstantsAssumption DEF UnderLock, MessageFrozen, HoldsClaim, Last, TypeOK
<1>3. AnswerBacked'
  BY DEF AnswerBacked, TypeOK
<1>4. QED
  BY <1>1, <1>2, <1>3, NothingWritten

\* The lock is taken and the token checked under it.
LEMMA PrepareLockRowInv ==
  ASSUME RowInv, NEW w \in Workers, NEW c \in Contents, PrepareLock(w, c)
  PROVE  RowInv'
<1> USE DEF RowInv, PrepareLock, Goto, rowVars, providerVars
<1>1. (TypeOK /\ WorkerShape /\ LockExclusive)'
  BY ConstantsAssumption
  DEF TypeOK, WorkerShape, LockExclusive, RowLocked, InTransaction, Steps
<1>2. (UnderLock /\ MessageFrozen)'
  BY ConstantsAssumption DEF UnderLock, MessageFrozen, HoldsClaim, Last, TypeOK, CanPrepare
<1>3. AnswerBacked'
  BY DEF AnswerBacked, TypeOK
<1>4. QED
  BY <1>1, <1>2, <1>3, NothingWritten

\* The same before an outcome is written.
LEMMA RecordLockRowInv ==
  ASSUME RowInv, NEW w \in Workers, RecordLock(w)
  PROVE  RowInv'
<1> USE DEF RowInv, RecordLock, Goto, rowVars, providerVars
<1>1. (TypeOK /\ WorkerShape /\ LockExclusive)'
  BY ConstantsAssumption
  DEF TypeOK, WorkerShape, LockExclusive, RowLocked, InTransaction, Steps
<1>2. (UnderLock /\ MessageFrozen)'
  BY ConstantsAssumption DEF UnderLock, MessageFrozen, HoldsClaim, Last, TypeOK
<1>3. AnswerBacked'
  BY DEF AnswerBacked, TypeOK
<1>4. QED
  BY <1>1, <1>2, <1>3, NothingWritten

\* Returning or raising leaves nothing behind but an idle worker.
LEMMA ReleaseRowInv ==
  ASSUME RowInv, NEW w \in Workers, Release(w), UNCHANGED <<rowVars, providerVars>>
  PROVE  RowInv'
<1> USE DEF RowInv, Release, Goto, rowVars, providerVars
<1>1. (TypeOK /\ WorkerShape /\ LockExclusive)'
  BY ConstantsAssumption
  DEF TypeOK, WorkerShape, LockExclusive, InTransaction, Steps, Answers, NoAnswer
<1>2. (UnderLock /\ MessageFrozen)'
  BY DEF UnderLock, MessageFrozen, HoldsClaim, Last, TypeOK
<1>3. AnswerBacked'
  BY DEF AnswerBacked, TypeOK, NoAnswer
<1>4. QED
  BY <1>1, <1>2, <1>3, NothingWritten

\* A crash or rollback leaves the rows as they were, and perhaps a request on the wire.
LEMMA WorkerFailsRowInv ==
  ASSUME RowInv, NEW w \in Workers, WorkerFails(w)
  PROVE  RowInv'
<1>1. CASE pc[w] # "sending"
  BY <1>1, ReleaseRowInv DEF WorkerFails, providerVars
<1>2. CASE pc[w] = "sending"
  <2> USE DEF RowInv, WorkerFails, Release, Goto, rowVars
  <2>1. /\ wire' \subseteq Deliveries \X Contents /\ OneContentPerDelivery'
        /\ UNCHANGED <<emails, remembered>>
    BY <1>2, LeavesWireKeeps DEF LeavesWire
  <2>2. (TypeOK /\ WorkerShape /\ LockExclusive)'
    BY <2>1, ConstantsAssumption
    DEF TypeOK, WorkerShape, LockExclusive, InTransaction, Steps, Answers, NoAnswer
  <2>3. (UnderLock /\ MessageFrozen)'
    BY DEF UnderLock, MessageFrozen, HoldsClaim, Last, TypeOK
  <2>4. AnswerBacked'
    BY <2>1 DEF AnswerBacked, TypeOK, NoAnswer
  <2>5. (RowsReload /\ KeysStand /\ SentIsBacked)'
    BY <2>1 DEF RowsReload, WellFormed, KeysStand, SentIsBacked, Last
  <2>6. QED
    BY <2>1, <2>2, <2>3, <2>4, <2>5
<1>3. QED
  BY <1>1, <1>2

\* ProviderDefers and ProviderRejects: an answer without an email.
LEMMA NoEmailRowInv ==
  ASSUME RowInv, NEW w \in Workers, NEW kind \in {"retryable", "definitive"},
         pc[w] = "sending", Answered(w, kind, 0), UNCHANGED providerVars
  PROVE  RowInv'
<1> USE DEF RowInv, Answered, Goto, rowVars, providerVars
<1>1. (TypeOK /\ WorkerShape /\ LockExclusive)'
  BY DEF TypeOK, WorkerShape, LockExclusive, InTransaction, Steps, Answers
<1>2. (UnderLock /\ MessageFrozen)'
  BY DEF UnderLock, MessageFrozen, HoldsClaim, Last, TypeOK
<1>3. AnswerBacked'
  BY DEF AnswerBacked, TypeOK
<1>4. QED
  BY <1>1, <1>2, <1>3, NothingWritten

\* A forgotten key stands for no email.
LEMMA ForgetKeyRowInv ==
  ASSUME RowInv, NEW d \in Deliveries, ForgetKey(d)
  PROVE  RowInv'
<1> USE DEF RowInv, ForgetKey, rowVars, workerVars
<1>1. (TypeOK /\ WorkerShape /\ LockExclusive /\ UnderLock /\ MessageFrozen /\ AnswerBacked)'
  BY DEF TypeOK, WorkerShape, LockExclusive, UnderLock, HoldsClaim, Last, MessageFrozen, AnswerBacked
<1>2. KeysStand'
  BY LenProperties DEF KeysStand, TypeOK
<1>3. (RowsReload /\ OneContentPerDelivery /\ SentIsBacked)'
  BY DEF RowsReload, WellFormed, OneContentPerDelivery, SentIsBacked, Last
<1>4. QED
  BY <1>1, <1>2, <1>3

\* A claim appends an open attempt to a history without one.
LEMMA SaveClaimRowInv ==
  ASSUME RowInv, NEW w \in Workers, NEW a \in AttemptIds, SaveClaim(w, a)
  PROVE  RowInv'
<1> DEFINE d == job[w]
           opened == [id |-> a, outcome |-> "open", messageId |-> 0]
<1> USE DEF RowInv, SaveClaim, Goto, providerVars
<1>1. d \in Deliveries /\ attempts[d] \in Seq(Attempts) /\ opened \in Attempts
      /\ state[d] = "pending"
  <2>1. d \in Deliveries /\ attempts[d] \in Seq(Attempts) /\ state[d] = "pending"
    BY DEF WorkerShape, UnderLock, TypeOK
  <2>2. opened \in Attempts
    BY DEF Attempts, Outcomes
  <2>3. QED
    BY <2>1, <2>2
<1>2. /\ attempts' = [attempts EXCEPT ![d] = Append(attempts[d], opened)]
      /\ Append(attempts[d], opened) \in Seq(Attempts)
      /\ Len(attempts[d]) \in Nat
      /\ Len(attempts'[d]) = Len(attempts[d]) + 1
      /\ attempts'[d][Len(attempts'[d])] = opened
      /\ \A i \in 1 .. Len(attempts[d]) : attempts'[d][i] = attempts[d][i]
      /\ \A e \in Deliveries \ {d} : attempts'[e] = attempts[e]
  BY <1>1, AppendLast, LenProperties DEF TypeOK
<1> HIDE DEF opened
<1>3. TypeOK'
  <2>1. attempts' \in [Deliveries -> Seq(Attempts)]
    BY <1>2 DEF TypeOK
  <2>2. state' \in [Deliveries -> States] /\ active' \in [Deliveries -> AttemptIds \cup {None}]
    BY DEF TypeOK, States
  <2>3. pc' \in [Workers -> Steps] /\ token' \in [Workers -> AttemptIds \cup {None}]
    BY DEF TypeOK, Steps
  <2>4. QED
    BY <2>1, <2>2, <2>3 DEF TypeOK
<1>4. (WorkerShape /\ LockExclusive)'
  BY DEF WorkerShape, LockExclusive, InTransaction, TypeOK
<1>5. \A v \in Workers \ {w} : pc[v] \in InTransaction => job[v] # d
  BY DEF LockExclusive, InTransaction
<1>6. (UnderLock /\ MessageFrozen)'
  BY <1>2, <1>5 DEF UnderLock, MessageFrozen, HoldsClaim, Last, TypeOK, InTransaction, WorkerShape
<1>7. AnswerBacked' /\ KeysStand' /\ OneContentPerDelivery'
  BY DEF AnswerBacked, KeysStand, OneContentPerDelivery, TypeOK
<1>8. RowsReload'
  <2> SUFFICES ASSUME NEW e \in Deliveries PROVE WellFormed(e)'
    BY DEF RowsReload
  <2>1. CASE e # d
    <3>1. WellFormed(e) /\ attempts'[e] = attempts[e] /\ state'[e] = state[e]
          /\ active'[e] = active[e] /\ message'[e] = message[e]
      BY <1>2, <2>1 DEF RowsReload, TypeOK
    <3>2. QED
      BY <3>1 DEF WellFormed, Last
  <2>2. CASE e = d
    <3>1. WellFormed(d)
      BY <1>1 DEF RowsReload
    <3>2. \A i \in 1 .. Len(attempts'[d]) - 1 : attempts'[d][i].outcome = "failed"
      BY <1>1, <1>2, <3>1 DEF WellFormed, Last
    <3>3. state'[d] = "in_progress" /\ active'[d] = a
      BY <1>1 DEF TypeOK
    <3>4. QED
      BY <1>2, <2>2, <3>2, <3>3 DEF WellFormed, Last, opened
  <2>3. QED
    BY <2>1, <2>2
<1>9. SentIsBacked'
  BY <1>2 DEF SentIsBacked, Last, TypeOK
<1>10. QED
  BY <1>3, <1>4, <1>6, <1>7, <1>8, <1>9

\* SaveSent, SaveFailure, SaveRejection and SaveAmbiguous.
LEMMA CompleteRowInv ==
  ASSUME RowInv, NEW w \in Workers, NEW kind, NEW outcome, NEW next,
         Complete(w, kind, outcome, next),
         \/ kind = "accepted" /\ outcome = "sent" /\ next = "sent"
         \/ kind = "retryable" /\ outcome = "failed" /\ next = "pending"
         \/ kind = "definitive" /\ outcome = "rejected" /\ next = "failed"
         \/ kind = "ambiguous" /\ outcome = "ambiguous" /\ next = "in_progress"
  PROVE  RowInv'
<1> USE DEF RowInv, Complete, Release, Goto, providerVars
<1>0. PICK d \in Deliveries : d = job[w]
  BY DEF WorkerShape, TypeOK
<1> DEFINE n == Len(attempts[d])
           done == Completed(w, outcome)
<1>1. /\ attempts[d] \in Seq(Attempts) /\ n \in Nat /\ n > 0
      /\ state[d] = "in_progress" /\ Last(d) \in Attempts /\ HoldsClaim(d, token[w])
  <2>1. attempts[d] \in Seq(Attempts) /\ HoldsClaim(d, token[w])
    BY <1>0 DEF UnderLock, TypeOK
  <2>2. n \in Nat /\ n > 0 /\ n \in 1 .. Len(attempts[d]) /\ state[d] = "in_progress"
    BY <2>1, LenProperties DEF HoldsClaim
  <2>3. Last(d) \in Attempts
    BY <2>1, <2>2, ElementOfSeq DEF Last
  <2>4. QED
    BY <2>1, <2>2, <2>3
<1>2. done \in Attempts /\ done.outcome = outcome /\ done.id = Last(d).id
      /\ done.messageId = answer[w].messageId
  BY <1>0, <1>1 DEF Completed, Attempts, Outcomes, Answers, TypeOK
<1>3. /\ attempts' = [attempts EXCEPT ![d] = [attempts[d] EXCEPT ![n] = done]]
      /\ attempts'[d] \in Seq(Attempts)
      /\ Len(attempts'[d]) = n
      /\ Last(d)' = done
      /\ \A i \in 1 .. n - 1 : attempts'[d][i] = attempts[d][i]
      /\ \A e \in Deliveries \ {d} : attempts'[e] = attempts[e]
  <2>1. attempts' = [attempts EXCEPT ![d] = [attempts[d] EXCEPT ![n] = done]]
    BY <1>0 DEF TypeOK
  <2>2. attempts'[d] = [attempts[d] EXCEPT ![n] = done]
    BY <1>1, <2>1 DEF TypeOK
  <2>3. /\ attempts'[d] \in Seq(Attempts)
        /\ Len(attempts'[d]) = n
        /\ attempts'[d][n] = done
        /\ \A i \in 1 .. n - 1 : attempts'[d][i] = attempts[d][i]
    BY <1>1, <1>2, <2>2, ReplaceLast
  <2>4. \A e \in Deliveries \ {d} : attempts'[e] = attempts[e]
    BY <2>1 DEF TypeOK
  <2>5. Last(d)' = done
    BY <2>3 DEF Last
  <2>6. QED
    BY <2>1, <2>3, <2>4, <2>5
<1>4. /\ state' = [state EXCEPT ![d] = next]
      /\ active' = [active EXCEPT ![d] = IF next = "in_progress" THEN @ ELSE None]
      /\ pc[w] = "recording" /\ answer[w].kind = kind
  BY <1>0
<1> HIDE DEF done, Complete
<1>5. TypeOK'
  <2>1. attempts' \in [Deliveries -> Seq(Attempts)]
    BY <1>1, <1>3 DEF TypeOK
  <2>2. QED
    BY <1>4, <2>1 DEF Complete, TypeOK, States, Steps, InTransaction, Answers, NoAnswer
<1>6. (WorkerShape /\ LockExclusive)'
  BY ConstantsAssumption DEF Complete, WorkerShape, LockExclusive, InTransaction, TypeOK
<1>7. (UnderLock /\ MessageFrozen)'
  <2>1. \A v \in Workers \ {w} : pc[v] \in InTransaction => job[v] # d
    BY <1>0, <1>4 DEF LockExclusive, InTransaction
  <2>2. QED
    BY <1>0, <1>3, <1>4, <2>1
    DEF Complete, UnderLock, MessageFrozen, HoldsClaim, Last, TypeOK, InTransaction, WorkerShape
<1>8. AnswerBacked' /\ KeysStand' /\ OneContentPerDelivery'
  BY DEF Complete, AnswerBacked, KeysStand, OneContentPerDelivery, TypeOK, NoAnswer
<1>9. RowsReload'
  <2> SUFFICES ASSUME NEW e \in Deliveries PROVE WellFormed(e)'
    BY DEF RowsReload
  <2>1. CASE e # d
    <3>1. WellFormed(e) /\ attempts'[e] = attempts[e] /\ state'[e] = state[e]
          /\ active'[e] = active[e] /\ message'[e] = message[e]
      BY <1>3, <1>4, <2>1 DEF Complete, RowsReload, TypeOK
    <3>2. QED
      BY <3>1 DEF WellFormed, Last
  <2>2. CASE e = d
    <3>1. /\ \A i \in 1 .. n - 1 : attempts'[d][i].outcome = "failed"
          /\ active[d] = Last(d).id
      BY <1>1, <1>3 DEF RowsReload, WellFormed
    <3>2. /\ state'[d] = next
          /\ active'[d] = IF next = "in_progress" THEN Last(d).id ELSE None
      BY <1>4, <3>1 DEF TypeOK
    <3>3. Last(d)'.outcome = outcome /\ Last(d)'.id = Last(d).id
      BY <1>2, <1>3
    <3>4. QED
      BY <1>1, <1>3, <2>2, <3>1, <3>2, <3>3 DEF WellFormed
  <2>3. QED
    BY <2>1, <2>2
<1>10. SentIsBacked'
  <2> SUFFICES ASSUME NEW e \in Deliveries, state'[e] = "sent"
               PROVE  /\ Last(e)'.messageId \in 1 .. Len(emails[e])
                      /\ emails[e][Last(e)'.messageId] = message[e]
    BY DEF SentIsBacked, Complete
  <2>1. CASE e # d
    BY <1>3, <1>4, <2>1 DEF SentIsBacked, Last, TypeOK
  <2>2. CASE e = d
    <3>1. answer[w].kind = "accepted"
      BY <1>4, <2>2 DEF TypeOK
    <3>2. Last(d)'.messageId = answer[w].messageId
      BY <1>2, <1>3
    <3>3. answer[w].messageId \in 1 .. Len(emails[d])
      BY <1>0, <3>1 DEF AnswerBacked
    <3>4. emails[d][answer[w].messageId] = message[d]
      BY <3>3 DEF OneContentPerDelivery
    <3>5. QED
      BY <2>2, <3>2, <3>3, <3>4
  <2>3. QED
    BY <2>1, <2>2
<1>11. QED
  BY <1>5, <1>6, <1>7, <1>8, <1>9, <1>10

\* Every step, whatever tokens and keys do, keeps the invariant.
LEMMA RowInvStep == RowInv /\ [Next]_vars => RowInv'
<1> SUFFICES ASSUME RowInv, [Next]_vars PROVE RowInv'
  OBVIOUS
<1>1. CASE UNCHANGED vars
  BY <1>1 DEF RowInv, vars, rowVars, workerVars, providerVars, TypeOK, WorkerShape, LockExclusive,
     UnderLock, HoldsClaim, Last, RowsReload, WellFormed, MessageFrozen, AnswerBacked, KeysStand,
     OneContentPerDelivery, SentIsBacked
<1>2. ASSUME NEW d \in Deliveries, Request(d) \/ ForgetKey(d) PROVE RowInv'
  BY <1>2, RequestRowInv, ForgetKeyRowInv
<1>3. ASSUME NEW d \in Deliveries, NEW c \in Contents, TakeFromWire(d, c) PROVE RowInv'
  BY <1>3, TakeFromWireRowInv
<1>4. ASSUME NEW w \in Workers, Claim(w) PROVE RowInv'
  BY <1>4, ClaimLockRowInv, SaveClaimRowInv DEF Claim
<1>5. ASSUME NEW w \in Workers, Send(w) PROVE RowInv'
  <2>1. ASSUME NEW c \in Contents, PrepareRefused(w, c) PROVE RowInv'
    BY <2>1, ReleaseRowInv DEF PrepareRefused
  <2>2. QED
    BY <1>5, <2>1, PrepareLockRowInv, SaveMessageRowInv DEF Send
<1>6. ASSUME NEW w \in Workers, Provider(w) PROVE RowInv'
  <2>1. CASE ProviderDefers(w) \/ ProviderRejects(w)
    BY <2>1, NoEmailRowInv DEF ProviderDefers, ProviderRejects
  <2>2. QED
    BY <1>6, <2>1, ProviderAcceptsRowInv, ProviderReplaysRowInv, ProviderSilentRowInv DEF Provider
<1>7. ASSUME NEW w \in Workers, Record(w) PROVE RowInv'
  <2>1. CASE RecordLock(w)
    BY <2>1, RecordLockRowInv
  <2>2. CASE RecordStale(w)
    BY <2>2, ReleaseRowInv DEF RecordStale
  <2>3. CASE SaveSent(w)
    BY <2>3, CompleteRowInv DEF SaveSent
  <2>4. CASE SaveFailure(w)
    BY <2>4, CompleteRowInv DEF SaveFailure
  <2>5. CASE SaveRejection(w)
    BY <2>5, CompleteRowInv DEF SaveRejection
  <2>6. CASE SaveAmbiguous(w)
    BY <2>6, CompleteRowInv DEF SaveAmbiguous
  <2>7. QED
    BY <1>7, <2>1, <2>2, <2>3, <2>4, <2>5, <2>6 DEF Record
<1>8. ASSUME NEW w \in Workers, WorkerFails(w) PROVE RowInv'
  BY <1>8, WorkerFailsRowInv
<1>9. ASSUME NEW w \in Workers, NEW d \in Deliveries, NEW a \in AttemptIds, Resume(w, d, a)
      PROVE  RowInv'
  BY <1>9, ResumeRowInv
<1>10. QED
  BY <1>1, <1>2, <1>3, <1>4, <1>5, <1>6, <1>7, <1>8, <1>9 DEF Next

\* The row invariant holds for the code as it is, tokens used again and keys forgotten.
THEOREM RowInvariance == Spec => []RowInv
<1>1. Init => RowInv
  BY InitRowInv
<1>2. RowInv /\ [Next]_vars => RowInv'
  BY RowInvStep
<1>3. QED
  BY <1>1, <1>2, PTL DEF Spec

\* Every variable keeps its type.
THEOREM TypeCorrect == Spec => []TypeOK
<1>1. RowInv => TypeOK
  BY DEF RowInv
<1>2. QED
  BY <1>1, RowInvariance, PTL

\* Every committed delivery row satisfies what InvoiceDelivery.__post_init__
\* demands of a row that is read back, however workers interleave, fail or
\* reuse tokens.
THEOREM RowsAlwaysReload == Spec => []RowsReload
<1>1. RowInv => RowsReload
  BY DEF RowInv
<1>2. QED
  BY <1>1, RowInvariance, PTL

\* A delivery recorded as sent names an email the provider accepted, with the
\* content that was frozen.
THEOREM SentAlwaysBacked == Spec => []SentIsBacked
<1>1. RowInv => SentIsBacked
  BY DEF RowInv
<1>2. QED
  BY <1>1, RowInvariance, PTL

\* All emails of a delivery, and all requests on their way, carry the content
\* frozen before the first call.
THEOREM OneContentAlways == Spec => []OneContentPerDelivery
<1>1. RowInv => OneContentPerDelivery
  BY DEF RowInv
<1>2. QED
  BY <1>1, RowInvariance, PTL

-----------------------------------------------------------------------------
(* History *)

\* A claim adds to the history and rewrites nothing of it.
LEMMA SaveClaimHistory ==
  ASSUME RowInv, NEW w \in Workers, NEW a \in AttemptIds, SaveClaim(w, a)
  PROVE  HistoryKept
<1> USE DEF RowInv, SaveClaim
<1>1. PICK d \in Deliveries : d = job[w]
  BY DEF WorkerShape, TypeOK
<1>2. attempts[d] \in Seq(Attempts) /\ Len(attempts[d]) \in Nat /\ state[d] = "pending"
  BY <1>1, LenProperties DEF TypeOK, UnderLock
<1>3. [id |-> a, outcome |-> "open", messageId |-> 0] \in Attempts
  BY DEF Attempts, Outcomes
<1>4. /\ Len(attempts'[d]) = Len(attempts[d]) + 1
      /\ \A i \in 1 .. Len(attempts[d]) : attempts'[d][i] = attempts[d][i]
  BY <1>1, <1>2, <1>3, AppendLast DEF TypeOK
<1>5. \A e \in Deliveries \ {d} : attempts'[e] = attempts[e] /\ state'[e] = state[e]
                                  /\ Len(attempts[e]) \in Nat
  BY <1>1, LenProperties DEF TypeOK
<1>6. QED
  BY <1>2, <1>4, <1>5 DEF HistoryKept

\* An outcome completes the open attempt, the last one, and no other.
LEMMA CompleteHistory ==
  ASSUME RowInv, NEW w \in Workers, NEW kind, NEW outcome, NEW next,
         Complete(w, kind, outcome, next)
  PROVE  HistoryKept
<1> USE DEF RowInv, Complete
<1>1. PICK d \in Deliveries : d = job[w]
  BY DEF WorkerShape, TypeOK
<1>2. /\ attempts[d] \in Seq(Attempts) /\ Len(attempts[d]) \in Nat /\ Len(attempts[d]) > 0
      /\ state[d] = "in_progress" /\ attempts[d][Len(attempts[d])].outcome = "open"
  BY <1>1, LenProperties DEF TypeOK, UnderLock, HoldsClaim, Last
<1>3. attempts'[d] = [attempts[d] EXCEPT ![Len(attempts[d])] = Completed(w, outcome)]
  BY <1>1 DEF TypeOK
<1>4. /\ Len(attempts'[d]) = Len(attempts[d])
      /\ \A i \in 1 .. Len(attempts[d]) :
           i # Len(attempts[d]) => attempts'[d][i] = attempts[d][i]
  BY <1>2, <1>3
<1>5. \A e \in Deliveries \ {d} : attempts'[e] = attempts[e] /\ state'[e] = state[e]
                                  /\ Len(attempts[e]) \in Nat
  BY <1>1, LenProperties DEF TypeOK
<1>6. QED
  BY <1>2, <1>4, <1>5 DEF HistoryKept

\* What an attempt ended with, a frozen message and a terminal state are never
\* rewritten.
THEOREM HistoryAlwaysFinal == Spec => HistoryIsFinal
<1>1. ASSUME RowInv, [Next]_vars PROVE HistoryKept \/ UNCHANGED vars
  <2>1. \A d \in Deliveries : Len(attempts[d]) \in Nat
    BY <1>1, LenProperties DEF RowInv, TypeOK
  <2>2. CASE UNCHANGED rowVars
    BY <2>1, <2>2 DEF rowVars, HistoryKept
  <2>3. ASSUME NEW d \in Deliveries, Request(d) PROVE HistoryKept
    BY <1>1, <2>1, <2>3 DEF RowInv, TypeOK, Request, HistoryKept
  <2>4. ASSUME NEW w \in Workers, SaveMessage(w) PROVE HistoryKept
    BY <1>1, <2>1, <2>4 DEF RowInv, TypeOK, UnderLock, WorkerShape, SaveMessage, HistoryKept
  <2>5. ASSUME NEW w \in Workers, NEW a \in AttemptIds, SaveClaim(w, a) PROVE HistoryKept
    BY <1>1, <2>5, SaveClaimHistory
  <2>6. ASSUME NEW w \in Workers,
               SaveSent(w) \/ SaveFailure(w) \/ SaveRejection(w) \/ SaveAmbiguous(w)
        PROVE  HistoryKept
    BY <1>1, <2>6, CompleteHistory DEF SaveSent, SaveFailure, SaveRejection, SaveAmbiguous
  <2>7. QED
    <3>1. ASSUME Next PROVE UNCHANGED rowVars \/ HistoryKept
      BY <2>3, <2>4, <2>5, <2>6, <3>1
      DEF Next, ForgetKey, TakeFromWire, Claim, ClaimLock, Send, PrepareLock, PrepareRefused,
          Provider, ProviderAccepts, ProviderReplays, ProviderDefers, ProviderRejects,
          ProviderSilent, Answered, Record, RecordLock, RecordStale, WorkerFails, Resume
    <3>2. QED
      BY <1>1, <2>2, <3>1
<1>2. QED
  BY <1>1, RowInvariance, PTL DEF Spec, HistoryIsFinal

-----------------------------------------------------------------------------
(* ClaimInv: a claim belongs to one worker *)

\* The part of ClaimInv that RowInv does not have.
ClaimPart ==
  ExclusiveWork /\ ClaimHeld /\ MailedStaysClaimed /\ WireIsFirst /\ AtMostOneEmail

\* At first nothing is claimed and nothing mailed.
LEMMA InitClaimInv == Init => ClaimInv
<1> SUFFICES ASSUME Init PROVE ClaimInv
  OBVIOUS
<1>1. RowInv
  BY InitRowInv
<1>2. ClaimPart
  BY EmptySeq DEF Init, ClaimPart, ExclusiveWork, ClaimHeld, MailedStaysClaimed, MayBeMailed,
                  WireIsFirst, AtMostOneEmail
<1>3. QED
  BY <1>1, <1>2 DEF ClaimInv, ClaimPart

\* Nothing has left for a delivery whose worker has not reached an answer.
LEMMA NotMailedYet ==
  ASSUME ClaimInv, NEW w \in Workers, pc[w] \in {"claimed", "preparing", "sending"}
  PROVE  /\ job[w] \in Deliveries /\ state[job[w]] = "in_progress"
         /\ emails[job[w]] = <<>> /\ remembered[job[w]] = 0
         /\ \A c \in Contents : <<job[w], c>> \notin wire
<1>1. job[w] \in Deliveries /\ state[job[w]] = "in_progress"
  BY DEF ClaimInv, RowInv, WorkerShape, TypeOK, ClaimHeld, HoldsClaim
<1>2. ~MayBeMailed(job[w])
  BY <1>1 DEF ClaimInv, MailedStaysClaimed
<1>3. remembered[job[w]] = 0
  BY <1>1, <1>2, EmptySeq DEF MayBeMailed, ClaimInv, RowInv, KeysStand
<1>4. QED
  BY <1>1, <1>2, <1>3 DEF MayBeMailed

\* Nothing was mailed for a delivery before it was requested.
LEMMA RequestClaim ==
  ASSUME ClaimInv, NEW d \in Deliveries, Request(d)
  PROVE  ClaimPart'
<1> USE DEF ClaimInv, RowInv, Request, workerVars, providerVars
<1>1. ~MayBeMailed(d)
  BY DEF MailedStaysClaimed
<1>2. (ExclusiveWork /\ WireIsFirst /\ AtMostOneEmail)'
  BY DEF ExclusiveWork, WireIsFirst, AtMostOneEmail
<1>3. ClaimHeld'
  BY DEF ClaimHeld, HoldsClaim, Last, TypeOK
<1>4. MailedStaysClaimed'
  BY <1>1 DEF MailedStaysClaimed, MayBeMailed, TypeOK
<1>5. QED
  BY <1>2, <1>3, <1>4 DEF ClaimPart

\* A pending row no one has locked has no worker at all.
LEMMA ClaimLockClaim ==
  ASSUME ClaimInv, NEW w \in Workers, NEW d \in Deliveries, ClaimLock(w, d)
  PROVE  ClaimPart'
<1> USE DEF ClaimInv, RowInv, ClaimLock, Goto, rowVars, providerVars
<1>1. state[d] = "pending" /\ \A v \in Workers : job[v] # d
  <2>1. state[d] = "pending" /\ ~RowLocked(d)
    BY DEF Claimable
  <2>2. ASSUME NEW v \in Workers, job[v] = d PROVE FALSE
    <3>1. pc[v] \notin {"idle", "claiming"}
      BY <2>1, <2>2, ConstantsAssumption DEF RowLocked, InTransaction, WorkerShape
    <3>2. state[d] = "in_progress"
      BY <2>2, <3>1 DEF ClaimHeld, HoldsClaim
    <3>3. QED
      BY <2>1, <3>2
  <2>3. QED
    BY <2>1, <2>2
<1>2. ~MayBeMailed(d)
  BY <1>1 DEF MailedStaysClaimed
<1>3. ExclusiveWork'
  BY <1>1 DEF ExclusiveWork, TypeOK
<1>4. (ClaimHeld /\ WireIsFirst /\ AtMostOneEmail)'
  BY DEF ClaimHeld, HoldsClaim, Last, WireIsFirst, AtMostOneEmail, TypeOK
<1>5. MailedStaysClaimed'
  <2> SUFFICES ASSUME NEW e \in Deliveries, MayBeMailed(e)'
               PROVE  /\ state[e] \in {"in_progress", "sent"}
                      /\ \A v \in Workers : job'[v] = e =>
                           /\ pc'[v] \in {"answered", "recording"}
                           /\ answer[v].kind \in {"accepted", "ambiguous"}
    BY DEF MailedStaysClaimed
  <2>1. MayBeMailed(e) /\ e # d
    BY <1>2 DEF MayBeMailed
  <2>2. job'[w] = d /\ \A v \in Workers \ {w} : job'[v] = job[v] /\ pc'[v] = pc[v]
    BY DEF TypeOK
  <2>3. QED
    BY <2>1, <2>2 DEF MailedStaysClaimed
<1>6. QED
  BY <1>3, <1>4, <1>5 DEF ClaimPart

\* A claim is of a pending delivery, so of one nothing was mailed for, and by its only worker.
LEMMA SaveClaimClaim ==
  ASSUME ClaimInv, NEW w \in Workers, NEW a \in AttemptIds, SaveClaim(w, a)
  PROVE  ClaimPart'
<1> USE DEF ClaimInv, RowInv, SaveClaim, Goto, providerVars
<1>1. PICK d \in Deliveries : d = job[w]
  BY DEF WorkerShape, TypeOK
<1>2. state[d] = "pending" /\ attempts[d] \in Seq(Attempts) /\ Len(attempts[d]) \in Nat
  BY <1>1, LenProperties DEF UnderLock, TypeOK
<1>3. [id |-> a, outcome |-> "open", messageId |-> 0] \in Attempts
  BY DEF Attempts, Outcomes
<1>4. /\ Len(attempts'[d]) = Len(attempts[d]) + 1
      /\ attempts'[d][Len(attempts'[d])] = [id |-> a, outcome |-> "open", messageId |-> 0]
  BY <1>1, <1>2, <1>3, AppendLast DEF TypeOK
<1>5. \A v \in Workers \ {w} : job[v] # d
  BY <1>1, ConstantsAssumption DEF ExclusiveWork
<1>6. ExclusiveWork' /\ WireIsFirst' /\ AtMostOneEmail'
  BY DEF ExclusiveWork, WireIsFirst, AtMostOneEmail
<1>7. ClaimHeld'
  <2> SUFFICES ASSUME NEW v \in Workers, pc'[v] \notin {"idle", "claiming"}
               PROVE  HoldsClaim(job[v], token[v])'
    BY DEF ClaimHeld
  <2>1. CASE v = w
    BY <1>1, <1>2, <1>4, <2>1 DEF HoldsClaim, Last, TypeOK
  <2>2. CASE v # w
    BY <1>1, <1>5, <2>2 DEF ClaimHeld, HoldsClaim, Last, TypeOK
  <2>3. QED
    BY <2>1, <2>2
<1>8. MailedStaysClaimed'
  <2> SUFFICES ASSUME NEW e \in Deliveries, MayBeMailed(e)'
               PROVE  /\ state'[e] \in {"in_progress", "sent"}
                      /\ \A v \in Workers : job[v] = e =>
                           /\ pc'[v] \in {"answered", "recording"}
                           /\ answer[v].kind \in {"accepted", "ambiguous"}
    BY DEF MailedStaysClaimed
  <2>1. MayBeMailed(e) /\ e # d
    BY <1>2 DEF MayBeMailed, MailedStaysClaimed
  <2>2. state'[e] = state[e]
    BY <1>1, <2>1 DEF TypeOK
  <2>3. \A v \in Workers \ {w} : pc'[v] = pc[v]
    BY DEF TypeOK
  <2>4. QED
    BY <1>1, <2>1, <2>2, <2>3 DEF MailedStaysClaimed
<1>9. QED
  BY <1>6, <1>7, <1>8 DEF ClaimPart

\* A step that touches no row, no email and no request, and in which every worker
\* either lets go of its delivery or moves on with the claim and answer it has.
LEMMA QuietStep ==
  ASSUME ClaimInv, UNCHANGED <<state, active, attempts, providerVars>>,
         \A v \in Workers :
           \/ job'[v] = None /\ pc'[v] = "idle"
           \/ /\ job'[v] = job[v] /\ token'[v] = token[v]
              /\ pc'[v] \notin {"idle", "claiming"} => pc[v] \notin {"idle", "claiming"}
              /\ pc[v] \in {"answered", "recording"} =>
                   pc'[v] \in {"answered", "recording"} /\ answer'[v] = answer[v]
  PROVE  ClaimPart'
<1>1. /\ state' = state /\ active' = active /\ attempts' = attempts
      /\ emails' = emails /\ wire' = wire
  BY DEF providerVars
<1>2. ExclusiveWork'
  <2> SUFFICES ASSUME NEW v \in Workers, NEW u \in Workers, job'[v] = job'[u], job'[v] # None
               PROVE  v = u
    BY DEF ExclusiveWork
  <2>1. job[v] = job[u] /\ job[v] # None
    OBVIOUS
  <2>2. QED
    BY <2>1 DEF ClaimInv, ExclusiveWork
<1>3. ClaimHeld'
  <2> SUFFICES ASSUME NEW v \in Workers, pc'[v] \notin {"idle", "claiming"}
               PROVE  HoldsClaim(job'[v], token'[v])
    BY <1>1 DEF ClaimHeld, HoldsClaim, Last
  <2>1. pc[v] \notin {"idle", "claiming"} /\ job'[v] = job[v] /\ token'[v] = token[v]
    OBVIOUS
  <2>2. HoldsClaim(job[v], token[v])
    BY <2>1 DEF ClaimInv, ClaimHeld
  <2>3. QED
    BY <2>1, <2>2
<1>4. MailedStaysClaimed'
  <2> SUFFICES ASSUME NEW e \in Deliveries, MayBeMailed(e)'
               PROVE  /\ state'[e] \in {"in_progress", "sent"}
                      /\ \A v \in Workers : job'[v] = e =>
                           /\ pc'[v] \in {"answered", "recording"}
                           /\ answer'[v].kind \in {"accepted", "ambiguous"}
    BY DEF MailedStaysClaimed
  <2>1. MayBeMailed(e)
    BY <1>1 DEF MayBeMailed
  <2>2. /\ state[e] \in {"in_progress", "sent"}
        /\ \A v \in Workers : job[v] = e =>
             /\ pc[v] \in {"answered", "recording"}
             /\ answer[v].kind \in {"accepted", "ambiguous"}
    BY <2>1 DEF ClaimInv, MailedStaysClaimed
  <2>3. ASSUME NEW v \in Workers, job'[v] = e
        PROVE  /\ pc'[v] \in {"answered", "recording"}
               /\ answer'[v].kind \in {"accepted", "ambiguous"}
    <3>1. job[v] = e
      BY <2>3, ConstantsAssumption
    <3>2. pc'[v] \in {"answered", "recording"} /\ answer'[v] = answer[v]
      BY <2>2, <2>3, <3>1, ConstantsAssumption
    <3>3. QED
      BY <2>2, <3>1, <3>2
  <2>4. QED
    BY <1>1, <2>2, <2>3
<1>5. WireIsFirst' /\ AtMostOneEmail'
  BY <1>1 DEF ClaimInv, WireIsFirst, AtMostOneEmail
<1>6. QED
  BY <1>2, <1>3, <1>4, <1>5 DEF ClaimPart

\* PrepareLock, SaveMessage and RecordLock: the worker moves on under its claim.
LEMMA MoveOnClaim ==
  ASSUME ClaimInv, NEW w \in Workers,
         \/ \E c \in Contents : PrepareLock(w, c)
         \/ SaveMessage(w) \/ RecordLock(w)
  PROVE  ClaimPart'
<1>1. /\ UNCHANGED <<state, active, attempts, job, token, answer, providerVars>>
      /\ \/ pc[w] = "claimed" /\ pc' = [pc EXCEPT ![w] = "preparing"]
         \/ pc[w] = "preparing" /\ pc' = [pc EXCEPT ![w] = "sending"]
         \/ pc[w] = "answered" /\ pc' = [pc EXCEPT ![w] = "recording"]
  BY DEF PrepareLock, SaveMessage, RecordLock, Goto, rowVars, providerVars
<1>2. pc \in [Workers -> Steps]
  BY DEF ClaimInv, RowInv, TypeOK
<1>3. \A v \in Workers :
        /\ pc'[v] \notin {"idle", "claiming"} => pc[v] \notin {"idle", "claiming"}
        /\ pc[v] \in {"answered", "recording"} => pc'[v] \in {"answered", "recording"}
  BY <1>1, <1>2
<1>4. QED
  BY <1>1, <1>3, QuietStep

\* A worker that lets go leaves what may have been mailed with nobody.
LEMMA ReleaseClaim ==
  ASSUME ClaimInv, NEW w \in Workers, Release(w), UNCHANGED <<rowVars, providerVars>>
  PROVE  ClaimPart'
<1>1. pc'[w] = "idle" /\ job'[w] = None
  BY DEF ClaimInv, RowInv, TypeOK, Release, Goto
<1>2. \A v \in Workers \ {w} : /\ pc'[v] = pc[v] /\ job'[v] = job[v] /\ token'[v] = token[v]
                               /\ answer'[v] = answer[v]
  BY DEF ClaimInv, RowInv, TypeOK, Release, Goto
<1>3. UNCHANGED <<state, active, attempts, providerVars>>
  BY DEF rowVars
<1>4. QED
  BY <1>1, <1>2, <1>3, QuietStep

\* The one email of the delivery leaves now.
LEMMA ProviderAcceptsClaim ==
  ASSUME ClaimInv, NEW w \in Workers, ProviderAccepts(w)
  PROVE  ClaimPart'
<1> USE DEF ProviderAccepts, Answered, Goto, rowVars
<1>1. /\ job[w] \in Deliveries /\ state[job[w]] = "in_progress" /\ emails[job[w]] = <<>>
      /\ \A c \in Contents : <<job[w], c>> \notin wire
  BY NotMailedYet
<1>2. PICK d \in Deliveries : d = job[w]
  BY <1>1
<1>3. content[w] \in Contents /\ TypeOK /\ NewEmail(d, content[w])
  BY <1>2 DEF ClaimInv, RowInv, WorkerShape
<1>4. Len(emails'[d]) <= 1 /\ \A e \in Deliveries \ {d} : emails'[e] = emails[e]
  <2>1. Len(emails'[d]) = Len(emails[d]) + 1
        /\ \A e \in Deliveries \ {d} : emails'[e] = emails[e]
    BY <1>3, NewEmailAppends
  <2>2. QED
    BY <1>1, <1>2, <2>1
<1>5. \A v \in Workers \ {w} : job[v] # d
  BY <1>2, ConstantsAssumption DEF ClaimInv, ExclusiveWork
<1> USE DEF ClaimInv, RowInv
<1>6. ExclusiveWork' /\ AtMostOneEmail' /\ WireIsFirst'
  <2>1. ExclusiveWork'
    BY DEF ExclusiveWork
  <2>2. AtMostOneEmail'
    <3> SUFFICES ASSUME NEW e \in Deliveries PROVE Len(emails'[e]) <= 1
      BY DEF AtMostOneEmail
    <3>1. CASE e = d
      BY <1>4, <3>1
    <3>2. CASE e # d
      <4>1. Len(emails[e]) <= 1 /\ emails'[e] = emails[e]
        BY <1>4, <3>2 DEF AtMostOneEmail
      <4>2. QED
        BY <4>1
    <3>3. QED
      BY <3>1, <3>2
  <2>3. WireIsFirst'
    BY <1>1, <1>2, <1>4 DEF WireIsFirst
  <2>4. QED
    BY <2>1, <2>2, <2>3
<1>7. ClaimHeld'
  BY DEF ClaimHeld, HoldsClaim, Last, TypeOK
<1>8. MailedStaysClaimed'
  <2> SUFFICES ASSUME NEW e \in Deliveries, MayBeMailed(e)'
               PROVE  /\ state[e] \in {"in_progress", "sent"}
                      /\ \A v \in Workers : job[v] = e =>
                           /\ pc'[v] \in {"answered", "recording"}
                           /\ answer'[v].kind \in {"accepted", "ambiguous"}
    BY DEF MailedStaysClaimed
  <2>a. /\ job' = job /\ pc'[w] = "answered" /\ answer'[w].kind = "accepted"
        /\ \A v \in Workers \ {w} : pc'[v] = pc[v] /\ answer'[v] = answer[v]
    BY DEF TypeOK
  <2>1. CASE e = d
    BY <1>1, <1>2, <1>5, <2>1, <2>a
  <2>2. CASE e # d
    <3>1. MayBeMailed(e)
      BY <1>4, <2>2 DEF MayBeMailed
    <3>2. job[w] # e
      BY <1>2, <2>2
    <3>3. QED
      BY <2>a, <3>1, <3>2 DEF MailedStaysClaimed
  <2>3. QED
    BY <2>1, <2>2
<1>9. QED
  BY <1>6, <1>7, <1>8 DEF ClaimPart

\* ProviderReplays cannot happen: a key is known only once an email has left.
LEMMA NoReplay ==
  ASSUME ClaimInv, NEW w \in Workers, ProviderReplays(w)
  PROVE  FALSE
BY NotMailedYet DEF ProviderReplays, KeyKnown

\* ProviderDefers, ProviderRejects: nothing left for the delivery.
LEMMA NoEmailClaim ==
  ASSUME ClaimInv, NEW w \in Workers, NEW kind \in {"retryable", "definitive"},
         pc[w] = "sending", Answered(w, kind, 0), UNCHANGED providerVars
  PROVE  ClaimPart'
<1>1. UNCHANGED <<state, active, attempts, job, token, providerVars>>
  BY DEF Answered, rowVars
<1>2. pc'[w] = "answered"
  BY DEF ClaimInv, RowInv, TypeOK, Answered, Goto
<1>3. \A v \in Workers \ {w} : pc'[v] = pc[v] /\ answer'[v] = answer[v]
  BY DEF ClaimInv, RowInv, TypeOK, Answered, Goto
<1>4. QED
  BY <1>1, <1>2, <1>3, QuietStep

\* ProviderSilent, and a worker that fails while it waits: the request may be on
\* the wire, and no worker is left that could put the delivery back.
LEMMA LeavesWireClaim ==
  ASSUME ClaimInv, NEW w \in Workers, pc[w] = "sending", LeavesWire(w), UNCHANGED rowVars,
         \/ Answered(w, "ambiguous", 0)
         \/ Release(w)
  PROVE  ClaimPart'
<1>1. /\ job[w] \in Deliveries /\ state[job[w]] = "in_progress" /\ emails[job[w]] = <<>>
      /\ \A c \in Contents : <<job[w], c>> \notin wire
  BY NotMailedYet
<1>2. PICK d \in Deliveries : d = job[w]
  BY <1>1
<1>3. /\ \A e \in Deliveries \ {d}, c \in Contents : <<e, c>> \in wire' <=> <<e, c>> \in wire
      /\ emails' = emails
  BY <1>2 DEF LeavesWire
<1>4. \A v \in Workers \ {w} : job[v] # d
  BY <1>2, ConstantsAssumption DEF ClaimInv, ExclusiveWork
<1> USE DEF ClaimInv, RowInv
<1>a. /\ UNCHANGED rowVars
      /\ \A v \in Workers \ {w} : pc'[v] = pc[v] /\ job'[v] = job[v] /\ token'[v] = token[v]
                                 /\ answer'[v] = answer[v]
      /\ \/ pc'[w] = "answered" /\ job'[w] = job[w] /\ token'[w] = token[w]
            /\ answer'[w].kind = "ambiguous"
         \/ pc'[w] = "idle" /\ job'[w] = None
  <2> HIDE DEF ClaimInv, RowInv
  <2>1. /\ pc \in [Workers -> Steps] /\ job \in [Workers -> Deliveries \cup {None}]
        /\ token \in [Workers -> AttemptIds \cup {None}] /\ answer \in [Workers -> Answers]
    BY DEF ClaimInv, RowInv, TypeOK
  <2>2. CASE Answered(w, "ambiguous", 0)
    <3>1. UNCHANGED <<job, token>>
      BY <2>2 DEF Answered
    <3>2. pc'[w] = "answered" /\ \A v \in Workers \ {w} : pc'[v] = pc[v]
      BY <2>1, <2>2 DEF Answered, Goto
    <3>3. answer'[w].kind = "ambiguous" /\ \A v \in Workers \ {w} : answer'[v] = answer[v]
      BY <2>1, <2>2 DEF Answered
    <3>4. QED
      BY <3>1, <3>2, <3>3
  <2>3. CASE Release(w)
    <3>1. pc'[w] = "idle" /\ job'[w] = None
      BY <2>1, <2>3 DEF Release, Goto
    <3>2. \A v \in Workers \ {w} : /\ pc'[v] = pc[v] /\ job'[v] = job[v]
                                   /\ token'[v] = token[v] /\ answer'[v] = answer[v]
      BY <2>1, <2>3 DEF Release, Goto
    <3>3. QED
      BY <3>1, <3>2
  <2>4. QED
    BY <2>2, <2>3
<1> USE <1>a DEF rowVars
<1>5. ExclusiveWork' /\ AtMostOneEmail'
  <2>1. \A v \in Workers : job'[v] = job[v] \/ job'[v] = None
    OBVIOUS
  <2>2. ExclusiveWork'
    BY <2>1 DEF ExclusiveWork
  <2>3. AtMostOneEmail'
    BY <1>3 DEF AtMostOneEmail
  <2>4. QED
    BY <2>2, <2>3
<1>6. WireIsFirst'
  BY <1>1, <1>2, <1>3 DEF WireIsFirst
<1>7. ClaimHeld'
  <2> SUFFICES ASSUME NEW v \in Workers, pc'[v] \notin {"idle", "claiming"}
               PROVE  HoldsClaim(job'[v], token'[v])
    BY DEF ClaimHeld, HoldsClaim, Last
  <2>1. pc[v] \notin {"idle", "claiming"} /\ job'[v] = job[v] /\ token'[v] = token[v]
    OBVIOUS
  <2>2. QED
    BY <2>1 DEF ClaimHeld
<1>8. MailedStaysClaimed'
  <2> SUFFICES ASSUME NEW e \in Deliveries, MayBeMailed(e)'
               PROVE  /\ state[e] \in {"in_progress", "sent"}
                      /\ \A v \in Workers : job'[v] = e =>
                           /\ pc'[v] \in {"answered", "recording"}
                           /\ answer'[v].kind \in {"accepted", "ambiguous"}
    BY DEF MailedStaysClaimed
  <2>1. CASE e = d
    <3>1. \A v \in Workers : job'[v] = d => v = w
      BY <1>2, <1>4
    <3>2. job'[w] = d => pc'[w] = "answered" /\ answer'[w].kind = "ambiguous"
      BY ConstantsAssumption
    <3>3. QED
      BY <1>1, <1>2, <2>1, <3>1, <3>2
  <2>2. CASE e # d
    <3>1. MayBeMailed(e)
      BY <1>3, <2>2 DEF MayBeMailed
    <3>2. state[e] \in {"in_progress", "sent"} /\ job'[w] # e
      BY <1>2, <2>2, <3>1, ConstantsAssumption DEF MailedStaysClaimed
    <3>3. QED
      BY <3>1, <3>2 DEF MailedStaysClaimed
  <2>3. QED
    BY <2>1, <2>2
<1>9. QED
  BY <1>5, <1>6, <1>7, <1>8 DEF ClaimPart

\* A request taken late is the delivery's first email, and its last.
LEMMA TakeFromWireClaim ==
  ASSUME ClaimInv, NEW d \in Deliveries, NEW c \in Contents, TakeFromWire(d, c)
  PROVE  ClaimPart'
<1> USE DEF ClaimInv, RowInv, TakeFromWire, rowVars, workerVars
<1>1. /\ emails[d] = <<>> /\ remembered[d] = 0 /\ c = message[d]
      /\ MayBeMailed(d)
  BY EmptySeq DEF WireIsFirst, KeysStand, OneContentPerDelivery, MayBeMailed
<1>2. TypeOK /\ NewEmail(d, c)
  BY <1>1 DEF KeyKnown
<1>3. Len(emails'[d]) <= 1 /\ \A e \in Deliveries \ {d} : emails'[e] = emails[e]
  <2>1. Len(emails'[d]) = Len(emails[d]) + 1
        /\ \A e \in Deliveries \ {d} : emails'[e] = emails[e]
    BY <1>2, NewEmailAppends
  <2>2. QED
    BY <1>1, <2>1
<1>4. \A b \in Contents : <<d, b>> \notin wire'
  BY <1>1 DEF OneContentPerDelivery
<1>5. ExclusiveWork' /\ ClaimHeld'
  BY DEF ExclusiveWork, ClaimHeld, HoldsClaim, Last
<1>6. AtMostOneEmail' /\ WireIsFirst'
  <2>1. AtMostOneEmail'
    <3> SUFFICES ASSUME NEW e \in Deliveries PROVE Len(emails'[e]) <= 1
      BY DEF AtMostOneEmail
    <3>1. CASE e = d
      BY <1>3, <3>1
    <3>2. CASE e # d
      <4>1. Len(emails[e]) <= 1 /\ emails'[e] = emails[e]
        BY <1>3, <3>2 DEF AtMostOneEmail
      <4>2. QED
        BY <4>1
    <3>3. QED
      BY <3>1, <3>2
  <2>2. WireIsFirst'
    BY <1>3, <1>4 DEF WireIsFirst
  <2>3. QED
    BY <2>1, <2>2
<1>7. MailedStaysClaimed'
  <2> SUFFICES ASSUME NEW e \in Deliveries, MayBeMailed(e)'
               PROVE  /\ state[e] \in {"in_progress", "sent"}
                      /\ \A v \in Workers : job[v] = e =>
                           /\ pc[v] \in {"answered", "recording"}
                           /\ answer[v].kind \in {"accepted", "ambiguous"}
    BY DEF MailedStaysClaimed
  <2>1. MayBeMailed(e)
    <3>1. wire' \subseteq wire
      OBVIOUS
    <3>2. CASE e = d
      BY <1>1, <3>2
    <3>3. CASE e # d
      BY <1>3, <3>1, <3>3 DEF MayBeMailed
    <3>4. QED
      BY <3>2, <3>3
  <2>2. QED
    BY <2>1 DEF MailedStaysClaimed
<1>8. QED
  BY <1>5, <1>6, <1>7 DEF ClaimPart

\* The claim does not rest on the provider's memory.
LEMMA ForgetKeyClaim ==
  ASSUME ClaimInv, NEW d \in Deliveries, ForgetKey(d)
  PROVE  ClaimPart'
BY DEF ClaimInv, ClaimPart, ForgetKey, rowVars, workerVars, ExclusiveWork, ClaimHeld, HoldsClaim,
       Last, MailedStaysClaimed, MayBeMailed, WireIsFirst, AtMostOneEmail

\* The row leaves in_progress for pending or failed only if nothing was mailed.
LEMMA CompleteClaim ==
  ASSUME ClaimInv, NEW w \in Workers, NEW kind, NEW outcome, NEW next,
         Complete(w, kind, outcome, next),
         kind \in {"accepted", "ambiguous"} => next \in {"sent", "in_progress"}
  PROVE  ClaimPart'
<1> USE DEF ClaimInv, RowInv, Complete, Release, Goto, providerVars
<1>1. PICK d \in Deliveries : d = job[w]
  BY DEF WorkerShape, TypeOK
<1>2. \A v \in Workers \ {w} : job[v] # d
  BY <1>1, ConstantsAssumption DEF ExclusiveWork
<1>3. \A e \in Deliveries \ {d} : attempts'[e] = attempts[e] /\ state'[e] = state[e]
                                  /\ active'[e] = active[e]
  BY <1>1 DEF TypeOK
<1>4. (ExclusiveWork /\ WireIsFirst /\ AtMostOneEmail)'
  BY DEF ExclusiveWork, WireIsFirst, AtMostOneEmail, TypeOK
<1>5. ClaimHeld'
  <2> SUFFICES ASSUME NEW v \in Workers, pc'[v] \notin {"idle", "claiming"}
               PROVE  HoldsClaim(job[v], token[v])'
    BY DEF ClaimHeld
  <2>1. v # w /\ job'[v] = job[v] /\ token'[v] = token[v] /\ pc[v] \notin {"idle", "claiming"}
    BY DEF TypeOK
  <2>2. job[v] \in Deliveries \ {d} /\ HoldsClaim(job[v], token[v])
    BY <1>2, <2>1 DEF ClaimHeld, WorkerShape, TypeOK
  <2>3. QED
    BY <1>3, <2>1, <2>2 DEF HoldsClaim, Last
<1>6. MailedStaysClaimed'
  <2> SUFFICES ASSUME NEW e \in Deliveries, MayBeMailed(e)
               PROVE  /\ state'[e] \in {"in_progress", "sent"}
                      /\ \A v \in Workers : job'[v] = e =>
                           /\ pc'[v] \in {"answered", "recording"}
                           /\ answer'[v].kind \in {"accepted", "ambiguous"}
    BY DEF MailedStaysClaimed, MayBeMailed
  <2>1. CASE e = d
    <3>1. kind \in {"accepted", "ambiguous"}
      BY <1>1, <2>1 DEF MailedStaysClaimed
    <3>2. QED
      BY <1>1, <1>2, <2>1, <3>1, ConstantsAssumption DEF TypeOK
  <2>2. CASE e # d
    BY <1>3, <2>2, ConstantsAssumption DEF MailedStaysClaimed, TypeOK
  <2>3. QED
    BY <2>1, <2>2
<1>7. QED
  BY <1>4, <1>5, <1>6 DEF ClaimPart

\* Every step keeps it as long as no token is used again.
LEMMA ClaimInvStep == ~TokenReuse /\ ClaimInv /\ [Next]_vars => ClaimInv'
<1> SUFFICES ASSUME ~TokenReuse, ClaimInv, [Next]_vars PROVE ClaimInv'
  OBVIOUS
<1>1. RowInv'
  BY RowInvStep DEF ClaimInv
<1>2. ClaimPart'
  <2>1. CASE UNCHANGED vars
    <3>1. (ExclusiveWork /\ ClaimHeld /\ WireIsFirst /\ AtMostOneEmail)'
      BY <2>1 DEF ClaimInv, vars, rowVars, workerVars, providerVars, ExclusiveWork, ClaimHeld,
                  HoldsClaim, Last, WireIsFirst, AtMostOneEmail
    <3>2. MailedStaysClaimed'
      BY <2>1 DEF ClaimInv, vars, rowVars, workerVars, providerVars, MailedStaysClaimed, MayBeMailed
    <3>3. QED
      BY <3>1, <3>2 DEF ClaimPart
  <2>2. ASSUME NEW d \in Deliveries, Request(d) \/ ForgetKey(d) PROVE ClaimPart'
    BY <2>2, RequestClaim, ForgetKeyClaim
  <2>3. ASSUME NEW d \in Deliveries, NEW c \in Contents, TakeFromWire(d, c) PROVE ClaimPart'
    BY <2>3, TakeFromWireClaim
  <2>4. ASSUME NEW w \in Workers, Claim(w) PROVE ClaimPart'
    BY <2>4, ClaimLockClaim, SaveClaimClaim DEF Claim
  <2>5. ASSUME NEW w \in Workers, Send(w) PROVE ClaimPart'
    <3>1. ASSUME NEW c \in Contents, PrepareRefused(w, c) PROVE ClaimPart'
      BY <3>1, ReleaseClaim DEF PrepareRefused
    <3>2. QED
      BY <2>5, <3>1, MoveOnClaim DEF Send
  <2>6. ASSUME NEW w \in Workers, Provider(w) PROVE ClaimPart'
    <3>1. CASE ProviderDefers(w) \/ ProviderRejects(w)
      BY <3>1, NoEmailClaim DEF ProviderDefers, ProviderRejects
    <3>2. CASE ProviderSilent(w)
      BY <3>2, LeavesWireClaim DEF ProviderSilent, Answered
    <3>3. QED
      BY <2>6, <3>1, <3>2, ProviderAcceptsClaim, NoReplay DEF Provider
  <2>7. ASSUME NEW w \in Workers, Record(w) PROVE ClaimPart'
    <3>1. CASE RecordLock(w)
      BY <3>1, MoveOnClaim
    <3>2. CASE RecordStale(w)
      BY <3>2, ReleaseClaim DEF RecordStale
    <3>3. CASE SaveSent(w)
      BY <3>3, CompleteClaim DEF SaveSent
    <3>4. CASE SaveFailure(w)
      BY <3>4, CompleteClaim DEF SaveFailure
    <3>5. CASE SaveRejection(w)
      BY <3>5, CompleteClaim DEF SaveRejection
    <3>6. CASE SaveAmbiguous(w)
      BY <3>6, CompleteClaim DEF SaveAmbiguous
    <3>7. QED
      BY <2>7, <3>1, <3>2, <3>3, <3>4, <3>5, <3>6 DEF Record
  <2>8. ASSUME NEW w \in Workers, WorkerFails(w) PROVE ClaimPart'
    <3>1. CASE pc[w] = "sending"
      BY <2>8, <3>1, LeavesWireClaim DEF WorkerFails
    <3>2. CASE pc[w] # "sending"
      BY <2>8, <3>2, ReleaseClaim DEF WorkerFails
    <3>3. QED
      BY <3>1, <3>2
  <2>9. ASSUME NEW w \in Workers, NEW d \in Deliveries, NEW a \in AttemptIds, Resume(w, d, a)
        PROVE  FALSE
    BY <2>9 DEF Resume
  <2>10. QED
    BY <2>1, <2>2, <2>3, <2>4, <2>5, <2>6, <2>7, <2>8, <2>9 DEF Next
<1>3. QED
  BY <1>1, <1>2 DEF ClaimInv, ClaimPart

\* Without reuse of tokens a claim has one worker and one email at most, whatever is forgotten.
THEOREM ClaimInvariance == ASSUME ~TokenReuse PROVE Spec => []ClaimInv
<1>1. Init => ClaimInv
  BY InitClaimInv
<1>2. ClaimInv /\ [Next]_vars => ClaimInv'
  BY ClaimInvStep
<1>3. QED
  BY <1>1, <1>2, PTL DEF Spec

\* While no token is reused, no delivery is emailed twice, although workers
\* crash, requests arrive late and the provider forgets its keys.
THEOREM NeverTwice == ASSUME ~TokenReuse PROVE Spec => []AtMostOneEmail
<1>1. ClaimInv => AtMostOneEmail
  BY DEF ClaimInv
<1>2. QED
  BY <1>1, ClaimInvariance, PTL

\* While no token is reused, a delivery is worked on by one worker at a time.
THEOREM WorkIsExclusive == ASSUME ~TokenReuse PROVE Spec => []ExclusiveWork
<1>1. ClaimInv => ExclusiveWork
  BY DEF ClaimInv
<1>2. QED
  BY <1>1, ClaimInvariance, PTL

-----------------------------------------------------------------------------
(* Reused tokens, and a provider that remembers its keys *)

\* Every email that left is the one its key stands for.
KeyStandsForEmail ==
  \A d \in Deliveries : Len(emails[d]) <= 1 /\ (emails[d] = <<>> \/ KeyKnown(d))

\* An email taken without a known key is the delivery's first, and its key stands for it.
LEMMA NewEmailIsFirst ==
  ASSUME RowInv, KeyStandsForEmail, NEW d \in Deliveries, NEW c \in Contents,
         ~KeyKnown(d), NewEmail(d, c)
  PROVE  KeyStandsForEmail'
<1>1. emails[d] = <<>>
  BY DEF KeyStandsForEmail
<1>2. /\ Len(emails'[d]) = Len(emails[d]) + 1
      /\ remembered'[d] = Len(emails[d]) + 1
      /\ \A e \in Deliveries \ {d} : emails'[e] = emails[e] /\ remembered'[e] = remembered[e]
  BY NewEmailAppends DEF RowInv
<1>3. Len(emails'[d]) <= 1 /\ remembered'[d] # 0
  BY <1>1, <1>2
<1>4. QED
  BY <1>2, <1>3 DEF KeyStandsForEmail, KeyKnown

\* While no key is forgotten, a delivery with an email has a key that stands for it.
LEMMA KeyStep ==
  ASSUME ~KeyExpires, RowInv, KeyStandsForEmail, [Next]_vars
  PROVE  KeyStandsForEmail'
<1>1. CASE UNCHANGED <<emails, remembered>>
  BY <1>1 DEF KeyStandsForEmail, KeyKnown
<1>2. ASSUME NEW w \in Workers, ProviderAccepts(w) PROVE KeyStandsForEmail'
  <2>1. PICK d \in Deliveries, c \in Contents : d = job[w] /\ c = content[w]
    BY <1>2 DEF ProviderAccepts, RowInv, WorkerShape, TypeOK
  <2>2. QED
    BY <1>2, <2>1, NewEmailIsFirst DEF ProviderAccepts
<1>3. ASSUME NEW d \in Deliveries, NEW c \in Contents, TakeFromWire(d, c) PROVE KeyStandsForEmail'
  BY <1>1, <1>3, NewEmailIsFirst DEF TakeFromWire
<1>4. ASSUME NEW w \in Workers, Claim(w) \/ Send(w) \/ Provider(w) \/ Record(w) \/ WorkerFails(w)
      PROVE  KeyStandsForEmail'
  <2>1. CASE Claim(w)
    BY <1>1, <2>1 DEF Claim, ClaimLock, SaveClaim, providerVars
  <2>2. CASE Send(w)
    BY <1>1, <2>2 DEF Send, PrepareLock, PrepareRefused, SaveMessage, providerVars
  <2>3. CASE Provider(w)
    BY <1>1, <1>2, <2>3
    DEF Provider, ProviderReplays, ProviderDefers, ProviderRejects, ProviderSilent, LeavesWire,
        providerVars
  <2>4. CASE Record(w)
    BY <1>1, <2>4
    DEF Record, RecordLock, RecordStale, SaveSent, SaveFailure, SaveRejection, SaveAmbiguous,
        Complete, providerVars
  <2>5. CASE WorkerFails(w)
    BY <1>1, <2>5 DEF WorkerFails, LeavesWire, providerVars
  <2>6. QED
    BY <1>4, <2>1, <2>2, <2>3, <2>4, <2>5
<1>5. ASSUME NEW d \in Deliveries, Request(d) \/ ForgetKey(d) PROVE UNCHANGED <<emails, remembered>>
  BY <1>5 DEF Request, ForgetKey, providerVars
<1>6. QED
  BY <1>1, <1>3, <1>4, <1>5 DEF Next, Resume, vars, providerVars

\* Tokens may be reused at will: while the provider remembers the key of a
\* delivery, which provider_operation_key makes the same for every attempt, the
\* delivery is not emailed twice.
THEOREM NeverTwiceByKey == ASSUME ~KeyExpires PROVE Spec => []AtMostOneEmail
<1>1. Init => KeyStandsForEmail
  BY InitClaimInv DEF ClaimInv, AtMostOneEmail, Init, KeyStandsForEmail
<1>2. RowInv /\ KeyStandsForEmail /\ [Next]_vars => KeyStandsForEmail'
  BY KeyStep
<1>3. KeyStandsForEmail => AtMostOneEmail
  BY DEF KeyStandsForEmail, AtMostOneEmail
<1>4. QED
  BY <1>1, <1>2, <1>3, RowInvariance, PTL DEF Spec

-----------------------------------------------------------------------------
(* InvoiceDelivery implements DeliveryLifecycle *)

\* Nothing requested is where the life cycle begins.
LEMMA LifecycleInit == Init => Lifecycle!Init
BY EmptySeq DEF Init, Lifecycle!Init

\* A step that changes neither a state nor an email is a stutter.
LEMMA LifecycleStutter ==
  ASSUME UNCHANGED <<state, emails>>
  PROVE  UNCHANGED Lifecycle!vars
BY DEF Lifecycle!vars

\* An email is taken as the life cycle allows: the first, while in progress.
LEMMA LifecycleMail ==
  ASSUME ClaimInv, NEW d \in Deliveries, NEW c \in Contents, NewEmail(d, c),
         emails[d] = <<>>, state[d] = "in_progress", UNCHANGED state
  PROVE  Lifecycle!Mail(d)
<1> DEFINE mailed == [e \in Deliveries |-> Len(emails[e])]
<1>1. /\ Len(emails'[d]) = Len(emails[d]) + 1
      /\ \A e \in Deliveries \ {d} : emails'[e] = emails[e]
  BY NewEmailAppends DEF ClaimInv, RowInv
<1>2. Len(emails[d]) = 0 /\ Len(emails'[d]) = 1
  BY <1>1
<1>3. mailed' = [mailed EXCEPT ![d] = 1]
  BY <1>1, <1>2
<1>4. mailed[d] = 0
  BY <1>2
<1>5. QED
  BY <1>3, <1>4 DEF Lifecycle!Mail

\* Each recorded outcome is the life cycle's: retried and failed only if nothing was mailed.
LEMMA LifecycleComplete ==
  ASSUME ClaimInv, NEW w \in Workers, NEW kind, NEW outcome, NEW next,
         Complete(w, kind, outcome, next),
         \/ kind = "accepted" /\ next = "sent"
         \/ kind = "retryable" /\ next = "pending"
         \/ kind = "definitive" /\ next = "failed"
         \/ kind = "ambiguous" /\ next = "in_progress"
  PROVE  [Lifecycle!Next]_(Lifecycle!vars)
<1> USE DEF ClaimInv, RowInv
<1>1. PICK d \in Deliveries : d = job[w]
  BY DEF Complete, WorkerShape, TypeOK
<1>2. /\ state[d] = "in_progress" /\ state' = [state EXCEPT ![d] = next] /\ UNCHANGED emails
      /\ answer[w].kind = kind
  BY <1>1 DEF Complete, UnderLock, HoldsClaim, providerVars
<1>3. CASE kind = "accepted"
  <2>1. Len(emails[d]) \in Nat /\ answer[w].messageId \in 1 .. Len(emails[d]) /\ Len(emails[d]) <= 1
    BY <1>1, <1>2, <1>3, LenProperties DEF AnswerBacked, AtMostOneEmail, TypeOK
  <2>2. ASSUME NEW n \in Nat, NEW m \in 1 .. n, n <= 1 PROVE n = 1
    BY <2>2
  <2> HIDE DEF ClaimInv, RowInv
  <2>a. Len(emails[d]) = 1
    BY <2>1, <2>2
  <2>3. Lifecycle!Accept(d)
    BY <1>2, <1>3, <2>a DEF Lifecycle!Accept, Lifecycle!Move
  <2>4. QED
    BY <2>3 DEF Lifecycle!Next
<1>4. CASE kind \in {"retryable", "definitive"}
  <2>1. Len(emails[d]) = 0
    BY <1>1, <1>2, <1>4, EmptySeq DEF MailedStaysClaimed, MayBeMailed
  <2>2. Lifecycle!Retry(d) \/ Lifecycle!Reject(d)
    BY <1>2, <1>4, <2>1 DEF Lifecycle!Retry, Lifecycle!Reject, Lifecycle!Move
  <2>3. QED
    BY <2>2 DEF Lifecycle!Next
<1>5. CASE kind = "ambiguous"
  BY <1>2, <1>5, LifecycleStutter DEF TypeOK
<1>6. QED
  BY <1>3, <1>4, <1>5

\* Every step of the code is one of the life cycle, or changes nothing of it.
LEMMA LifecycleStep ==
  ASSUME ~TokenReuse, ClaimInv, [Next]_vars
  PROVE  [Lifecycle!Next]_(Lifecycle!vars)
<1> USE DEF ClaimInv, RowInv
<1>1. CASE UNCHANGED <<state, emails>>
  BY <1>1, LifecycleStutter
<1>2. ASSUME NEW d \in Deliveries, Request(d) PROVE Lifecycle!Next
  <2>1. Lifecycle!Request(d)
    BY <1>2 DEF Request, providerVars, Lifecycle!Request, Lifecycle!Move
  <2>2. QED
    BY <2>1 DEF Lifecycle!Next
<1>3. ASSUME NEW d \in Deliveries, NEW c \in Contents, TakeFromWire(d, c) PROVE Lifecycle!Next
  <2>1. emails[d] = <<>> /\ remembered[d] = 0 /\ UNCHANGED state
    BY <1>3, EmptySeq DEF TakeFromWire, rowVars, WireIsFirst, KeysStand
  <2>2. state[d] \in {"in_progress", "sent"}
    BY <1>3 DEF TakeFromWire, MailedStaysClaimed, MayBeMailed
  <2>3. state[d] # "sent"
    BY <2>1, EmptySeq DEF SentIsBacked
  <2>4. Lifecycle!Mail(d)
    BY <1>3, <2>1, <2>2, <2>3, LifecycleMail DEF TakeFromWire, KeyKnown
  <2>5. QED
    BY <2>4 DEF Lifecycle!Next
<1>4. ASSUME NEW w \in Workers, ProviderAccepts(w) PROVE Lifecycle!Next
  <2>1. PICK d \in Deliveries, c \in Contents : d = job[w] /\ c = content[w]
    BY <1>4 DEF ProviderAccepts, WorkerShape, TypeOK
  <2>2. state[d] = "in_progress" /\ emails[d] = <<>>
    BY <1>4, <2>1, NotMailedYet DEF ProviderAccepts
  <2>3. NewEmail(d, c) /\ UNCHANGED state
    BY <1>4, <2>1 DEF ProviderAccepts, Answered, rowVars
  <2>4. Lifecycle!Mail(d)
    BY <2>2, <2>3, LifecycleMail
  <2>5. QED
    BY <2>4 DEF Lifecycle!Next
<1>5. ASSUME NEW w \in Workers, NEW a \in AttemptIds, SaveClaim(w, a) PROVE Lifecycle!Next
  <2>1. PICK d \in Deliveries : d = job[w]
    BY <1>5 DEF SaveClaim, WorkerShape, TypeOK
  <2>2. state[d] = "pending" /\ state' = [state EXCEPT ![d] = "in_progress"] /\ UNCHANGED emails
    BY <1>5, <2>1 DEF SaveClaim, UnderLock, providerVars
  <2>3. Lifecycle!Claim(d)
    BY <2>2 DEF Lifecycle!Claim, Lifecycle!Move
  <2>4. QED
    BY <2>3 DEF Lifecycle!Next
<1>6. ASSUME NEW w \in Workers,
             SaveSent(w) \/ SaveFailure(w) \/ SaveRejection(w) \/ SaveAmbiguous(w)
      PROVE  [Lifecycle!Next]_(Lifecycle!vars)
  BY <1>6, LifecycleComplete DEF SaveSent, SaveFailure, SaveRejection, SaveAmbiguous
<1>7. ASSUME NEW w \in Workers, Claim(w) \/ Send(w) \/ Provider(w) \/ Record(w) \/ WorkerFails(w)
      PROVE  [Lifecycle!Next]_(Lifecycle!vars)
  <2>1. CASE Claim(w)
    BY <1>1, <1>5, <2>1 DEF Claim, ClaimLock, rowVars, providerVars
  <2>2. CASE Send(w)
    BY <1>1, <2>2 DEF Send, PrepareLock, PrepareRefused, SaveMessage, rowVars, providerVars
  <2>3. CASE Provider(w)
    BY <1>1, <1>4, <2>3
    DEF Provider, ProviderReplays, ProviderDefers, ProviderRejects, ProviderSilent, LeavesWire,
        Answered, rowVars, providerVars
  <2>4. CASE Record(w)
    BY <1>1, <1>6, <2>4 DEF Record, RecordLock, RecordStale, rowVars, providerVars
  <2>5. CASE WorkerFails(w)
    BY <1>1, <2>5 DEF WorkerFails, LeavesWire, rowVars, providerVars
  <2>6. QED
    BY <1>7, <2>1, <2>2, <2>3, <2>4, <2>5
<1>8. ASSUME NEW d \in Deliveries, ForgetKey(d) PROVE UNCHANGED <<state, emails>>
  BY <1>8 DEF ForgetKey, rowVars
<1>9. CASE UNCHANGED vars
  BY <1>1, <1>9 DEF vars, rowVars, providerVars
<1>10. QED
  BY <1>1, <1>2, <1>3, <1>7, <1>8, <1>9 DEF Next, Resume

\* While no token is reused, the module implements its abstract specification:
\* nothing is retried or failed once an email may have left, and only one does.
THEOREM RefinesLifecycle == ASSUME ~TokenReuse PROVE Spec => ImplementsLifecycle
<1>1. Init => Lifecycle!Init
  BY LifecycleInit
<1>2. ClaimInv /\ [Next]_vars => [Lifecycle!Next]_(Lifecycle!vars)
  BY LifecycleStep
<1>3. QED
  BY <1>1, <1>2, ClaimInvariance, PTL DEF Spec, ImplementsLifecycle, Lifecycle!Spec
-----------------------------------------------------------------------------
(* No claim is left without a worker *)

\* The strengthening of OpenHasWorker that a step keeps: it speaks of a claim,
\* which needs the row's state and its active id besides the open attempt.
ClaimHasWorker ==
  \A d \in Deliveries, a \in AttemptIds : HoldsClaim(d, a) =>
    \E w \in Workers : job[w] = d /\ token[w] = a

\* An attempt without an outcome is the last one, and the row's claim.
LEMMA OpenIsClaim ==
  ASSUME RowInv, NEW d \in Deliveries, NEW i \in DOMAIN attempts[d],
         attempts[d][i].outcome = "open"
  PROVE  attempts[d][i].id \in AttemptIds /\ HoldsClaim(d, attempts[d][i].id)
<1>1. attempts[d] \in Seq(Attempts) /\ Len(attempts[d]) \in Nat /\ i \in 1 .. Len(attempts[d])
  BY LenProperties DEF RowInv, TypeOK
<1>2. attempts[d][i] \in Attempts
  BY <1>1, ElementOfSeq
<1>3. WellFormed(d) /\ state[d] \in States
  BY DEF RowInv, RowsReload, TypeOK
<1>4. i = Len(attempts[d]) /\ Len(attempts[d]) > 0
  <2>1. i \notin 1 .. Len(attempts[d]) - 1
    BY <1>3 DEF WellFormed
  <2>2. QED
    BY <1>1, <2>1
<1>5. Last(d) = attempts[d][i]
  BY <1>4 DEF Last
<1>6. state[d] = "in_progress"
  BY <1>3, <1>4, <1>5 DEF WellFormed, States
<1>7. active[d] = Last(d).id
  BY <1>3, <1>6 DEF WellFormed
<1>8. QED
  BY <1>2, <1>4, <1>5, <1>6, <1>7 DEF HoldsClaim, Attempts

\* A step that writes no claim leaves none alone, if only a worker without a
\* claim takes up or gives up a delivery.
LEMMA ClaimsKeepWorkers ==
  ASSUME ClaimHasWorker, UNCHANGED <<state, active, attempts>>,
         \A v \in Workers : \/ job[v] = None \/ ~HoldsClaim(job[v], token[v])
                            \/ job'[v] = job[v] /\ token'[v] = token[v]
  PROVE  ClaimHasWorker'
<1> SUFFICES ASSUME NEW d \in Deliveries, NEW a \in AttemptIds, HoldsClaim(d, a)'
             PROVE  \E w \in Workers : job'[w] = d /\ token'[w] = a
  BY DEF ClaimHasWorker
<1>1. HoldsClaim(d, a)
  BY DEF HoldsClaim, Last
<1>2. PICK w \in Workers : job[w] = d /\ token[w] = a
  BY <1>1 DEF ClaimHasWorker
<1>3. job'[w] = job[w] /\ token'[w] = token[w]
  BY <1>1, <1>2, ConstantsAssumption
<1>4. QED
  BY <1>2, <1>3

\* A worker that was idle, or whose token had become stale, is the only one a
\* step of this kind concerns.
LEMMA OneWorkerMoves ==
  ASSUME ClaimHasWorker, RowInv, UNCHANGED <<state, active, attempts>>, NEW w \in Workers,
         pc[w] = "idle" \/ ~HoldsClaim(job[w], token[w]),
         \A v \in Workers \ {w} : job'[v] = job[v] /\ token'[v] = token[v]
  PROVE  ClaimHasWorker'
<1>1. job[w] = None \/ ~HoldsClaim(job[w], token[w])
  BY DEF RowInv, WorkerShape
<1>2. QED
  BY <1>1, ClaimsKeepWorkers

\* A new row has no claim.
LEMMA RequestHasWorker ==
  ASSUME RowInv, ClaimHasWorker, NEW d \in Deliveries, Request(d)
  PROVE  ClaimHasWorker'
<1> SUFFICES ASSUME NEW e \in Deliveries, NEW a \in AttemptIds, HoldsClaim(e, a)'
             PROVE  \E w \in Workers : job'[w] = e /\ token'[w] = a
  BY DEF ClaimHasWorker
<1>1. e # d
  BY DEF HoldsClaim, Request, RowInv, TypeOK
<1>2. HoldsClaim(e, a)
  BY <1>1 DEF HoldsClaim, Last, Request, RowInv, TypeOK
<1>3. QED
  BY <1>2 DEF ClaimHasWorker, Request, workerVars

\* Who saves a claim holds it, and the other claims are not touched.
LEMMA SaveClaimHasWorker ==
  ASSUME RowInv, ClaimHasWorker, NEW w \in Workers, NEW b \in AttemptIds, SaveClaim(w, b)
  PROVE  ClaimHasWorker'
<1>1. PICK d \in Deliveries : d = job[w]
  BY DEF SaveClaim, RowInv, WorkerShape, TypeOK
<1>2. state[d] = "pending"
  BY <1>1 DEF SaveClaim, RowInv, UnderLock
<1>3. /\ \A e \in Deliveries \ {d} :
           state'[e] = state[e] /\ active'[e] = active[e] /\ attempts'[e] = attempts[e]
      /\ active'[d] = b
      /\ \A v \in Workers \ {w} : job'[v] = job[v] /\ token'[v] = token[v]
      /\ job'[w] = d /\ token'[w] = b
  BY <1>1 DEF SaveClaim, RowInv, TypeOK
<1> SUFFICES ASSUME NEW e \in Deliveries, NEW a \in AttemptIds, HoldsClaim(e, a)'
             PROVE  \E v \in Workers : job'[v] = e /\ token'[v] = a
  BY DEF ClaimHasWorker
<1>4. CASE e = d
  <2>1. a = b
    BY <1>3, <1>4 DEF HoldsClaim
  <2>2. QED
    BY <1>3, <1>4, <2>1
<1>5. CASE e # d
  <2>1. HoldsClaim(e, a)
    BY <1>3, <1>5 DEF HoldsClaim, Last
  <2>2. PICK v \in Workers : job[v] = e /\ token[v] = a
    BY <2>1 DEF ClaimHasWorker
  <2>3. v # w
    BY <1>1, <1>5, <2>2
  <2>4. QED
    BY <1>3, <2>2, <2>3
<1>6. QED
  BY <1>4, <1>5

\* Who records an outcome leaves no claim behind, and touches no other.
LEMMA CompleteHasWorker ==
  ASSUME RowInv, ClaimHasWorker, NEW w \in Workers, NEW kind, NEW outcome, NEW next,
         Complete(w, kind, outcome, next), outcome # "open"
  PROVE  ClaimHasWorker'
<1>1. PICK d \in Deliveries : d = job[w]
  BY DEF Complete, RowInv, WorkerShape, TypeOK
<1> DEFINE n == Len(attempts[d])
<1>2. attempts[d] \in Seq(Attempts) /\ n \in Nat /\ n > 0
  BY <1>1, LenProperties DEF Complete, RowInv, UnderLock, HoldsClaim, TypeOK
<1>3. Completed(w, outcome).outcome = outcome
  BY DEF Completed
<1>4. /\ \A e \in Deliveries \ {d} :
           state'[e] = state[e] /\ active'[e] = active[e] /\ attempts'[e] = attempts[e]
      /\ attempts'[d] = [attempts[d] EXCEPT ![n] = Completed(w, outcome)]
      /\ \A v \in Workers \ {w} : job'[v] = job[v] /\ token'[v] = token[v]
  BY <1>1 DEF Complete, Release, RowInv, TypeOK
<1>5. Last(d)'.outcome # "open"
  <2>1. n \in DOMAIN attempts[d] /\ Len(attempts'[d]) = n
    BY <1>2, <1>4
  <2>2. attempts'[d][n] = Completed(w, outcome)
    BY <1>4, <2>1
  <2>3. QED
    BY <1>3, <2>1, <2>2 DEF Last
<1> SUFFICES ASSUME NEW e \in Deliveries, NEW a \in AttemptIds, HoldsClaim(e, a)'
             PROVE  \E v \in Workers : job'[v] = e /\ token'[v] = a
  BY DEF ClaimHasWorker
<1>6. e # d
  BY <1>5 DEF HoldsClaim
<1>7. HoldsClaim(e, a)
  BY <1>4, <1>6 DEF HoldsClaim, Last
<1>8. PICK v \in Workers : job[v] = e /\ token[v] = a
  BY <1>7 DEF ClaimHasWorker
<1>9. v # w
  BY <1>1, <1>6, <1>8
<1>10. QED
  BY <1>4, <1>8, <1>9

\* Callers that prepare one content are refused only for a stale token.
LEMMA RefusedIsStale ==
  ASSUME RowInv, \A b, c \in Contents : b = c, NEW w \in Workers, NEW c \in Contents,
         PrepareRefused(w, c)
  PROVE  ~HoldsClaim(job[w], token[w])
<1>1. job[w] \in Deliveries
  BY DEF PrepareRefused, RowInv, WorkerShape, TypeOK
<1>2. message[job[w]] \in {None, c}
  BY <1>1 DEF RowInv, TypeOK
<1>3. QED
  BY <1>2 DEF PrepareRefused, CanPrepare

\* Every step of a worker, or of anyone else, keeps a worker with every claim.
LEMMA ClaimHasWorkerStep ==
  ASSUME ~Failures, \A b, c \in Contents : b = c
  PROVE  RowInv /\ ClaimHasWorker /\ [Next]_vars => ClaimHasWorker'
<1> SUFFICES ASSUME RowInv, ClaimHasWorker, [Next]_vars PROVE ClaimHasWorker'
  OBVIOUS
<1>1. ASSUME UNCHANGED <<state, active, attempts, job, token>> PROVE ClaimHasWorker'
  BY <1>1, ClaimsKeepWorkers
<1>2. ASSUME NEW w \in Workers, Claim(w) PROVE ClaimHasWorker'
  <2>1. ASSUME NEW d \in Deliveries, ClaimLock(w, d) PROVE ClaimHasWorker'
    <3>1. /\ pc[w] = "idle" /\ UNCHANGED <<state, active, attempts, token>>
          /\ \A v \in Workers \ {w} : job'[v] = job[v]
      BY <2>1 DEF ClaimLock, rowVars, RowInv, TypeOK
    <3>2. QED
      BY <3>1, OneWorkerMoves
  <2>2. QED
    BY <1>2, <2>1, SaveClaimHasWorker DEF Claim
<1>3. ASSUME NEW w \in Workers, pc[w] = "idle" \/ ~HoldsClaim(job[w], token[w]),
             Release(w), UNCHANGED rowVars
      PROVE  ClaimHasWorker'
  <2>1. /\ UNCHANGED <<state, active, attempts>>
        /\ \A v \in Workers \ {w} : job'[v] = job[v] /\ token'[v] = token[v]
    BY <1>3 DEF Release, rowVars, RowInv, TypeOK
  <2>2. QED
    BY <1>3, <2>1, OneWorkerMoves
<1>4. ASSUME NEW w \in Workers, Send(w) PROVE ClaimHasWorker'
  <2>1. ASSUME NEW c \in Contents, PrepareRefused(w, c) PROVE ClaimHasWorker'
    BY <1>3, <2>1, RefusedIsStale DEF PrepareRefused
  <2>2. QED
    BY <1>1, <1>4, <2>1 DEF Send, PrepareLock, SaveMessage, rowVars
<1>5. ASSUME NEW w \in Workers, Provider(w) PROVE ClaimHasWorker'
  BY <1>1, <1>5
  DEF Provider, ProviderAccepts, ProviderReplays, ProviderDefers, ProviderRejects, ProviderSilent,
      Answered, rowVars
<1>6. ASSUME NEW w \in Workers, Record(w) PROVE ClaimHasWorker'
  <2>1. CASE RecordLock(w)
    BY <1>1, <2>1 DEF RecordLock, rowVars
  <2>2. CASE RecordStale(w)
    BY <1>3, <2>2 DEF RecordStale
  <2>3. CASE SaveSent(w) \/ SaveFailure(w) \/ SaveRejection(w) \/ SaveAmbiguous(w)
    BY <2>3, CompleteHasWorker DEF SaveSent, SaveFailure, SaveRejection, SaveAmbiguous
  <2>4. QED
    BY <1>6, <2>1, <2>2, <2>3 DEF Record
<1>7. ASSUME NEW w \in Workers, NEW d \in Deliveries, NEW a \in AttemptIds, Resume(w, d, a)
      PROVE  ClaimHasWorker'
  <2>1. /\ pc[w] = "idle" /\ UNCHANGED <<state, active, attempts>>
        /\ \A v \in Workers \ {w} : job'[v] = job[v] /\ token'[v] = token[v]
    BY <1>7 DEF Resume, rowVars, RowInv, TypeOK
  <2>2. QED
    BY <2>1, OneWorkerMoves
<1>8. ASSUME NEW d \in Deliveries, ForgetKey(d) \/ \E c \in Contents : TakeFromWire(d, c)
      PROVE  ClaimHasWorker'
  BY <1>1, <1>8 DEF ForgetKey, TakeFromWire, rowVars, workerVars
<1>9. CASE UNCHANGED vars
  BY <1>1, <1>9 DEF vars, rowVars, workerVars
<1>10. QED
  BY <1>2, <1>4, <1>5, <1>6, <1>7, <1>8, <1>9, RequestHasWorker DEF Next, WorkerFails

\* What the liveness property rests on, for any number of deliveries, workers
\* and attempts: as long as no worker fails and callers prepare one content, an
\* attempt without an outcome is in the hands of a worker that can record one,
\* however tokens are reused, answers arrive and keys are forgotten.
THEOREM OpenAlwaysHasWorker ==
  ASSUME ~Failures, \A b, c \in Contents : b = c
  PROVE  Spec => []OpenHasWorker
<1>1. Init => ClaimHasWorker
  BY DEF Init, ClaimHasWorker, HoldsClaim
<1>2. RowInv /\ ClaimHasWorker /\ [Next]_vars => ClaimHasWorker'
  BY ClaimHasWorkerStep
<1>3. RowInv /\ ClaimHasWorker => OpenHasWorker
  BY OpenIsClaim DEF OpenHasWorker, ClaimHasWorker
<1>4. QED
  BY <1>1, <1>2, <1>3, RowInvariance, PTL DEF Spec
=============================================================================
