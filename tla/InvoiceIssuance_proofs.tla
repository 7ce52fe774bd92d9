------------------------- MODULE InvoiceIssuance_proofs -------------------------
(***************************************************************************)
(* Proofs about InvoiceIssuance for every set of drafts, contents, callers  *)
(* and configuration values.                                               *)
(*                                                                         *)
(* The inductive invariant IssueInv says, besides the properties, what each *)
(* lock protects while it is held: the head lock a draft's revisions and    *)
(* its being unissued, the share locks what was read of the configuration,  *)
(* the counter lock the last number and date.                               *)
(***************************************************************************)
EXTENDS InvoiceIssuance, SequenceTheorems, TLAPS

(* The inductive invariant *)

\* A caller in a transaction holds one head, and holds it alone.
HeadHeld == \A c \in Callers : pc[c] = "idle" <=> head[c] = None
HeadExclusive == \A b, c \in Callers : head[b] = head[c] /\ head[c] # None => b = c

\* While a head is held its draft stays unissued, with the revision asked for.
UnderHead ==
  \A c \in Callers : pc[c] # "idle" =>
    /\ issued[head[c]] = None /\ revisions[head[c]] # <<>>
    /\ pc[c] # "revising" => request[c].revision = Len(revisions[head[c]])

\* The share locks: what was read is still configured.
SnapshotStands ==
  \A c \in Callers, r \in Rows : snapshot[c][r] # None => snapshot[c][r] = config[r]

\* Past the clock, every row was read.
RowsRead ==
  \A c \in Callers : pc[c] \in {"counter", "numbered"} => \A r \in Rows : snapshot[c][r] # None

\* The counter lock: one caller has the next number, and its date is in order.
CounterHeld ==
  /\ \A b, c \in Callers : pc[b] = "numbered" /\ pc[c] = "numbered" => b = c
  /\ \A c \in Callers : pc[c] = "numbered" => lastDate <= issueDate[c]

\* A draft that does not exist yet is not issued.
IssuedExist == \A d \in Issued : revisions[d] # <<>>

\* The counter's date is not before any issued invoice's.
LastDateIsLatest == \A d \in Issued : issued[d].date <= lastDate

\* An answer is the draft's issued invoice, given to the request it was made for.
AnswersBacked ==
  \A x \in answers :
    /\ issued[x.draft] # None
    /\ issued[x.draft].number = x.number
    /\ issued[x.draft].request = x.request

CallInv ==
  HeadHeld /\ HeadExclusive /\ UnderHead /\ SnapshotStands /\ RowsRead /\ CounterHeld

RecordInv ==
  /\ IssuedExist /\ LastDateIsLatest /\ AnswersBacked
  /\ ContinuousSeries /\ NumbersFollowDates /\ IssuedIsLastRevision

IssueInv == TypeOK /\ CallInv /\ RecordInv

-----------------------------------------------------------------------------
(* What the ways to move on keep *)

\* A call that ends leaves no lock and changes nobody else's.
LEMMA EndCall ==
  ASSUME IssueInv, NEW c \in Callers, pc[c] # "idle", End(c)
  PROVE  /\ pc' \in [Callers -> Steps]
         /\ head' \in [Callers -> Drafts \cup {None}]
         /\ request' \in [Callers -> Requests]
         /\ snapshot' \in [Callers -> Snapshots]
         /\ issueDate' \in [Callers -> Nat]
         /\ HeadHeld' /\ HeadExclusive' /\ RowsRead'
         /\ pc'[c] = "idle" /\ \A r \in Rows : snapshot'[c][r] = None
         /\ \A b \in Callers \ {c} :
              /\ pc'[b] = pc[b] /\ head'[b] = head[b] /\ request'[b] = request[b]
              /\ snapshot'[b] = snapshot[b] /\ issueDate'[b] = issueDate[b]
<1> USE DEF IssueInv, CallInv, End, Goto
<1>1. /\ pc' \in [Callers -> Steps]
      /\ head' \in [Callers -> Drafts \cup {None}]
      /\ issueDate' \in [Callers -> Nat]
  BY DEF TypeOK, Steps
<1>2. NoRequest \in Requests /\ NoSnapshot \in Snapshots
  BY DEF NoRequest, Requests, NoSnapshot, Snapshots
<1>3. request' \in [Callers -> Requests] /\ snapshot' \in [Callers -> Snapshots]
  BY <1>2 DEF TypeOK
<1>4. /\ pc'[c] = "idle" /\ head'[c] = None
      /\ \A r \in Rows : snapshot'[c][r] = None
  BY DEF TypeOK, NoSnapshot
<1>5. \A b \in Callers \ {c} :
        /\ pc'[b] = pc[b] /\ head'[b] = head[b] /\ request'[b] = request[b]
        /\ snapshot'[b] = snapshot[b] /\ issueDate'[b] = issueDate[b]
  BY DEF TypeOK
<1>6. HeadHeld' /\ HeadExclusive'
  BY <1>4, <1>5 DEF HeadHeld, HeadExclusive
<1>7. RowsRead'
  BY <1>4, <1>5 DEF RowsRead
<1>8. QED
  BY <1>1, <1>3, <1>4, <1>5, <1>6, <1>7

\* What is said of the records survives a step that writes none.
LEMMA RecordsStand ==
  ASSUME RecordInv, UNCHANGED <<draftVars, counterVars, answers>>
  PROVE  RecordInv'
BY DEF RecordInv, draftVars, counterVars, IssuedExist, LastDateIsLatest, AnswersBacked, ContinuousSeries,
       NumbersFollowDates, IssuedIsLastRevision, Issued

\* A call that ends without writing anything: a refusal, an error, a crash.
LEMMA EndInv ==
  ASSUME IssueInv, NEW c \in Callers, pc[c] # "idle", End(c),
         UNCHANGED <<draftVars, counterVars, config, now, answers>>
  PROVE  IssueInv'
<1> USE DEF IssueInv, CallInv, draftVars, counterVars
<1>1. TypeOK'
  BY EndCall DEF TypeOK
<1>2. HeadHeld' /\ HeadExclusive' /\ RowsRead'
  BY EndCall
<1>3. UnderHead' /\ CounterHeld'
  <2>1. pc'[c] = "idle"
    BY EndCall
  <2>2. \A b \in Callers \ {c} : /\ pc'[b] = pc[b] /\ head'[b] = head[b]
                                 /\ request'[b] = request[b] /\ issueDate'[b] = issueDate[b]
    BY EndCall
  <2>3. UnderHead'
    BY <2>1, <2>2 DEF UnderHead
  <2>4. CounterHeld'
    BY <2>1, <2>2 DEF CounterHeld
  <2>5. QED
    BY <2>3, <2>4
<1>4. SnapshotStands'
  BY EndCall DEF SnapshotStands
<1>5. RecordInv'
  BY RecordsStand
<1>6. QED
  BY <1>1, <1>2, <1>3, <1>4, <1>5

-----------------------------------------------------------------------------
(* IssueInv: initially, and after every step *)

\* At first nothing is drafted, issued or numbered.
LEMMA InitIssueInv == Init => IssueInv
<1> SUFFICES ASSUME Init PROVE IssueInv
  OBVIOUS
<1> USE DEF Init
<1>1. NoRequest \in Requests /\ NoSnapshot \in Snapshots
  BY DEF NoRequest, Requests, NoSnapshot, Snapshots
<1>2. TypeOK
  BY <1>1, EmptySeq DEF TypeOK, Steps, Snapshots
<1>3. CallInv
  BY DEF CallInv, HeadHeld, HeadExclusive, UnderHead, SnapshotStands, RowsRead, CounterHeld,
        NoSnapshot
<1>4. Issued = {}
  BY DEF Issued
<1>5. RecordInv
  BY <1>4 DEF RecordInv, IssuedExist, LastDateIsLatest, AnswersBacked, ContinuousSeries, NumbersFollowDates,
        IssuedIsLastRevision
<1>6. QED
  BY <1>2, <1>3, <1>5 DEF IssueInv

\* A new draft has one revision and nobody has locked it.
LEMMA CreateDraftInv ==
  ASSUME IssueInv, NEW d \in Drafts, NEW content \in Contents, CreateDraft(d, content)
  PROVE  IssueInv'
<1> USE DEF IssueInv, CallInv, CreateDraft, counterVars, callVars
<1>1. revisions' \in [Drafts -> Seq(Contents)]
  BY DEF TypeOK
<1>2. TypeOK'
  BY <1>1 DEF TypeOK
<1>3. (HeadHeld /\ HeadExclusive /\ SnapshotStands /\ RowsRead /\ CounterHeld)'
  BY DEF HeadHeld, HeadExclusive, SnapshotStands, RowsRead, CounterHeld
<1>4. \A e \in Drafts : revisions[e] # <<>> => revisions'[e] = revisions[e]
  BY DEF TypeOK
<1>5. UnderHead'
  BY <1>4 DEF UnderHead, HeadHeld, TypeOK
<1>6. Issued' = Issued
  BY DEF Issued
<1>7. (IssuedExist /\ IssuedIsLastRevision)'
  BY <1>4, <1>6 DEF RecordInv, IssuedExist, IssuedIsLastRevision, Issued
<1>8. (LastDateIsLatest /\ AnswersBacked /\ ContinuousSeries /\ NumbersFollowDates)'
  BY <1>6 DEF RecordInv, LastDateIsLatest, AnswersBacked, ContinuousSeries, NumbersFollowDates
<1>9. QED
  BY <1>2, <1>3, <1>5, <1>7, <1>8 DEF RecordInv

\* Time passes: no lock protects the clock, and a date already computed stays.
LEMMA TickInv == ASSUME IssueInv, Tick PROVE IssueInv'
<1> USE DEF IssueInv, Tick, draftVars, counterVars, callVars
<1>1. TypeOK'
  BY DEF TypeOK
<1>2. CallInv'
  BY DEF CallInv, HeadHeld, HeadExclusive, UnderHead, SnapshotStands, RowsRead, CounterHeld
<1>3. RecordInv'
  BY RecordsStand
<1>4. QED
  BY <1>1, <1>2, <1>3

\* A row of the configuration is replaced only while no call has it locked.
LEMMA ConfigureInv ==
  ASSUME IssueInv, NEW r \in Rows, NEW v \in Values[r], Configure(r, v)
  PROVE  IssueInv'
<1> USE DEF IssueInv, CallInv, Configure, draftVars, counterVars, callVars
<1>1. v \in Nat
  BY ConstantsAssumption
<1>2. config' \in Snapshots
  BY <1>1 DEF TypeOK, Snapshots
<1>3. TypeOK'
  BY <1>2 DEF TypeOK
<1>4. (HeadHeld /\ HeadExclusive /\ UnderHead /\ RowsRead /\ CounterHeld)'
  BY DEF HeadHeld, HeadExclusive, UnderHead, RowsRead, CounterHeld
<1>5. SnapshotStands'
  BY DEF SnapshotStands, ShareLocked, TypeOK, Snapshots
<1>6. RecordInv'
  BY RecordsStand
<1>7. QED
  BY <1>3, <1>4, <1>5, <1>6

\* A revision begins under the lock of an unissued draft's head.
LEMMA ReviseLockInv ==
  ASSUME IssueInv, NEW c \in Callers, NEW d \in Drafts, ReviseLock(c, d)
  PROVE  IssueInv'
<1> USE DEF IssueInv, CallInv, ReviseLock, Goto, draftVars, counterVars
<1>1. Len(revisions[d]) + 1 \in Nat
  BY LenProperties DEF TypeOK
<1>2. request' \in [Callers -> Requests]
  BY <1>1 DEF TypeOK, Requests
<1>3. TypeOK'
  BY <1>2 DEF TypeOK, Steps
<1>4. HeadHeld' /\ HeadExclusive'
  BY ConstantsAssumption DEF HeadHeld, HeadExclusive, HeadLocked, TypeOK
<1>5. UnderHead'
  BY DEF UnderHead, CanRevise, TypeOK
<1>6. (SnapshotStands /\ RowsRead /\ CounterHeld)'
  BY DEF SnapshotStands, RowsRead, CounterHeld, TypeOK
<1>7. RecordInv'
  BY RecordsStand
<1>8. QED
  BY <1>3, <1>4, <1>5, <1>6, <1>7

\* A revision is appended to the locked draft, so under no other call's feet.
LEMMA ReviseCommitInv ==
  ASSUME IssueInv, NEW c \in Callers, NEW content \in Contents, ReviseCommit(c, content)
  PROVE  IssueInv'
<1> USE DEF IssueInv, CallInv, ReviseCommit, counterVars
<1>1. pc[c] # "idle" /\ head[c] \in Drafts /\ issued[head[c]] = None
  BY DEF HeadHeld, UnderHead, TypeOK
<1>2. PICK d \in Drafts : d = head[c]
  BY <1>1
<1>3. /\ revisions[d] \in Seq(Contents)
      /\ revisions' = [revisions EXCEPT ![d] = Append(revisions[d], content)]
  BY <1>2 DEF TypeOK
<1>4. /\ Append(revisions[d], content) \in Seq(Contents)
      /\ Append(revisions[d], content) # <<>>
  BY <1>3, AppendProperties
<1>5. revisions' \in [Drafts -> Seq(Contents)]
  BY <1>3, <1>4 DEF TypeOK
<1>6. TypeOK'
  BY <1>1, <1>5, EndCall DEF TypeOK
<1>7. HeadHeld' /\ HeadExclusive' /\ RowsRead'
  BY <1>1, EndCall
<1>8. \A e \in Drafts \ {d} : revisions'[e] = revisions[e]
  BY <1>3 DEF TypeOK
<1>9. UnderHead'
  <2> SUFFICES ASSUME NEW b \in Callers, pc'[b] # "idle"
               PROVE  /\ issued[head'[b]] = None /\ revisions'[head'[b]] # <<>>
                      /\ pc'[b] # "revising" =>
                           request'[b].revision = Len(revisions'[head'[b]])
    BY DEF UnderHead
  <2>1. b # c /\ pc'[b] = pc[b] /\ head'[b] = head[b] /\ request'[b] = request[b]
    BY <1>1, EndCall
  <2>2. head[b] \in Drafts \ {d}
    BY <1>1, <1>2, <2>1 DEF HeadHeld, HeadExclusive, TypeOK
  <2>3. /\ issued[head[b]] = None /\ revisions[head[b]] # <<>>
        /\ pc[b] # "revising" => request[b].revision = Len(revisions[head[b]])
    BY <2>1 DEF UnderHead
  <2>4. revisions'[head[b]] = revisions[head[b]]
    BY <1>8, <2>2
  <2>5. QED
    BY <2>1, <2>3, <2>4
<1>10. CounterHeld' /\ SnapshotStands'
  <2>1. CounterHeld'
    <3>a. pc'[c] = "idle"
      BY <1>1, EndCall
    <3>b. \A b \in Callers \ {c} : pc'[b] = pc[b] /\ issueDate'[b] = issueDate[b]
      BY <1>1, EndCall
    <3>1. \A b \in Callers : pc'[b] = "numbered" =>
            pc[b] = "numbered" /\ issueDate'[b] = issueDate[b]
      BY <3>a, <3>b
    <3>2. QED
      BY <3>1 DEF CounterHeld
  <2>2. SnapshotStands'
    BY <1>1, EndCall DEF SnapshotStands
  <2>3. QED
    BY <2>1, <2>2
<1>11. Issued' = Issued /\ d \notin Issued
  BY <1>1, <1>2 DEF Issued
<1>12. (IssuedExist /\ IssuedIsLastRevision)'
  BY <1>8, <1>11 DEF RecordInv, IssuedExist, IssuedIsLastRevision, Issued
<1>13. (LastDateIsLatest /\ AnswersBacked /\ ContinuousSeries /\ NumbersFollowDates)'
  BY <1>11 DEF RecordInv, LastDateIsLatest, AnswersBacked, ContinuousSeries, NumbersFollowDates
<1>14. QED
  BY <1>6, <1>7, <1>9, <1>10, <1>12, <1>13 DEF RecordInv

\* An issue begins under the head lock, at the last revision.
LEMMA IssueLockInv ==
  ASSUME IssueInv, NEW c \in Callers, NEW d \in Drafts, NEW n \in 1 .. MaxRevision,
         NEW f \in Facts, IssueLock(c, d, n, f)
  PROVE  IssueInv'
<1> USE DEF IssueInv, CallInv, IssueLock, Goto, draftVars, counterVars
<1>1. n \in Nat
  BY ConstantsAssumption
<1>2. request' \in [Callers -> Requests]
  BY <1>1 DEF TypeOK, Requests
<1>3. TypeOK'
  BY <1>2 DEF TypeOK, Steps, Rows
<1>4. HeadHeld' /\ HeadExclusive'
  BY ConstantsAssumption DEF HeadHeld, HeadExclusive, HeadLocked, TypeOK
<1>5. UnderHead'
  BY DEF UnderHead, TypeOK
<1>6. (SnapshotStands /\ RowsRead /\ CounterHeld)'
  BY DEF SnapshotStands, RowsRead, CounterHeld, TypeOK
<1>7. RecordInv'
  BY RecordsStand
<1>8. QED
  BY <1>3, <1>4, <1>5, <1>6, <1>7

\* A repeated issue is answered with the invoice there is, to the same request.
LEMMA IssueRepeatedInv ==
  ASSUME IssueInv, NEW c \in Callers, NEW d \in Drafts, NEW n \in 1 .. MaxRevision,
         NEW f \in Facts, IssueRepeated(c, d, n, f)
  PROVE  IssueInv'
<1> USE DEF IssueInv, IssueRepeated, draftVars, counterVars, callVars
<1>1. PICK x : x = [draft |-> d, number |-> issued[d].number,
                    request |-> [revision |-> n, facts |-> f]]
  OBVIOUS
<1>2. issued[d] \in Invoices /\ issued[d].request \in Requests
  BY DEF TypeOK, Invoices
<1>3. issued[d].request = [revision |-> n, facts |-> f]
  BY <1>2 DEF SameRequest, Requests
<1>4. x \in Answers /\ x.draft = d /\ x.number = issued[d].number
      /\ x.request = issued[d].request
  BY <1>1, <1>2, <1>3 DEF Answers, Invoices
<1>5. answers' = answers \cup {x}
  BY <1>1
<1>6. TypeOK'
  BY <1>4, <1>5 DEF TypeOK
<1>7. AnswersBacked'
  BY <1>4, <1>5 DEF AnswersBacked, RecordInv
<1>8. CallInv'
  BY DEF CallInv, HeadHeld, HeadExclusive, UnderHead, SnapshotStands, RowsRead, CounterHeld
<1>9. (IssuedExist /\ LastDateIsLatest /\ ContinuousSeries /\ NumbersFollowDates
        /\ IssuedIsLastRevision)'
  BY DEF RecordInv, IssuedExist, LastDateIsLatest, ContinuousSeries, NumbersFollowDates,
        IssuedIsLastRevision, Issued
<1>10. QED
  BY <1>6, <1>7, <1>8, <1>9 DEF RecordInv

\* A row is read and share-locked from then on.
LEMMA ReadRowInv ==
  ASSUME IssueInv, NEW c \in Callers, NEW r \in Rows, ReadRow(c, r)
  PROVE  IssueInv'
<1> USE DEF IssueInv, CallInv, ReadRow, Goto, draftVars, counterVars
<1>1. After[r] \in {"client", "settings", "clock"} /\ r \notin {"idle", "revising", "numbered"}
  BY DEF After, Rows
<1>2. snapshot' \in [Callers -> Snapshots]
  BY DEF TypeOK, Snapshots
<1>3. TypeOK'
  BY <1>1, <1>2 DEF TypeOK, Steps, Rows
<1>4. (HeadHeld /\ HeadExclusive)'
  BY <1>1 DEF HeadHeld, HeadExclusive, TypeOK
<1>5. UnderHead'
  BY <1>1 DEF UnderHead, TypeOK
<1>6. SnapshotStands'
  BY DEF SnapshotStands, TypeOK, Snapshots
<1>7. (RowsRead /\ CounterHeld)'
  BY <1>1 DEF RowsRead, CounterHeld, TypeOK
<1>8. RecordInv'
  BY RecordsStand
<1>9. QED
  BY <1>3, <1>4, <1>5, <1>6, <1>7, <1>8

\* The issue date is the local day of the instant, in the time zone that was read.
LEMMA ReadClockInv ==
  ASSUME IssueInv, NEW c \in Callers, ReadClock(c)
  PROVE  IssueInv'
<1> USE DEF IssueInv, CallInv, ReadClock, Goto, draftVars, counterVars
<1>1. snapshot[c]["settings"] \in Nat
  BY DEF TypeOK, Snapshots, Rows
<1>2. DateOf(now, snapshot[c]["settings"]) \in Nat
  BY <1>1 DEF DateOf, TypeOK
<1>3. TypeOK'
  BY <1>2 DEF TypeOK, Steps
<1>4. (HeadHeld /\ HeadExclusive /\ UnderHead /\ SnapshotStands)'
  BY DEF HeadHeld, HeadExclusive, UnderHead, SnapshotStands, TypeOK
<1>5. (RowsRead /\ CounterHeld)'
  BY DEF RowsRead, CounterHeld, TypeOK
<1>6. RecordInv'
  BY RecordsStand
<1>7. QED
  BY <1>3, <1>4, <1>5, <1>6

\* The counter is locked by one call, its next number free and its date in order.
LEMMA AllocateNumberInv ==
  ASSUME IssueInv, NEW c \in Callers, AllocateNumber(c)
  PROVE  IssueInv'
<1> USE DEF IssueInv, CallInv, AllocateNumber, Goto, draftVars, counterVars
<1>1. TypeOK'
  BY DEF TypeOK, Steps
<1>2. (HeadHeld /\ HeadExclusive /\ UnderHead /\ SnapshotStands /\ RowsRead)'
  BY DEF HeadHeld, HeadExclusive, UnderHead, SnapshotStands, RowsRead, TypeOK
<1>3. CounterHeld'
  BY DEF CounterHeld, CounterLocked, InOrder, TypeOK
<1>4. RecordInv'
  BY RecordsStand
<1>5. QED
  BY <1>1, <1>2, <1>3, <1>4

\* What a commit writes: one invoice, with the next number and a date that is
\* not before the last one.
LEMMA CommitWrites ==
  ASSUME IssueInv, NEW c \in Callers, IssueCommit(c), NEW d, d = head[c]
  PROVE  /\ d \in Drafts /\ issued[d] = None /\ issued' \in [Drafts -> Invoices \cup {None}]
         /\ issued'[d] # None
         /\ issued'[d].request = request[c] /\ issued'[d].number = sequence + 1
         /\ issued'[d].date = issueDate[c] /\ issued'[d].snapshot = snapshot[c]
         /\ lastDate <= issueDate[c] /\ issueDate[c] \in Nat
         /\ \A e \in Drafts \ {d} : issued'[e] = issued[e]
         /\ Issued' = Issued \cup {d} /\ d \notin Issued
         /\ \A e \in Issued :
              issued'[e] = issued[e] /\ issued[e].number \in Nat /\ issued[e].date \in Nat
<1> USE DEF IssueInv, CallInv, IssueCommit
<1>1. d \in Drafts /\ issued[d] = None
  BY DEF HeadHeld, UnderHead, TypeOK
<1>2. PICK i : i = [request |-> request[c], number |-> sequence + 1,
                    date |-> issueDate[c], snapshot |-> snapshot[c]]
  OBVIOUS
<1>3. /\ i \in Invoices /\ i.request = request[c] /\ i.number = sequence + 1
      /\ i.date = issueDate[c] /\ i.snapshot = snapshot[c]
  BY <1>2 DEF Invoices, TypeOK
<1>4. i # None
  BY <1>3, NoneIsNoInvoice
<1>5. issued' = [issued EXCEPT ![d] = i]
  BY <1>2
<1>6. issued' \in [Drafts -> Invoices \cup {None}] /\ issued'[d] = i
  BY <1>1, <1>3, <1>5 DEF TypeOK
<1>7. \A e \in Drafts \ {d} : issued'[e] = issued[e]
  BY <1>5 DEF TypeOK
<1>8. Issued' = Issued \cup {d} /\ d \notin Issued
  BY <1>1, <1>4, <1>6, <1>7 DEF Issued
<1>9. \A e \in Issued :
        issued'[e] = issued[e] /\ issued[e].number \in Nat /\ issued[e].date \in Nat
  BY <1>7, <1>8 DEF Issued, TypeOK, Invoices
<1>10. lastDate <= issueDate[c] /\ issueDate[c] \in Nat
  BY DEF CounterHeld, TypeOK
<1>11. QED
  BY <1>1, <1>3, <1>4, <1>6, <1>7, <1>8, <1>9, <1>10

\* The committed invoice continues the series, in number and in date.
LEMMA CommitSeries ==
  ASSUME IssueInv, NEW c \in Callers, IssueCommit(c)
  PROVE  (ContinuousSeries /\ NumbersFollowDates /\ LastDateIsLatest)'
<1> USE DEF IssueInv, RecordInv
<1>1. PICK d : d = head[c]
  OBVIOUS
<1>2. /\ issued'[d].number = sequence + 1 /\ issued'[d].date = issueDate[c]
      /\ lastDate <= issueDate[c] /\ issueDate[c] \in Nat
      /\ d \in Drafts /\ Issued' = Issued \cup {d} /\ d \notin Issued
      /\ \A e \in Issued :
           issued'[e] = issued[e] /\ issued[e].number \in Nat /\ issued[e].date \in Nat
  BY <1>1, CommitWrites
<1>3. /\ sequence' = sequence + 1 /\ lastDate' = issueDate[c]
      /\ sequence \in Nat /\ lastDate \in Nat
  BY DEF IssueCommit, TypeOK
<1>4. \A e \in Issued : issued[e].number \in 1 .. sequence /\ issued[e].date <= lastDate
  BY DEF ContinuousSeries, LastDateIsLatest
<1>5. ContinuousSeries'
  <2>1. \A e \in Issued' : issued'[e].number \in 1 .. sequence'
    BY <1>2, <1>3, <1>4
  <2>2. \A e, f \in Issued' : issued'[e].number = issued'[f].number => e = f
    <3> SUFFICES ASSUME NEW e \in Issued', NEW f \in Issued',
                        issued'[e].number = issued'[f].number
                 PROVE  e = f
      OBVIOUS
    <3>1. CASE e \in Issued /\ f \in Issued
      BY <1>2, <3>1 DEF ContinuousSeries
    <3>2. CASE e = d \/ f = d
      BY <1>2, <1>3, <1>4, <3>2
    <3>3. QED
      BY <1>2, <3>1, <3>2
  <2>3. \A n \in 1 .. sequence' : \E e \in Issued' : issued'[e].number = n
    <3> SUFFICES ASSUME NEW n \in 1 .. sequence'
                 PROVE  \E e \in Issued' : issued'[e].number = n
      OBVIOUS
    <3>1. CASE n = sequence + 1
      BY <1>2, <3>1
    <3>2. CASE n # sequence + 1
      <4>1. n \in 1 .. sequence
        BY <1>3, <3>2
      <4>2. PICK e \in Issued : issued[e].number = n
        BY <4>1 DEF ContinuousSeries
      <4>3. QED
        BY <1>2, <4>2
    <3>3. QED
      BY <3>1, <3>2
  <2>4. QED
    BY <2>1, <2>2, <2>3 DEF ContinuousSeries
<1>6. LastDateIsLatest'
  <2> SUFFICES ASSUME NEW e \in Issued' PROVE issued'[e].date <= lastDate'
    BY DEF LastDateIsLatest
  <2>1. CASE e = d
    BY <1>2, <1>3, <2>1
  <2>2. CASE e \in Issued
    BY <1>2, <1>3, <1>4, <2>2
  <2>3. QED
    BY <1>2, <2>1, <2>2
<1>7. NumbersFollowDates'
  <2> SUFFICES ASSUME NEW e \in Issued', NEW f \in Issued',
                      issued'[e].number < issued'[f].number
               PROVE  issued'[e].date <= issued'[f].date
    BY DEF NumbersFollowDates
  <2>1. CASE e \in Issued /\ f \in Issued
    BY <1>2, <2>1 DEF NumbersFollowDates
  <2>2. CASE e \in Issued /\ f = d
    BY <1>2, <1>3, <1>4, <2>2
  <2>3. CASE e = d
    <3>1. issued'[f].number \in 1 .. sequence + 1
      BY <1>3, <1>5 DEF ContinuousSeries
    <3>2. QED
      BY <1>2, <1>3, <2>3, <3>1
  <2>4. QED
    BY <1>2, <2>1, <2>2, <2>3
<1>8. QED
  BY <1>5, <1>6, <1>7

\* A committed issue keeps every part of the invariant.
LEMMA IssueCommitInv ==
  ASSUME IssueInv, NEW c \in Callers, IssueCommit(c)
  PROVE  IssueInv'
<1> USE DEF IssueInv, CallInv
<1>1. PICK d : d = head[c]
  OBVIOUS
<1>2. /\ d \in Drafts /\ issued' \in [Drafts -> Invoices \cup {None}] /\ issued'[d] # None
      /\ issued'[d].request = request[c] /\ issued'[d].number = sequence + 1
      /\ \A e \in Drafts \ {d} : issued'[e] = issued[e]
      /\ Issued' = Issued \cup {d} /\ d \notin Issued
      /\ \A e \in Issued : issued'[e] = issued[e]
  BY <1>1, CommitWrites
<1>3. pc[c] = "numbered" /\ pc[c] # "idle" /\ End(c)
  BY DEF IssueCommit
<1>4. /\ revisions' = revisions /\ config' = config /\ now' = now
      /\ sequence' = sequence + 1 /\ lastDate' = issueDate[c]
      /\ answers' = answers \cup {[draft |-> d, number |-> sequence + 1,
                                   request |-> request[c]]}
  BY <1>1 DEF IssueCommit
<1>5. PICK x : x = [draft |-> d, number |-> sequence + 1, request |-> request[c]]
  OBVIOUS
<1>6. /\ x \in Answers /\ x.draft = d /\ x.number = sequence + 1 /\ x.request = request[c]
      /\ answers' = answers \cup {x}
  BY <1>2, <1>4, <1>5 DEF Answers, TypeOK
<1>7. /\ sequence' \in Nat /\ lastDate' \in Nat
  BY <1>4 DEF TypeOK
<1>8. TypeOK'
  BY <1>2, <1>3, <1>4, <1>6, <1>7, EndCall DEF TypeOK
<1>9. HeadHeld' /\ HeadExclusive' /\ RowsRead'
  BY <1>3, EndCall
<1>10. UnderHead'
  <2> SUFFICES ASSUME NEW b \in Callers, pc'[b] # "idle"
               PROVE  /\ issued'[head'[b]] = None /\ revisions'[head'[b]] # <<>>
                      /\ pc'[b] # "revising" =>
                           request'[b].revision = Len(revisions'[head'[b]])
    BY DEF UnderHead
  <2>1. b # c /\ pc'[b] = pc[b] /\ head'[b] = head[b] /\ request'[b] = request[b]
    BY <1>3, EndCall
  <2>2. head[b] \in Drafts \ {d}
    BY <1>1, <1>3, <2>1 DEF HeadHeld, HeadExclusive, TypeOK
  <2>3. QED
    BY <1>2, <1>4, <2>1, <2>2 DEF UnderHead
<1>11. SnapshotStands'
  BY <1>3, <1>4, EndCall DEF SnapshotStands
<1>12. CounterHeld'
  <2>1. \A b \in Callers : pc'[b] # "numbered"
    BY <1>3, EndCall DEF CounterHeld
  <2>2. QED
    BY <2>1 DEF CounterHeld
<1>13. (ContinuousSeries /\ NumbersFollowDates /\ LastDateIsLatest)'
  BY CommitSeries
<1>14. revisions[d] # <<>> /\ request[c].revision = Len(revisions[d])
  BY <1>1, <1>3 DEF UnderHead
<1>15. (IssuedExist /\ IssuedIsLastRevision)'
  BY <1>2, <1>4, <1>14 DEF RecordInv, IssuedExist, IssuedIsLastRevision
<1>16. AnswersBacked'
  <2> SUFFICES ASSUME NEW y \in answers'
               PROVE  /\ issued'[y.draft] # None
                      /\ issued'[y.draft].number = y.number
                      /\ issued'[y.draft].request = y.request
    BY DEF AnswersBacked
  <2>1. CASE y = x
    BY <1>2, <1>6, <2>1
  <2>2. CASE y \in answers
    <3>1. y.draft \in Issued
      BY <2>2 DEF RecordInv, AnswersBacked, Issued, TypeOK, Answers
    <3>2. QED
      BY <1>2, <2>2, <3>1 DEF RecordInv, AnswersBacked, Issued
  <2>3. QED
    BY <1>6, <2>1, <2>2
<1>17. QED
  BY <1>8, <1>9, <1>10, <1>11, <1>12, <1>13, <1>15, <1>16 DEF RecordInv

\* Every step does.
LEMMA IssueInvStep == IssueInv /\ [Next]_vars => IssueInv'
<1> SUFFICES ASSUME IssueInv, [Next]_vars PROVE IssueInv'
  OBVIOUS
<1>1. CASE Tick
  BY <1>1, TickInv
<1>2. CASE \E d \in Drafts, content \in Contents : CreateDraft(d, content)
  BY <1>2, CreateDraftInv
<1>3. CASE \E r \in Rows : \E v \in Values[r] : Configure(r, v)
  BY <1>3, ConfigureInv
<1>4. ASSUME NEW c \in Callers, Revise(c) \/ IssueRequested(c) \/ Issue(c) \/ CallFails(c)
      PROVE  IssueInv'
  <2>1. CASE \E d \in Drafts : ReviseLock(c, d)
    BY <2>1, ReviseLockInv
  <2>2. CASE \E content \in Contents : ReviseCommit(c, content)
    BY <2>2, ReviseCommitInv
  <2>3. CASE \E d \in Drafts, n \in 1 .. MaxRevision, f \in Facts : IssueLock(c, d, n, f)
    BY <2>3, IssueLockInv
  <2>4. CASE \E d \in Drafts, n \in 1 .. MaxRevision, f \in Facts : IssueRepeated(c, d, n, f)
    BY <2>4, IssueRepeatedInv
  <2>5. CASE \E r \in Rows : ReadRow(c, r)
    BY <2>5, ReadRowInv
  <2>6. CASE ReadClock(c)
    BY <2>6, ReadClockInv
  <2>7. CASE NotConfigured(c)
    BY <2>7, EndInv DEF NotConfigured, draftVars, counterVars
  <2>8. CASE AllocateNumber(c)
    BY <2>8, AllocateNumberInv
  <2>9. CASE NumberRefused(c)
    BY <2>9, EndInv DEF NumberRefused, draftVars, counterVars
  <2>10. CASE IssueCommit(c)
    BY <2>10, IssueCommitInv
  <2>11. CASE CallFails(c)
    BY <2>11, EndInv DEF CallFails, draftVars, counterVars
  <2>12. QED
    BY <1>4, <2>1, <2>2, <2>3, <2>4, <2>5, <2>6, <2>7, <2>8, <2>9, <2>10, <2>11
       DEF Revise, IssueRequested, Issue
<1>5. CASE UNCHANGED vars
  <2>1. TypeOK'
    BY <1>5 DEF IssueInv, TypeOK, vars, draftVars, counterVars, callVars
  <2>2. CallInv'
    BY <1>5 DEF IssueInv, vars, draftVars, counterVars, callVars, CallInv, HeadHeld,
          HeadExclusive, UnderHead, SnapshotStands, RowsRead, CounterHeld
  <2>3. RecordInv'
    BY <1>5, RecordsStand DEF IssueInv, vars
  <2>4. QED
    BY <2>1, <2>2, <2>3 DEF IssueInv
<1>6. QED
  BY <1>1, <1>2, <1>3, <1>4, <1>5 DEF Next

\* What the locks protect holds in every state, for any number of callers and drafts.
THEOREM IssueInvariance == Spec => []IssueInv
<1>1. Init => IssueInv
  BY InitIssueInv
<1>2. IssueInv /\ [Next]_vars => IssueInv'
  BY IssueInvStep
<1>3. QED
  BY <1>1, <1>2, PTL DEF Spec

-----------------------------------------------------------------------------
(* What follows from it *)

\* Every variable keeps its type.
THEOREM TypeCorrect == Spec => []TypeOK
<1>1. IssueInv => TypeOK
  BY DEF IssueInv
<1>2. QED
  BY <1>1, IssueInvariance, PTL

\* Legal numbers are 1, 2, 3 ... without a gap or a repeat, whatever calls fail
\* after taking a number (allocate_number, add and the rollback of both).
THEOREM ContinuousAlways == Spec => []ContinuousSeries
<1>1. IssueInv => ContinuousSeries
  BY DEF IssueInv, RecordInv
<1>2. QED
  BY <1>1, IssueInvariance, PTL

\* Dates never go back along the numbers, although a call derives its date
\* before it waits for the counter (the chronology check in allocate_number).
THEOREM DatesAlwaysFollow == Spec => []NumbersFollowDates
<1>1. IssueInv => NumbersFollowDates
  BY DEF IssueInv, RecordInv
<1>2. QED
  BY <1>1, IssueInvariance, PTL

\* What is issued is the draft's last revision, then and ever after (the head
\* lock that create_revision and issue share, and the frozen head).
THEOREM LastRevisionAlways == Spec => []IssuedIsLastRevision
<1>1. IssueInv => IssuedIsLastRevision
  BY DEF IssueInv, RecordInv
<1>2. QED
  BY <1>1, IssueInvariance, PTL

\* Whoever is answered for a draft is given the same invoice, made for exactly
\* that request (the repeat check of issue).
THEOREM OneAnswerAlways == Spec => []OneAnswerPerDraft
<1>1. IssueInv => OneAnswerPerDraft
  <2> SUFFICES ASSUME IssueInv, NEW x \in answers, NEW y \in answers, x.draft = y.draft
               PROVE  x = y
    BY DEF OneAnswerPerDraft
  <2>1. x \in Answers /\ y \in Answers
    BY DEF IssueInv, TypeOK
  <2>2. x.number = y.number /\ x.request = y.request
    BY DEF IssueInv, RecordInv, AnswersBacked
  <2>3. QED
    BY <2>1, <2>2 DEF Answers
<1>2. QED
  BY <1>1, IssueInvariance, PTL

\* The seller, client and settings an invoice freezes are all current when it is
\* issued, however they are updated meanwhile (the share locks of
\* get_..._for_snapshot).
THEOREM SnapshotAlwaysCurrent == Spec => SnapshotIsCurrent
<1>1. IssueInv /\ [Next]_vars => [SnapshotHeld]_vars
  <2> SUFFICES ASSUME IssueInv, [Next]_vars,
                      NEW d \in Drafts, issued[d] = None, issued'[d] # None
               PROVE  issued'[d].snapshot = config
    BY DEF SnapshotHeld
  <2>1. PICK c \in Callers : IssueCommit(c)
    BY DEF Next, vars, draftVars, counterVars, callVars, Tick, CreateDraft, Configure, Revise,
          ReviseLock, ReviseCommit, IssueRequested, IssueLock, IssueRepeated, Issue, ReadRow,
          ReadClock, NotConfigured, AllocateNumber, NumberRefused, CallFails
  <2>2. d = head[c] /\ issued'[d].snapshot = snapshot[c]
    BY <2>1, CommitWrites
  <2>3. \A r \in Rows : snapshot[c][r] = config[r]
    BY <2>1 DEF IssueCommit, IssueInv, CallInv, RowsRead, SnapshotStands
  <2>4. snapshot[c] \in Snapshots /\ config \in Snapshots
    BY DEF IssueInv, TypeOK
  <2>5. snapshot[c] = config
    BY <2>3, <2>4 DEF Snapshots
  <2>6. QED
    BY <2>2, <2>5
<1>2. QED
  BY <1>1, IssueInvariance, PTL DEF Spec, SnapshotIsCurrent

-----------------------------------------------------------------------------
(* Issuance implements the register of legal numbers *)

\* The entry of each number is the draft that has it.
RegisterShape ==
  /\ Register \in Seq(Series!Entries) /\ Len(Register) = sequence
  /\ \A d \in Issued : Register[issued[d].number] = [draft |-> d, date |-> issued[d].date]
  /\ \A n \in 1 .. sequence : \E d \in Issued :
       issued[d].number = n /\ Register[n] = [draft |-> d, date |-> issued[d].date]

\* The register's entry n is the one invoice numbered n.
LEMMA RegisterEntries == TypeOK /\ ContinuousSeries => RegisterShape
<1> SUFFICES ASSUME TypeOK, ContinuousSeries PROVE RegisterShape
  OBVIOUS
<1>1. ASSUME NEW n \in 1 .. sequence, NEW d \in Issued, issued[d].number = n
      PROVE  Register[n] = [draft |-> d, date |-> issued[d].date]
  <2>1. (CHOOSE e \in Issued : issued[e].number = n) = d
    BY <1>1 DEF ContinuousSeries
  <2>2. QED
    BY <2>1 DEF Register
<1>2. \A n \in 1 .. sequence : \E d \in Issued :
        issued[d].number = n /\ Register[n] = [draft |-> d, date |-> issued[d].date]
  BY <1>1 DEF ContinuousSeries
<1>3. \A d \in Issued : Register[issued[d].number] = [draft |-> d, date |-> issued[d].date]
  BY <1>1 DEF ContinuousSeries
<1>4. ASSUME NEW n \in 1 .. sequence PROVE Register[n] \in Series!Entries
  <2>1. PICK d \in Issued : Register[n] = [draft |-> d, date |-> issued[d].date]
    BY <1>2
  <2>2. d \in Drafts /\ issued[d] \in Invoices
    BY DEF Issued, TypeOK
  <2>3. issued[d].date \in Nat
    BY <2>2 DEF Invoices
  <2>4. QED
    BY <2>1, <2>2, <2>3 DEF Series!Entries
<1>5. Register = [n \in 1 .. sequence |-> Register[n]] /\ sequence \in Nat
  BY DEF Register, TypeOK
<1>6. Register \in Seq(Series!Entries) /\ Len(Register) = sequence
  BY <1>4, <1>5, LenProperties
<1>7. QED
  BY <1>2, <1>3, <1>6 DEF RegisterShape

\* The register begins empty.
LEMMA SeriesInit == Init => Series!Init
BY DEF Init, Series!Init, Register

\* The register depends on what is issued and numbered only.
LEMMA SeriesStutter ==
  ASSUME UNCHANGED <<issued, sequence>>
  PROVE  UNCHANGED Register
BY DEF Register, Issued

\* A commit appends its invoice to the register, with a date not before the last.
LEMMA SeriesCommit ==
  ASSUME IssueInv, IssueInv', NEW c \in Callers, IssueCommit(c)
  PROVE  Series!Next
<1> USE DEF IssueInv, RecordInv
<1>1. PICK d : d = head[c]
  OBVIOUS
<1>2. /\ d \in Drafts /\ issued'[d].number = sequence + 1 /\ issued'[d].date = issueDate[c]
      /\ lastDate <= issueDate[c] /\ issueDate[c] \in Nat
      /\ Issued' = Issued \cup {d} /\ d \notin Issued
      /\ \A e \in Issued :
           issued'[e] = issued[e] /\ issued[e].number \in Nat /\ issued[e].date \in Nat
  BY <1>1, CommitWrites
<1>3. sequence \in Nat /\ sequence' = sequence + 1 /\ lastDate \in Nat
  BY DEF IssueCommit, TypeOK
<1>4. /\ Len(Register) = sequence
      /\ \A n \in 1 .. sequence : \E e \in Issued :
           issued[e].number = n /\ Register[n] = [draft |-> e, date |-> issued[e].date]
  BY RegisterEntries DEF RegisterShape
<1>5. /\ Len(Register') = sequence + 1
      /\ \A e \in Issued' : Register'[issued'[e].number] = [draft |-> e, date |-> issued'[e].date]
  <2>1. (TypeOK /\ ContinuousSeries => RegisterShape)'
    BY RegisterEntries, PTL
  <2>2. QED
    BY <1>3, <2>1 DEF RegisterShape
<1>6. \A n \in 1 .. sequence : Register[n].draft # d
  BY <1>2, <1>4
<1>7. \A n \in 1 .. sequence : Register'[n] = Register[n]
  BY <1>2, <1>4, <1>5
<1>8. Register'[sequence + 1].draft = d /\ Register'[sequence + 1].date = issueDate[c]
  <2>1. d \in Issued' /\ issued'[d].number = sequence + 1
    BY <1>2
  <2>2. Register'[issued'[d].number] = [draft |-> d, date |-> issued'[d].date]
    BY <1>5, <2>1
  <2>3. QED
    BY <1>2, <2>1, <2>2
<1>9. sequence > 0 => Register[sequence].date <= issueDate[c]
  <2> SUFFICES ASSUME sequence > 0 PROVE Register[sequence].date <= issueDate[c]
    OBVIOUS
  <2>1. sequence \in 1 .. sequence
    BY <1>3
  <2>2. PICK e \in Issued : Register[sequence] = [draft |-> e, date |-> issued[e].date]
    BY <1>4, <2>1
  <2>3. issued[e].date <= lastDate
    BY DEF LastDateIsLatest
  <2>4. QED
    BY <1>2, <1>3, <2>2, <2>3
<1>10. Series!Issue(d)
  BY <1>4, <1>5, <1>6, <1>7, <1>8, <1>9 DEF Series!Issue
<1>11. QED
  BY <1>2, <1>10 DEF Series!Next

\* Every step appends to the register or leaves it.
LEMMA SeriesStep == IssueInv /\ IssueInv' /\ [Next]_vars => [Series!Next]_Register
<1> SUFFICES ASSUME IssueInv, IssueInv', [Next]_vars PROVE [Series!Next]_Register
  OBVIOUS
<1>1. CASE \E c \in Callers : IssueCommit(c)
  BY <1>1, SeriesCommit
<1>2. CASE ~\E c \in Callers : IssueCommit(c)
  <2>1. UNCHANGED <<issued, sequence>>
    BY <1>2 DEF Next, vars, draftVars, counterVars, callVars, Tick, CreateDraft, Configure,
          Revise, ReviseLock, ReviseCommit, IssueRequested, IssueLock, IssueRepeated, Issue,
          ReadRow, ReadClock, NotConfigured, AllocateNumber, NumberRefused, CallFails
  <2>2. QED
    BY <2>1, SeriesStutter
<1>3. QED
  BY <1>1, <1>2

\* Seen from outside, the committed invoices are one register that only ever
\* grows at its end, with dates in order and no logical invoice entered twice:
\* locks, failures and transactions do not show.
THEOREM RefinesSeries == Spec => ImplementsSeries
<1>1. Init => Series!Init
  BY SeriesInit
<1>2. IssueInv /\ IssueInv' /\ [Next]_vars => [Series!Next]_Register
  BY SeriesStep
<1>3. QED
  BY <1>1, <1>2, IssueInvariance, PTL DEF Spec, ImplementsSeries, Series!Spec
=============================================================================
