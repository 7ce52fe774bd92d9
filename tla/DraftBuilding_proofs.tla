-------------------------- MODULE DraftBuilding_proofs --------------------------
(***************************************************************************)
(* Proofs about DraftBuilding and the TimeEntries it reads, for every set   *)
(* of clients, projects, tasks, entries, agreements and callers.           *)
(*                                                                         *)
(* EntriesInv: the rows stay chained because the constraints admit only     *)
(* chained blends, and what an editor has read and wants is chained; from   *)
(* both follows what a blend can be.  DraftInv adds what a builder has read *)
(* so far: one state of the agreements and sources that were chained when   *)
(* they were read.                                                         *)
(***************************************************************************)
EXTENDS DraftBuilding, SequenceTheorems, WellFoundedInduction, TLAPS

(* The inductive invariants *)

\* An editor has read a chained classification of an existing entry and wants
\* another, and the entry still has one.
EditsChained ==
  \A u \in Editors : editing[u] # None =>
    /\ Chained(editing[u].read) /\ Chained(editing[u].wanted)
    /\ row[editing[u].entry] \in Classifications /\ Chained(row[editing[u].entry])

EntriesInv == EntriesTypeOK /\ ClassificationIsChained /\ EditsChained

Buildings == [request : Requests, rates : SUBSET Offers, priced : Seq(Segments)]

\* A segment priced from the agreements in rates, when its source was chained.
PricedFrom(rates, s) ==
  /\ Resolved(rates, s.source, s.date) = {s.rate}
  /\ s.source.client # None /\ Chained(s.source)

\* The agreements as they were when the first n had been made.
Prefix(n) == Range(SubSeq(agreements, 1, n))

\* What a builder works with is one state of the agreements.
BuildingsPriced ==
  \A b \in Builders : building[b] # None =>
    /\ \E n \in 0 .. Len(agreements) : building[b].rates = Prefix(n)
    /\ \A s \in Range(building[b].priced) : PricedFrom(building[b].rates, s)

BuildInv ==
  /\ agreements \in Seq(Offers)
  /\ building \in [Builders -> Buildings \cup {None}]
  /\ DOMAIN drafts = Builders /\ drafts = [b \in Builders |-> drafts[b]]
  /\ BuildingsPriced

DraftInv == EntriesInv /\ BuildInv /\ TypeOK /\ DraftReadsBack /\ OnePriceList

-----------------------------------------------------------------------------
(* Classifications *)

\* The CHECKs and the composite foreign keys together admit chained
\* classifications of existing parents only.
LEMMA StorableIsChained ==
  ASSUME NEW k \in Classifications, Storable(k)
  PROVE  Known(k) /\ Chained(k)
<1>1. /\ k.client \in Clients \cup {None} /\ k.project \in Projects \cup {None}
      /\ k.task \in Tasks \cup {None}
  BY DEF Classifications
<1>2. /\ (k.client = None) <=> (k.project = None)
      /\ k.task = None \/ k.project # None
      /\ k.client = None \/ k.client \in catalogue
      /\ k.client = None \/ (k.project \in catalogue /\ Parent[k.project] = k.client)
      /\ k.task = None \/ (k.task \in catalogue /\ Parent[k.task] = k.project)
  BY DEF Storable, ClassificationCheck, ProjectKey, TaskKey
<1>3. QED
  BY <1>1, <1>2 DEF Known, Chained

\* The UPDATE of a flush writes a classification.
LEMMA BlendedIs ==
  ASSUME NEW base \in Classifications, NEW read \in Classifications,
         NEW wanted \in Classifications
  PROVE  LET new == Blended(base, read, wanted) IN
           /\ new \in Classifications
           /\ new.client = IF wanted.client # read.client THEN wanted.client ELSE base.client
           /\ new.project = IF wanted.project # read.project THEN wanted.project ELSE base.project
           /\ new.task = IF wanted.task # read.task THEN wanted.task ELSE base.task
<1> DEFINE new == Blended(base, read, wanted)
<1>1. /\ read["client"] = read.client /\ read["project"] = read.project /\ read["task"] = read.task
      /\ wanted["client"] = wanted.client /\ wanted["project"] = wanted.project
      /\ wanted["task"] = wanted.task
      /\ base["client"] = base.client /\ base["project"] = base.project /\ base["task"] = base.task
  OBVIOUS
<1>2. /\ new.client = IF wanted.client # read.client THEN wanted.client ELSE base.client
      /\ new.project = IF wanted.project # read.project THEN wanted.project ELSE base.project
      /\ new.task = IF wanted.task # read.task THEN wanted.task ELSE base.task
  BY DEF Blended, Written, Columns
<1>3. new = [client |-> new.client, project |-> new.project, task |-> new.task]
  BY DEF Blended, Columns
<1> HIDE DEF new
<1>4. /\ new.client \in Clients \cup {None} /\ new.project \in Projects \cup {None}
      /\ new.task \in Tasks \cup {None}
  BY <1>2 DEF Classifications
<1>5. new \in Classifications
  BY <1>3, <1>4 DEF Classifications
<1>6. QED
  BY <1>2, <1>5 DEF new

\* A storable blend of three chained classifications is the one wanted, or what
\* others wrote, at most without its task.
LEMMA BlendOfChains ==
  ASSUME NEW base \in Classifications, NEW read \in Classifications, NEW wanted \in Classifications,
         Chained(base), Chained(read), Chained(wanted), Storable(Blended(base, read, wanted))
  PROVE  Blended(base, read, wanted) \in
           {wanted} \cup IF read = base THEN {} ELSE {base, [base EXCEPT !.task = None]}
<1> DEFINE new == Blended(base, read, wanted)
<1>1. /\ new \in Classifications
      /\ new.client = IF wanted.client # read.client THEN wanted.client ELSE base.client
      /\ new.project = IF wanted.project # read.project THEN wanted.project ELSE base.project
      /\ new.task = IF wanted.task # read.task THEN wanted.task ELSE base.task
  BY BlendedIs
<1>2. Chained(new)
  BY <1>1, StorableIsChained
<1> HIDE DEF new
<1>3. ASSUME NEW j \in Classifications, NEW k \in Classifications,
             j.client = k.client, j.project = k.project, j.task = k.task
      PROVE  j = k
  BY <1>3 DEF Classifications
<1>4. CASE read = base
  <2>1. new.client = wanted.client /\ new.project = wanted.project /\ new.task = wanted.task
    BY <1>1, <1>4
  <2>2. new = wanted
    BY <1>1, <1>3, <2>1
  <2>3. QED
    BY <2>2 DEF new
<1>5. CASE read # base /\ wanted.project # read.project
  <2>1. new.project = wanted.project
    BY <1>1, <1>5
  <2>2. new.client = wanted.client
    BY <1>2, <2>1 DEF Chained
  <2>3. wanted.task = read.task => wanted.task = None
    BY <1>5 DEF Chained
  <2>4. new.task = wanted.task \/ (new.task = base.task /\ base.task # None)
    BY <1>1, <2>3
  <2>5. CASE new.task = wanted.task
    <3>1. new = wanted
      BY <1>1, <1>3, <2>1, <2>2, <2>5
    <3>2. QED
      BY <3>1 DEF new
  <2>6. CASE new.task = base.task /\ base.task # None
    <3>1. new.project = base.project /\ new.client = base.client
      BY <1>2, <2>6 DEF Chained
    <3>2. new = base
      BY <1>1, <1>3, <2>6, <3>1
    <3>3. QED
      BY <1>5, <3>2 DEF new
  <2>7. QED
    BY <2>4, <2>5, <2>6
<1>6. CASE read # base /\ wanted.project = read.project
  <2>1. wanted.client = read.client
    BY <1>6 DEF Chained
  <2>2. new.project = base.project /\ new.client = base.client
    BY <1>1, <1>6, <2>1
  <2>3. CASE wanted.task = read.task
    <3>1. new = base
      BY <1>1, <1>3, <2>2, <2>3
    <3>2. QED
      BY <1>6, <3>1 DEF new
  <2>4. CASE wanted.task # read.task /\ wanted.task = None
    <3>1. /\ [base EXCEPT !.task = None] \in Classifications
          /\ [base EXCEPT !.task = None].task = None
          /\ [base EXCEPT !.task = None].client = base.client
          /\ [base EXCEPT !.task = None].project = base.project
      BY DEF Classifications
    <3>2. new = [base EXCEPT !.task = None]
      BY <1>1, <1>3, <2>2, <2>4, <3>1
    <3>3. QED
      BY <1>6, <3>2 DEF new
  <2>5. CASE wanted.task # read.task /\ wanted.task # None
    <3>1. new.task = wanted.task /\ new.project = wanted.project /\ new.client = wanted.client
      BY <1>1, <1>2, <2>5 DEF Chained
    <3>2. new = wanted
      BY <1>1, <1>3, <3>1
    <3>3. QED
      BY <3>2 DEF new
  <2>6. QED
    BY <2>3, <2>4, <2>5
<1>7. QED
  BY <1>4, <1>5, <1>6

-----------------------------------------------------------------------------
(* EntriesInv: initially, and after every step *)

\* A larger catalogue knows what it knew.
LEMMA CatalogueGrows ==
  ASSUME EntriesInv, catalogue \subseteq catalogue', UNCHANGED <<row, editing>>,
         catalogue' \subseteq Clients \cup Projects \cup Tasks
  PROVE  EntriesInv'
<1>1. EntriesTypeOK'
  BY DEF EntriesInv, EntriesTypeOK
<1>2. ClassificationIsChained'
  BY DEF EntriesInv, ClassificationIsChained, Known, Chained
<1>3. EditsChained'
  BY DEF EntriesInv, EditsChained, Chained
<1>4. QED
  BY <1>1, <1>2, <1>3 DEF EntriesInv

\* An edit that ends, or is rolled back.
LEMMA EditEnds ==
  ASSUME EntriesInv, NEW u \in Editors, editing' = [editing EXCEPT ![u] = None]
  PROVE  /\ editing' \in [Editors -> Edits \cup {None}]
         /\ editing'[u] = None
         /\ \A v \in Editors \ {u} : editing'[v] = editing[v]
BY DEF EntriesInv, EntriesTypeOK

\* An entry is created with a classification that is chained.
LEMMA CreateEntryInv ==
  ASSUME EntriesInv, NEW e \in Entries, NEW k \in Classifications, CreateEntry(e, k)
  PROVE  EntriesInv'
<1>1. /\ row'[e] = k /\ \A f \in Entries \ {e} : row'[f] = row[f]
      /\ row' \in [Entries -> Classifications \cup {None}]
      /\ Known(k) /\ Chained(k) /\ UNCHANGED <<catalogue, editing>>
  BY DEF CreateEntry, EntriesInv, EntriesTypeOK
<1>2. EntriesTypeOK'
  BY <1>1 DEF EntriesInv, EntriesTypeOK
<1>3. ClassificationIsChained'
  BY <1>1 DEF EntriesInv, ClassificationIsChained, Known, Chained
<1>4. EditsChained'
  <2> SUFFICES ASSUME NEW u \in Editors, editing'[u] # None
               PROVE  /\ Chained(editing'[u].read) /\ Chained(editing'[u].wanted)
                      /\ row'[editing'[u].entry] \in Classifications
                      /\ Chained(row'[editing'[u].entry])
    BY DEF EditsChained, Chained
  <2>1. editing[u].entry \in Entries
    BY <1>1 DEF EntriesInv, EntriesTypeOK, Edits
  <2>2. QED
    BY <1>1, <2>1 DEF EntriesInv, EditsChained
<1>5. QED
  BY <1>2, <1>3, <1>4 DEF EntriesInv

\* An editor reads a chained classification.
LEMMA ReadForClassificationInv ==
  ASSUME EntriesInv, NEW u \in Editors, NEW e \in Entries, NEW k \in Classifications,
         ReadForClassification(u, e, k)
  PROVE  EntriesInv'
<1>1. /\ row[e] \in Classifications /\ Chained(row[e])
      /\ Chained(k) /\ UNCHANGED <<catalogue, row>>
  BY DEF ReadForClassification, EntriesInv, EntriesTypeOK, ClassificationIsChained
<1>2. [entry |-> e, read |-> row[e], wanted |-> k] \in Edits
  BY <1>1 DEF Edits
<1>3. /\ editing'[u] = [entry |-> e, read |-> row[e], wanted |-> k]
      /\ \A v \in Editors \ {u} : editing'[v] = editing[v]
      /\ editing' \in [Editors -> Edits \cup {None}]
  BY <1>2 DEF ReadForClassification, EntriesInv, EntriesTypeOK
<1>4. EntriesTypeOK'
  BY <1>1, <1>3 DEF EntriesInv, EntriesTypeOK
<1>5. ClassificationIsChained'
  BY <1>1 DEF EntriesInv, ClassificationIsChained, Known, Chained
<1>6. EditsChained'
  <2> SUFFICES ASSUME NEW v \in Editors, editing'[v] # None
               PROVE  /\ Chained(editing'[v].read) /\ Chained(editing'[v].wanted)
                      /\ row'[editing'[v].entry] \in Classifications
                      /\ Chained(row'[editing'[v].entry])
    BY DEF EditsChained, Chained
  <2>1. CASE v = u
    BY <1>1, <1>3, <2>1
  <2>2. CASE v # u
    BY <1>1, <1>3, <2>2 DEF EntriesInv, EditsChained
  <2>3. QED
    BY <2>1, <2>2
<1>7. QED
  BY <1>4, <1>5, <1>6 DEF EntriesInv

\* What a flush finds, and what it writes when the constraints let it.
LEMMA ClassifyWrites ==
  ASSUME EntriesInv, NEW u \in Editors, Classify(u)
  PROVE  \E e \in Entries : \E base, read, wanted, new \in Classifications :
           /\ e = editing[u].entry /\ base = row[e]
           /\ read = editing[u].read /\ wanted = editing[u].wanted
           /\ Chained(base) /\ Chained(read) /\ Chained(wanted)
           /\ new = Blended(base, read, wanted) /\ Storable(new)
           /\ row'[e] = new /\ \A f \in Entries \ {e} : row'[f] = row[f]
           /\ row' \in [Entries -> Classifications \cup {None}]
<1>1. /\ editing[u] \in Edits /\ row[editing[u].entry] \in Classifications
      /\ Chained(row[editing[u].entry]) /\ Chained(editing[u].read) /\ Chained(editing[u].wanted)
  BY DEF Classify, EntriesInv, EntriesTypeOK, EditsChained
<1>2. PICK e \in Entries, base \in Classifications, read \in Classifications,
           wanted \in Classifications :
        /\ e = editing[u].entry /\ base = row[e]
        /\ read = editing[u].read /\ wanted = editing[u].wanted
  BY <1>1 DEF Edits
<1>3. PICK new \in Classifications : new = Blended(base, read, wanted)
  BY BlendedIs
<1>4. Storable(new) /\ row' = [row EXCEPT ![e] = new]
  BY <1>2, <1>3 DEF Classify
<1>5. /\ row'[e] = new /\ \A f \in Entries \ {e} : row'[f] = row[f]
      /\ row' \in [Entries -> Classifications \cup {None}]
  BY <1>4 DEF EntriesInv, EntriesTypeOK
<1>6. QED
  BY <1>1, <1>2, <1>3, <1>4, <1>5

\* Flush and commit: the constraints let only chained blends through.
LEMMA ClassifyInv ==
  ASSUME EntriesInv, NEW u \in Editors, Classify(u)
  PROVE  EntriesInv'
<1>1. PICK e \in Entries, new \in Classifications :
        /\ Storable(new) /\ row'[e] = new /\ \A f \in Entries \ {e} : row'[f] = row[f]
        /\ row' \in [Entries -> Classifications \cup {None}]
  BY ClassifyWrites
<1>2. Known(new) /\ Chained(new)
  BY <1>1, StorableIsChained
<1>3. /\ editing' \in [Editors -> Edits \cup {None}] /\ editing'[u] = None
      /\ \A v \in Editors \ {u} : editing'[v] = editing[v]
      /\ catalogue' = catalogue
  BY EditEnds DEF Classify
<1>4. EntriesTypeOK'
  BY <1>1, <1>3 DEF EntriesInv, EntriesTypeOK
<1>5. ClassificationIsChained'
  BY <1>1, <1>2, <1>3 DEF EntriesInv, ClassificationIsChained, Known, Chained
<1>6. EditsChained'
  <2> SUFFICES ASSUME NEW v \in Editors, editing'[v] # None
               PROVE  /\ Chained(editing'[v].read) /\ Chained(editing'[v].wanted)
                      /\ row'[editing'[v].entry] \in Classifications
                      /\ Chained(row'[editing'[v].entry])
    BY DEF EditsChained, Chained
  <2>1. editing'[v] = editing[v]
    BY <1>3
  <2>2. editing[v].entry \in Entries
    BY <2>1 DEF EntriesInv, EntriesTypeOK, Edits
  <2>3. QED
    BY <1>1, <1>2, <2>1, <2>2 DEF EntriesInv, EditsChained
<1>7. QED
  BY <1>4, <1>5, <1>6 DEF EntriesInv

\* A rollback leaves the entry as it is.
LEMMA ClassifyFailsInv ==
  ASSUME EntriesInv, NEW u \in Editors, ClassifyFails(u)
  PROVE  EntriesInv'
<1>1. /\ editing' = [editing EXCEPT ![u] = None]
      /\ UNCHANGED <<catalogue, row>>
  BY DEF ClassifyFails
<1>2. /\ editing' \in [Editors -> Edits \cup {None}] /\ editing'[u] = None
      /\ \A v \in Editors \ {u} : editing'[v] = editing[v]
  BY <1>1, EditEnds
<1>3. EntriesTypeOK'
  BY <1>1, <1>2 DEF EntriesInv, EntriesTypeOK
<1>4. ClassificationIsChained'
  BY <1>1 DEF EntriesInv, ClassificationIsChained, Known, Chained
<1>5. EditsChained'
  <2> SUFFICES ASSUME NEW v \in Editors, editing'[v] # None
               PROVE  /\ Chained(editing'[v].read) /\ Chained(editing'[v].wanted)
                      /\ row'[editing'[v].entry] \in Classifications
                      /\ Chained(row'[editing'[v].entry])
    BY DEF EditsChained, Chained
  <2>1. editing'[v] = editing[v]
    BY <1>2
  <2>2. QED
    BY <1>1, <2>1 DEF EntriesInv, EditsChained
<1>6. QED
  BY <1>3, <1>4, <1>5 DEF EntriesInv

\* The catalogue is founded, there are no entries.
LEMMA InitEntriesInv == EntriesInit => EntriesInv
BY CatalogueAssumption
   DEF EntriesInit, EntriesInv, EntriesTypeOK, ClassificationIsChained, EditsChained

\* Every step keeps the invariant.
LEMMA EntriesInvStep == EntriesInv /\ [EntriesNext]_entryVars => EntriesInv'
<1> SUFFICES ASSUME EntriesInv, [EntriesNext]_entryVars PROVE EntriesInv'
  OBVIOUS
<1>1. CASE UNCHANGED entryVars
  BY <1>1 DEF entryVars, EntriesInv, EntriesTypeOK, ClassificationIsChained, EditsChained, Known,
     Chained
<1>2. ASSUME NEW c \in Clients, CreateClient(c) PROVE EntriesInv'
  BY <1>2, CatalogueGrows DEF CreateClient, EntriesInv, EntriesTypeOK
<1>3. ASSUME NEW p \in Projects, CreateProject(p) PROVE EntriesInv'
  BY <1>3, CatalogueGrows DEF CreateProject, EntriesInv, EntriesTypeOK
<1>4. ASSUME NEW t \in Tasks, CreateTask(t) PROVE EntriesInv'
  BY <1>4, CatalogueGrows DEF CreateTask, EntriesInv, EntriesTypeOK
<1>5. \A w \in Wishes : w[1] \in Entries /\ w[2] \in Classifications
  BY CatalogueAssumption
<1>6. ASSUME NEW w \in Wishes, CreateEntry(w[1], w[2]) PROVE EntriesInv'
  BY <1>5, <1>6, CreateEntryInv
<1>7. ASSUME NEW u \in Editors, NEW w \in Wishes, ReadForClassification(u, w[1], w[2])
      PROVE  EntriesInv'
  BY <1>5, <1>7, ReadForClassificationInv
<1>8. ASSUME NEW u \in Editors, Classify(u) \/ ClassifyFails(u) PROVE EntriesInv'
  BY <1>8, ClassifyInv, ClassifyFailsInv
<1>9. QED
  BY <1>1, <1>2, <1>3, <1>4, <1>6, <1>7, <1>8 DEF EntriesNext

-----------------------------------------------------------------------------
(* Lines and what their rows keep *)

\* The usual order of the natural numbers is well-founded.
LEMMA LeastNatural ==
  ASSUME NEW T \in SUBSET Nat, T # {}
  PROVE  \E x \in T : \A y \in T : x <= y
<1> DEFINE R == OpToRel(<, Nat)
<1>1. IsWellFoundedOn(R, Nat)
  BY NatLessThanWellFounded, Zenon
<1>2. \A x, y \in Nat : y < x => <<y, x>> \in R
  BY DEF OpToRel
<1> HIDE DEF R
<1>3. PICK x \in T : \A y \in T : ~ (<<y, x>> \in R)
  BY <1>1, WFMin
<1>4. \A y \in T : ~(y < x)
  <2> SUFFICES ASSUME NEW y \in T, y < x PROVE FALSE
    OBVIOUS
  <2>1. x \in Nat /\ y \in Nat
    OBVIOUS
  <2>2. QED
    BY <1>2, <1>3, <2>1
<1>5. \A y \in T : x <= y
  BY <1>4
<1>6. QED
  BY <1>5

\* What a segment is made of.
LEMMA SegmentShape ==
  ASSUME NEW s \in Segments
  PROVE  /\ s = [entry |-> s.entry, date |-> s.date, line |-> s.line,
                  source |-> s.source, rate |-> s.rate]
         /\ s.entry \in Entries /\ s.entry \in Nat /\ s.date \in Nat /\ s.line \in Nat
         /\ s.source \in Classifications /\ s.rate \in Offers
<1>1. \A q \in Requests : \A a \in Range(q.work) : a \in Allocations
  <2> SUFFICES ASSUME NEW q \in Requests, NEW a \in Range(q.work) PROVE a \in Allocations
    OBVIOUS
  <2>1. q.work \in Seq(Allocations)
    BY DraftAssumption
  <2>2. QED
    BY <2>1 DEF Range
<1>2. PICK a \in UNION {Range(q.work) : q \in Requests}, k \in Classifications, o \in Offers :
        s = [entry |-> a.entry, date |-> a.date, line |-> a.line, source |-> k, rate |-> o]
  BY DEF Segments
<1>3. a \in Allocations
  BY <1>1
<1>4. a.entry \in Entries /\ a.entry \in Nat /\ a.date \in Nat /\ a.line \in Nat
  BY <1>3, CatalogueAssumption DEF Allocations
<1>5. QED
  BY <1>2, <1>4

\* An allocation of a request, a classification and an agreement make a segment.
LEMMA SegmentIs ==
  ASSUME NEW q \in Requests, NEW a \in Range(q.work), NEW k \in Classifications, NEW o \in Offers
  PROVE  [entry |-> a.entry, date |-> a.date, line |-> a.line, source |-> k, rate |-> o] \in Segments
<1> DEFINE works == UNION {Range(r.work) : r \in Requests}
<1>1. a \in works
  OBVIOUS
<1>2. Segments = {[entry |-> x.entry, date |-> x.date, line |-> x.line, source |-> j, rate |-> p] :
                    x \in works, j \in Classifications, p \in Offers}
  BY DEF Segments
<1> HIDE DEF works
<1>3. QED
  BY <1>1, <1>2

\* Every line has a first allocation.
LEMMA FirstIsOnLine ==
  ASSUME NEW segments \in SUBSET Segments, NEW one \in segments
  PROVE  FirstOf(segments, one.line) \in segments /\ FirstOf(segments, one.line).line = one.line
<1> DEFINE l == one.line
           mine == {s \in segments : s.line = l}
           entries == {s.entry : s \in mine}
<1>1. entries \in SUBSET Nat /\ entries # {}
  BY SegmentShape
<1>2. PICK e \in entries : \A y \in entries : e <= y
  BY <1>1, LeastNatural
<1> DEFINE dates == {s.date : s \in {t \in mine : t.entry = e}}
<1>3. dates \in SUBSET Nat /\ dates # {}
  BY <1>2, SegmentShape
<1>4. PICK d \in dates : \A y \in dates : d <= y
  BY <1>3, LeastNatural
<1>5. PICK f \in mine : f.entry = e /\ f.date = d
  BY <1>4
<1>6. ASSUME NEW t \in mine PROVE f.entry < t.entry \/ (f.entry = t.entry /\ f.date <= t.date)
  <2>1. f.entry \in Nat /\ t.entry \in Nat /\ f.entry <= t.entry
    BY <1>2, <1>5, SegmentShape
  <2>2. t.entry = e => f.date <= t.date
    BY <1>4, <1>5
  <2>3. QED
    BY <1>5, <2>1, <2>2
<1>7. \E s \in segments : s.line = l /\ \A t \in segments : t.line = l =>
        s.entry < t.entry \/ (s.entry = t.entry /\ s.date <= t.date)
  BY <1>5, <1>6
<1>8. QED
  BY <1>7 DEF FirstOf

\* Of an agreement that applies, the row keeps all there is to know: its project, if
\* it has one, is the source's, and its client is the source's.
LEMMA AppliedIs ==
  ASSUME NEW rates \in SUBSET Offers, NEW k \in Classifications, NEW date,
         NEW o \in Offers, Resolved(rates, k, date) = {o}
  PROVE  o.client = k.client /\ o.project \in {k.project, None}
BY DEF Resolved, Applying

\* _restore_line gives every allocation of a draftable set of segments its own
\* source and agreement back.
LEMMA RestoredIs ==
  ASSUME NEW segments \in SUBSET Segments, NEW rates \in SUBSET Offers, NEW client,
         \A s \in segments : PricedFrom(rates, s),
         Draftable(client, segments), NEW draft,
         draft.lines = [l \in {s.line : s \in segments} |-> LineRow(segments, l)],
         draft.allocations =
           {[entry |-> s.entry, date |-> s.date, line |-> s.line] : s \in segments}
  PROVE  Restored(draft) = segments
<1> DEFINE back(a) ==
      LET line == draft.lines[a.line] IN
      [entry |-> a.entry, date |-> a.date, line |-> a.line, source |-> line.source,
       rate |-> [id |-> line.id, client |-> line.source.client,
                 project |-> IF line.scope # None THEN line.source.project ELSE None,
                 from |-> line.from, until |-> line.until, rate |-> line.rate]]
           allocation(s) == [entry |-> s.entry, date |-> s.date, line |-> s.line]
<1>1. ASSUME NEW s \in segments PROVE back(allocation(s)) = s
  <2> DEFINE f == FirstOf(segments, s.line)
  <2>1. f \in segments /\ f.line = s.line
    BY FirstIsOnLine
  <2> HIDE DEF f
  <2>2. LineContext(f) = LineContext(s)
    BY <2>1 DEF Draftable
  <2>3. f.source = s.source /\ f.rate = s.rate
    <3>1. /\ f.source.client = s.source.client /\ f.source.project = s.source.project
          /\ f.source.task = s.source.task /\ f.rate = s.rate
      BY <2>2 DEF LineContext
    <3>2. f.source \in Classifications /\ s.source \in Classifications
      BY <2>1, SegmentShape
    <3>3. QED
      BY <3>1, <3>2 DEF Classifications
  <2>4. draft.lines[s.line] =
          [source |-> f.source, id |-> f.rate.id, scope |-> f.rate.project,
           from |-> f.rate.from, until |-> f.rate.until, rate |-> f.rate.rate]
    BY DEF LineRow, f
  <2>5. /\ s.source \in Classifications /\ s.rate \in Offers
        /\ s = [entry |-> s.entry, date |-> s.date, line |-> s.line,
                source |-> s.source, rate |-> s.rate]
    BY SegmentShape
  <2>6. s.rate.client = s.source.client /\ s.rate.project \in {s.source.project, None}
    BY <2>5, AppliedIs DEF PricedFrom
  <2>7. s.rate = [id |-> s.rate.id, client |-> s.rate.client, project |-> s.rate.project,
                  from |-> s.rate.from, until |-> s.rate.until, rate |-> s.rate.rate]
    BY <2>5, DraftAssumption
  <2>8. allocation(s).entry = s.entry /\ allocation(s).date = s.date /\ allocation(s).line = s.line
    OBVIOUS
  <2>9. [id |-> f.rate.id, client |-> f.source.client,
         project |-> IF f.rate.project # None THEN f.source.project ELSE None,
         from |-> f.rate.from, until |-> f.rate.until, rate |-> f.rate.rate] = s.rate
    BY <2>3, <2>6, <2>7
  <2>10. QED
    BY <2>3, <2>4, <2>5, <2>8, <2>9
<1>2. Restored(draft) = {back(a) : a \in draft.allocations}
  BY DEF Restored
<1>3. draft.allocations = {allocation(s) : s \in segments}
  OBVIOUS
<1> HIDE DEF back, allocation
<1>4. QED
  BY <1>1, <1>2, <1>3

-----------------------------------------------------------------------------
(* DraftInv: initially, and after every step *)

\* What is said of drafts and builders stands while they do, and the agreements
\* there were are still the first ones.
LEMMA DraftsStand ==
  ASSUME DraftInv, EntriesInv', UNCHANGED <<building, drafts>>,
         agreements' \in Seq(Offers), Len(agreements') >= Len(agreements),
         \A n \in 0 .. Len(agreements) : SubSeq(agreements', 1, n) = SubSeq(agreements, 1, n)
  PROVE  DraftInv'
<1>1. Len(agreements) \in Nat /\ Len(agreements') \in Nat
  BY LenProperties DEF DraftInv, BuildInv
<1>2. \A n \in 0 .. Len(agreements) : n \in 0 .. Len(agreements')
  BY <1>1
<1>3. \A n \in 0 .. Len(agreements) : Prefix(n)' = Prefix(n)
  BY DEF Prefix, Range
<1>4. BuildInv'
  <2>1. BuildingsPriced'
    <3> SUFFICES ASSUME NEW c \in Builders, building[c] # None
                 PROVE  /\ \E n \in 0 .. Len(agreements') : building[c].rates = Prefix(n)'
                        /\ \A s \in Range(building[c].priced) : PricedFrom(building[c].rates, s)
      BY DEF BuildingsPriced, PricedFrom, Range, Chained, Resolved, Applying, ValidOn
    <3>1. PICK n \in 0 .. Len(agreements) : building[c].rates = Prefix(n)
      BY DEF DraftInv, BuildInv, BuildingsPriced
    <3>2. n \in 0 .. Len(agreements') /\ building[c].rates = Prefix(n)'
      BY <1>2, <1>3, <3>1
    <3>3. \A s \in Range(building[c].priced) : PricedFrom(building[c].rates, s)
      BY DEF DraftInv, BuildInv, BuildingsPriced
    <3>4. QED
      BY <3>2, <3>3
  <2>2. QED
    BY <2>1 DEF DraftInv, BuildInv
<1>5. TypeOK'
  BY DEF DraftInv, TypeOK, EntriesInv
<1>6. DraftReadsBack'
  BY DEF DraftInv, DraftReadsBack
<1>7. OnePriceList'
  <2> DEFINE rates(l, n, s) == Resolved(Range(SubSeq(l, 1, n)), s.source, s.date)
  <2>0. ASSUME NEW n, NEW s PROVE rates(agreements, n, s)' = rates(agreements', n, s)
    BY DEF Resolved, Applying, ValidOn, Range
  <2> SUFFICES ASSUME NEW b \in Builders, drafts[b] # None
               PROVE  \E n \in 0 .. Len(agreements') : \A s \in drafts[b].answer :
                        Resolved(Range(SubSeq(agreements', 1, n)), s.source, s.date) = {s.rate}
    BY <2>0 DEF OnePriceList
  <2>1. PICK n \in 0 .. Len(agreements) : \A s \in drafts[b].answer :
          Resolved(Range(SubSeq(agreements, 1, n)), s.source, s.date) = {s.rate}
    BY DEF DraftInv, OnePriceList
  <2>2. n \in 0 .. Len(agreements') /\ SubSeq(agreements', 1, n) = SubSeq(agreements, 1, n)
    BY <1>2
  <2>3. QED
    BY <2>1, <2>2
<1>8. QED
  BY <1>4, <1>5, <1>6, <1>7 DEF DraftInv

\* A builder moves, agreements and drafts stand.
LEMMA BuildersMove ==
  ASSUME DraftInv, EntriesInv', UNCHANGED <<agreements, drafts>>,
         building' \in [Builders -> Buildings \cup {None}], BuildingsPriced'
  PROVE  DraftInv'
<1>1. BuildInv'
  BY DEF DraftInv, BuildInv
<1>2. TypeOK'
  <2>1. ASSUME NEW b \in Builders, building'[b] # None
        PROVE  /\ building'[b].request \in Requests
               /\ building'[b].rates \subseteq Offers
               /\ Range(building'[b].priced) \subseteq Segments
    <3>1. building'[b] \in Buildings
      BY <2>1
    <3>2. building'[b].priced \in Seq(Segments)
      BY <3>1 DEF Buildings
    <3>3. QED
      BY <3>1, <3>2 DEF Buildings, Range
  <2>2. EntriesTypeOK'
    BY DEF EntriesInv
  <2>3. QED
    BY <2>1, <2>2 DEF DraftInv, TypeOK, Range
<1>3. DraftReadsBack'
  BY DEF DraftInv, DraftReadsBack
<1>4. OnePriceList'
  BY DEF DraftInv, OnePriceList
<1>5. QED
  BY <1>1, <1>2, <1>3, <1>4 DEF DraftInv

\* An agreement is added behind those there are.
LEMMA AddAgreementInv ==
  ASSUME DraftInv, NEW o \in Offers, AddAgreement(o)
  PROVE  DraftInv'
<1>1. EntriesInv'
  BY EntriesInvStep DEF DraftInv, AddAgreement
<1>2. agreements \in Seq(Offers) /\ agreements' = Append(agreements, o)
  BY DEF DraftInv, BuildInv, AddAgreement
<1>3. /\ agreements' \in Seq(Offers) /\ Len(agreements) \in Nat
      /\ Len(agreements') = Len(agreements) + 1
      /\ \A i \in 1 .. Len(agreements) : agreements'[i] = agreements[i]
  BY <1>2, LenProperties
<1>4. ASSUME NEW n \in 0 .. Len(agreements)
      PROVE  SubSeq(agreements', 1, n) = SubSeq(agreements, 1, n)
  BY <1>3
<1>5. QED
  BY <1>1, <1>3, <1>4, DraftsStand DEF AddAgreement

\* A builder that begins lists the agreements there are.
LEMMA BeginInv ==
  ASSUME DraftInv, NEW b \in Builders, NEW q \in Requests, Begin(b, q)
  PROVE  DraftInv'
<1> DEFINE new == [request |-> q, rates |-> Range(agreements), priced |-> <<>>]
<1>1. agreements \in Seq(Offers) /\ Len(agreements) \in Nat
  BY LenProperties DEF DraftInv, BuildInv
<1>2. UNCHANGED <<agreements, drafts, entryVars>>
  BY DEF Begin
<1>3. Range(agreements) \in SUBSET Offers /\ <<>> \in Seq(Segments) /\ Range(<<>>) = {}
  BY <1>1 DEF Range
<1>4. new \in Buildings /\ new.priced = <<>> /\ new.rates = Range(agreements)
  BY <1>3 DEF Buildings
<1> HIDE DEF new
<1>5. /\ building'[b] = new /\ \A c \in Builders \ {b} : building'[c] = building[c]
      /\ building' \in [Builders -> Buildings \cup {None}]
  BY <1>4 DEF DraftInv, BuildInv, Begin, new
<1>6. BuildingsPriced'
  <2> SUFFICES ASSUME NEW c \in Builders, building'[c] # None
               PROVE  /\ \E n \in 0 .. Len(agreements) : building'[c].rates = Prefix(n)
                      /\ \A s \in Range(building'[c].priced) : PricedFrom(building'[c].rates, s)
    BY <1>2 DEF BuildingsPriced, PricedFrom, Range, Chained, Resolved, Applying, ValidOn, Prefix
  <2>1. CASE c = b
    <3>1. SubSeq(agreements, 1, Len(agreements)) = agreements
      BY <1>1
    <3>2. Range(agreements) = Prefix(Len(agreements))
      BY <3>1 DEF Prefix
    <3>3. Len(agreements) \in 0 .. Len(agreements)
      BY <1>1
    <3>4. QED
      BY <1>3, <1>4, <1>5, <2>1, <3>2, <3>3
  <2>2. CASE c # b
    BY <1>5, <2>2 DEF DraftInv, BuildInv, BuildingsPriced
  <2>3. QED
    BY <2>1, <2>2
<1>7. EntriesInv'
  BY <1>2, EntriesInvStep DEF DraftInv
<1>8. QED
  BY <1>2, <1>5, <1>6, <1>7, BuildersMove

\* A builder that leaves disturbs no other.
LEMMA BuilderLeaves ==
  ASSUME DraftInv, NEW b \in Builders, agreements' = agreements, building'[b] = None,
         \A c \in Builders \ {b} : building'[c] = building[c]
  PROVE  BuildingsPriced'
<1> SUFFICES ASSUME NEW c \in Builders, building'[c] # None
             PROVE  /\ \E n \in 0 .. Len(agreements) : building'[c].rates = Prefix(n)
                    /\ \A s \in Range(building'[c].priced) : PricedFrom(building'[c].rates, s)
  BY DEF BuildingsPriced, PricedFrom, Range, Chained, Resolved, Applying, ValidOn, Prefix
<1>1. building'[c] = building[c] /\ building[c] # None
  OBVIOUS
<1>2. QED
  BY <1>1 DEF DraftInv, BuildInv, BuildingsPriced

\* A draft that is given up.
LEMMA BuildFailsInv ==
  ASSUME DraftInv, NEW b \in Builders, BuildFails(b)
  PROVE  DraftInv'
<1>1. UNCHANGED <<agreements, drafts, entryVars>>
  BY DEF BuildFails
<1>2. /\ building'[b] = None /\ \A c \in Builders \ {b} : building'[c] = building[c]
      /\ building' \in [Builders -> Buildings \cup {None}]
  BY DEF DraftInv, BuildInv, BuildFails
<1>3. BuildingsPriced'
  BY <1>1, <1>2, BuilderLeaves
<1>4. EntriesInv'
  BY <1>1, EntriesInvStep DEF DraftInv
<1>5. QED
  BY <1>1, <1>2, <1>3, <1>4, BuildersMove

\* An allocation is priced with the agreements listed at the start.
LEMMA TakeEntryInv ==
  ASSUME DraftInv, NEW b \in Builders, TakeEntry(b)
  PROVE  DraftInv'
<1> DEFINE old == building[b]
           a == NextWork(b)
           k == row[a.entry]
           s(o) == [entry |-> a.entry, date |-> a.date, line |-> a.line, source |-> k, rate |-> o]
<1>1. PICK o \in Offers :
        /\ Resolved(old.rates, k, a.date) = {o}
        /\ building' = [building EXCEPT ![b].priced = Append(@, s(o))]
  BY DEF TakeEntry, RatesFor
<1>2. /\ old \in Buildings /\ old.priced \in Seq(Segments) /\ Len(old.priced) \in Nat
      /\ old.request \in Requests /\ old.rates \in SUBSET Offers
  BY LenProperties DEF TakeEntry, DraftInv, BuildInv, Buildings
<1>3. a \in Range(old.request.work) /\ a \in Allocations
  <2>1. old.request.work \in Seq(Allocations) /\ Len(old.request.work) \in Nat
    BY <1>2, DraftAssumption, LenProperties
  <2>2. Len(old.priced) + 1 \in 1 .. Len(old.request.work)
    BY <1>2, <2>1 DEF TakeEntry
  <2>3. QED
    BY <2>1, <2>2 DEF NextWork, Range
<1>4. a.entry \in Entries /\ k \in Classifications /\ k.client # None /\ Chained(k)
  BY <1>3 DEF TakeEntry, Allocations, DraftInv, EntriesInv, EntriesTypeOK, ClassificationIsChained
<1>5. s(o) \in Segments
  BY <1>2, <1>3, <1>4, SegmentIs
<1>6. PricedFrom(old.rates, s(o))
  BY <1>1, <1>4 DEF PricedFrom
<1> DEFINE new == [old EXCEPT !.priced = Append(old.priced, s(o))]
<1>7. /\ new \in Buildings /\ new.request = old.request /\ new.rates = old.rates
      /\ new.priced = Append(old.priced, s(o))
  <2>1. Append(old.priced, s(o)) \in Seq(Segments)
    BY <1>2, <1>5
  <2> HIDE DEF s
  <2>2. QED
    BY <1>2, <2>1 DEF Buildings
<1>8. Range(new.priced) = Range(old.priced) \cup {s(o)}
  <2> HIDE DEF s
  <2>1. Len(Append(old.priced, s(o))) = Len(old.priced) + 1
    BY <1>2
  <2>2. QED
    BY <1>2, <1>5, <1>7, <2>1 DEF Range
<1>9. /\ building' = [building EXCEPT ![b] = new] /\ agreements' = agreements /\ drafts' = drafts
  BY <1>1 DEF TakeEntry
<1> HIDE DEF new, s, old, a, k
<1>10. /\ building'[b] = new /\ \A c \in Builders \ {b} : building'[c] = building[c]
       /\ building' \in [Builders -> Buildings \cup {None}]
  BY <1>7, <1>9 DEF DraftInv, BuildInv
<1>11. BuildingsPriced'
  <2> SUFFICES ASSUME NEW c \in Builders, building'[c] # None
               PROVE  /\ \E n \in 0 .. Len(agreements) : building'[c].rates = Prefix(n)
                      /\ \A t \in Range(building'[c].priced) : PricedFrom(building'[c].rates, t)
    BY <1>9 DEF BuildingsPriced, PricedFrom, Range, Chained, Resolved, Applying, ValidOn, Prefix
  <2>1. CASE c = b
    <3>1. /\ \E n \in 0 .. Len(agreements) : old.rates = Prefix(n)
          /\ \A t \in Range(old.priced) : PricedFrom(old.rates, t)
      BY DEF DraftInv, BuildInv, BuildingsPriced, TakeEntry, old
    <3>2. QED
      BY <1>6, <1>7, <1>8, <1>10, <2>1, <3>1
  <2>2. CASE c # b
    BY <1>10, <2>2 DEF DraftInv, BuildInv, BuildingsPriced
  <2>3. QED
    BY <2>1, <2>2
<1>12. UNCHANGED <<agreements, drafts, entryVars>>
  BY DEF TakeEntry
<1>13. EntriesInv'
  BY <1>12, EntriesInvStep DEF DraftInv
<1>14. QED
  BY <1>10, <1>11, <1>12, <1>13, BuildersMove

\* The rows of a line are those of a classification and of an agreement.
LEMMA LineRowIs ==
  ASSUME NEW segments \in SUBSET Segments, NEW one \in segments
  PROVE  LET line == LineRow(segments, one.line) IN
         line.source \in Classifications /\ line.from \in Nat /\ line.until \in Nat \cup {None}
<1> DEFINE f == FirstOf(segments, one.line)
<1>1. f \in segments
  BY FirstIsOnLine
<1> HIDE DEF f
<1>2. f.source \in Classifications /\ f.rate \in Offers
  BY <1>1, SegmentShape
<1>3. f.rate.from \in Nat /\ f.rate.until \in Nat \cup {None}
  BY <1>2, DraftAssumption
<1>4. QED
  BY <1>2, <1>3 DEF LineRow, f

\* A builder has read its allocations and stores its draft.
LEMMA StoreInv ==
  ASSUME DraftInv, NEW b \in Builders, Store(b)
  PROVE  DraftInv'
<1>1. building[b] # None /\ building[b] \in Buildings
  BY DEF Store, DraftInv, BuildInv
<1>2. PICK rates \in SUBSET Offers, segments \in SUBSET Segments :
        rates = building[b].rates /\ segments = Range(building[b].priced)
  <2>1. building[b].rates \in SUBSET Offers /\ building[b].priced \in Seq(Segments)
    BY <1>1 DEF Buildings
  <2>2. Range(building[b].priced) \in SUBSET Segments
    BY <2>1 DEF Range
  <2>3. QED
    BY <2>1, <2>2
<1>3. PICK n \in 0 .. Len(agreements) : rates = Range(SubSeq(agreements, 1, n))
  BY <1>1, <1>2 DEF DraftInv, BuildInv, BuildingsPriced, Prefix
<1>4. \A s \in segments : PricedFrom(rates, s)
  BY <1>1, <1>2 DEF DraftInv, BuildInv, BuildingsPriced
<1>5. PICK client : client = building[b].request.client
  OBVIOUS
<1> DEFINE draft ==
      [client |-> client, lines |-> [l \in {s.line : s \in segments} |-> LineRow(segments, l)],
       answer |-> segments,
       allocations |-> {[entry |-> s.entry, date |-> s.date, line |-> s.line] : s \in segments}]
<1>6. Draftable(client, segments) /\ drafts' = [drafts EXCEPT ![b] = draft]
  BY <1>2, <1>5 DEF Store
<1>7. /\ draft.client = client /\ draft.answer = segments
      /\ draft.lines = [l \in {s.line : s \in segments} |-> LineRow(segments, l)]
      /\ draft.allocations =
           {[entry |-> s.entry, date |-> s.date, line |-> s.line] : s \in segments}
  OBVIOUS
<1> HIDE DEF draft
<1>8. Restored(draft) = segments
  BY <1>4, <1>6, <1>7, RestoredIs
<1>9. /\ DOMAIN drafts' = Builders /\ drafts' = [c \in Builders |-> drafts'[c]]
      /\ drafts'[b] = draft /\ \A c \in Builders \ {b} : drafts'[c] = drafts[c]
  BY <1>6 DEF DraftInv, BuildInv
<1>10. /\ building'[b] = None /\ \A c \in Builders \ {b} : building'[c] = building[c]
       /\ building' \in [Builders -> Buildings \cup {None}]
  BY DEF Store, DraftInv, BuildInv
<1>11. agreements' = agreements /\ UNCHANGED entryVars
  BY DEF Store
<1>12. EntriesInv'
  BY <1>11, EntriesInvStep DEF DraftInv
<1>13. BuildInv'
  <2>1. BuildingsPriced'
    BY <1>10, <1>11, BuilderLeaves
  <2>2. QED
    BY <1>9, <1>10, <1>11, <2>1 DEF DraftInv, BuildInv
<1>14. TypeOK'
  <2>1. ASSUME NEW c \in Builders, building'[c] # None
        PROVE  /\ building'[c].request \in Requests
               /\ building'[c].rates \subseteq Offers
               /\ Range(building'[c].priced) \subseteq Segments
    BY <1>10, <2>1 DEF DraftInv, TypeOK
  <2>2. ASSUME NEW c \in Builders, drafts'[c] # None
        PROVE  /\ drafts'[c].answer \subseteq Segments
               /\ \A l \in DOMAIN drafts'[c].lines :
                    /\ drafts'[c].lines[l].source \in Classifications
                    /\ drafts'[c].lines[l].from \in Nat
                    /\ drafts'[c].lines[l].until \in Nat \cup {None}
    <3>1. CASE c = b
      <4>1. ASSUME NEW l \in DOMAIN draft.lines
            PROVE  /\ draft.lines[l].source \in Classifications /\ draft.lines[l].from \in Nat
                   /\ draft.lines[l].until \in Nat \cup {None}
        <5>1. PICK one \in segments : one.line = l /\ draft.lines[l] = LineRow(segments, one.line)
          BY <1>7, <4>1
        <5>2. QED
          BY <5>1, LineRowIs
      <4>2. QED
        BY <1>7, <1>9, <3>1, <4>1
    <3>2. CASE c # b
      BY <1>9, <2>2, <3>2 DEF DraftInv, TypeOK
    <3>3. QED
      BY <3>1, <3>2
  <2>3. EntriesTypeOK' /\ agreements' \in Seq(Offers)
    BY <1>12, <1>13 DEF EntriesInv, BuildInv
  <2>4. QED
    BY <2>1, <2>2, <2>3 DEF TypeOK, Range
<1>15. DraftReadsBack'
  <2> SUFFICES ASSUME NEW c \in Builders, drafts'[c] # None
               PROVE  /\ Restored(drafts'[c]) = drafts'[c].answer
                      /\ Draftable(drafts'[c].client, Restored(drafts'[c]))
    BY DEF DraftReadsBack, Restored, Draftable, LineContext
  <2>1. CASE c = b
    BY <1>6, <1>7, <1>8, <1>9, <2>1
  <2>2. CASE c # b
    BY <1>9, <2>2 DEF DraftInv, DraftReadsBack
  <2>3. QED
    BY <2>1, <2>2
<1>16. OnePriceList'
  <2> SUFFICES ASSUME NEW c \in Builders, drafts'[c] # None
               PROVE  \E m \in 0 .. Len(agreements') : \A s \in drafts'[c].answer :
                        Resolved(Range(SubSeq(agreements', 1, m)), s.source, s.date) = {s.rate}
    BY DEF OnePriceList, Resolved, Applying, ValidOn, Range
  <2>1. CASE c = b
    BY <1>3, <1>4, <1>7, <1>9, <1>11, <2>1 DEF PricedFrom
  <2>2. CASE c # b
    <3>1. drafts'[c] = drafts[c] /\ drafts[c] # None
      BY <1>9, <2>2
    <3>2. PICK m \in 0 .. Len(agreements) : \A s \in drafts[c].answer :
            Resolved(Range(SubSeq(agreements, 1, m)), s.source, s.date) = {s.rate}
      BY <3>1 DEF DraftInv, OnePriceList
    <3>3. QED
      BY <1>11, <3>1, <3>2
  <2>3. QED
    BY <2>1, <2>2
<1>17. QED
  BY <1>12, <1>13, <1>14, <1>15, <1>16 DEF DraftInv

\* Nothing is built and no agreement is made at the start.
LEMMA InitDraftInv == DraftInit => DraftInv
<1> SUFFICES ASSUME DraftInit PROVE DraftInv
  OBVIOUS
<1>1. EntriesInv
  BY InitEntriesInv DEF DraftInit
<1>2. agreements = <<>> /\ building = [b \in Builders |-> None] /\ drafts = [b \in Builders |-> None]
  BY DEF DraftInit
<1>3. BuildInv
  BY <1>2 DEF BuildInv, BuildingsPriced
<1>4. TypeOK /\ DraftReadsBack /\ OnePriceList
  BY <1>1, <1>2, <1>3 DEF EntriesInv, BuildInv, TypeOK, DraftReadsBack, OnePriceList
<1>5. QED
  BY <1>1, <1>3, <1>4 DEF DraftInv

\* Every step keeps the invariant.
LEMMA DraftInvStep == DraftInv /\ [DraftNext]_<<entryVars, draftVars>> => DraftInv'
<1> SUFFICES ASSUME DraftInv, [DraftNext]_<<entryVars, draftVars>> PROVE DraftInv'
  OBVIOUS
<1>1. CASE [EntriesNext]_entryVars /\ UNCHANGED draftVars
  <2>1. EntriesInv'
    BY <1>1, EntriesInvStep DEF DraftInv
  <2>2. UNCHANGED <<agreements, building, drafts>>
    BY <1>1 DEF draftVars
  <2>3. agreements \in Seq(Offers) /\ Len(agreements) \in Nat
    BY LenProperties DEF DraftInv, BuildInv
  <2>4. QED
    BY <2>1, <2>2, <2>3, DraftsStand
<1>2. ASSUME NEW o \in Offers, AddAgreement(o) PROVE DraftInv'
  BY <1>2, AddAgreementInv
<1>3. ASSUME NEW b \in Builders, NEW q \in Requests, Begin(b, q) PROVE DraftInv'
  BY <1>3, BeginInv
<1>4. ASSUME NEW b \in Builders, TakeEntry(b) PROVE DraftInv'
  BY <1>4, TakeEntryInv
<1>5. ASSUME NEW b \in Builders, Store(b) PROVE DraftInv'
  BY <1>5, StoreInv
<1>6. ASSUME NEW b \in Builders, BuildFails(b) PROVE DraftInv'
  BY <1>6, BuildFailsInv
<1>7. CASE UNCHANGED <<entryVars, draftVars>>
  BY <1>1, <1>7
<1>8. QED
  BY <1>1, <1>2, <1>3, <1>4, <1>5, <1>6, <1>7 DEF DraftNext

-----------------------------------------------------------------------------
(* Theorems *)

\* Every reachable state satisfies the inductive invariant.
THEOREM DraftInvariance == DraftSpec => []DraftInv
<1>1. DraftInit => DraftInv
  BY InitDraftInv
<1>2. DraftInv /\ [DraftNext]_<<entryVars, draftVars>> => DraftInv'
  BY DraftInvStep
<1>3. QED
  BY <1>1, <1>2, PTL DEF DraftSpec

\* The types of the state.
THEOREM TypeCorrect == DraftSpec => []TypeOK
<1>1. DraftInv => TypeOK
  BY DEF DraftInv
<1>2. QED
  BY <1>1, DraftInvariance, PTL

\* However classifications overlap, every entry can be read back.
THEOREM ClassificationsStayChained == DraftSpec => []ClassificationIsChained
<1>1. DraftInv => ClassificationIsChained
  BY DEF DraftInv, EntriesInv
<1>2. QED
  BY <1>1, DraftInvariance, PTL

\* A reload of any draft gives what its caller was answered.
THEOREM DraftsReadBack == DraftSpec => []DraftReadsBack
<1>1. DraftInv => DraftReadsBack
  BY DEF DraftInv
<1>2. QED
  BY <1>1, DraftInvariance, PTL

\* Every draft is priced from one state of the agreements.
THEOREM PricedFromOneList == DraftSpec => []OnePriceList
<1>1. DraftInv => OnePriceList
  BY DEF DraftInv
<1>2. QED
  BY <1>1, DraftInvariance, PTL

\* A classification that commits leaves what its caller asked for; an overlapped
\* one may leave what the others wrote, at most without its task.
THEOREM OverlapsOnlyClearTasks == DraftSpec => OverlapOnlyClearsTask
<1>1. ASSUME DraftInv, NEW u \in Editors, Classify(u)
      PROVE  row'[editing[u].entry] \in {editing[u].wanted}
               \cup IF editing[u].read = row[editing[u].entry] THEN {}
                    ELSE {row[editing[u].entry], [row[editing[u].entry] EXCEPT !.task = None]}
  <2>1. PICK e \in Entries, base \in Classifications, read \in Classifications,
             wanted \in Classifications, new \in Classifications :
          /\ e = editing[u].entry /\ base = row[e]
          /\ read = editing[u].read /\ wanted = editing[u].wanted
          /\ Chained(base) /\ Chained(read) /\ Chained(wanted)
          /\ new = Blended(base, read, wanted) /\ Storable(new) /\ row'[e] = new
    BY <1>1, ClassifyWrites DEF DraftInv
  <2>2. new \in {wanted} \cup IF read = base THEN {} ELSE {base, [base EXCEPT !.task = None]}
    BY <2>1, BlendOfChains
  <2>3. QED
    BY <2>1, <2>2
<1>2. DraftInv => [\A u \in Editors : Classify(u) =>
       LET edit == editing[u]
           old == row[edit.entry]
       IN row'[edit.entry] \in {edit.wanted}
            \cup IF edit.read = old THEN {} ELSE {old, [old EXCEPT !.task = None]}]_entryVars
  BY <1>1
<1>3. QED
  BY <1>2, DraftInvariance, PTL DEF OverlapOnlyClearsTask
=============================================================================
