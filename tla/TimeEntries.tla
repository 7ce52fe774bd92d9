------------------------------ MODULE TimeEntries ------------------------------
(***************************************************************************)
(* Time entries and what they are classified by: clients, their projects    *)
(* and the projects' tasks.                                                 *)
(*                                                                         *)
(* Clients, projects and tasks are created under an existing parent and     *)
(* never change.  A time entry's classification is replaced as a whole by   *)
(* the domain, but stored column by column: the request reads the row       *)
(* without a lock and the flush writes the columns that differ from what    *)
(* was READ to the newest version of the row.  Two classifications that     *)
(* overlap blend, and only the row's CHECKs and composite foreign keys      *)
(* stand between the blend and a chain no read accepts.                     *)
(*                                                                         *)
(* Left out: names, instants and their zones (immutable), refusals, which   *)
(* change nothing.                                                         *)
(***************************************************************************)
EXTENDS Naturals, FiniteSets

CONSTANTS
  Clients, Projects, Tasks,
  Parent,       \* project -> its client, task -> its project
  Entries,      \* identities a time entry may get, ordered as numbers
  Editors,      \* callers that classify entries
  Wishes,       \* <<entry, classification>>: what callers may ask for
  Founded,      \* the clients, projects and tasks there are at the start
  None          \* SQL NULL, Python None

Classifications ==
  [client : Clients \cup {None}, project : Projects \cup {None}, task : Tasks \cup {None}]

ASSUME CatalogueAssumption ==
  /\ None \notin Clients \cup Projects \cup Tasks \cup Entries \cup Editors
  /\ Clients \cap Projects = {} /\ Clients \cap Tasks = {} /\ Projects \cap Tasks = {}
  /\ DOMAIN Parent = Projects \cup Tasks
  /\ \A p \in Projects : Parent[p] \in Clients
  /\ \A t \in Tasks : Parent[t] \in Projects
  /\ Founded \subseteq Clients \cup Projects \cup Tasks
  /\ \A x \in Founded \ Clients : Parent[x] \in Founded
  /\ Entries \subseteq Nat
  /\ Wishes \subseteq Entries \X Classifications

VARIABLES
  catalogue,    \* the clients, projects and tasks that exist
  row,          \* entry -> its classification columns, None before it exists
  editing       \* editor -> what it has read and wants, None when it edits nothing

entryVars == <<catalogue, row, editing>>

Columns == {"client", "project", "task"}
Edits == [entry : Entries, read : Classifications, wanted : Classifications]

EntriesInit ==
  /\ catalogue = Founded
  /\ row = [e \in Entries |-> None]
  /\ editing = [u \in Editors |-> None]

-----------------------------------------------------------------------------
(* Clients, projects and tasks *)

CreateClient(c) ==
  /\ c \notin catalogue
  /\ catalogue' = catalogue \cup {c}
  /\ UNCHANGED <<row, editing>>

\* "Client not found" without its parent.
CreateProject(p) ==
  /\ p \notin catalogue
  /\ Parent[p] \in catalogue
  /\ catalogue' = catalogue \cup {p}
  /\ UNCHANGED <<row, editing>>

\* "Project not found" without its parent.
CreateTask(t) ==
  /\ t \notin catalogue
  /\ Parent[t] \in catalogue
  /\ catalogue' = catalogue \cup {t}
  /\ UNCHANGED <<row, editing>>

-----------------------------------------------------------------------------
(* Classification *)

\* TimeEntry.__post_init__: client and project together, each of the one above.
Chained(k) ==
  /\ (k.client = None) <=> (k.project = None)
  /\ k.project # None => Parent[k.project] = k.client
  /\ k.task # None => k.project # None /\ Parent[k.task] = k.project

\* _get_classification, or the catalogue reads of a reload
Known(k) == {k.client, k.project, k.task} \ {None} \subseteq catalogue

\* Mutant of TaskKey: the task's foreign key leaves out the project.
TaskKeyLoose(k) == k.task = None \/ k.task \in catalogue

\* The foreign key (workspace_id, project_id, task_id), MATCH SIMPLE: any NULL passes.
TaskKey(k) ==
  k.task = None \/ k.project = None \/ (k.task \in catalogue /\ Parent[k.task] = k.project)

\* The foreign keys of (workspace_id, client_id) and (..., project_id)
ProjectKey(k) ==
  /\ k.client = None \/ k.client \in catalogue
  /\ k.client = None \/ k.project = None
       \/ (k.project \in catalogue /\ Parent[k.project] = k.client)

\* complete_classification and task_project
ClassificationCheck(k) ==
  /\ (k.client = None) = (k.project = None)
  /\ k.task = None \/ k.project # None

Storable(k) == ClassificationCheck(k) /\ ProjectKey(k) /\ TaskKey(k)

\* create, unclassified or with a complete classification
CreateEntry(e, k) ==
  /\ row[e] = None
  /\ Known(k) /\ Chained(k) /\ Storable(k)
  /\ row' = [row EXCEPT ![e] = k]
  /\ UNCHANGED <<catalogue, editing>>

\* classify, and clear_classification with nothing wanted: the second SELECT, the
\* one update_classification makes.  The session holds on to no row of the first.
ReadForClassification(u, e, k) ==
  /\ editing[u] = None
  /\ row[e] # None
  /\ Known(k) /\ Chained(k)
  /\ editing' = [editing EXCEPT ![u] = [entry |-> e, read |-> row[e], wanted |-> k]]
  /\ UNCHANGED <<catalogue, row>>

\* Mutant of Written: a missing task is not written.
WrittenIfTask(read, wanted) ==
  {c \in Columns : wanted[c] # read[c] /\ (c = "task" => wanted[c] # None)}

\* The columns the flush names in its UPDATE
Written(read, wanted) == {c \in Columns : wanted[c] # read[c]}

Blended(base, read, wanted) ==
  [c \in Columns |-> IF c \in Written(read, wanted) THEN wanted[c] ELSE base[c]]

\* Flush and commit.
Classify(u) ==
  /\ editing[u] # None
  /\ LET edit == editing[u]
         new == Blended(row[edit.entry], edit.read, edit.wanted)
     IN /\ Storable(new)
        /\ row' = [row EXCEPT ![edit.entry] = new]
  /\ editing' = [editing EXCEPT ![u] = None]
  /\ UNCHANGED catalogue

\* A constraint refuses the blend, or the connection is lost: rolled back.
ClassifyFails(u) ==
  /\ editing[u] # None
  /\ editing' = [editing EXCEPT ![u] = None]
  /\ UNCHANGED <<catalogue, row>>

EntriesNext ==
  \/ \E c \in Clients : CreateClient(c)
  \/ \E p \in Projects : CreateProject(p)
  \/ \E t \in Tasks : CreateTask(t)
  \/ \E w \in Wishes : CreateEntry(w[1], w[2])
  \/ \E u \in Editors :
       \/ \E w \in Wishes : ReadForClassification(u, w[1], w[2])
       \/ Classify(u)
       \/ ClassifyFails(u)

-----------------------------------------------------------------------------
(* Properties *)

EntriesTypeOK ==
  /\ catalogue \subseteq Clients \cup Projects \cup Tasks
  /\ row \in [Entries -> Classifications \cup {None}]
  /\ editing \in [Editors -> Edits \cup {None}]

\* Whatever blend overlapping classifications leave, an entry can be read back:
\* TimeEntryRepository.get finds every reference and TimeEntry accepts the chain.
ClassificationIsChained ==
  \A e \in Entries : row[e] # None => Known(row[e]) /\ Chained(row[e])

\* A classification that commits leaves what its caller asked for, whole.  Only
\* one that others overlapped may instead leave what they wrote, at most without
\* its task: work never moves to a client, project or task by half a request.
OverlapOnlyClearsTask ==
  [][\A u \in Editors : Classify(u) =>
       LET edit == editing[u]
           old == row[edit.entry]
       IN row'[edit.entry] \in {edit.wanted}
            \cup IF edit.read = old THEN {} ELSE {old, [old EXCEPT !.task = None]}]_entryVars
=============================================================================
