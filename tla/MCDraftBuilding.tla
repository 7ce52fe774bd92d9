---------------------------- MODULE MCDraftBuilding ----------------------------
(* A finite instance of DraftBuilding for TLC. *)
EXTENDS DraftBuilding

CONSTANTS k1, k2, p1, p2, p3, t1, t2, u1, u2, b1

TwoClients    == {k1, k2}
ThreeProjects == {p1, p2, p3}
TwoTasks      == {t1, t2}
ParentOf == (p1 :> k1) @@ (p2 :> k1) @@ (p3 :> k2) @@ (t1 :> p1) @@ (t2 :> p2)
FoundedFirst  == {k1, p1, p2, t1}
TwoEntries    == {1, 2}
TwoEditors    == {u1, u2}
OneBuilder    == {b1}

Symmetry == Permutations(Editors)

Unclassified == [client |-> None, project |-> None, task |-> None]
Of(project, task) == [client |-> ParentOf[project], project |-> project, task |-> task]

\* One entry that moves, also to another client, and one that stays
MCWishes ==
  ({1} \X {Unclassified, Of(p1, None), Of(p1, t1), Of(p2, t2), Of(p3, None)})
    \cup {<<2, Of(p1, None)>>}

\* A client's agreement and one of a project that ends
MCOffers ==
  {[id |-> 1, client |-> k1, project |-> None, from |-> 1, until |-> None, rate |-> 8],
   [id |-> 2, client |-> k1, project |-> p1, from |-> 1, until |-> 3, rate |-> 9]}

\* Two entries on one line, and two days of one entry on two lines
MCRequests ==
  {[client |-> k1, work |-> <<[entry |-> 1, date |-> 1, line |-> 1],
                              [entry |-> 2, date |-> 1, line |-> 1]>>],
   [client |-> k1, work |-> <<[entry |-> 1, date |-> 1, line |-> 1],
                              [entry |-> 1, date |-> 2, line |-> 2]>>]}
=============================================================================
