------------------------------- MODULE EventLedger -------------------------------
(***************************************************************************)
(* What correlation promises, without transactions, locks or anything that *)
(* is read before it is used: an acceptance is recorded and an event is     *)
(* stored at one instant each, one after the other, and at every instant    *)
(* the matches are all of those, and only those, that the message ids make  *)
(* (docs/billing-rules.md:118-120).                                        *)
(***************************************************************************)

CONSTANTS Deliveries, Messages, Events, EventIds, None

VARIABLES
  sent,         \* delivery -> the message id it was accepted under, or None
  events,       \* event id -> the stored event, or None
  matches,      \* event id -> the delivery it is about, or None
  acknowledged  \* events answered with success

vars == <<sent, events, matches, acknowledged>>

Init ==
  /\ sent = [d \in Deliveries |-> None]
  /\ events = [i \in EventIds |-> None]
  /\ matches = [i \in EventIds |-> None]
  /\ acknowledged = {}

\* Event i is stored, and about the message that delivery d was accepted under.
About(i, d) == events[i] # None /\ sent[d] # None /\ events[i].message = sent[d]

\* An event is matched to the delivery it is about, and to nothing else.
Joined == \A i \in EventIds, d \in Deliveries : matches[i] = d <=> About(i, d)

\* A delivery is accepted once, under a message id of its own.
Accept(d, m) ==
  /\ sent[d] = None
  /\ \A e \in Deliveries : sent[e] # m
  /\ sent' = [sent EXCEPT ![d] = m]
  /\ UNCHANGED <<events, acknowledged>>

\* An event is stored once; the same again changes nothing, another one under
\* its identity is refused.
Store(v) ==
  /\ events[v.id] \in {None, v}
  /\ events' = [events EXCEPT ![v.id] = v]
  /\ acknowledged' = acknowledged \cup {v}
  /\ UNCHANGED sent

\* Every step leaves the matches joined.
Next ==
  /\ (\E d \in Deliveries, m \in Messages : Accept(d, m)) \/ (\E v \in Events : Store(v))
  /\ matches' \in [EventIds -> Deliveries \cup {None}]
  /\ Joined'

Spec == Init /\ [][Next]_vars
=============================================================================
