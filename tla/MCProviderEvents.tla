--------------------------- MODULE MCProviderEvents ---------------------------
(* Finite instances of ProviderEvents for TLC. *)
EXTENDS ProviderEvents, TLC

CONSTANTS d1, d2, m1, m2, m3, i1, i2, b1, b2, r1, r2, h1, h2

TwoDeliveries == {d1, d2}
ThreeMessages == {m1, m2, m3}
TwoRecorders  == {r1, r2}
TwoHooks      == {h1, h2}

\* d1 was accepted twice, under two ids: the provider had forgotten its key.
SomeAcceptances == {<<d1, m1>>, <<d1, m2>>, <<d2, m3>>}

\* Two events of one message, a replay of the first identity with another body
\* and with another message, and an unsupported event without a message.
SomeEvents ==
  {[id |-> i1, message |-> m1, body |-> b1],
   [id |-> i1, message |-> m1, body |-> b2],
   [id |-> i1, message |-> m2, body |-> b1],
   [id |-> i2, message |-> m1, body |-> b1],
   [id |-> i2, message |-> None, body |-> b1]}

Symmetry == Permutations(Recorders) \cup Permutations(Hooks)
=============================================================================
