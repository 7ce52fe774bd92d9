---------------------------- MODULE MCDeliveryReads ----------------------------
(* Finite instances of DeliveryReads for TLC. *)
EXTENDS DeliveryReads, TLC

CONSTANTS d1, w1, w2, a1, a2, a3, a4, c1, c2, r1

OneDelivery == {d1}
OneWorker   == {w1}
TwoWorkers  == {w1, w2}
ThreeIds    == {a1, a2, a3}
FourIds     == {a1, a2, a3, a4}
OneContent  == {c1}
TwoContents == {c1, c2}
OneInstant  == {1}
OneReader   == {r1}

Symmetry ==
  Permutations(Workers) \cup Permutations(AttemptIds) \cup Permutations(Contents)
=============================================================================
