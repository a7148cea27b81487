-------------------------- MODULE MCAlertLifecycle --------------------------
(* Constants of the models of AlertLifecycle.                              *)
EXTENDS AlertLifecycle, TLC

CONSTANTS web, lore, oldPod, newPod, c1, c2, k1, k2

OneService == {web}
TwoPods == {oldPod, newPod}
OnePod == {newPod}
OneCheck == {c1}
TwoChecks == {c1, c2}
OneAck == {k1}
TwoAcks == {k1, k2}
NoAck == {}

Symmetric == Permutations(TwoPods) \cup Permutations(TwoChecks)
                                   \cup Permutations(TwoAcks)
=============================================================================
