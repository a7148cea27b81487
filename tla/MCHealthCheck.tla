---------------------------- MODULE MCHealthCheck ----------------------------
(* Constants of the models of HealthCheck.                                  *)
EXTENDS HealthCheck, TLC

CONSTANTS h1, h2

OneCheck == {h1}
TwoChecks == {h1, h2}
OneGoroutines == {"check", "worker"} \X OneCheck \cup {Cycle}
TwoGoroutines == {"check", "worker"} \X TwoChecks \cup {Cycle}
OneClients == OneCheck \cup {AugurCanis}
TwoClients == TwoChecks \cup {AugurCanis}
OneOwner == [g \in OneGoroutines |-> IF g[1] = "check" THEN g[2] ELSE AugurCanis]
TwoOwner == [g \in TwoGoroutines |-> IF g[1] = "check" THEN g[2] ELSE AugurCanis]

Symmetric == Permutations(TwoChecks)
=============================================================================
