---------------------------- MODULE MCEscalation ----------------------------
(* Instances of Escalation.  A plot of five steps has runs that fail in     *)
(* one step, in two, or critically, one of a single step runs that fail     *)
(* altogether.                                                              *)
EXTENDS Escalation

CONSTANTS r1, before, seti, remote

OneRun == {r1}
OneApp == {seti}
TwoApps == {seti, remote}
LongPlots == {[mode |-> "internal", steps |-> 5], [mode |-> "external", steps |-> 1]}
=============================================================================
