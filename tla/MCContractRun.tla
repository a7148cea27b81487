---------------------------- MODULE MCContractRun ----------------------------
(* Constants of the models of ContractRun.                                  *)
EXTENDS ContractRun, TLC

CONSTANTS run1, suite1, ac1, web

OneRun == {run1}
OneSuite == {suite1}
\* A contract in which neither parser finds a test, and one in which each finds two.
Files == {{[path |-> "parameter", method |-> "GET", successes |-> 1]},
          {[path |-> "event", method |-> "POST", successes |-> 2],
           [path |-> "other", method |-> "GET", successes |-> 1]}}
OneInstance == {ac1}
OneJob == {web}
=============================================================================
