------------------------------ MODULE RunLedger ------------------------------
(***************************************************************************)
(* What contract test runs promise, with no channels, no subscriptions and  *)
(* no deadlines: verdicts are given, and never taken back; the tests of a   *)
(* run are entered one after the other, each once, a verdict only if it was  *)
(* given to this very test; and a run is filed at most once, as a report    *)
(* of all its entries that counts each of them, after which it is closed.   *)
(* What is filed is not altered, but it may all be forgotten.               *)
(***************************************************************************)
EXTENDS Naturals, Sequences, FiniteSets

CONSTANTS
  Runs,
  Verdicts,  \* what can be given to a test
  Reasons,   \* what can be entered for a test: verdicts, and reasons for having none
  Nil

VARIABLES
  given,    \* the verdicts given so far
  entries,  \* the reason entered for each test of a run, in order
  ended,    \* runs that are over
  filed     \* the report of each run, Nil if there is none

Outcome(reason) == IF reason \in {"passed", "skipped"} THEN reason ELSE "failed"

Count(kind, reasons) == Cardinality({i \in 1 .. Len(reasons) : Outcome(reasons[i]) = kind})

Report(reasons) ==
  [status |-> IF Count("failed", reasons) = 0 THEN "passed" ELSE "failed",
   total |-> Len(reasons), results |-> reasons, passed |-> Count("passed", reasons),
   failed |-> Count("failed", reasons), skipped |-> Count("skipped", reasons)]

Init ==
  /\ given = {} /\ ended = {}
  /\ entries = [r \in Runs |-> <<>>]
  /\ filed = [r \in Runs |-> Nil]

Give == given \subseteq given' /\ UNCHANGED <<entries, ended, filed>>

Enter(r, reason) ==
  /\ r \notin ended
  /\ reason \in Verdicts => [req |-> <<r, Len(entries[r]) + 1>>, reason |-> reason] \in given
  /\ entries' = [entries EXCEPT ![r] = Append(@, reason)]
  /\ UNCHANGED <<given, ended, filed>>

File(r) ==
  /\ r \notin ended
  /\ ended' = ended \cup {r}
  /\ filed' = [filed EXCEPT ![r] = Report(entries[r])]
  /\ UNCHANGED <<given, entries>>

\* Runs end without a report.
End(lost) == ended' = ended \cup lost /\ UNCHANGED <<given, entries, filed>>

Forget == filed' = [r \in Runs |-> Nil] /\ UNCHANGED <<given, entries, ended>>

Next ==
  \/ Give \/ Forget
  \/ \E r \in Runs : File(r) \/ \E reason \in Reasons : Enter(r, reason)
  \/ \E lost \in SUBSET Runs : End(lost)

Spec == Init /\ [][Next]_<<given, entries, ended, filed>>
=============================================================================
