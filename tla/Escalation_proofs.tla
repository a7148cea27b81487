-------------------------- MODULE Escalation_proofs --------------------------
(***************************************************************************)
(* Proofs about plot runs and their escalation.  Progress strengthens what *)
(* is claimed of a run that has passed to what is true while it executes;   *)
(* Pending carries the counts of a failed run to the triage that divides   *)
(* them; Ledgers is what a triage owes as long as nothing is lost, and      *)
(* Remembered what Lore's answer is still worth when the triage decides.    *)
(***************************************************************************)
EXTENDS Escalation, TLAPS

\* What a run's counts say of the steps executed so far.
RunOK(x, e, n) ==
  /\ x.pc = "none" => e = 0 /\ n = 0
  /\ x.pc \in {"load", "token"} =>
       e = 0 /\ n = 0 /\ x.passed = 0 /\ x.failed = 0 /\ x.attempt = 1
  /\ x.pc \notin {"post", "done"} => x.status # "passed"
  /\ x.pc = "remote" => x.app # Self /\ x.mode = "internal"
  /\ x.pc \in {"local", "external"} =>
       /\ x.passed <= e /\ e <= x.passed + x.failed
       /\ x.passed + x.failed <= x.total
  /\ x.pc = "local" => n <= MaxAttempts * (x.passed + x.failed) + x.attempt - 1
  /\ x.pc = "external" => n <= x.passed + x.failed
  /\ x.status = "passed" /\ (x.app = Self \/ x.mode # "internal") => x.failed = 0 /\ e = x.total

Progress == \A r \in Runs : RunOK(run[r], earned[r], reached[r])

Pending ==
  \A r \in raising : /\ run[r].pc = "done"
                     /\ 0 < run[r].failed /\ run[r].failed <= run[r].total

IInv == TypeOK /\ Progress /\ Pending /\ RateIsDefined

\* Who has recorded an incident about a run.
Reporters(r) == {i.source : i \in {j \in incidents : j.run = r}}

\* Nobody has been told of the failure, and nobody is about to be.
Untold(e, paged, analysis, by) ==
  /\ ~e.critical /\ ~e.assessed /\ e.accepted = 0
  /\ paged = "no" /\ analysis = "idle" /\ by = {}

\* Neither the paths nor anybody else has been chosen yet.
Undecided == {"none", "triage", "decide"}

\* What a triage owes for what it has decided, as long as no call was lost.
Ledger(e, paged, analysis, by) ==
  /\ e.pc \in Undecided => ~e.silenced
  /\ e.pc \in Undecided \/ e.silenced => Untold(e, paged, analysis, by)
  /\ e.silenced => e.pc = "done"
  /\ e.critical => /\ e.pc # "notify"
                   /\ \/ paged = "due" /\ e.accepted = 0
                      \/ paged = "over" /\ e.accepted = 1
  /\ ~e.critical => paged = "no"
  /\ e.assessed => /\ e.pc \in {"notify", "incident", "done"}
                   /\ e.pc = "done" => "interactions" \in by

\* Every triage keeps its ledger, and only a run that is over has one, once.
Ledgers ==
  faults = 0 =>
    \A r \in Runs : /\ Ledger(esc[r], page[r], ai[r].pc, Reporters(r))
                    /\ r \in raising => esc[r].pc = "none"
                    /\ esc[r].pc # "none" => run[r].pc = "done"

-----------------------------------------------------------------------------
LEMMA InitOK == Init => IInv
<1> SUFFICES ASSUME Init PROVE IInv
  OBVIOUS
<1> USE PlotRunAssumption, EscalationAssumption
<1>1. PlotRunTypeOK
  <2>1. NoRun \in RunState
    BY DEF NoRun, RunState, Status, Modes, MaxAttempts
  <2> QED
    BY <2>1 DEF Init, PlotRunInit, PlotRunTypeOK, Status
<1>2. LoreTypeOK
  <2>1. incidents \subseteq Incident
    BY DEF Init, LoreInit, Incident, Sources
  <2>2. baselines \in [Apps -> Baseline]
    BY DEF Init, LoreInit, Baseline
  <2> QED
    BY <2>1, <2>2 DEF Init, LoreInit, LoreTypeOK
<1>3. EscalationTypeOK
  <2>1. NoEsc \in EscState
    BY DEF NoEsc, EscState
  <2>2. [pc |-> "idle", verdict |-> "null"] \in AiState
    BY DEF AiState, Verdicts
  <2> QED
    BY <2>1, <2>2 DEF Init, EscalationTypeOK
<1>4. Progress
  BY DEF Init, PlotRunInit, Progress, RunOK, NoRun, MaxAttempts
<1>5. Pending /\ RateIsDefined
  BY DEF Init, PlotRunInit, Pending, RateIsDefined, NoEsc
<1> QED
  BY <1>1, <1>2, <1>3, <1>4, <1>5 DEF IInv, TypeOK

-----------------------------------------------------------------------------
(* Frames: what a step that leaves a component alone preserves              *)

\* The variables of plot-test are left alone, except perhaps its duties.
LEMMA RunsKept ==
  ASSUME Progress, Pending, UNCHANGED <<run, history>>, raising' \subseteq raising
  PROVE  Progress' /\ Pending'
BY DEF Progress, Pending, RunOK, history

LEMMA LoreKept ==
  ASSUME LoreTypeOK, UNCHANGED tables
  PROVE  LoreTypeOK'
BY DEF LoreTypeOK, tables

LEMMA EscKept ==
  ASSUME EscalationTypeOK, RateIsDefined, UNCHANGED <<esc, page, ai>>
  PROVE  EscalationTypeOK' /\ RateIsDefined'
BY DEF EscalationTypeOK, RateIsDefined

\* The record of a step that is over.
LEMMA CountedOK ==
  ASSUME NEW x \in RunState, NEW n \in Nat
  PROVE  /\ [x EXCEPT !.attempt = 1, !.passed = n] \in RunState
         /\ [x EXCEPT !.attempt = 1, !.failed = n] \in RunState
<1>1. [x EXCEPT !.attempt = 1] \in RunState
  BY DEF RunState, MaxAttempts
<1> DEFINE y == [x EXCEPT !.attempt = 1]
<1>2. y \in RunState
  BY <1>1
<1> HIDE DEF y
<1>3. [y EXCEPT !.passed = n] \in RunState /\ [y EXCEPT !.failed = n] \in RunState
  BY <1>2 DEF RunState
<1> QED
  BY <1>3 DEF y

\* One run moves to x, with its history, and is not escalated.
LEMMA RunMoves ==
  ASSUME PlotRunTypeOK, Progress, Pending, NEW r \in Runs, NEW x \in RunState,
         run' = [run EXCEPT ![r] = x],
         earned' \in [Runs -> Nat], reached' \in [Runs -> Nat],
         \A q \in Runs \ {r} : earned'[q] = earned[q] /\ reached'[q] = reached[q],
         RunOK(x, earned'[r], reached'[r]),
         raising' \subseteq raising \cup {r},
         r \in raising' => x.pc = "done" /\ 0 < x.failed /\ x.failed <= x.total,
         results' = results, posting' \subseteq Runs, faults' \in Nat
  PROVE  PlotRunTypeOK' /\ Progress' /\ Pending'
<1>1. run' \in [Runs -> RunState] /\ run'[r] = x /\ \A q \in Runs \ {r} : run'[q] = run[q]
  BY DEF PlotRunTypeOK
<1>2. PlotRunTypeOK'
  BY <1>1 DEF PlotRunTypeOK
<1>3. Progress'
  BY <1>1 DEF Progress
<1>4. Pending'
  BY <1>1 DEF Pending, PlotRunTypeOK
<1> QED
  BY <1>2, <1>3, <1>4

-----------------------------------------------------------------------------
(* plot-test                                                                *)

LEMMA PlotTestStep ==
  ASSUME PlotRunTypeOK, Progress, Pending, NEW r \in Runs, PlotTestNext(r)
  PROVE  PlotRunTypeOK' /\ Progress' /\ Pending'
<1> DEFINE old == run[r]
<1> USE PlotRunAssumption DEF MaxAttempts
<1>0. /\ old \in RunState /\ RunOK(old, earned[r], reached[r])
      /\ earned \in [Runs -> Nat] /\ reached \in [Runs -> Nat]
      /\ posting \subseteq Runs /\ raising \subseteq Runs /\ faults \in Nat
      /\ results \in [Runs -> Status]
  BY DEF PlotRunTypeOK, Progress
<1>n. /\ old.passed \in Nat /\ old.failed \in Nat /\ old.total \in Nat
      /\ old.attempt \in 1 .. 3 /\ earned[r] \in Nat /\ reached[r] \in Nat
  BY <1>0 DEF RunState
<1>f. Fault => faults' \in Nat
  BY <1>0 DEF Fault
<1>p. r \in raising => old.pc = "done"
  BY DEF Pending
<1>1. ASSUME NEW a \in Apps, Run(r, a) PROVE PlotRunTypeOK' /\ Progress' /\ Pending'
  <2> DEFINE x == [NoRun EXCEPT !.pc = "load", !.app = a, !.status = "running"]
  <2>0. NoRun \in RunState
    BY DEF NoRun, RunState, Status, Modes
  <2>1. x \in RunState
    BY ONLY <2>0, a \in Apps DEF RunState, Status
  <2>2. RunOK(x, earned[r], reached[r])
    BY <1>0, <1>1 DEF Run, RunOK, NoRun
  <2>3. run' = [run EXCEPT ![r] = x] /\ UNCHANGED <<history, reports, faults>> /\ old.pc = "none"
    BY <1>1 DEF Run
  <2> HIDE DEF x
  <2> QED
    BY <1>0, <1>p, <2>1, <2>2, <2>3, RunMoves DEF history, reports
<1>2. ASSUME Load(r) PROVE PlotRunTypeOK' /\ Progress' /\ Pending'
  <2>1. PICK p \in Plots :
          run' = [run EXCEPT ![r] = [old EXCEPT !.pc = Route(run[r].app, p.mode), !.mode = p.mode,
                                                !.total = p.steps]]
    BY <1>2 DEF Load
  <2> DEFINE x == [old EXCEPT !.pc = Route(run[r].app, p.mode), !.mode = p.mode, !.total = p.steps]
  <2>2. p.mode \in Modes /\ p.steps \in Nat
    BY DEF Plot
  <2>3. x \in RunState
    BY <1>0, <2>2 DEF RunState, Route
  <2>4. RunOK(x, earned[r], reached[r])
    BY <1>0, <1>2, <2>2 DEF Load, RunOK, RunState, Route, Modes
  <2>5. UNCHANGED <<history, reports, faults>> /\ old.pc = "load"
    BY <1>2 DEF Load
  <2>6. run' = [run EXCEPT ![r] = x]
    BY <2>1
  <2> HIDE DEF x
  <2> QED
    BY <1>0, <1>p, <2>3, <2>4, <2>5, <2>6, RunMoves DEF history, reports
<1>3. ASSUME LoadFails(r) \/ RemoteFails(r)
      PROVE PlotRunTypeOK' /\ Progress' /\ Pending'
  <2>1. PICK pc \in {"done", "post"} :
          run' = [run EXCEPT ![r] = [old EXCEPT !.pc = pc, !.status = "error"]]
    BY <1>3 DEF LoadFails, RemoteFails
  <2> DEFINE x == [old EXCEPT !.pc = pc, !.status = "error"]
  <2>3. x \in RunState
    BY <1>0 DEF RunState, Status
  <2>4. RunOK(x, earned[r], reached[r])
    BY <1>0, <1>3 DEF LoadFails, RemoteFails, RunOK, RunState
  <2>5. UNCHANGED <<history, reports>> /\ faults' \in Nat /\ old.pc # "done"
    BY <1>3, <1>f DEF LoadFails, RemoteFails
  <2>6. run' = [run EXCEPT ![r] = x]
    BY <2>1
  <2> HIDE DEF x
  <2> QED
    BY <1>0, <1>p, <2>3, <2>4, <2>5, <2>6, RunMoves DEF history, reports
<1>4. ASSUME RemoteAnswers(r) PROVE PlotRunTypeOK' /\ Progress' /\ Pending'
  <2>1. PICK p \in 0 .. old.total, f \in 0 .. old.total, s \in {"passed", "failed", "error"} :
          run' = [run EXCEPT ![r] = [old EXCEPT !.pc = "post", !.status = s, !.passed = p,
                                                !.failed = f]]
    BY <1>4 DEF RemoteAnswers
  <2> DEFINE x == [old EXCEPT !.pc = "post", !.status = s, !.passed = p, !.failed = f]
  <2>2. p \in Nat /\ f \in Nat
    BY <1>0 DEF RunState
  <2>3. x \in RunState
    BY ONLY <1>0, <2>2, s \in {"passed", "failed", "error"} DEF RunState, Status
  <2>4. RunOK(x, earned[r], reached[r])
    BY <1>0, <1>4 DEF RemoteAnswers, RunOK, RunState
  <2>5. UNCHANGED <<history, reports, faults>> /\ old.pc = "remote"
    BY <1>4 DEF RemoteAnswers
  <2>6. run' = [run EXCEPT ![r] = x]
    BY <2>1
  <2> HIDE DEF x
  <2> QED
    BY <1>0, <1>p, <2>3, <2>4, <2>5, <2>6, RunMoves DEF history, reports
<1>5. ASSUME Token(r) PROVE PlotRunTypeOK' /\ Progress' /\ Pending'
  <2> DEFINE x == [old EXCEPT !.pc = "external"]
  <2>3. x \in RunState
    BY <1>0 DEF RunState
  <2>4. RunOK(x, earned[r], reached[r])
    BY <1>0, <1>5 DEF Token, RunOK, RunState
  <2>5. UNCHANGED <<history, reports, faults>> /\ old.pc = "token"
        /\ run' = [run EXCEPT ![r] = x]
    BY <1>5 DEF Token
  <2> HIDE DEF x
  <2> QED
    BY <1>0, <1>p, <2>3, <2>4, <2>5, RunMoves DEF history, reports
<1>6. ASSUME NEW o \in Outcomes, Retry(r, o) PROVE PlotRunTypeOK' /\ Progress' /\ Pending'
  <2> DEFINE x == [old EXCEPT !.attempt = @ + 1]
  <2>1. old.attempt + 1 \in 1 .. 3 /\ old.pc = "local"
    BY <1>0, <1>6 DEF Retry, LastAttempt, RunState
  <2>2. /\ reached' \in [Runs -> Nat] /\ reached'[r] \in {reached[r], reached[r] + 1}
        /\ \A q \in Runs \ {r} : reached'[q] = reached[q]
    BY <1>0, <1>6 DEF Retry, Send
  <2>3. x \in RunState
    BY <1>0, <2>1 DEF RunState
  <2>4. RunOK(x, earned[r], reached'[r])
    BY <1>0, <2>1, <2>2 DEF RunOK, RunState
  <2>5. UNCHANGED <<earned, reports, faults>> /\ run' = [run EXCEPT ![r] = x]
    BY <1>6 DEF Retry
  <2> HIDE DEF x
  <2> QED
    BY <1>0, <1>p, <2>1, <2>2, <2>3, <2>4, <2>5, RunMoves DEF reports
<1>7. ASSUME NEW o \in Outcomes, StepEnds(r, o) PROVE PlotRunTypeOK' /\ Progress' /\ Pending'
  <2>1. /\ old.pc \in {"local", "external"} /\ old.passed + old.failed + 1 <= old.total
    BY <1>7 DEF StepEnds, Executing, Step
  <2>2. /\ reached' \in [Runs -> Nat] /\ reached'[r] \in {reached[r], reached[r] + 1}
        /\ \A q \in Runs \ {r} : reached'[q] = reached[q]
    BY <1>0, <1>7 DEF StepEnds, Send
  <2>3. /\ earned' \in [Runs -> Nat]
        /\ earned'[r] = IF StatusMatches(o) THEN earned[r] + 1 ELSE earned[r]
        /\ \A q \in Runs \ {r} : earned'[q] = earned[q]
    BY <1>0, <1>7 DEF StepEnds
  <2>4. UNCHANGED <<reports, faults>>
    BY <1>7 DEF StepEnds
  <2>5. CASE StepPasses(r, o)
    <3> DEFINE n == old.passed + 1
    <3> DEFINE x == [old EXCEPT !.attempt = 1, !.passed = n]
    <3>0. n \in Nat
      BY <1>0 DEF RunState
    <3>1. x \in RunState
      BY ONLY <1>0, <3>0, CountedOK
    <3>2. earned'[r] = earned[r] + 1
      BY <2>3, <2>5 DEF StepPasses
    <3>3. /\ x.pc = old.pc /\ x.app = old.app /\ x.mode = old.mode /\ x.status = old.status
          /\ x.total = old.total /\ x.passed = n /\ x.failed = old.failed /\ x.attempt = 1
      BY <1>0 DEF RunState
    <3>4. run' = [run EXCEPT ![r] = x]
      BY <1>7, <2>5 DEF StepEnds, StepResult
    <3>5. RunOK(x, earned'[r], reached'[r])
      <4>1. x.pc \in {"local", "external"} /\ x.status # "passed"
        BY <1>0, <2>1, <3>3 DEF RunOK
      <4>2. /\ x.passed <= earned'[r] /\ earned'[r] <= x.passed + x.failed
            /\ x.passed + x.failed <= x.total
        BY <1>n, <1>0, <2>1, <3>2, <3>3 DEF RunOK
      <4>3. x.pc = "local" => reached'[r] <= 3 * (x.passed + x.failed) + x.attempt - 1
        <5>1. old.pc = "local" => reached[r] <= 3 * (old.passed + old.failed) + old.attempt - 1
          BY <1>0 DEF RunOK
        <5>2. x.passed + x.failed = old.passed + old.failed + 1
          BY <1>n, <3>3
        <5> QED
          BY ONLY <5>1, <5>2, <1>n, <2>2, <3>3
      <4>4. x.pc = "external" => reached'[r] <= x.passed + x.failed
        BY <1>n, <1>0, <2>1, <2>2, <3>3 DEF RunOK
      <4> HIDE DEF x
      <4> QED
        BY <4>1, <4>2, <4>3, <4>4 DEF RunOK
    <3> HIDE DEF x
    <3> QED
      BY <1>0, <1>p, <2>1, <2>2, <2>3, <2>4, <3>1, <3>5, <3>4, RunMoves DEF reports
  <2>6. CASE ~StepPasses(r, o)
    <3> DEFINE n == old.failed + 1
    <3> DEFINE x == [old EXCEPT !.attempt = 1, !.failed = n]
    <3>0. n \in Nat
      BY <1>0 DEF RunState
    <3>1. x \in RunState
      BY ONLY <1>0, <3>0, CountedOK
    <3>2. earned'[r] \in {earned[r], earned[r] + 1}
      BY <2>3
    <3>3. /\ x.pc = old.pc /\ x.app = old.app /\ x.mode = old.mode /\ x.status = old.status
          /\ x.total = old.total /\ x.failed = n /\ x.passed = old.passed /\ x.attempt = 1
      BY <1>0 DEF RunState
    <3>4. run' = [run EXCEPT ![r] = x]
      BY <1>7, <2>6 DEF StepEnds, StepResult
    <3>5. RunOK(x, earned'[r], reached'[r])
      <4>1. x.pc \in {"local", "external"} /\ x.status # "passed"
        BY <1>0, <2>1, <3>3 DEF RunOK
      <4>2. /\ x.passed <= earned'[r] /\ earned'[r] <= x.passed + x.failed
            /\ x.passed + x.failed <= x.total
        BY <1>n, <1>0, <2>1, <3>2, <3>3 DEF RunOK
      <4>3. x.pc = "local" => reached'[r] <= 3 * (x.passed + x.failed) + x.attempt - 1
        <5>1. old.pc = "local" => reached[r] <= 3 * (old.passed + old.failed) + old.attempt - 1
          BY <1>0 DEF RunOK
        <5>2. x.passed + x.failed = old.passed + old.failed + 1
          BY <1>n, <3>3
        <5> QED
          BY ONLY <5>1, <5>2, <1>n, <2>2, <3>3
      <4>4. x.pc = "external" => reached'[r] <= x.passed + x.failed
        BY <1>n, <1>0, <2>1, <2>2, <3>3 DEF RunOK
      <4> HIDE DEF x
      <4> QED
        BY <4>1, <4>2, <4>3, <4>4 DEF RunOK
    <3> HIDE DEF x
    <3> QED
      BY <1>0, <1>p, <2>1, <2>2, <2>3, <2>4, <3>1, <3>5, <3>4, RunMoves DEF reports
  <2> QED
    BY <2>5, <2>6
<1>8. ASSUME Complete(r) PROVE PlotRunTypeOK' /\ Progress' /\ Pending'
  <2>1. /\ old.pc \in {"local", "external"} /\ ~Executing(r)
        /\ results' = results /\ faults' = faults
        /\ reached' = [reached EXCEPT ![r] = 0]
        /\ earned' = IF old.failed > 0 THEN [earned EXCEPT ![r] = 0] ELSE earned
    BY <1>8 DEF Complete, Over
  <2>2. PICK pc \in {"done", "post"} :
          /\ run' = [run EXCEPT ![r] = [old EXCEPT !.pc = pc, !.status = Verdict(r)]]
          /\ posting' \subseteq Runs
          /\ raising' \subseteq raising \cup {r}
          /\ r \in raising' => pc = "done" /\ old.pc = "local" /\ old.failed > 0
    BY <1>0, <1>8, <1>p DEF Complete, Over
  <2> DEFINE x == [old EXCEPT !.pc = pc, !.status = Verdict(r)]
  <2>3. x \in RunState
    BY <1>0 DEF RunState, Status, Verdict
  <2>4. RunOK(x, earned'[r], reached'[r])
    BY <1>0, <2>1 DEF RunOK, RunState, Verdict, Executing, Step
  <2>5. r \in raising' => x.pc = "done" /\ 0 < x.failed /\ x.failed <= x.total
    BY <1>0, <2>2 DEF RunOK, RunState
  <2>6. run' = [run EXCEPT ![r] = x]
    BY <2>2
  <2>7. /\ reached' \in [Runs -> Nat] /\ \A q \in Runs \ {r} : reached'[q] = reached[q]
        /\ earned' \in [Runs -> Nat] /\ \A q \in Runs \ {r} : earned'[q] = earned[q]
    BY <1>0, <2>1
  <2> HIDE DEF x
  <2> QED
    BY <1>0, <2>1, <2>2, <2>3, <2>4, <2>5, <2>6, <2>7, RunMoves
<1>9. ASSUME PostRemote(r) PROVE PlotRunTypeOK' /\ Progress' /\ Pending'
  <2> DEFINE x == [old EXCEPT !.pc = "done"]
  <2>1. x \in RunState
    BY <1>0 DEF RunState
  <2>2. RunOK(x, earned[r], reached[r])
    BY <1>0, <1>9 DEF PostRemote, RunOK, RunState
  <2>3. /\ run' = [run EXCEPT ![r] = x] /\ UNCHANGED <<history, posting, raising>>
        /\ old.pc = "post" /\ faults' \in Nat /\ results' \in [Runs -> Status]
    BY <1>0, <1>9, <1>f DEF PostRemote, RunState
  <2>4. run' \in [Runs -> RunState] /\ run'[r] = x /\ \A q \in Runs \ {r} : run'[q] = run[q]
    BY <2>1, <2>3 DEF PlotRunTypeOK
  <2> HIDE DEF x
  <2>5. PlotRunTypeOK'
    BY <1>0, <2>3, <2>4 DEF PlotRunTypeOK, history
  <2>6. Progress'
    BY <2>2, <2>3, <2>4 DEF Progress, history
  <2>7. Pending'
    BY <1>p, <2>3, <2>4, <1>0 DEF Pending
  <2> QED
    BY <2>5, <2>6, <2>7
<1>10. ASSUME PostLocal(r) PROVE PlotRunTypeOK' /\ Progress' /\ Pending'
  <2>1. UNCHANGED <<run, history, raising>> /\ posting' \subseteq Runs
        /\ faults' \in Nat /\ results' \in [Runs -> Status]
    BY <1>0, <1>10, <1>f DEF PostLocal, RunState
  <2>2. PlotRunTypeOK'
    BY <2>1 DEF PlotRunTypeOK, history
  <2> QED
    BY <2>1, <2>2, RunsKept
<1> QED
  BY <1>1, <1>2, <1>3, <1>4, <1>5, <1>6, <1>7, <1>8, <1>9, <1>10 DEF PlotTestNext

LEMMA CrashPlotTestStep ==
  ASSUME PlotRunTypeOK, Progress, CrashPlotTest
  PROVE  PlotRunTypeOK' /\ Progress' /\ Pending'
<1> DEFINE dead == [NoRun EXCEPT !.pc = "done"]
<1> USE PlotRunAssumption DEF MaxAttempts
<1>1. dead \in RunState /\ dead.pc = "done" /\ dead.status = "none"
  BY DEF NoRun, RunState, Status, Modes
<1>2. /\ run' = [r \in Runs |-> IF run[r].pc = "none" THEN run[r] ELSE dead]
      /\ reached' = [r \in Runs |-> 0] /\ posting' = {} /\ raising' = {}
      /\ earned' = earned /\ results' = results /\ faults' \in Nat
  BY DEF CrashPlotTest, Fault, history, PlotRunTypeOK
<1> HIDE DEF dead
<1>3. PlotRunTypeOK'
  BY <1>1, <1>2 DEF PlotRunTypeOK
<1>4. Progress'
  <2> SUFFICES ASSUME NEW r \in Runs PROVE RunOK(run'[r], earned'[r], reached'[r])
    BY DEF Progress
  <2>1. CASE run[r].pc = "none"
    BY <1>2, <2>1 DEF Progress, RunOK
  <2>2. CASE run[r].pc # "none"
    BY <1>1, <1>2, <2>2 DEF RunOK
  <2> QED
    BY <2>1, <2>2
<1> QED
  BY <1>2, <1>3, <1>4 DEF Pending

-----------------------------------------------------------------------------
(* Triage and Lore                                                          *)

\* The triage of one run moves, and keeps the counts that it was given, or those of Pending.
LEMMA TriageMoves ==
  ASSUME EscalationTypeOK, RateIsDefined, NEW r \in Runs, NEW x \in EscState,
         esc' = [esc EXCEPT ![r] = x],
         x.pc # "none" => 0 < x.failed /\ x.failed <= x.total,
         page' \in [Runs -> {"no", "due", "over"}], ai' \in [Runs -> AiState]
  PROVE  EscalationTypeOK' /\ RateIsDefined'
BY DEF EscalationTypeOK, RateIsDefined

\* A step of the triage or of AI-lien leaves the counts alone.
LEMMA CountsKept ==
  ASSUME EscalationTypeOK, RateIsDefined, NEW r \in Runs, NEW x \in EscState,
         esc' = [esc EXCEPT ![r] = x], x.pc # "none" => esc[r].pc # "none",
         x.failed = esc[r].failed, x.total = esc[r].total,
         page' \in [Runs -> {"no", "due", "over"}], ai' \in [Runs -> AiState]
  PROVE  EscalationTypeOK' /\ RateIsDefined'
BY DEF EscalationTypeOK, RateIsDefined

LEMMA WritesOK ==
  ASSUME LoreTypeOK, NEW r \in Runs, NEW a \in Apps, NEW src \in Sources
  PROVE  /\ RecordTrendPoint(r, a, src) => trendPoints' \subseteq TrendPoint
         /\ RecordIncident(r, a, src) => incidents' \subseteq Incident
<1>1. [run |-> r, app |-> a, source |-> src] \in TrendPoint
  BY DEF TrendPoint
<1>2. [run |-> r, app |-> a, source |-> src, status |-> "open", recent |-> TRUE] \in Incident
  BY DEF Incident
<1>3. RecordTrendPoint(r, a, src) => trendPoints' \subseteq TrendPoint
  BY <1>1 DEF LoreTypeOK, RecordTrendPoint
<1>4. RecordIncident(r, a, src) => incidents' \subseteq Incident
  BY <1>2 DEF LoreTypeOK, RecordIncident
<1> QED
  BY <1>3, <1>4

LEMMA LoreUserStep ==
  ASSUME LoreTypeOK, LoreUser
  PROVE  LoreTypeOK'
<1>1. CASE Resolve
  <2>1. PICK i \in incidents :
          incidents' = (incidents \ {i}) \cup {[i EXCEPT !.status = "resolved"]}
    BY <1>1 DEF Resolve
  <2>2. [i EXCEPT !.status = "resolved"] \in Incident
    BY DEF LoreTypeOK, Incident
  <2> QED
    BY <1>1, <2>1, <2>2 DEF Resolve, LoreTypeOK
<1>2. CASE WeekPasses
  <2>1. \A i \in incidents : [i EXCEPT !.recent = FALSE] \in Incident
    BY DEF LoreTypeOK, Incident
  <2> QED
    BY <1>2, <2>1 DEF WeekPasses, LoreTypeOK
<1>3. ASSUME NEW a \in Apps, PutBaseline(a) PROVE LoreTypeOK'
  <2>1. edits' \in Nat /\ UNCHANGED <<incidents, trendPoints, patterns>>
    BY <1>3 DEF PutBaseline, Edit, LoreTypeOK
  <2>2. PICK n \in Nat : baselines' = [baselines EXCEPT ![a] = [established |-> n, updated |-> edits']]
    BY <1>3, <2>1 DEF PutBaseline, LoreTypeOK, Baseline
  <2>3. baselines' \in [Apps -> Baseline]
    BY <2>1, <2>2 DEF LoreTypeOK, Baseline
  <2> QED
    BY <2>1, <2>3 DEF LoreTypeOK
<1>4. ASSUME NEW a \in Apps, AddPattern(a) PROVE LoreTypeOK'
  BY <1>4 DEF AddPattern, Edit, LoreTypeOK
<1>5. ASSUME NEW a \in Apps, ReportIncident(a) PROVE LoreTypeOK'
  <2>1. [run |-> Earlier, app |-> a, source |-> "results", status |-> "open", recent |-> TRUE]
          \in Incident
    BY DEF Incident, Sources
  <2>2. incidents' \subseteq Incident
    BY <1>5, <2>1 DEF ReportIncident, RecordIncident, LoreTypeOK
  <2>3. edits' \in Nat /\ UNCHANGED <<trendPoints, baselines, patterns>>
    BY <1>5 DEF ReportIncident, Edit, LoreTypeOK
  <2> QED
    BY <2>2, <2>3 DEF LoreTypeOK
<1> QED
  BY <1>1, <1>2, <1>3, <1>4, <1>5, EscalationAssumption DEF LoreUser

\* What a step of Interactions or AI-lien keeps, if it does not escalate a run.
Kept == PlotRunTypeOK' /\ Progress' /\ Pending' /\ LoreTypeOK' /\ EscalationTypeOK'
        /\ RateIsDefined'

LEMMA PlotRunKept ==
  ASSUME PlotRunTypeOK, Progress, Pending, UNCHANGED plotRun, faults' \in Nat
  PROVE  PlotRunTypeOK' /\ Progress' /\ Pending'
BY RunsKept DEF PlotRunTypeOK, plotRun, history

\* The path that a decision takes.
Choice(e, silent) == IF silent THEN [e EXCEPT !.pc = "done", !.silenced = TRUE, !.since = {}]
                               ELSE [e EXCEPT !.pc = "call", !.since = {}]

\* The answer of Lore that it waits for.
Asked(e, b) == [e EXCEPT !.pc = "decide", !.clean = b]

\* What an answer of Lore and a decision make of a triage's record.
LEMMA ChoiceFields ==
  ASSUME NEW e \in EscState, NEW b \in BOOLEAN
  PROVE  /\ \A x \in {Choice(e, b), Asked(e, b)} :
              /\ x \in EscState /\ x.app = e.app /\ x.failed = e.failed /\ x.total = e.total
              /\ x.critical = e.critical /\ x.accepted = e.accepted /\ x.assessed = e.assessed
              /\ x.pc \in {"done", "call", "decide"}
              /\ x.pc = "done" => x.silenced
              /\ x.pc # "done" => x.silenced = e.silenced
         /\ Choice(e, b).silenced = (b \/ e.silenced) /\ Choice(e, b).since = {}
         /\ Choice(e, b).pc # "decide"
         /\ Asked(e, b).clean = b /\ Asked(e, b).since = e.since
         /\ Asked(e, b).silenced = e.silenced /\ Asked(e, b).pc = "decide"
<1> DEFINE P(x, pc) == [x EXCEPT !.pc = pc]
           D(x) == [x EXCEPT !.silenced = TRUE]
           S(x) == [x EXCEPT !.since = {}]
           C(x) == [x EXCEPT !.clean = b]
           Paid(y, x) == /\ y \in EscState /\ y.app = x.app /\ y.failed = x.failed
                         /\ y.total = x.total /\ y.critical = x.critical
                         /\ y.accepted = x.accepted /\ y.assessed = x.assessed
<1>1. \A x \in EscState, pc \in {"done", "call", "decide"} :
        /\ Paid(P(x, pc), x) /\ P(x, pc).pc = pc /\ P(x, pc).silenced = x.silenced
        /\ P(x, pc).since = x.since
  BY DEF EscState
<1>2. \A x \in EscState :
        Paid(S(x), x) /\ S(x).pc = x.pc /\ S(x).silenced = x.silenced /\ S(x).since = {}
  BY DEF EscState
<1>3. \A x \in EscState : Paid(D(x), x) /\ D(x).pc = x.pc /\ D(x).silenced
  BY DEF EscState
<1>4. \A x \in EscState :
        /\ Paid(C(x), x) /\ C(x).pc = x.pc /\ C(x).silenced = x.silenced
        /\ C(x).since = x.since /\ C(x).clean = b
  BY DEF EscState
<1>5. Choice(e, b) = IF b THEN S(D(P(e, "done"))) ELSE S(P(e, "call"))
  BY DEF Choice
<1> DEFINE q == Asked(e, b)
<1>7. q = C(P(e, "decide"))
  BY DEF Asked
<1> SUFFICES /\ \A x \in {Choice(e, b), q} :
                  /\ x \in EscState /\ x.app = e.app /\ x.failed = e.failed /\ x.total = e.total
                  /\ x.critical = e.critical /\ x.accepted = e.accepted /\ x.assessed = e.assessed
                  /\ x.pc \in {"done", "call", "decide"}
                  /\ x.pc = "done" => x.silenced
                  /\ x.pc # "done" => x.silenced = e.silenced
             /\ Choice(e, b).silenced = (b \/ e.silenced) /\ Choice(e, b).since = {}
             /\ Choice(e, b).pc # "decide"
             /\ q.clean = b /\ q.since = e.since /\ q.silenced = e.silenced /\ q.pc = "decide"
  OBVIOUS
<1> HIDE DEF q, P, D, S, C
<1>8. \A pc \in {"done", "call", "decide"} : P(e, pc) \in EscState
  BY <1>1
<1>9. D(P(e, "done")) \in EscState
  BY <1>3, <1>8
<1>10. Paid(q, e) /\ q.clean = b /\ q.since = e.since /\ q.silenced = e.silenced /\ q.pc = "decide"
  BY <1>1, <1>4, <1>7, <1>8
<1>11. CASE b
  <2> DEFINE x == P(e, "done")
             y == D(x)
             z == S(y)
  <2>1. Paid(x, e) /\ x.pc = "done"
    BY <1>1
  <2> HIDE DEF x
  <2>2. Paid(y, x) /\ y.pc = x.pc /\ y.silenced
    BY <1>3, <2>1
  <2> HIDE DEF y
  <2>3. Paid(z, y) /\ z.pc = y.pc /\ z.silenced = y.silenced /\ z.since = {}
    BY <1>2, <2>2
  <2>4. Choice(e, b) = z
    BY <1>5, <1>11 DEF x, y
  <2> HIDE DEF z
  <2>5. z.silenced = (b \/ e.silenced)
    BY <1>11, <2>2, <2>3, z.silenced \in BOOLEAN, ZenonT(30) DEF EscState
  <2>6. Paid(z, e) /\ z.pc = "done" /\ z.silenced
    BY <2>1, <2>2, <2>3
  <2> HIDE DEF Paid
  <2>7. Paid(z, e) /\ Paid(q, e)
    BY <1>10, <2>6
  <2> QED
    BY <1>10, <2>3, <2>4, <2>5, <2>6, <2>7 DEF Paid
<1>12. CASE ~b
  <2> DEFINE x == P(e, "call")
             z == S(x)
  <2>1. Paid(x, e) /\ x.pc = "call" /\ x.silenced = e.silenced
    BY <1>1
  <2> HIDE DEF x
  <2>3. Paid(z, x) /\ z.pc = x.pc /\ z.silenced = x.silenced /\ z.since = {}
    BY <1>2, <2>1
  <2>4. Choice(e, b) = z
    BY <1>5, <1>12 DEF x
  <2>5. z.silenced = (b \/ e.silenced)
    BY <1>12, <2>1, <2>3, e.silenced \in BOOLEAN, ZenonT(30) DEF EscState
  <2> HIDE DEF z
  <2> QED
    BY <1>10, <1>12, <2>1, <2>3, <2>4, <2>5
<1> QED
  BY <1>11, <1>12

\* How triage comes to Path 2 or Path 3.
LEMMA Choices ==
  ASSUME EscalationTypeOK, faults \in Nat, NEW r \in Runs
  PROVE  /\ Several(r) => /\ esc[r].pc = "triage" /\ esc' = [esc EXCEPT ![r] = Choice(esc[r], FALSE)]
                          /\ UNCHANGED <<plotRun, faults, tables, page, ai>>
         /\ AskLore(r) => /\ esc[r].pc = "triage" /\ UNCHANGED <<plotRun, tables, page, ai>>
                          /\ \E b \in BOOLEAN :
                               /\ b => OpenRecently(esc[r].app) = {}
                               /\ esc' = [esc EXCEPT ![r] = Asked(esc[r], b)]
                          /\ faults' = faults \/ Fault
         /\ Decide(r) => /\ esc[r].pc = "decide"
                         /\ esc' = [esc EXCEPT ![r] = Choice(esc[r], esc[r].clean)]
                         /\ UNCHANGED <<plotRun, faults, tables, page, ai>>
<1>1. Several(r) => /\ esc[r].pc = "triage" /\ esc' = [esc EXCEPT ![r] = Choice(esc[r], FALSE)]
                    /\ UNCHANGED <<plotRun, faults, tables, page, ai>>
  BY DEF Several, Choice
<1>2. ASSUME AskLore(r)
      PROVE  /\ esc[r].pc = "triage" /\ UNCHANGED <<plotRun, tables, page, ai>>
             /\ \E b \in BOOLEAN :
                  /\ b => OpenRecently(esc[r].app) = {}
                  /\ esc' = [esc EXCEPT ![r] = Asked(esc[r], b)]
             /\ faults' = faults \/ Fault
  <2>1. \A answered \in BOOLEAN : CleanHistory(esc[r].app, answered) \in BOOLEAN
    BY DEF CleanHistory
  <2>2. \A answered \in BOOLEAN :
          CleanHistory(esc[r].app, answered) => OpenRecently(esc[r].app) = {}
    BY DEF CleanHistory
  <2> QED
    BY <1>2, <2>1, <2>2 DEF AskLore, Asked
<1>3. Decide(r) => /\ esc[r].pc = "decide"
                   /\ esc' = [esc EXCEPT ![r] = Choice(esc[r], esc[r].clean)]
                   /\ UNCHANGED <<plotRun, faults, tables, page, ai>>
  BY DEF Decide, Choice
<1> QED
  BY <1>1, <1>2, <1>3

LEMMA TriageStep ==
  ASSUME IInv, NEW r \in Runs, Triage(r)
  PROVE  Kept
<1> DEFINE e == esc[r]
<1>0. /\ e \in EscState /\ ai[r] \in AiState /\ faults \in Nat
      /\ page \in [Runs -> {"no", "due", "over"}] /\ ai \in [Runs -> AiState]
      /\ esc \in [Runs -> EscState] /\ e.app \in Apps /\ e.accepted \in Nat
  BY DEF IInv, TypeOK, PlotRunTypeOK, EscalationTypeOK, EscState
<1>t. PlotRunTypeOK /\ Progress /\ Pending /\ LoreTypeOK /\ EscalationTypeOK /\ RateIsDefined
  BY DEF IInv, TypeOK
<1>f. Fault => faults' \in Nat
  BY <1>0 DEF Fault
<1>c. EscalationTypeOK /\ e.clean \in BOOLEAN
  BY <1>0, <1>t DEF EscState
<1>s. {"interactions", "ai-lien"} \subseteq Sources
  BY DEF Sources
<1>o. \A a \in Apps : OpenRecently(a) \in SUBSET Incident /\ {} \in SUBSET Incident
  BY <1>t DEF OpenRecently, LoreTypeOK
<1>1. CASE Escalate(r)
  <2>1. /\ r \in raising /\ raising' = raising \ {r} /\ UNCHANGED <<run, history, results, posting>>
        /\ faults' \in Nat /\ UNCHANGED tables /\ UNCHANGED <<page, ai>>
        /\ esc' = [esc EXCEPT ![r] = Escalated(r)] \/ esc' = esc
    BY <1>0, <1>1, <1>f DEF Escalate
  <2>2. PlotRunTypeOK' /\ Progress' /\ Pending'
    BY <1>t, <2>1, RunsKept DEF PlotRunTypeOK, history
  <2>3. run[r] \in RunState /\ 0 < run[r].failed /\ run[r].failed <= run[r].total
    BY <1>t, <2>1 DEF Pending, PlotRunTypeOK
  <2>4. Escalated(r) \in EscState /\ 0 < Escalated(r).failed /\ Escalated(r).failed <= Escalated(r).total
    <3> DEFINE s == OpenRecently(run[r].app)
    <3>1. s \in SUBSET Incident
      BY <1>o, <2>3 DEF RunState
    <3> HIDE DEF s
    <3>2. Escalated(r) = [NoEsc EXCEPT !.pc = "triage", !.app = run[r].app,
                            !.failed = run[r].failed, !.total = run[r].total, !.since = s]
      BY DEF Escalated, s
    <3>3. /\ NoEsc \in EscState /\ run[r].app \in Apps
          /\ run[r].failed \in Nat /\ run[r].total \in Nat
      BY <2>3, PlotRunAssumption DEF NoEsc, EscState, RunState
    <3> HIDE DEF e
    <3>4. /\ Escalated(r) \in EscState
          /\ Escalated(r).failed = run[r].failed /\ Escalated(r).total = run[r].total
      BY ONLY <3>1, <3>2, <3>3 DEF EscState
    <3> QED
      BY <2>3, <3>4
  <2>5. EscalationTypeOK' /\ RateIsDefined'
    BY <1>0, <1>t, <2>1, <2>4, TriageMoves, EscKept
  <2> QED
    BY <1>t, <2>1, <2>2, <2>5, LoreKept DEF Kept
<1>2. ASSUME Immediate(r) PROVE Kept
  <2> DEFINE x == [e EXCEPT !.pc = "call", !.critical = TRUE, !.since = {}]
  <2>1. x \in EscState /\ x.failed = e.failed /\ x.total = e.total
    BY <1>0 DEF EscState
  <2>2. /\ UNCHANGED <<plotRun, faults, tables, ai>> /\ esc' = [esc EXCEPT ![r] = x]
        /\ page' = [page EXCEPT ![r] = "due"] /\ e.pc # "none"
    BY <1>2 DEF Immediate
  <2> HIDE DEF x
  <2> QED
    BY <1>0, <1>t, <2>1, <2>2, CountsKept, PlotRunKept, LoreKept DEF Kept
<1>3. ASSUME Several(r) \/ AskLore(r) \/ Decide(r) PROVE Kept
  <2>1. /\ UNCHANGED <<plotRun, tables, page, ai>> /\ faults' \in Nat /\ e.pc # "none"
        /\ \E b \in BOOLEAN : esc' = [esc EXCEPT ![r] = Choice(e, b)]
                              \/ esc' = [esc EXCEPT ![r] = Asked(e, b)]
    BY <1>0, <1>3, <1>c, <1>f, Choices, ZenonT(30)
  <2>b. PICK b \in BOOLEAN : \/ esc' = [esc EXCEPT ![r] = Choice(e, b)]
                              \/ esc' = [esc EXCEPT ![r] = Asked(e, b)]
    BY <2>1
  <2>2. PICK x \in {Choice(e, b), Asked(e, b)} :
          esc' = [esc EXCEPT ![r] = x]
    BY <2>b
  <2>3. x \in EscState /\ x.failed = e.failed /\ x.total = e.total
    <3> e \in EscState
      BY <1>0
    <3> HIDE DEF e
    <3> QED
      BY <2>2, ChoiceFields
  <2> QED
    BY <1>0, <1>t, <2>1, <2>2, <2>3, CountsKept, PlotRunKept, LoreKept DEF Kept
<1>4. ASSUME Page(r) PROVE Kept
  <2>1. /\ UNCHANGED <<plotRun, tables, ai>> /\ faults' \in Nat
        /\ page' = [page EXCEPT ![r] = "over"]
        /\ esc' = [esc EXCEPT ![r] = [e EXCEPT !.accepted = e.accepted + 1]] \/ esc' = esc
    BY <1>0, <1>4, <1>f DEF Page
  <2>2. page' \in [Runs -> {"no", "due", "over"}] /\ ai' = ai
    BY <1>0, <2>1
  <2>3. CASE esc' = esc
    <3>1. EscalationTypeOK' /\ RateIsDefined'
      BY <1>0, <1>t, <2>2, <2>3 DEF EscalationTypeOK, RateIsDefined
    <3> QED
      BY <1>t, <2>1, <3>1, PlotRunKept, LoreKept DEF Kept
  <2>4. CASE esc' = [esc EXCEPT ![r] = [e EXCEPT !.accepted = e.accepted + 1]]
    <3> DEFINE x == [e EXCEPT !.accepted = e.accepted + 1]
    <3>0. e.accepted + 1 \in Nat
      BY <1>0
    <3>1. x \in EscState /\ x.failed = e.failed /\ x.total = e.total /\ x.pc = e.pc
      BY ONLY <1>0, <3>0 DEF EscState
    <3> HIDE DEF x
    <3>2. esc' = [esc EXCEPT ![r] = x]
      BY <2>4 DEF x
    <3>3. EscalationTypeOK' /\ RateIsDefined'
      BY <1>0, <1>t, <2>2, <3>1, <3>2, CountsKept
    <3> QED
      BY <1>t, <2>1, <3>3, PlotRunKept, LoreKept DEF Kept
  <2> QED
    BY <2>1, <2>3, <2>4
<1> DEFINE Moved(x) == /\ x \in EscState /\ x.failed = e.failed /\ x.total = e.total
                       /\ x.pc # "none" => e.pc # "none"
<1>m. \A pc \in {"wait", "fallback", "done", "incident", "notify"}, b \in BOOLEAN, n \in Nat :
        e.pc # "none" =>
          /\ Moved([e EXCEPT !.pc = pc]) /\ Moved([e EXCEPT !.pc = pc, !.assessed = b])
          /\ Moved([e EXCEPT !.pc = pc, !.accepted = n])
  <2> SUFFICES ASSUME NEW pc \in {"wait", "fallback", "done", "incident", "notify"},
                      NEW b \in BOOLEAN, NEW n \in Nat, e.pc # "none"
               PROVE  /\ Moved([e EXCEPT !.pc = pc]) /\ Moved([e EXCEPT !.pc = pc, !.assessed = b])
                      /\ Moved([e EXCEPT !.pc = pc, !.accepted = n])
    OBVIOUS
  <2> DEFINE x == [e EXCEPT !.pc = pc]
  <2>1. x \in EscState /\ x.failed = e.failed /\ x.total = e.total /\ e.pc # "none"
    BY ONLY <1>0, pc \in {"wait", "fallback", "done", "incident", "notify"}, e.pc # "none"
    DEF EscState
  <2> HIDE DEF x
  <2>2. Moved(x)
    BY <2>1
  <2>3. Moved([x EXCEPT !.assessed = b]) /\ Moved([x EXCEPT !.accepted = n])
    BY ONLY <2>1, b \in BOOLEAN, n \in Nat DEF EscState
  <2> QED
    BY <2>2, <2>3 DEF x
<1>a. \A pc \in {"idle", "thinking", "trend", "incident"}, v \in Verdicts :
        /\ [ai EXCEPT ![r].pc = pc] \in [Runs -> AiState]
        /\ [ai EXCEPT ![r] = [pc |-> pc, verdict |-> v]] \in [Runs -> AiState]
  BY ONLY <1>0, r \in Runs DEF AiState
<1> HIDE DEF Moved
\* A step that moves the triage, and AI-lien, and leaves plot-test alone.
<1>k. ASSUME NEW x, Moved(x), esc' = [esc EXCEPT ![r] = x], page' = page,
             ai' \in [Runs -> AiState], UNCHANGED plotRun, faults' \in Nat, LoreTypeOK'
      PROVE  Kept
  BY <1>0, <1>t, <1>k, CountsKept, PlotRunKept DEF Kept, Moved
<1>5. ASSUME CallAILien(r) PROVE Kept
  <2>1. /\ UNCHANGED <<plotRun, tables, page>> /\ faults' \in Nat /\ e.pc = "call"
        /\ ai' = ai \/ ai' = [ai EXCEPT ![r].pc = "thinking"]
    BY <1>0, <1>5, <1>f DEF CallAILien
  <2>2. PICK pc \in {"wait", "fallback"} : esc' = [esc EXCEPT ![r] = [e EXCEPT !.pc = pc]]
    BY <1>5 DEF CallAILien
  <2>3. ai' \in [Runs -> AiState]
    BY <1>0, <1>a, <2>1 DEF Verdicts
  <2> QED
    BY <1>m, <1>k, <1>t, <2>1, <2>2, <2>3, LoreKept
<1>6. ASSUME Analyzed(r) PROVE Kept
  <2>1. PICK v \in Verdicts :
          /\ ai' = [ai EXCEPT ![r] = [pc |-> IF v = "null" THEN "idle" ELSE "trend", verdict |-> v]]
          /\ esc' = IF esc[r].pc = "wait" THEN [esc EXCEPT ![r] = Assessed(e, v)] ELSE esc
    BY <1>6 DEF Analyzed
  <2>2. UNCHANGED <<plotRun, faults, tables, page>>
    BY <1>6 DEF Analyzed
  <2>3. ai' \in [Runs -> AiState]
    <3>1. PICK pc \in {"idle", "trend"} : ai' = [ai EXCEPT ![r] = [pc |-> pc, verdict |-> v]]
      BY <2>1
    <3> QED
      BY <1>a, <3>1
  <2>4. CASE e.pc = "wait"
    <3>1. Moved(Assessed(e, v))
      <4>1. CASE v = "null"
        BY <1>m, <2>4, <4>1 DEF Assessed
      <4>2. CASE v # "null"
        <5>1. PICK pc \in {"notify", "incident"} : Assessed(e, v) = [e EXCEPT !.pc = pc, !.assessed = TRUE]
          BY <4>2 DEF Assessed
        <5> QED
          BY <1>m, <2>4, <5>1
      <4> QED
        BY <4>1, <4>2
    <3> QED
      BY <1>0, <1>k, <1>t, <2>1, <2>2, <2>3, <2>4, <3>1, LoreKept
  <2>5. CASE e.pc # "wait"
    <3>1. EscalationTypeOK' /\ RateIsDefined'
      BY <1>0, <1>t, <2>1, <2>2, <2>3, <2>5 DEF EscalationTypeOK, RateIsDefined
    <3> QED
      BY <1>0, <1>t, <2>2, <3>1, PlotRunKept, LoreKept DEF Kept
  <2> QED
    BY <2>4, <2>5
<1>7. ASSUME AnalysisFails(r) PROVE Kept
  <2>1. /\ UNCHANGED <<plotRun, faults, tables, page>> /\ ai' = [ai EXCEPT ![r].pc = "idle"]
        /\ esc' = IF e.pc = "wait" THEN [esc EXCEPT ![r] = [e EXCEPT !.pc = "fallback"]] ELSE esc
    BY <1>7 DEF AnalysisFails
  <2>2. ai' \in [Runs -> AiState]
    BY <1>a, <2>1 DEF Verdicts
  <2>3. CASE e.pc = "wait"
    BY <1>0, <1>m, <1>k, <1>t, <2>1, <2>2, <2>3, LoreKept
  <2>4. CASE e.pc # "wait"
    <3>1. EscalationTypeOK' /\ RateIsDefined'
      BY <1>0, <1>t, <2>1, <2>2, <2>4 DEF EscalationTypeOK, RateIsDefined
    <3> QED
      BY <1>0, <1>t, <2>1, <3>1, PlotRunKept, LoreKept DEF Kept
  <2> QED
    BY <2>3, <2>4
<1>8. ASSUME TimesOut(r) PROVE Kept
  <2>1. /\ UNCHANGED <<plotRun, faults, tables, page, ai>> /\ e.pc = "wait"
        /\ esc' = [esc EXCEPT ![r] = [e EXCEPT !.pc = "fallback"]]
    BY <1>8 DEF TimesOut
  <2> QED
    BY <1>0, <1>m, <1>k, <1>t, <2>1, LoreKept
<1>9. ASSUME Fallback(r) PROVE Kept
  <2>1. /\ UNCHANGED <<plotRun, faults, incidents, baselines, patterns, edits, page, ai>>
        /\ e.pc = "fallback" /\ esc' = [esc EXCEPT ![r] = [e EXCEPT !.pc = "done"]]
        /\ RecordTrendPoint(r, e.app, "interactions")
    BY <1>9 DEF Fallback
  <2>2. LoreTypeOK'
    BY <1>0, <1>t, <1>s, <2>1, WritesOK DEF LoreTypeOK
  <2> QED
    BY <1>0, <1>m, <1>k, <2>1, <2>2
<1>10. ASSUME NotifyOnAdvice(r) PROVE Kept
  <2>1. /\ UNCHANGED <<plotRun, tables, page, ai>> /\ e.pc = "notify" /\ faults' \in Nat
    BY <1>0, <1>10, <1>f DEF NotifyOnAdvice
  <2>2. CASE \E n \in {0, 1} : esc' = [esc EXCEPT ![r] = [e EXCEPT !.pc = "incident", !.accepted = e.accepted + n]]
    <3>1. PICK n \in {0, 1} :
            esc' = [esc EXCEPT ![r] = [e EXCEPT !.pc = "incident", !.accepted = e.accepted + n]]
      BY <2>2
    <3>2. e.accepted + n \in Nat
      BY <1>0
    <3> QED
      BY <1>0, <1>m, <1>k, <1>t, <2>1, <3>1, <3>2, LoreKept
  <2>3. CASE esc' = [esc EXCEPT ![r] = [e EXCEPT !.pc = "incident"]]
    BY <1>0, <1>m, <1>k, <1>t, <2>1, <2>3, LoreKept
  <2> QED
    BY <1>10, <2>2, <2>3 DEF NotifyOnAdvice
<1>11. ASSUME WriteIncident(r) PROVE Kept
  <2>1. /\ UNCHANGED <<plotRun, trendPoints, baselines, patterns, edits, page, ai>>
        /\ e.pc = "incident" /\ esc' = [esc EXCEPT ![r] = [e EXCEPT !.pc = "done"]]
        /\ RecordIncident(r, e.app, "interactions") \/ incidents' = incidents
        /\ faults' \in Nat
    BY <1>0, <1>11, <1>f DEF WriteIncident
  <2>2. LoreTypeOK'
    BY <1>0, <1>t, <1>s, <2>1, WritesOK DEF LoreTypeOK
  <2> QED
    BY <1>0, <1>m, <1>k, <2>1, <2>2
<1>12. ASSUME AiWritesTrend(r) PROVE Kept
  <2>1. /\ UNCHANGED <<plotRun, incidents, baselines, patterns, edits, esc, page>>
        /\ RecordTrendPoint(r, e.app, "ai-lien") \/ trendPoints' = trendPoints
        /\ faults' \in Nat
    BY <1>0, <1>12, <1>f DEF AiWritesTrend
  <2>2. PICK pc \in {"idle", "incident"} : ai' = [ai EXCEPT ![r].pc = pc]
    BY <1>12 DEF AiWritesTrend
  <2>3. LoreTypeOK'
    BY <1>0, <1>t, <1>s, <2>1, WritesOK DEF LoreTypeOK
  <2>4. EscalationTypeOK' /\ RateIsDefined'
    BY <1>0, <1>a, <1>t, <2>1, <2>2 DEF EscalationTypeOK, RateIsDefined, Verdicts
  <2> QED
    BY <1>t, <2>1, <2>3, <2>4, PlotRunKept DEF Kept
<1>13. ASSUME AiWritesIncident(r) PROVE Kept
  <2>1. /\ UNCHANGED <<plotRun, trendPoints, baselines, patterns, edits, esc, page>>
        /\ RecordIncident(r, e.app, "ai-lien") \/ incidents' = incidents
        /\ ai' = [ai EXCEPT ![r].pc = "idle"] /\ faults' \in Nat
    BY <1>0, <1>13, <1>f DEF AiWritesIncident
  <2>3. LoreTypeOK'
    BY <1>0, <1>t, <1>s, <2>1, WritesOK DEF LoreTypeOK
  <2>4. EscalationTypeOK' /\ RateIsDefined'
    BY <1>0, <1>a, <1>t, <2>1 DEF EscalationTypeOK, RateIsDefined, Verdicts
  <2> QED
    BY <1>t, <2>1, <2>3, <2>4, PlotRunKept DEF Kept
<1> QED
  BY <1>1, <1>2, <1>3, <1>4, <1>5, <1>6, <1>7, <1>8, <1>9, <1>10, <1>11, <1>12, <1>13 DEF Triage

-----------------------------------------------------------------------------
LEMMA NextOK == IInv /\ [Next]_vars => IInv'
<1> SUFFICES ASSUME IInv, [Next]_vars PROVE IInv'
  OBVIOUS
<1>t. PlotRunTypeOK /\ Progress /\ Pending /\ LoreTypeOK /\ EscalationTypeOK /\ RateIsDefined
  BY DEF IInv, TypeOK
<1>i. Kept => IInv'
  BY DEF Kept, IInv, TypeOK
<1>1. ASSUME NEW r \in Runs, PlotTestNext(r) /\ UNCHANGED <<tables, esc, page, ai>> PROVE Kept
  BY <1>1, <1>t, PlotTestStep, LoreKept, EscKept DEF Kept
<1>2. ASSUME NEW r \in Runs, Triage(r) PROVE Kept
  BY <1>2, TriageStep
<1>3. CASE CrashPlotTest /\ UNCHANGED <<tables, esc, page, ai>>
  BY <1>3, <1>t, <1>i, CrashPlotTestStep, LoreKept, EscKept DEF Kept
<1>4. CASE CrashInteractions
  <2>1. UNCHANGED <<plotRun, tables, ai>> /\ faults' \in Nat
    BY <1>4, <1>t DEF CrashInteractions, Fault, PlotRunTypeOK
  <2>2. \A x \in EscState : LET y == [x EXCEPT !.pc = "lost"] IN
          y \in EscState /\ y.failed = x.failed /\ y.total = x.total
    BY DEF EscState
  <2>3. /\ esc' \in [Runs -> EscState]
        /\ \A r \in Runs : /\ esc'[r].failed = esc[r].failed /\ esc'[r].total = esc[r].total
                           /\ esc[r].pc = "none" => esc'[r].pc = "none"
    BY <1>4, <1>t, <2>2 DEF CrashInteractions, EscalationTypeOK
  <2>4. page' \in [Runs -> {"no", "due", "over"}]
    BY <1>4, <1>t DEF CrashInteractions, EscalationTypeOK
  <2>5. EscalationTypeOK' /\ RateIsDefined'
    BY <1>t, <2>1, <2>3, <2>4 DEF EscalationTypeOK, RateIsDefined
  <2> QED
    BY <1>t, <1>i, <2>1, <2>5, PlotRunKept, LoreKept DEF Kept
<1>5. CASE LoreUser /\ UNCHANGED <<plotRun, faults, esc, page, ai>>
  BY <1>5, <1>t, <1>i, PlotRunKept, LoreUserStep, EscKept DEF Kept, PlotRunTypeOK
<1>6. CASE UNCHANGED vars
  BY <1>6, <1>t, <1>i, PlotRunKept, LoreKept, EscKept DEF Kept, PlotRunTypeOK, vars
<1> QED
  BY <1>1, <1>2, <1>3, <1>4, <1>5, <1>6, <1>i DEF Next

LEMMA Invariance == Spec => []IInv
BY InitOK, NextOK, PTL DEF Spec

\* The variables of the plot runs, of Lore and of the escalations always have their types.
THEOREM EscalationTypeCorrect == Spec => []TypeOK
BY Invariance, PTL DEF IInv

\* A plot run that plot-test executed itself passes only by an expected status for every step.
THEOREM PlotPassIsAlwaysEarned == Spec => []PlotPassIsEarned
<1>1. IInv => PlotPassIsEarned
  BY DEF IInv, Progress, RunOK, PlotPassIsEarned
<1> QED
  BY <1>1, Invariance, PTL

\* Retries send a step at most three times, and a step to a remote gateway is sent once.
THEOREM AttemptsAreAlwaysBounded == Spec => []AttemptsAreBounded
<1>1. IInv => AttemptsAreBounded
  BY DEF IInv, Progress, RunOK, AttemptsAreBounded
<1> QED
  BY <1>1, Invariance, PTL

\* Interactions always has a failure rate between 0 and 1 to decide by.
THEOREM RateIsAlwaysDefined == Spec => []RateIsDefined
BY Invariance, PTL DEF IInv

-----------------------------------------------------------------------------
(* The ledgers of the triages                                               *)

\* A run that is over stays as it is, and is not escalated again.
LEMMA PlotTestRaises ==
  ASSUME NEW r \in Runs, PlotTestNext(r)
  PROVE  /\ UNCHANGED run \/ (run[r].pc # "done" /\ \E x : run' = [run EXCEPT ![r] = x])
         /\ raising' = raising \/ (raising' = raising \cup {r} /\ run[r].pc = "local")
<1>1. ASSUME NEW o \in Outcomes, Retry(r, o) \/ StepEnds(r, o)
      PROVE  /\ run[r].pc # "done" /\ \E x : run' = [run EXCEPT ![r] = x]
             /\ raising' = raising
  BY <1>1 DEF Retry, StepEnds, StepResult, Executing, reports
<1>2. ASSUME \/ \E a \in Apps : Run(r, a)
             \/ Load(r) \/ LoadFails(r) \/ RemoteAnswers(r) \/ RemoteFails(r) \/ Token(r)
      PROVE  /\ run[r].pc # "done" /\ \E x : run' = [run EXCEPT ![r] = x]
             /\ raising' = raising
  BY <1>2 DEF Run, Load, LoadFails, RemoteAnswers, RemoteFails, Token, reports
<1>3. ASSUME Complete(r)
      PROVE  /\ run[r].pc # "done" /\ \E x : run' = [run EXCEPT ![r] = x]
             /\ raising' = raising \/ (raising' = raising \cup {r} /\ run[r].pc = "local")
  BY <1>3 DEF Complete, Over
<1>4. ASSUME PostRemote(r)
      PROVE  /\ run[r].pc # "done" /\ \E x : run' = [run EXCEPT ![r] = x]
             /\ raising' = raising
  BY <1>4 DEF PostRemote
<1>5. ASSUME PostLocal(r)
      PROVE  UNCHANGED run /\ raising' = raising
  BY <1>5 DEF PostLocal
<1> QED
  BY <1>1, <1>2, <1>3, <1>4, <1>5 DEF PlotTestNext

\* What the writes to Lore do to the reporters of a run.
LEMMA ReportersMove ==
  ASSUME LoreTypeOK
  PROVE  /\ UNCHANGED incidents => \A q \in Runs : Reporters(q)' = Reporters(q)
         /\ \A r \in Runs, a \in Apps, src \in Sources :
              RecordIncident(r, a, src) =>
                /\ Reporters(r)' = Reporters(r) \cup {src}
                /\ \A q \in Runs \ {r} : Reporters(q)' = Reporters(q)
         /\ LoreUser => \A q \in Runs : Reporters(q)' = Reporters(q)
<1>1. UNCHANGED incidents => \A q \in Runs : Reporters(q)' = Reporters(q)
  BY DEF Reporters
<1>2. ASSUME NEW r \in Runs, NEW a \in Apps, NEW src \in Sources, RecordIncident(r, a, src)
      PROVE  /\ Reporters(r)' = Reporters(r) \cup {src}
             /\ \A q \in Runs \ {r} : Reporters(q)' = Reporters(q)
  <2> DEFINE n == [run |-> r, app |-> a, source |-> src, status |-> "open", recent |-> TRUE]
  <2>1. incidents' = incidents \cup {n} /\ n.run = r /\ n.source = src
    BY <1>2 DEF RecordIncident
  <2> HIDE DEF n
  <2> QED
    BY <2>1 DEF Reporters
<1>3. ASSUME Resolve, NEW q \in Runs
      PROVE  Reporters(q)' = Reporters(q)
  <2>1. PICK i \in incidents :
          incidents' = (incidents \ {i}) \cup {[i EXCEPT !.status = "resolved"]}
    BY <1>3 DEF Resolve
  <2> DEFINE n == [i EXCEPT !.status = "resolved"]
  <2>2. n.run = i.run /\ n.source = i.source
    BY DEF LoreTypeOK, Incident
  <2>3. incidents' = (incidents \ {i}) \cup {n}
    BY <2>1
  <2> HIDE DEF n
  <2> QED
    BY <2>2, <2>3 DEF Reporters
<1>4. ASSUME WeekPasses, NEW q \in Runs
      PROVE  Reporters(q)' = Reporters(q)
  <2> DEFINE n(i) == [i EXCEPT !.recent = FALSE]
  <2>1. incidents' = {n(i) : i \in incidents}
    BY <1>4 DEF WeekPasses
  <2>2. \A i \in incidents : n(i).run = i.run /\ n(i).source = i.source
    BY DEF LoreTypeOK, Incident
  <2> HIDE DEF n
  <2> QED
    BY <2>1, <2>2 DEF Reporters
<1>5. ASSUME NEW a \in Apps, PutBaseline(a) \/ AddPattern(a)
      PROVE  UNCHANGED incidents
  BY <1>5 DEF PutBaseline, AddPattern, Edit
<1>6. ASSUME NEW a \in Apps, ReportIncident(a), NEW q \in Runs
      PROVE  Reporters(q)' = Reporters(q)
  <2> DEFINE n == [run |-> Earlier, app |-> a, source |-> "results", status |-> "open",
                   recent |-> TRUE]
  <2>1. incidents' = incidents \cup {n} /\ n.run # q
    BY <1>6, EscalationAssumption DEF ReportIncident, RecordIncident
  <2> HIDE DEF n
  <2> QED
    BY <2>1 DEF Reporters
<1> QED
  BY <1>1, <1>2, <1>3, <1>4, <1>5, <1>6, EscalationAssumption DEF LoreUser

\* One triage moves, and no run is escalated anew.
LEMMA LedgerMoves ==
  ASSUME Ledgers, faults = 0, NEW r \in Runs,
         run' = run, raising' \subseteq raising,
         \A q \in Runs \ {r} : /\ esc'[q] = esc[q] /\ page'[q] = page[q] /\ ai'[q].pc = ai[q].pc
                               /\ Reporters(q)' = Reporters(q),
         Ledger(esc'[r], page'[r], ai'[r].pc, Reporters(r)'),
         r \in raising' => esc'[r].pc = "none",
         esc'[r].pc # "none" => run[r].pc = "done"
  PROVE  Ledgers'
BY DEF Ledgers

LEMMA TriageLedger ==
  ASSUME IInv, Ledgers, NEW r \in Runs, Triage(r), faults = 0, faults' = 0
  PROVE  Ledgers'
<1> DEFINE e == esc[r]
           by == Reporters(r)
<1>0. /\ e \in EscState /\ ai[r] \in AiState /\ e.app \in Apps
      /\ page \in [Runs -> {"no", "due", "over"}] /\ ai \in [Runs -> AiState]
      /\ esc \in [Runs -> EscState] /\ LoreTypeOK /\ e.accepted \in Nat
  BY DEF IInv, TypeOK, EscalationTypeOK, EscState
<1>1. ~Fault
  BY DEF Fault
<1>2. /\ Ledger(e, page[r], ai[r].pc, by)
      /\ r \in raising => e.pc = "none"
      /\ e.pc # "none" => run[r].pc = "done"
  BY DEF Ledgers
<1>3. {"interactions", "ai-lien"} \subseteq Sources
  BY DEF Sources
\* The triage becomes x, the page p and AI-lien's record a.
<1>4. ASSUME NEW x, NEW p, NEW a,
             esc' = [esc EXCEPT ![r] = x], page' = [page EXCEPT ![r] = p],
             ai' = [ai EXCEPT ![r] = a],
             run' = run, raising' \subseteq raising,
             \A q \in Runs \ {r} : Reporters(q)' = Reporters(q),
             Ledger(x, p, a.pc, Reporters(r)'),
             e.pc # "none" \/ (r \notin raising' /\ run[r].pc = "done")
      PROVE  Ledgers'
  <2>1. esc'[r] = x /\ page'[r] = p /\ ai'[r] = a
    BY <1>0, <1>4
  <2>2. r \in raising' => esc'[r].pc = "none"
    BY <1>2, <1>4
  <2>3. \A q \in Runs \ {r} : /\ esc'[q] = esc[q] /\ page'[q] = page[q]
                              /\ ai'[q].pc = ai[q].pc
    BY <1>0, <1>4
  <2> QED
    BY <1>2, <1>4, <2>1, <2>2, <2>3, LedgerMoves
<1>5. /\ esc = [esc EXCEPT ![r] = e] /\ page = [page EXCEPT ![r] = page[r]]
      /\ ai = [ai EXCEPT ![r] = ai[r]]
  BY <1>0
<1>6. UNCHANGED incidents => \A q \in Runs : Reporters(q)' = Reporters(q)
  BY <1>0, ReportersMove
\* What does not matter to the fields of a triage.
<1>7. \A x \in EscState, pc \in {"triage", "call", "wait", "notify", "incident", "fallback", "done"},
         n \in Nat :
        /\ [x EXCEPT !.pc = pc].pc = pc /\ [x EXCEPT !.pc = pc].critical = x.critical
        /\ [x EXCEPT !.pc = pc].silenced = x.silenced
        /\ [x EXCEPT !.pc = pc].assessed = x.assessed
        /\ [x EXCEPT !.pc = pc].accepted = x.accepted
  BY DEF EscState
<1>10. CASE Escalate(r)
  <2> DEFINE x == Escalated(r)
  <2>1. /\ esc' = [esc EXCEPT ![r] = x] /\ r \in raising /\ raising' = raising \ {r}
        /\ UNCHANGED <<run, tables, page, ai>>
    BY <1>1, <1>10 DEF Escalate
  <2>2. /\ x.pc = "triage" /\ ~x.critical /\ ~x.silenced /\ x.accepted = 0 /\ ~x.assessed
    BY DEF Escalated, NoEsc
  <2> HIDE DEF x
  <2>3. Reporters(r)' = by /\ \A q \in Runs \ {r} : Reporters(q)' = Reporters(q)
    BY <1>6, <2>1 DEF tables
  <2>4. Ledger(x, page[r], ai[r].pc, Reporters(r)')
    BY <1>2, <2>1, <2>2, <2>3 DEF Ledger, Untold, Undecided
  <2>5. run[r].pc = "done"
    BY <2>1 DEF IInv, Pending
  <2> QED
    BY <1>4, <1>5, <2>1, <2>3, <2>4, <2>5
<1>11. CASE Immediate(r)
  <2> DEFINE x == [e EXCEPT !.pc = "call", !.critical = TRUE, !.since = {}]
  <2>1. /\ esc' = [esc EXCEPT ![r] = x] /\ page' = [page EXCEPT ![r] = "due"] /\ e.pc = "triage"
        /\ UNCHANGED <<plotRun, tables, ai>>
    BY <1>11 DEF Immediate
  <2>2. /\ x.pc = "call" /\ x.critical /\ x.silenced = e.silenced
        /\ x.accepted = e.accepted /\ x.assessed = e.assessed
    BY <1>0 DEF EscState
  <2> HIDE DEF x
  <2>3. Reporters(r)' = by /\ \A q \in Runs \ {r} : Reporters(q)' = Reporters(q)
    BY <1>6, <2>1 DEF tables
  <2>4. Ledger(x, "due", ai[r].pc, Reporters(r)')
    BY <1>2, <2>1, <2>2, <2>3 DEF Ledger, Untold, Undecided
  <2> QED
    BY <1>4, <1>5, <2>1, <2>3, <2>4 DEF plotRun, reports
<1>12. CASE Several(r) \/ AskLore(r) \/ Decide(r)
  <2>1. /\ e.pc \in Undecided \ {"none"} /\ UNCHANGED <<plotRun, tables, page, ai>>
        /\ \E b \in BOOLEAN : esc' = [esc EXCEPT ![r] = Choice(e, b)]
                              \/ esc' = [esc EXCEPT ![r] = Asked(e, b)]
    <3>1. EscalationTypeOK /\ faults \in Nat /\ e.clean \in BOOLEAN
      BY <1>0 DEF IInv, TypeOK, PlotRunTypeOK, EscState
    <3>2. {"triage", "decide"} \subseteq Undecided \ {"none"}
      BY DEF Undecided
    <3> QED
      BY <1>12, <3>1, <3>2, Choices, ZenonT(30)
  <2>b. PICK b \in BOOLEAN : \/ esc' = [esc EXCEPT ![r] = Choice(e, b)]
                              \/ esc' = [esc EXCEPT ![r] = Asked(e, b)]
    BY <2>1
  <2>2. PICK x \in {Choice(e, b), Asked(e, b)} :
          esc' = [esc EXCEPT ![r] = x]
    BY <2>b
  <2>3. /\ \/ x.pc = "done" /\ x.silenced
           \/ x.pc \in {"call", "decide"} /\ x.silenced = e.silenced
        /\ x.critical = e.critical /\ x.accepted = e.accepted /\ x.assessed = e.assessed
    <3> e \in EscState
      BY <1>0
    <3> HIDE DEF e
    <3> QED
      BY <2>2, ChoiceFields
  <2>4. Reporters(r)' = by /\ \A q \in Runs \ {r} : Reporters(q)' = Reporters(q)
    BY <1>6, <2>1 DEF tables
  <2>5. Ledger(x, page[r], ai[r].pc, Reporters(r)')
    BY <1>2, <2>1, <2>3, <2>4 DEF Ledger, Untold, Undecided
  <2> QED
    BY <1>4, <1>5, <2>1, <2>2, <2>4, <2>5 DEF plotRun, reports
<1>13. CASE Page(r)
  <2> DEFINE x == [e EXCEPT !.accepted = e.accepted + 1]
  <2>1. /\ esc' = [esc EXCEPT ![r] = x] /\ page[r] = "due" /\ page' = [page EXCEPT ![r] = "over"]
        /\ UNCHANGED <<plotRun, tables, ai>>
    BY <1>1, <1>13 DEF Page
  <2>2. /\ x.pc = e.pc /\ x.critical = e.critical /\ x.silenced = e.silenced
        /\ x.accepted = e.accepted + 1 /\ x.assessed = e.assessed
    BY <1>0 DEF EscState
  <2> HIDE DEF x
  <2>3. Reporters(r)' = by /\ \A q \in Runs \ {r} : Reporters(q)' = Reporters(q)
    BY <1>6, <2>1 DEF tables
  <2>4. Ledger(x, "over", ai[r].pc, Reporters(r)') /\ e.pc # "none"
    BY <1>0, <1>2, <2>1, <2>2, <2>3 DEF Ledger, Untold, Undecided
  <2> QED
    BY <1>4, <1>5, <2>1, <2>3, <2>4 DEF plotRun, reports
<1>14. CASE CallAILien(r)
  <2> DEFINE x == [e EXCEPT !.pc = "wait"]
             a == [ai[r] EXCEPT !.pc = "thinking"]
  <2>1. /\ esc' = [esc EXCEPT ![r] = x] /\ e.pc = "call" /\ ai' = [ai EXCEPT ![r] = a]
        /\ UNCHANGED <<plotRun, tables, page>>
    BY <1>1, <1>14 DEF CallAILien
  <2>2. /\ x.pc = "wait" /\ x.critical = e.critical /\ x.silenced = e.silenced
        /\ x.accepted = e.accepted /\ x.assessed = e.assessed
    BY <1>0, <1>7
  <2> HIDE DEF x, a
  <2>3. Reporters(r)' = by /\ \A q \in Runs \ {r} : Reporters(q)' = Reporters(q)
    BY <1>6, <2>1 DEF tables
  <2>4. Ledger(x, page[r], a.pc, Reporters(r)')
    BY <1>2, <2>1, <2>2, <2>3 DEF Ledger, Undecided
  <2> QED
    BY <1>4, <1>5, <2>1, <2>3, <2>4 DEF plotRun, reports
\* AI-lien's handler ends, and Interactions takes what it answers if it still waits.
<1>a. ASSUME NEW x, NEW a, e.pc = "wait" \/ x = e, ai[r].pc = "thinking",
             /\ x.critical = e.critical /\ x.silenced = e.silenced /\ x.accepted = e.accepted,
             e.pc = "wait" =>
               \/ x.pc \in {"done", "fallback"} /\ x.assessed = e.assessed
               \/ x.pc = "notify" /\ ~e.critical
               \/ x.pc = "incident",
             esc' = [esc EXCEPT ![r] = x], ai' = [ai EXCEPT ![r] = a],
             UNCHANGED <<plotRun, tables, page>>
      PROVE  Ledgers'
  <2>1. Reporters(r)' = by /\ \A q \in Runs \ {r} : Reporters(q)' = Reporters(q)
    BY <1>6, <1>a DEF tables
  <2>2. e.pc \notin Undecided /\ e.pc # "none" /\ ~e.silenced
    BY <1>2, <1>a DEF Ledger, Untold, Undecided
  <2>3. Ledger(x, page[r], a.pc, Reporters(r)')
    BY <1>2, <1>a, <2>1, <2>2 DEF Ledger, Undecided
  <2> QED
    BY <1>4, <1>5, <1>a, <2>1, <2>2, <2>3 DEF plotRun, reports
<1>15. CASE Analyzed(r)
  <2>0. PICK v \in Verdicts : \E a :
          /\ ai' = [ai EXCEPT ![r] = a] /\ ai[r].pc = "thinking"
          /\ esc' = IF e.pc = "wait" THEN [esc EXCEPT ![r] = Assessed(e, v)] ELSE esc
          /\ UNCHANGED <<plotRun, tables, page>>
    BY <1>15 DEF Analyzed
  <2>1. PICK a :
          /\ ai' = [ai EXCEPT ![r] = a] /\ ai[r].pc = "thinking"
          /\ esc' = IF e.pc = "wait" THEN [esc EXCEPT ![r] = Assessed(e, v)] ELSE esc
          /\ UNCHANGED <<plotRun, tables, page>>
    BY <2>0
  <2> DEFINE x == IF e.pc = "wait" THEN Assessed(e, v) ELSE e
  <2>2. esc' = [esc EXCEPT ![r] = x]
    BY <1>5, <2>1
  <2>3. e.pc = "wait" =>
          /\ \/ x.pc \in {"done", "fallback"} /\ x.assessed = e.assessed
             \/ x.pc = "notify" /\ ~e.critical
             \/ x.pc = "incident"
          /\ x.critical = e.critical /\ x.silenced = e.silenced /\ x.accepted = e.accepted
    BY <1>0 DEF Assessed, EscState
  <2>4. /\ x.critical = e.critical /\ x.silenced = e.silenced /\ x.accepted = e.accepted
        /\ e.pc = "wait" \/ x = e
    BY <2>3
  <2> HIDE DEF x
  <2> QED
    BY <1>a, <2>1, <2>2, <2>3, <2>4
<1>16. CASE AnalysisFails(r)
  <2> DEFINE x == IF e.pc = "wait" THEN [e EXCEPT !.pc = "fallback"] ELSE e
             a == [ai[r] EXCEPT !.pc = "idle"]
  <2>1. /\ esc' = [esc EXCEPT ![r] = x] /\ ai' = [ai EXCEPT ![r] = a] /\ ai[r].pc = "thinking"
        /\ UNCHANGED <<plotRun, tables, page>>
    BY <1>5, <1>16 DEF AnalysisFails
  <2>2. /\ x.critical = e.critical /\ x.silenced = e.silenced /\ x.accepted = e.accepted
        /\ e.pc = "wait" \/ x = e
        /\ e.pc = "wait" => x.pc = "fallback" /\ x.assessed = e.assessed
    BY <1>0, <1>7
  <2> HIDE DEF x, a
  <2> QED
    BY <1>a, <2>1, <2>2
\* Interactions goes one step further, and may record an incident.
<1>b. ASSUME NEW pc \in {"fallback", "done", "incident"}, NEW n \in Nat, NEW x,
             esc' = [esc EXCEPT ![r] = x],
             /\ x.pc = pc /\ x.critical = e.critical /\ x.silenced = e.silenced
             /\ x.assessed = e.assessed /\ x.accepted = n,
             e.pc \in {"wait", "fallback", "notify", "incident"},
             n = e.accepted \/ e.pc = "notify", e.pc = "notify" => pc = "incident",
             e.pc = "incident" => pc = "done",
             pc = "done" => e.pc = "fallback" \/ "interactions" \in Reporters(r)',
             UNCHANGED <<plotRun, page, ai>>,
             \A q \in Runs \ {r} : Reporters(q)' = Reporters(q)
      PROVE  Ledgers'
  <2>1. Ledger(x, page[r], ai[r].pc, Reporters(r)')
    BY <1>2, <1>b DEF Ledger, Undecided
  <2> QED
    BY <1>4, <1>5, <1>b, <2>1, ZenonT(30) DEF plotRun, reports
<1>17. CASE TimesOut(r)
  <2> DEFINE x == [e EXCEPT !.pc = "fallback"]
  <2>1. esc' = [esc EXCEPT ![r] = x] /\ e.pc = "wait" /\ UNCHANGED <<plotRun, tables, page, ai>>
    BY <1>17 DEF TimesOut
  <2>2. /\ x.pc = "fallback" /\ x.critical = e.critical /\ x.silenced = e.silenced
        /\ x.accepted = e.accepted /\ x.assessed = e.assessed
    BY <1>0, <1>7
  <2> HIDE DEF x
  <2> QED
    BY <1>b, <1>0, <1>6, <2>1, <2>2 DEF tables
<1>18. CASE Fallback(r)
  <2> DEFINE x == [e EXCEPT !.pc = "done"]
  <2>1. /\ esc' = [esc EXCEPT ![r] = x] /\ e.pc = "fallback"
        /\ UNCHANGED <<plotRun, incidents, page, ai>>
    BY <1>18 DEF Fallback
  <2>2. /\ x.pc = "done" /\ x.critical = e.critical /\ x.silenced = e.silenced
        /\ x.accepted = e.accepted /\ x.assessed = e.assessed
    BY <1>0, <1>7
  <2> HIDE DEF x
  <2> QED
    BY <1>b, <1>0, <1>6, <2>1, <2>2
<1>19. CASE NotifyOnAdvice(r)
  <2>1. PICK n \in {0, 1} :
          esc' = [esc EXCEPT ![r] = [e EXCEPT !.pc = "incident", !.accepted = e.accepted + n]]
    BY <1>1, <1>19 DEF NotifyOnAdvice
  <2> DEFINE m == e.accepted + n
             x == [e EXCEPT !.pc = "incident", !.accepted = m]
  <2>2. /\ esc' = [esc EXCEPT ![r] = x] /\ e.pc = "notify"
        /\ UNCHANGED <<plotRun, tables, page, ai>>
    BY <1>19, <2>1 DEF NotifyOnAdvice
  <2>3. /\ x.pc = "incident" /\ x.critical = e.critical /\ x.silenced = e.silenced
        /\ x.accepted = m /\ x.assessed = e.assessed
    BY <1>0 DEF EscState
  <2>4. m \in Nat
    BY <1>0
  <2> HIDE DEF x, m
  <2> QED
    BY <1>b, <1>6, <2>2, <2>3, <2>4 DEF tables
<1>20. CASE WriteIncident(r)
  <2> DEFINE x == [e EXCEPT !.pc = "done"]
  <2>1. /\ esc' = [esc EXCEPT ![r] = x] /\ e.pc = "incident"
        /\ RecordIncident(r, e.app, "interactions") /\ UNCHANGED <<plotRun, page, ai>>
    BY <1>1, <1>20 DEF WriteIncident
  <2>2. /\ x.pc = "done" /\ x.critical = e.critical /\ x.silenced = e.silenced
        /\ x.accepted = e.accepted /\ x.assessed = e.assessed
    BY <1>0, <1>7
  <2> HIDE DEF x
  <2>3. /\ "interactions" \in Reporters(r)'
        /\ \A q \in Runs \ {r} : Reporters(q)' = Reporters(q)
    BY <1>0, <1>3, <2>1, ReportersMove
  <2> QED
    BY <1>b, <1>0, <2>1, <2>2, <2>3
\* AI-lien's thread writes, whatever Interactions does meanwhile.
<1>c. ASSUME NEW a, ai' = [ai EXCEPT ![r] = a], UNCHANGED <<plotRun, esc, page>>,
             ai[r].pc # "idle", by \subseteq Reporters(r)',
             \A q \in Runs \ {r} : Reporters(q)' = Reporters(q)
      PROVE  Ledgers'
  <2>1. e.pc \notin Undecided /\ e.pc # "none" /\ ~e.silenced
    BY <1>2, <1>c DEF Ledger, Untold, Undecided
  <2>2. Ledger(e, page[r], a.pc, Reporters(r)')
    BY <1>2, <1>c, <2>1 DEF Ledger, Undecided
  <2> QED
    BY <1>4, <1>5, <1>c, <2>1, <2>2 DEF plotRun, reports
<1>21. CASE AiWritesTrend(r)
  <2>1. PICK a : /\ ai' = [ai EXCEPT ![r] = a] /\ ai[r].pc = "trend"
                 /\ UNCHANGED <<plotRun, incidents, esc, page>>
    BY <1>21 DEF AiWritesTrend
  <2> QED
    BY <1>c, <1>6, <2>1
<1>22. CASE AiWritesIncident(r)
  <2>1. PICK a : /\ ai' = [ai EXCEPT ![r] = a] /\ ai[r].pc = "incident"
                 /\ RecordIncident(r, e.app, "ai-lien") /\ UNCHANGED <<plotRun, esc, page>>
    BY <1>1, <1>22 DEF AiWritesIncident
  <2>2. /\ by \subseteq Reporters(r)'
        /\ \A q \in Runs \ {r} : Reporters(q)' = Reporters(q)
    BY <1>0, <1>3, <2>1, ReportersMove
  <2> QED
    BY <1>c, <2>1, <2>2
<1> QED
  BY <1>10, <1>11, <1>12, <1>13, <1>14, <1>15, <1>16, <1>17, <1>18, <1>19, <1>20, <1>21, <1>22
  DEF Triage

\* The faults counted only grow, so that nothing had been lost before either.
LEMMA FaultsGrow ==
  ASSUME IInv, [Next]_vars, faults' = 0
  PROVE  faults = 0 /\ ~Fault
<1>1. faults \in Nat
  BY DEF IInv, TypeOK, PlotRunTypeOK
<1>2. ~Fault
  BY <1>1 DEF Fault
<1>3. ASSUME NEW r \in Runs, PlotTestNext(r)
      PROVE  faults' = faults
  BY <1>2, <1>3
  DEF PlotTestNext, Run, Load, LoadFails, RemoteAnswers, RemoteFails, Token, Retry, StepEnds,
      Complete, PostRemote, PostLocal
<1>4. ASSUME NEW r \in Runs, Triage(r)
      PROVE  faults' = faults
  BY <1>2, <1>4
  DEF Triage, Escalate, Immediate, Several, AskLore, Decide, Page, CallAILien, Analyzed,
      AnalysisFails, TimesOut, Fallback, NotifyOnAdvice, WriteIncident, AiWritesTrend,
      AiWritesIncident
<1> QED
  BY <1>2, <1>3, <1>4 DEF Next, CrashPlotTest, CrashInteractions, vars

LEMMA LedgersKept ==
  ASSUME IInv, Ledgers, [Next]_vars
  PROVE  Ledgers'
<1> SUFFICES ASSUME faults' = 0
             PROVE  Ledgers'
  BY DEF Ledgers
<1>0. faults = 0 /\ ~Fault
  BY FaultsGrow
<1>t. LoreTypeOK /\ run \in [Runs -> RunState]
  BY DEF IInv, TypeOK, PlotRunTypeOK
<1>1. ASSUME UNCHANGED <<run, raising, esc, page, ai>>,
             \A q \in Runs : Reporters(q)' = Reporters(q)
      PROVE  Ledgers'
  BY <1>0, <1>1 DEF Ledgers
<1>2. ASSUME NEW r \in Runs, PlotTestNext(r), UNCHANGED <<tables, esc, page, ai>>
      PROVE  Ledgers'
  <2>1. \A q \in Runs : Reporters(q)' = Reporters(q)
    BY <1>2, <1>t, ReportersMove DEF tables
  <2>2. ASSUME NEW q \in Runs
        PROVE  /\ Ledger(esc[q], page[q], ai[q].pc, Reporters(q))
               /\ q \in raising' => esc[q].pc = "none"
               /\ esc[q].pc # "none" => run'[q].pc = "done"
    <3>1. /\ Ledger(esc[q], page[q], ai[q].pc, Reporters(q))
          /\ q \in raising => esc[q].pc = "none"
          /\ esc[q].pc # "none" => run[q].pc = "done"
      BY <1>0 DEF Ledgers
    <3>2. run[q].pc = "done" => run'[q] = run[q]
      BY <1>2, <1>t, PlotTestRaises
    <3>3. q \in raising' => q \in raising \/ run[q].pc = "local"
      BY <1>2, PlotTestRaises
    <3> QED
      BY <3>1, <3>2, <3>3
  <2> QED
    BY <1>2, <2>1, <2>2 DEF Ledgers
<1>3. ASSUME NEW r \in Runs, Triage(r)
      PROVE  Ledgers'
  BY <1>0, <1>3, TriageLedger
<1>4. CASE LoreUser /\ UNCHANGED <<plotRun, faults, esc, page, ai>>
  BY <1>1, <1>4, <1>t, ReportersMove DEF plotRun, reports
<1>5. CASE UNCHANGED vars
  BY <1>1, <1>5, <1>t, ReportersMove DEF vars, tables, plotRun, reports
<1> QED
  BY <1>0, <1>2, <1>3, <1>4, <1>5 DEF Next, CrashPlotTest, CrashInteractions

\* A triage that has ended with nothing lost has told whoever it had to tell: one page for a
\* critical failure, one incident for an assessment, and nobody for a failure it silenced
\* (triageEscalation of interactions/main.go).
THEOREM TriageIsAccounted == Spec => []Accounted
<1>1. Init => Ledgers
  <2> SUFFICES ASSUME Init, NEW r \in Runs
               PROVE  /\ Ledger(esc[r], page[r], ai[r].pc, Reporters(r))
                      /\ r \in raising => esc[r].pc = "none"
                      /\ esc[r].pc # "none" => run[r].pc = "done"
    BY DEF Ledgers
  <2>1. esc[r] = NoEsc /\ page[r] = "no" /\ ai[r].pc = "idle"
    BY DEF Init
  <2>2. Reporters(r) = {}
    BY EscalationAssumption DEF Init, LoreInit, Reporters
  <2> QED
    BY <2>1, <2>2 DEF Ledger, Untold, Undecided, NoEsc
<1>2. IInv /\ Ledgers /\ [Next]_vars => Ledgers'
  BY LedgersKept
<1>3. IInv /\ Ledgers => Accounted
  <2> SUFFICES ASSUME IInv, Ledgers, faults = 0, NEW r \in Runs,
                      esc[r].pc = "done", page[r] # "due"
               PROVE  /\ esc[r].critical => esc[r].accepted = 1
                      /\ esc[r].assessed =>
                           \E i \in incidents : i.run = r /\ i.source = "interactions"
                      /\ esc[r].silenced => /\ \A i \in incidents : i.run # r
                                            /\ ~esc[r].critical /\ esc[r].accepted = 0
    BY DEF Accounted
  <2>1. Ledger(esc[r], page[r], ai[r].pc, Reporters(r))
    BY DEF Ledgers
  <2>2. /\ "interactions" \in Reporters(r) =>
             \E i \in incidents : i.run = r /\ i.source = "interactions"
        /\ Reporters(r) = {} => \A i \in incidents : i.run # r
    BY DEF Reporters
  <2> QED
    BY <2>1, <2>2 DEF Ledger, Untold
<1> QED
  BY <1>1, <1>2, <1>3, Invariance, PTL DEF Spec

-----------------------------------------------------------------------------
(* The silence                                                              *)

\* The incident is in the table, whatever has become of it.
Known(i) == \E j \in incidents : j.run = i.run /\ j.app = i.app /\ j.source = i.source

\* Where a triage comes before it calls AI-lien.
Early == Undecided \cup {"call"}

\* Who has reported a run does not do so again.
ReportsOnce(e, analysis, by) ==
  /\ e.pc \in Early => analysis = "idle"
  /\ "interactions" \in by => e.pc \in {"done", "lost"}
  /\ "ai-lien" \in by => analysis = "idle" /\ e.pc \notin Early

Once ==
  \A r \in Runs : /\ ReportsOnce(esc[r], ai[r].pc, Reporters(r))
                  /\ r \in raising => esc[r].pc = "none"
                  /\ esc[r].pc # "none" => run[r].pc = "done"

\* The incidents of the escalation are still in the table, and none of them is open when the
\* answer that Lore gave in between says so.
Remembers(r) ==
  /\ \A i \in esc[r].since : Known(i)
  /\ esc[r].pc = "decide" /\ esc[r].clean => esc[r].since \cap OpenRecently(esc[r].app) = {}

Remembered == \A r \in Runs : Remembers(r)

\* What a step leaves alone that neither escalates nor asks nor decides.
Same(x, e) == /\ x.since = e.since /\ x.clean = e.clean /\ x.app = e.app
              /\ x.silenced = e.silenced
              /\ x.pc = "decide" => e.pc = "decide"

Choosing(r) == Escalate(r) \/ Immediate(r) \/ Several(r) \/ AskLore(r) \/ Decide(r)

\* The steps of a triage after its decision, and what they do to its record: x is the new one.
LEMMA TriageGoesOn ==
  ASSUME IInv, NEW r \in Runs, Triage(r), ~Choosing(r)
  PROVE  \E x, a :
           /\ esc' = [esc EXCEPT ![r] = x] /\ ai' = [ai EXCEPT ![r] = a] /\ Same(x, esc[r])
           /\ run' = run /\ raising' = raising
           /\ \/ /\ x.pc = esc[r].pc /\ incidents' = incidents
                 /\ a = ai[r] \/ ai[r].pc # "idle"
              \/ /\ esc[r].pc = "call" /\ x.pc \notin Early
                 /\ incidents' = incidents
              \/ /\ esc[r].pc \in {"wait", "fallback", "notify"} /\ x.pc \notin Early
                 /\ incidents' = incidents
                 /\ a = ai[r] \/ ai[r].pc = "thinking"
              \/ /\ esc[r].pc = "incident" /\ x.pc = "done" /\ a = ai[r]
                 /\ incidents' = incidents \/ RecordIncident(r, esc[r].app, "interactions")
              \/ /\ ai[r].pc = "incident" /\ x.pc = esc[r].pc /\ a.pc = "idle"
                 /\ incidents' = incidents \/ RecordIncident(r, esc[r].app, "ai-lien")
<1> DEFINE e == esc[r]
<1>0. /\ e \in EscState /\ ai[r] \in AiState /\ e.accepted \in Nat
      /\ esc \in [Runs -> EscState] /\ ai \in [Runs -> AiState]
      /\ esc = [esc EXCEPT ![r] = e] /\ ai = [ai EXCEPT ![r] = ai[r]]
  BY DEF IInv, TypeOK, EscalationTypeOK, EscState
<1>1. \A pc \in {"wait", "fallback", "notify", "incident", "done"}, n \in Nat, b \in BOOLEAN :
        /\ [e EXCEPT !.pc = pc].pc = pc /\ Same([e EXCEPT !.pc = pc], e)
        /\ [e EXCEPT !.pc = pc, !.accepted = n].pc = pc
        /\ Same([e EXCEPT !.pc = pc, !.accepted = n], e)
        /\ [e EXCEPT !.pc = pc, !.assessed = b].pc = pc
        /\ Same([e EXCEPT !.pc = pc, !.assessed = b], e)
        /\ [e EXCEPT !.accepted = n].pc = e.pc /\ Same([e EXCEPT !.accepted = n], e)
  <2> SUFFICES ASSUME NEW pc \in {"wait", "fallback", "notify", "incident", "done"},
                      NEW n \in Nat, NEW b \in BOOLEAN
               PROVE  /\ [e EXCEPT !.pc = pc].pc = pc /\ Same([e EXCEPT !.pc = pc], e)
                      /\ [e EXCEPT !.pc = pc, !.accepted = n].pc = pc
                      /\ Same([e EXCEPT !.pc = pc, !.accepted = n], e)
                      /\ [e EXCEPT !.pc = pc, !.assessed = b].pc = pc
                      /\ Same([e EXCEPT !.pc = pc, !.assessed = b], e)
                      /\ [e EXCEPT !.accepted = n].pc = e.pc /\ Same([e EXCEPT !.accepted = n], e)
    OBVIOUS
  <2> QED
    BY ONLY <1>0, pc \in {"wait", "fallback", "notify", "incident", "done"}, n \in Nat, b \in BOOLEAN
    DEF EscState, Same
<1>a. \A pc \in {"wait", "fallback", "notify", "incident", "done"} :
        [e EXCEPT !.pc = pc].pc = pc /\ Same([e EXCEPT !.pc = pc], e)
  BY ONLY <1>1, 0 \in Nat, TRUE \in BOOLEAN
<1>b. \A pc \in {"notify", "incident", "done"} :
        LET x == [e EXCEPT !.pc = pc, !.assessed = TRUE] IN x.pc = pc /\ Same(x, e)
  BY ONLY <1>0 DEF EscState, Same
<1>2. Same(e, e)
  BY DEF Same
<1>3. ASSUME Page(r)
      PROVE  \E x : /\ esc' = [esc EXCEPT ![r] = x] /\ Same(x, e) /\ x.pc = e.pc
                    /\ UNCHANGED <<plotRun, tables, ai>>
  <2> DEFINE m == e.accepted + 1
             y == [e EXCEPT !.accepted = m]
  <2>1. m \in Nat
    BY <1>0
  <2>2. /\ esc' = [esc EXCEPT ![r] = y] \/ esc' = esc
        /\ UNCHANGED <<plotRun, tables, ai>>
    BY <1>3 DEF Page
  <2> HIDE DEF m
  <2>3. y.pc = e.pc /\ Same(y, e)
    BY <1>1, <2>1
  <2> HIDE DEF y, e
  <2> QED
    BY <1>0, <1>2, <2>2, <2>3
<1>4. ASSUME CallAILien(r)
      PROVE  \E x, a : /\ esc' = [esc EXCEPT ![r] = x] /\ Same(x, e) /\ e.pc = "call"
                       /\ ai' = [ai EXCEPT ![r] = a] /\ x.pc \in {"wait", "fallback"}
                       /\ UNCHANGED <<plotRun, tables>>
  <2>1. PICK pc \in {"wait", "fallback"} : esc' = [esc EXCEPT ![r] = [e EXCEPT !.pc = pc]]
    BY <1>4 DEF CallAILien
  <2>2. \E a : ai' = [ai EXCEPT ![r] = a]
    BY <1>0, <1>4 DEF CallAILien
  <2>3. e.pc = "call" /\ UNCHANGED <<plotRun, tables>>
    BY <1>4 DEF CallAILien
  <2> DEFINE y == [e EXCEPT !.pc = pc]
  <2>4. y.pc = pc /\ Same(y, e) /\ esc' = [esc EXCEPT ![r] = y]
    BY <1>a, <2>1
  <2> HIDE DEF y, e
  <2> QED
    BY <2>2, <2>3, <2>4 DEF e
<1>5. ASSUME Analyzed(r) \/ AnalysisFails(r)
      PROVE  \E x, a : /\ esc' = [esc EXCEPT ![r] = x] /\ Same(x, e)
                       /\ ai' = [ai EXCEPT ![r] = a] /\ ai[r].pc = "thinking"
                       /\ UNCHANGED <<plotRun, tables>>
                       /\ \/ x.pc = e.pc
                          \/ e.pc = "wait" /\ x.pc \in {"done", "notify", "incident", "fallback"}
  <2>1. \/ \E v \in Verdicts :
             esc' = IF e.pc = "wait" THEN [esc EXCEPT ![r] = Assessed(e, v)] ELSE esc
        \/ esc' = IF e.pc = "wait" THEN [esc EXCEPT ![r] = [e EXCEPT !.pc = "fallback"]] ELSE esc
    BY <1>5 DEF Analyzed, AnalysisFails
  <2>2. \E a : ai' = [ai EXCEPT ![r] = a]
    BY <1>5 DEF Analyzed, AnalysisFails
  <2>3. ai[r].pc = "thinking" /\ UNCHANGED <<plotRun, tables>>
    BY <1>5 DEF Analyzed, AnalysisFails
  <2>4. \A v \in Verdicts :
          \E pc \in {"done", "notify", "incident"} :
            Assessed(e, v) \in {[e EXCEPT !.pc = pc], [e EXCEPT !.pc = pc, !.assessed = TRUE]}
    BY DEF Assessed
  <2> DEFINE Ends(x) == Same(x, e) /\ x.pc \in {"done", "notify", "incident", "fallback"}
  <2>6. ASSUME NEW v \in Verdicts
        PROVE  Ends(Assessed(e, v))
    <3>1. PICK pc \in {"done", "notify", "incident"} :
            Assessed(e, v) \in {[e EXCEPT !.pc = pc], [e EXCEPT !.pc = pc, !.assessed = TRUE]}
      BY <2>4
    <3>2. Ends([e EXCEPT !.pc = pc])
      BY <1>a
    <3>3. Ends([e EXCEPT !.pc = pc, !.assessed = TRUE])
      BY <1>b
    <3> HIDE DEF Ends
    <3> QED
      BY <3>1, <3>2, <3>3
  <2>7. Ends([e EXCEPT !.pc = "fallback"])
    BY <1>a
  <2>5. \E x : /\ esc' = [esc EXCEPT ![r] = x] /\ Same(x, e)
               /\ \/ x.pc = e.pc
                  \/ e.pc = "wait" /\ x.pc \in {"done", "notify", "incident", "fallback"}
    <3>1. CASE e.pc # "wait"
      <4>1. esc' = esc
        BY <2>1, <3>1
      <4> HIDE DEF e
      <4> QED
        BY <1>0, <1>2, <4>1
    <3>2. CASE e.pc = "wait"
      <4>1. \E x : esc' = [esc EXCEPT ![r] = x] /\ Ends(x)
        <5> HIDE DEF Ends, e
        <5> QED
          BY <2>1, <2>6, <2>7, <3>2
      <4> QED
        BY <3>2, <4>1
    <3> QED
      BY <3>1, <3>2
  <2> QED
    BY <2>2, <2>3, <2>5
<1>6. ASSUME TimesOut(r) \/ Fallback(r) \/ NotifyOnAdvice(r)
      PROVE  \E x : /\ esc' = [esc EXCEPT ![r] = x] /\ Same(x, e)
                    /\ e.pc \in {"wait", "fallback", "notify"}
                    /\ x.pc \in {"fallback", "done", "incident"}
                    /\ UNCHANGED <<plotRun, incidents, ai>>
  <2>1. /\ e.pc \in {"wait", "fallback", "notify"} /\ UNCHANGED <<plotRun, incidents, ai>>
        /\ \/ \E pc \in {"fallback", "done", "incident"} : esc' = [esc EXCEPT ![r] = [e EXCEPT !.pc = pc]]
           \/ \E n \in {0, 1} : esc' = [esc EXCEPT ![r] =
                [e EXCEPT !.pc = "incident", !.accepted = e.accepted + n]]
    BY <1>6 DEF TimesOut, Fallback, NotifyOnAdvice, tables
  <2>2. \A n \in {0, 1} : e.accepted + n \in Nat
    BY <1>0
  <2> DEFINE Ends(x) == Same(x, e) /\ x.pc \in {"fallback", "done", "incident"}
  <2>3. \A pc \in {"fallback", "done", "incident"} : Ends([e EXCEPT !.pc = pc])
    BY <1>a
  <2>4. \A n \in Nat : Ends([e EXCEPT !.pc = "incident", !.accepted = n])
    BY ONLY <1>1, TRUE \in BOOLEAN
  <2> HIDE DEF Ends, e
  <2>5. \E x : esc' = [esc EXCEPT ![r] = x] /\ Ends(x)
    BY <2>1, <2>2, <2>3, <2>4, ZenonT(30) DEF e
  <2> QED
    BY <2>1, <2>5 DEF Ends, e
<1>7. ASSUME WriteIncident(r)
      PROVE  \E x : /\ esc' = [esc EXCEPT ![r] = x] /\ Same(x, e)
                    /\ e.pc = "incident" /\ x.pc = "done" /\ UNCHANGED <<plotRun, ai>>
                    /\ incidents' = incidents \/ RecordIncident(r, e.app, "interactions")
  <2>1. /\ e.pc = "incident" /\ UNCHANGED <<plotRun, ai>>
        /\ esc' = [esc EXCEPT ![r] = [e EXCEPT !.pc = "done"]]
        /\ incidents' = incidents \/ RecordIncident(r, e.app, "interactions")
    BY <1>7 DEF WriteIncident
  <2> QED
    BY <1>1, <2>1
<1>8. ASSUME AiWritesTrend(r)
      PROVE  \E a : /\ ai' = [ai EXCEPT ![r] = a] /\ ai[r].pc = "trend"
                    /\ UNCHANGED <<plotRun, incidents, esc>>
  BY <1>8 DEF AiWritesTrend
<1>9. ASSUME AiWritesIncident(r)
      PROVE  \E a : /\ ai' = [ai EXCEPT ![r] = a] /\ ai[r].pc = "incident" /\ a.pc = "idle"
                    /\ UNCHANGED <<plotRun, esc>>
                    /\ incidents' = incidents \/ RecordIncident(r, e.app, "ai-lien")
  <2>1. [ai[r] EXCEPT !.pc = "idle"].pc = "idle"
    BY <1>0 DEF AiState
  <2>2. /\ ai' = [ai EXCEPT ![r] = [ai[r] EXCEPT !.pc = "idle"]] /\ ai[r].pc = "incident"
        /\ UNCHANGED <<plotRun, esc>>
        /\ incidents' = incidents \/ RecordIncident(r, e.app, "ai-lien")
    BY <1>9 DEF AiWritesIncident
  <2> QED
    BY <2>1, <2>2
<1>10. /\ UNCHANGED plotRun => run' = run /\ raising' = raising
       /\ UNCHANGED tables => incidents' = incidents
  BY DEF plotRun, tables
<1>11. {"wait", "fallback", "done", "notify", "incident"} \cap Early = {}
  BY DEF Early, Undecided
<1> HIDE DEF e
<1>12. CASE Page(r)
  BY <1>0, <1>3, <1>10, <1>12 DEF e
<1>13. CASE CallAILien(r)
  BY <1>4, <1>10, <1>11, <1>13 DEF e
<1>14. CASE Analyzed(r) \/ AnalysisFails(r)
  BY <1>5, <1>10, <1>11, <1>14 DEF e
<1>15. CASE TimesOut(r) \/ Fallback(r) \/ NotifyOnAdvice(r)
  BY <1>0, <1>6, <1>10, <1>11, <1>15 DEF e
<1>16. CASE WriteIncident(r)
  BY <1>0, <1>7, <1>10, <1>16 DEF e
<1>17. CASE AiWritesTrend(r)
  BY <1>0, <1>2, <1>8, <1>10, <1>17 DEF e
<1>18. CASE AiWritesIncident(r)
  BY <1>0, <1>2, <1>9, <1>10, <1>18 DEF e
<1> QED
  BY <1>12, <1>13, <1>14, <1>15, <1>16, <1>17, <1>18 DEF Triage, Choosing

\* The steps before the decision, and what they do to the record of a triage.
LEMMA TriageBegins ==
  ASSUME IInv, NEW r \in Runs, Choosing(r)
  PROVE  \E x :
           /\ esc' = [esc EXCEPT ![r] = x] /\ ai' = ai /\ incidents' = incidents
           /\ \/ x = esc[r] /\ run' = run /\ raising' \subseteq raising
              \/ /\ r \in raising /\ run' = run /\ raising' = raising \ {r} /\ x.pc = "triage"
                 /\ x.since = OpenRecently(x.app) /\ ~x.silenced
              \/ /\ esc[r].pc \in {"triage", "decide"} /\ run' = run /\ raising' = raising
                 /\ \/ x.pc \in {"call", "done"} /\ x.since = {}
                       /\ \/ x.silenced = esc[r].silenced
                          \/ esc[r].pc = "decide" /\ esc[r].clean
                    \/ /\ x.pc = "decide" /\ x.since = esc[r].since /\ x.app = esc[r].app
                       /\ x.silenced = esc[r].silenced
                       /\ x.clean => OpenRecently(x.app) = {}
<1> DEFINE e == esc[r]
<1>0. /\ e \in EscState /\ e.clean \in BOOLEAN /\ EscalationTypeOK /\ faults \in Nat
      /\ esc \in [Runs -> EscState] /\ esc = [esc EXCEPT ![r] = e]
  BY DEF IInv, TypeOK, PlotRunTypeOK, EscalationTypeOK, EscState
<1>1. CASE Escalate(r)
  <2> DEFINE x == Escalated(r)
  <2>1. /\ r \in raising /\ raising' = raising \ {r} /\ UNCHANGED <<run, tables, ai>>
        /\ esc' = [esc EXCEPT ![r] = x] \/ esc' = esc
    BY <1>1 DEF Escalate
  <2>2. x.pc = "triage" /\ x.since = OpenRecently(x.app) /\ ~x.silenced
    BY DEF Escalated, NoEsc
  <2> HIDE DEF x
  <2> QED
    BY <1>0, <2>1, <2>2 DEF tables
<1>2. CASE Immediate(r)
  <2> DEFINE x == [e EXCEPT !.pc = "call", !.critical = TRUE, !.since = {}]
  <2>1. /\ esc' = [esc EXCEPT ![r] = x] /\ e.pc = "triage" /\ UNCHANGED <<plotRun, tables, ai>>
    BY <1>2 DEF Immediate
  <2>2. x.pc = "call" /\ x.since = {} /\ x.silenced = e.silenced
    BY ONLY <1>0 DEF EscState
  <2> HIDE DEF x
  <2> QED
    BY <2>1, <2>2 DEF plotRun, tables
<1>3. CASE Several(r)
  <2>1. /\ esc' = [esc EXCEPT ![r] = Choice(e, FALSE)] /\ e.pc = "triage"
        /\ UNCHANGED <<plotRun, tables, ai>>
    BY <1>0, <1>3, Choices
  <2> DEFINE x == Choice(e, FALSE)
  <2>2. x.pc \in {"call", "done"} /\ x.since = {} /\ x.silenced = e.silenced
    <3>1. x.pc \in {"call", "done"} /\ x.since = {}
      BY <1>0, ChoiceFields
    <3>2. x.silenced = (FALSE \/ e.silenced) /\ e.silenced \in BOOLEAN
      BY <1>0, ChoiceFields DEF EscState
    <3> HIDE DEF x
    <3> QED
      BY <3>1, <3>2, ZenonT(30)
  <2> HIDE DEF x
  <2>3. esc' = [esc EXCEPT ![r] = x]
    BY <2>1 DEF x
  <2> QED
    BY <2>1, <2>2, <2>3 DEF plotRun, tables
<1>4. CASE AskLore(r)
  <2>1. PICK b \in BOOLEAN : /\ esc' = [esc EXCEPT ![r] = Asked(e, b)] /\ e.pc = "triage"
                             /\ UNCHANGED <<plotRun, tables, ai>>
                             /\ b => OpenRecently(e.app) = {}
    BY <1>0, <1>4, Choices
  <2> DEFINE x == Asked(e, b)
  <2>2. /\ x.pc = "decide" /\ x.since = e.since /\ x.app = e.app /\ x.silenced = e.silenced
        /\ x.clean = b
    BY <1>0, ChoiceFields
  <2> HIDE DEF x
  <2>3. esc' = [esc EXCEPT ![r] = x]
    BY <2>1 DEF x
  <2> QED
    BY <2>1, <2>2, <2>3 DEF plotRun, tables
<1>5. CASE Decide(r)
  <2> DEFINE x == Choice(e, e.clean)
  <2>1. /\ esc' = [esc EXCEPT ![r] = x] /\ e.pc = "decide" /\ UNCHANGED <<plotRun, tables, ai>>
    BY <1>0, <1>5, Choices
  <2>2. x.pc \in {"call", "done"} /\ x.since = {} /\ (x.silenced = e.silenced \/ e.clean)
    <3>1. x.pc \in {"call", "done"} /\ x.since = {}
      BY <1>0, ChoiceFields
    <3>2. x.silenced = (e.clean \/ e.silenced) /\ e.silenced \in BOOLEAN
      BY <1>0, ChoiceFields DEF EscState
    <3> HIDE DEF x
    <3>3. x.silenced = e.silenced \/ e.clean
      BY <1>0, <3>2, ZenonT(30)
    <3> QED
      BY <3>1, <3>3
  <2> HIDE DEF x
  <2> QED
    BY <2>1, <2>2 DEF plotRun, tables
<1> QED
  BY <1>1, <1>2, <1>3, <1>4, <1>5 DEF Choosing

\* One triage moves, and no run is escalated anew.
LEMMA OnceMoves ==
  ASSUME Once, NEW r \in Runs, NEW x, NEW a, esc \in [Runs -> EscState], ai \in [Runs -> AiState],
         esc' = [esc EXCEPT ![r] = x], ai' = [ai EXCEPT ![r] = a],
         run' = run, raising' \subseteq raising,
         \A q \in Runs \ {r} : Reporters(q)' = Reporters(q),
         ReportsOnce(x, a.pc, Reporters(r)'),
         r \in raising' => x.pc = "none", x.pc # "none" => run[r].pc = "done"
  PROVE  Once'
<1>1. esc'[r] = x /\ ai'[r] = a
  OBVIOUS
<1>2. \A q \in Runs \ {r} : esc'[q] = esc[q] /\ ai'[q] = ai[q]
  OBVIOUS
<1> QED
  BY <1>1, <1>2 DEF Once

LEMMA OnceKept ==
  ASSUME IInv, Once, [Next]_vars
  PROVE  Once'
<1>t. /\ LoreTypeOK /\ run \in [Runs -> RunState] /\ EscalationTypeOK
      /\ esc \in [Runs -> EscState] /\ ai \in [Runs -> AiState]
  BY DEF IInv, TypeOK, PlotRunTypeOK, EscalationTypeOK
<1>s. {"interactions", "ai-lien"} \subseteq Sources /\ \A q \in Runs : esc[q].app \in Apps
  BY <1>t DEF Sources, EscState
<1>e. /\ {"triage", "decide", "call"} \subseteq Early
      /\ {"done", "lost", "wait", "fallback", "notify", "incident"} \cap Early = {}
      /\ "none" \in Early
  BY DEF Early, Undecided
<1>1. ASSUME UNCHANGED <<run, raising, esc, ai>>, \A q \in Runs : Reporters(q)' = Reporters(q)
      PROVE  Once'
  BY <1>1 DEF Once
<1>2. ASSUME NEW r \in Runs, PlotTestNext(r), UNCHANGED <<tables, esc, page, ai>>
      PROVE  Once'
  <2>1. \A q \in Runs : Reporters(q)' = Reporters(q)
    BY <1>2, <1>t, ReportersMove DEF tables
  <2>2. ASSUME NEW q \in Runs
        PROVE  /\ ReportsOnce(esc[q], ai[q].pc, Reporters(q))
               /\ q \in raising' => esc[q].pc = "none"
               /\ esc[q].pc # "none" => run'[q].pc = "done"
    <3>1. /\ ReportsOnce(esc[q], ai[q].pc, Reporters(q))
          /\ q \in raising => esc[q].pc = "none"
          /\ esc[q].pc # "none" => run[q].pc = "done"
      BY DEF Once
    <3>2. run[q].pc = "done" => run'[q] = run[q]
      BY <1>2, <1>t, PlotTestRaises
    <3>3. q \in raising' => q \in raising \/ run[q].pc = "local"
      BY <1>2, PlotTestRaises
    <3> QED
      BY <3>1, <3>2, <3>3
  <2> QED
    BY <1>2, <2>1, <2>2 DEF Once
<1>3. ASSUME NEW r \in Runs, Triage(r)
      PROVE  Once'
  <2> DEFINE e == esc[r]
             by == Reporters(r)
  <2>0. /\ ReportsOnce(e, ai[r].pc, by)
        /\ r \in raising => e.pc = "none"
        /\ e.pc # "none" => run[r].pc = "done"
    BY DEF Once
  <2>1. UNCHANGED incidents => \A q \in Runs : Reporters(q)' = Reporters(q)
    BY <1>t, ReportersMove
  <2>2. CASE Choosing(r)
    <3>1. PICK x :
            /\ esc' = [esc EXCEPT ![r] = x] /\ ai' = ai /\ incidents' = incidents
            /\ run' = run
            /\ \/ x = e /\ raising' \subseteq raising
               \/ r \in raising /\ raising' = raising \ {r} /\ x.pc = "triage"
               \/ /\ e.pc \in {"triage", "decide"} /\ raising' = raising
                  /\ x.pc \in {"call", "done", "decide"}
      BY <2>2, TriageBegins
    <3>2. ai' = [ai EXCEPT ![r] = ai[r]]
      BY <1>t, <3>1
    <3>3. ReportsOnce(x, ai[r].pc, Reporters(r)')
      BY <1>e, <2>0, <2>1, <3>1 DEF ReportsOnce
    <3>4. r \in raising => run[r].pc = "done"
      BY DEF IInv, Pending
    <3>5. /\ r \in raising' => x.pc = "none"
          /\ x.pc # "none" => run[r].pc = "done"
      BY <2>0, <3>1, <3>4
    <3> QED
      BY <1>t, <2>1, <3>1, <3>2, <3>3, <3>5, OnceMoves
  <2>3. CASE ~Choosing(r)
    <3>1. PICK x, a :
           /\ esc' = [esc EXCEPT ![r] = x] /\ ai' = [ai EXCEPT ![r] = a]
           /\ run' = run /\ raising' = raising
           /\ \/ /\ x.pc = esc[r].pc /\ incidents' = incidents
                 /\ a = ai[r] \/ ai[r].pc # "idle"
              \/ /\ esc[r].pc = "call" /\ x.pc \notin Early
                 /\ incidents' = incidents
              \/ /\ esc[r].pc \in {"wait", "fallback", "notify"} /\ x.pc \notin Early
                 /\ incidents' = incidents
                 /\ a = ai[r] \/ ai[r].pc = "thinking"
              \/ /\ esc[r].pc = "incident" /\ x.pc = "done" /\ a = ai[r]
                 /\ incidents' = incidents \/ RecordIncident(r, esc[r].app, "interactions")
              \/ /\ ai[r].pc = "incident" /\ x.pc = esc[r].pc /\ a.pc = "idle"
                 /\ incidents' = incidents \/ RecordIncident(r, esc[r].app, "ai-lien")
      BY <1>3, <2>3, TriageGoesOn
    <3>2. /\ RecordIncident(r, e.app, "interactions") =>
               /\ Reporters(r)' = by \cup {"interactions"}
               /\ \A q \in Runs \ {r} : Reporters(q)' = Reporters(q)
          /\ RecordIncident(r, e.app, "ai-lien") =>
               /\ Reporters(r)' = by \cup {"ai-lien"}
               /\ \A q \in Runs \ {r} : Reporters(q)' = Reporters(q)
      BY <1>t, <1>s, ReportersMove
    <3>3. \A q \in Runs \ {r} : Reporters(q)' = Reporters(q)
      BY <2>1, <3>1, <3>2
    <3>4. ReportsOnce(x, a.pc, Reporters(r)')
      <4>1. CASE incidents' = incidents
        BY <1>e, <2>0, <2>1, <3>1, <4>1 DEF ReportsOnce
      <4>2. CASE RecordIncident(r, e.app, "interactions") /\ e.pc = "incident" /\ x.pc = "done" /\ a = ai[r]
        BY <1>e, <2>0, <3>2, <4>2 DEF ReportsOnce
      <4>3. CASE RecordIncident(r, e.app, "ai-lien") /\ ai[r].pc = "incident" /\ x.pc = e.pc /\ a.pc = "idle"
        BY <1>e, <2>0, <3>2, <4>3 DEF ReportsOnce
      <4> QED
        BY <3>1, <4>1, <4>2, <4>3
    <3>5. e.pc = "none" => x.pc = "none"
      BY <3>1
    <3> QED
      BY <1>t, <2>0, <3>1, <3>3, <3>4, <3>5, OnceMoves
  <2> QED
    BY <2>2, <2>3
<1>4. CASE LoreUser /\ UNCHANGED <<plotRun, faults, esc, page, ai>>
  BY <1>1, <1>4, <1>t, ReportersMove DEF plotRun
<1>5. CASE UNCHANGED vars
  BY <1>1, <1>5, <1>t, ReportersMove DEF vars, tables, plotRun
<1>6. CASE CrashPlotTest /\ UNCHANGED <<tables, esc, page, ai>>
  <2>1. \A q \in Runs : Reporters(q)' = Reporters(q)
    BY <1>6, <1>t, ReportersMove DEF tables
  <2>2. \A q \in Runs : run[q].pc = "done" => run'[q].pc = "done"
    BY <1>6 DEF CrashPlotTest, NoRun
  <2>3. raising' = {}
    BY <1>6 DEF CrashPlotTest
  <2> QED
    BY <1>6, <2>1, <2>2, <2>3 DEF Once
<1>7. CASE CrashInteractions
  <2>1. \A q \in Runs : Reporters(q)' = Reporters(q)
    BY <1>7, <1>t, ReportersMove DEF CrashInteractions, tables
  <2>2. \A q \in Runs : [esc[q] EXCEPT !.pc = "lost"].pc = "lost"
    BY <1>t DEF EscState
  <2>3. /\ \A q \in Runs : esc'[q] = esc[q] \/ (esc[q].pc # "none" /\ esc'[q].pc = "lost")
        /\ ai' = ai /\ run' = run /\ raising' = raising
    BY <1>7, <2>2 DEF CrashInteractions, plotRun
  <2> SUFFICES ASSUME NEW q \in Runs
               PROVE  /\ ReportsOnce(esc'[q], ai[q].pc, Reporters(q))
                      /\ q \in raising => esc'[q].pc = "none"
                      /\ esc'[q].pc # "none" => run[q].pc = "done"
    BY <2>1, <2>3 DEF Once
  <2>4. /\ ReportsOnce(esc[q], ai[q].pc, Reporters(q))
        /\ q \in raising => esc[q].pc = "none"
        /\ esc[q].pc # "none" => run[q].pc = "done"
    BY DEF Once
  <2>5. CASE esc'[q] = esc[q]
    BY <2>4, <2>5
  <2>6. CASE esc[q].pc # "none" /\ esc'[q].pc = "lost"
    BY <1>e, <2>4, <2>6 DEF ReportsOnce
  <2> QED
    BY <2>3, <2>5, <2>6
<1> QED
  BY <1>2, <1>3, <1>4, <1>5, <1>6, <1>7 DEF Next

\* An incident that is in the table stays there, and is not open and recent again.
LEMMA NotReopened ==
  ASSUME IInv, Once, [Next]_vars, NEW i, Known(i)
  PROVE  /\ Known(i)'
         /\ i \in incidents' /\ i.status = "open" /\ i.recent => i \in incidents
<1>t. LoreTypeOK /\ esc \in [Runs -> EscState]
  BY DEF IInv, TypeOK, EscalationTypeOK
<1>1. ASSUME incidents' = incidents
      PROVE  Known(i)' /\ (i \in incidents' => i \in incidents)
  BY <1>1 DEF Known
\* A record is written that is not the one of i.
<1>2. ASSUME NEW n, incidents' = incidents \cup {n}, i # n
      PROVE  Known(i)' /\ (i \in incidents' => i \in incidents)
  BY <1>2 DEF Known
<1>3. ASSUME NEW r \in Runs, NEW src \in {"interactions", "ai-lien"}, src \notin Reporters(r),
             RecordIncident(r, esc[r].app, src)
      PROVE  Known(i)' /\ (i \in incidents' => i \in incidents)
  <2> DEFINE n == [run |-> r, app |-> esc[r].app, source |-> src, status |-> "open", recent |-> TRUE]
  <2>1. incidents' = incidents \cup {n} /\ n.run = r /\ n.source = src
    BY <1>3 DEF RecordIncident
  <2> HIDE DEF n
  <2>2. i # n
    <3> SUFFICES ASSUME i = n PROVE FALSE
      OBVIOUS
    <3>1. PICK j \in incidents : j.run = r /\ j.source = src
      BY <2>1 DEF Known
    <3> QED
      BY <1>3, <3>1 DEF Reporters
  <2> QED
    BY <1>2, <2>1, <2>2
<1>4. ASSUME NEW r \in Runs, Triage(r)
      PROVE  Known(i)' /\ (i \in incidents' => i \in incidents)
  <2>1. ReportsOnce(esc[r], ai[r].pc, Reporters(r))
    BY DEF Once
  <2>2. \/ incidents' = incidents
        \/ esc[r].pc = "incident" /\ RecordIncident(r, esc[r].app, "interactions")
        \/ ai[r].pc = "incident" /\ RecordIncident(r, esc[r].app, "ai-lien")
    <3>1. CASE Choosing(r)
      BY <3>1, TriageBegins
    <3>2. CASE ~Choosing(r)
      BY <1>4, <3>2, TriageGoesOn
    <3> QED
      BY <3>1, <3>2
  <2> QED
    BY <1>1, <1>3, <2>1, <2>2 DEF ReportsOnce
<1>5. ASSUME NEW a \in Apps, ReportIncident(a)
      PROVE  Known(i)' /\ (i \in incidents' => i \in incidents)
  <2> DEFINE n == [run |-> Earlier, app |-> a, source |-> "results", status |-> "open",
                   recent |-> TRUE]
  <2>1. /\ incidents' = incidents \cup {n} /\ n.run = Earlier /\ n.app = a /\ n.source = "results"
        /\ \A j \in incidents : ~(j.run = Earlier /\ j.app = a /\ j.source = "results")
    BY <1>5 DEF ReportIncident, RecordIncident
  <2> HIDE DEF n
  <2>2. i # n
    BY <2>1 DEF Known
  <2> QED
    BY <1>2, <2>1, <2>2
<1>6. CASE Resolve
  <2>1. PICK k \in incidents :
          incidents' = (incidents \ {k}) \cup {[k EXCEPT !.status = "resolved"]}
    BY <1>6 DEF Resolve
  <2> DEFINE n == [k EXCEPT !.status = "resolved"]
  <2>2. n.run = k.run /\ n.app = k.app /\ n.source = k.source /\ n.status = "resolved"
    BY <1>t DEF LoreTypeOK, Incident
  <2>3. incidents' = (incidents \ {k}) \cup {n}
    BY <2>1
  <2> HIDE DEF n
  <2> QED
    BY <2>2, <2>3 DEF Known
<1>7. CASE WeekPasses
  <2> DEFINE n(k) == [k EXCEPT !.recent = FALSE]
  <2>1. incidents' = {n(k) : k \in incidents}
    BY <1>7 DEF WeekPasses
  <2>2. \A k \in incidents : /\ n(k).run = k.run /\ n(k).app = k.app /\ n(k).source = k.source
                             /\ ~n(k).recent
    BY <1>t DEF LoreTypeOK, Incident
  <2> HIDE DEF n
  <2> QED
    BY <2>1, <2>2 DEF Known
<1>8. ASSUME NEW a \in Apps, PutBaseline(a) \/ AddPattern(a)
      PROVE  incidents' = incidents
  BY <1>8 DEF PutBaseline, AddPattern
<1>9. \/ incidents' = incidents \/ Resolve \/ WeekPasses
      \/ \E r \in Runs : Triage(r)
      \/ \E a \in Apps : ReportIncident(a)
  BY <1>8, EscalationAssumption DEF Next, LoreUser, CrashInteractions, vars, tables
<1> QED
  BY <1>1, <1>4, <1>5, <1>6, <1>7, <1>9

LEMMA RememberedKept ==
  ASSUME IInv, Once, Remembered, [Next]_vars
  PROVE  Remembered'
<1>t. LoreTypeOK /\ esc \in [Runs -> EscState]
  BY DEF IInv, TypeOK, EscalationTypeOK
<1> SUFFICES ASSUME NEW r \in Runs
             PROVE  Remembers(r)'
  BY DEF Remembered
<1>0. Remembers(r)
  BY DEF Remembered
<1>1. \A a : OpenRecently(a)' \cap esc[r].since \subseteq OpenRecently(a)
  BY <1>0, NotReopened DEF Remembers, OpenRecently
<1>2. \A i \in esc[r].since : Known(i)'
  BY <1>0, NotReopened DEF Remembers
\* The record of the triage is kept, or no longer waits for a decision.
<1>3. ASSUME esc'[r].since = esc[r].since,
             esc'[r].pc = "decide" =>
               esc[r].pc = "decide" /\ esc'[r].clean = esc[r].clean /\ esc'[r].app = esc[r].app
      PROVE  Remembers(r)'
  BY <1>0, <1>1, <1>2, <1>3 DEF Remembers
<1>4. ASSUME NEW q \in Runs, Triage(q), ~Choosing(q)
      PROVE  Remembers(r)'
  <2>1. PICK x : esc' = [esc EXCEPT ![q] = x] /\ Same(x, esc[q])
    BY <1>4, TriageGoesOn
  <2> QED
    BY <1>3, <1>t, <2>1 DEF Same
<1>5. ASSUME NEW q \in Runs, Choosing(q)
      PROVE  Remembers(r)'
  <2>1. PICK x :
           /\ esc' = [esc EXCEPT ![q] = x] /\ incidents' = incidents
           /\ \/ x = esc[q]
              \/ x.pc = "triage" /\ x.since = OpenRecently(x.app)
              \/ x.pc \in {"call", "done"} /\ x.since = {}
              \/ /\ x.pc = "decide" /\ x.since = esc[q].since /\ x.app = esc[q].app
                 /\ x.clean => OpenRecently(x.app) = {}
    BY <1>5, TriageBegins
  <2>2. CASE q # r
    BY <1>3, <1>t, <2>1, <2>2
  <2>3. CASE q = r /\ x = esc[r]
    BY <1>3, <1>t, <2>1, <2>3
  <2>4. CASE q = r /\ x # esc[r]
    <3>1. esc'[r] = x /\ \A a : OpenRecently(a)' = OpenRecently(a)
      BY <1>t, <2>1, <2>4 DEF OpenRecently
    <3>2. \A a : \A i \in OpenRecently(a) : i \in incidents'
      BY <2>1 DEF OpenRecently
    <3>3. \A i \in incidents' : Known(i)'
      BY DEF Known
    <3> QED
      BY <1>2, <2>1, <2>4, <3>1, <3>2, <3>3 DEF Remembers
  <2> QED
    BY <2>2, <2>3, <2>4
<1>6. CASE CrashInteractions
  <2>1. LET y == [esc[r] EXCEPT !.pc = "lost"] IN y.pc = "lost" /\ y.since = esc[r].since
    BY <1>t DEF EscState
  <2>2. esc'[r] = esc[r] \/ esc'[r] = [esc[r] EXCEPT !.pc = "lost"]
    BY <1>6 DEF CrashInteractions
  <2> QED
    BY <1>3, <2>1, <2>2
<1>7. CASE UNCHANGED esc
  BY <1>3, <1>7
<1> QED
  BY <1>4, <1>5, <1>6, <1>7 DEF Next, vars

\* A failure is silenced on what Lore answered, and never over an incident of before its
\* escalation that is still open (triageEscalation and hasCleanLoreHistory).
THEOREM SilenceIsAlwaysClean == Spec => SilenceIsClean
<1> DEFINE Clean == \A r \in Runs : esc'[r].silenced /\ ~esc[r].silenced
                                     => esc[r].since \cap OpenRecently(esc[r].app) = {}
<1>1. IInv /\ Remembered /\ [Next]_vars => [Clean]_vars
  <2> SUFFICES ASSUME IInv, Remembered, Next, NEW r \in Runs, esc'[r].silenced, ~esc[r].silenced
               PROVE  esc[r].since \cap OpenRecently(esc[r].app) = {}
    OBVIOUS
  <2>0. esc \in [Runs -> EscState] /\ esc[r] \in EscState
    BY DEF IInv, TypeOK, EscalationTypeOK
  <2>1. ~CrashInteractions
    <3>1. CrashInteractions => esc'[r] = esc[r] \/ esc'[r] = [esc[r] EXCEPT !.pc = "lost"]
      BY DEF CrashInteractions
    <3>2. [esc[r] EXCEPT !.pc = "lost"].silenced = esc[r].silenced
      BY <2>0 DEF EscState
    <3> QED
      BY <3>1, <3>2
  <2>2. PICK q \in Runs : Triage(q)
    BY <2>1 DEF Next
  <2>3. CASE ~Choosing(q)
    <3>1. PICK x : esc' = [esc EXCEPT ![q] = x] /\ Same(x, esc[q])
      BY <2>2, <2>3, TriageGoesOn
    <3> QED
      BY <2>0, <3>1 DEF Same
  <2>4. CASE Choosing(q)
    <3>1. PICK x :
             /\ esc' = [esc EXCEPT ![q] = x]
             /\ \/ x = esc[q] \/ ~x.silenced \/ x.silenced = esc[q].silenced
                \/ esc[q].pc = "decide" /\ esc[q].clean
      BY <2>4, TriageBegins
    <3>2. q = r /\ esc[r].pc = "decide" /\ esc[r].clean
      BY <2>0, <3>1
    <3> QED
      BY <3>2 DEF Remembered, Remembers
  <2> QED
    BY <2>3, <2>4
<1>2. Init => Once /\ Remembered
  <2> SUFFICES ASSUME Init, NEW r \in Runs
               PROVE  /\ ReportsOnce(esc[r], ai[r].pc, Reporters(r)) /\ Remembers(r)
                      /\ r \in raising => esc[r].pc = "none"
                      /\ esc[r].pc # "none" => run[r].pc = "done"
    BY DEF Once, Remembered
  <2>1. esc[r] = NoEsc /\ ai[r].pc = "idle"
    BY DEF Init
  <2>2. Reporters(r) = {}
    BY EscalationAssumption DEF Init, LoreInit, Reporters
  <2> QED
    BY <2>1, <2>2 DEF ReportsOnce, Remembers, NoEsc
<1>3. IInv /\ Once /\ [Next]_vars => Once'
  BY OnceKept
<1>4. IInv /\ Once /\ Remembered /\ [Next]_vars => Remembered'
  BY RememberedKept
<1> QED
  BY <1>1, <1>2, <1>3, <1>4, Invariance, PTL DEF Spec, SilenceIsClean
=============================================================================
