------------------------------ MODULE PlotRun ------------------------------
(***************************************************************************)
(* plot-test (plot-test/main.go): runs the steps of a plot against an       *)
(* application's gateway, hands a remote application's plot to its own      *)
(* Augur Canis, or runs it itself with a token of connie-agent, and reports *)
(* the run to Results.  A step's request is known by its outcome.           *)
(***************************************************************************)
EXTENDS Integers, FiniteSets

CONSTANTS
  Runs,      \* identifiers of runs
  Apps,      \* applications
  Self,      \* "seti"
  Plots,     \* plots of Plot Store: execution mode and number of steps
  MaxFaults  \* bound on lost calls and crashes

\* stepMaxAttempts
MaxAttempts == 3

\* The execution modes of a plot: no mode is "internal", and Plot Store refuses no other text.
Modes == {"internal", "external", "other"}

Plot == [mode : Modes, steps : Nat]

ASSUME PlotRunAssumption == Self \in Apps /\ Plots \subseteq Plot /\ MaxFaults \in Nat

VARIABLES
  run,       \* per run: the record in runs, and where its goroutine is
  earned,    \* history: per run, how many steps' last answer had the expected status; of
             \* a run that failed, 0
  reached,   \* history: while a run executes, how many of its requests reached the application
  results,   \* plot results in Results: per run its status, "none" when not stored
  posting,   \* runs whose goroutine has still to store them in Results
  raising,   \* runs whose goroutine has still to escalate them to Interactions
  faults

plotRun == <<run, earned, reached, results, posting, raising>>

Status == {"none", "running", "passed", "failed", "error"}

RunState == [pc : {"none", "load", "local", "remote", "token", "external", "post", "done"},
             app : Apps, mode : Modes, status : Status, total : Nat,
             passed : Nat, failed : Nat, attempt : 1 .. MaxAttempts]

NoRun == [pc |-> "none", app |-> Self, mode |-> "internal", status |-> "none", total |-> 0,
          passed |-> 0, failed |-> 0, attempt |-> 1]

PlotRunTypeOK ==
  /\ run \in [Runs -> RunState]
  /\ earned \in [Runs -> Nat]
  /\ reached \in [Runs -> Nat]
  /\ results \in [Runs -> Status]
  /\ posting \subseteq Runs
  /\ raising \subseteq Runs
  /\ faults \in Nat

PlotRunInit ==
  /\ run = [r \in Runs |-> NoRun]
  /\ earned = [r \in Runs |-> 0]
  /\ reached = [r \in Runs |-> 0]
  /\ results = [r \in Runs |-> "none"]
  /\ posting = {}
  /\ raising = {}
  /\ faults = 0

\* A call that fails, or a crash.
Fault == faults < MaxFaults /\ faults' = faults + 1

history == <<earned, reached>>
reports == <<results, posting, raising>>

-----------------------------------------------------------------------------
\* POST /run: answered at once, executeRun goes on in a goroutine.
Run(r, a) ==
  /\ run[r].pc = "none"
  /\ run' = [run EXCEPT ![r] = [NoRun EXCEPT !.pc = "load", !.app = a, !.status = "running"]]
  /\ UNCHANGED <<history, reports, faults>>

\* The plot decides where its steps are executed; in a mode that no case names, here.
Route(a, mode) == IF a = Self \/ mode = "other" THEN "local"
                  ELSE IF mode = "internal" THEN "remote" ELSE "token"

Load(r) ==
  /\ run[r].pc = "load"
  /\ \E p \in Plots :
       run' = [run EXCEPT ![r] = [@ EXCEPT !.pc = Route(run[r].app, p.mode), !.mode = p.mode,
                                           !.total = p.steps]]
  /\ UNCHANGED <<history, reports, faults>>

\* Plot Store does not have the plot: such a run is not sent to Results.
LoadFails(r) ==
  /\ Fault
  /\ run[r].pc = "load"
  /\ run' = [run EXCEPT ![r] = [@ EXCEPT !.pc = "done", !.status = "error"]]
  /\ UNCHANGED <<history, reports>>

\* The remote Augur Canis has executed the plot, and its status and counts, of no more steps
\* than the plot has, are taken over as they are.
RemoteAnswers(r) ==
  /\ run[r].pc = "remote"
  /\ \E p, f \in 0 .. run[r].total, s \in {"passed", "failed", "error"} :
       /\ p + f <= run[r].total
       /\ run' = [run EXCEPT ![r] = [@ EXCEPT !.pc = "post", !.status = s, !.passed = p,
                                               !.failed = f]]
  /\ UNCHANGED <<history, reports, faults>>

\* No answer of the remote Augur Canis, no token, or no gateway.
RemoteFails(r) ==
  /\ Fault
  /\ run[r].pc \in {"remote", "token"}
  /\ run' = [run EXCEPT ![r] = [@ EXCEPT !.pc = "post", !.status = "error"]]
  /\ UNCHANGED <<history, reports>>

\* connie-agent has obtained a token of the remote application.
Token(r) ==
  /\ run[r].pc = "token"
  /\ run' = [run EXCEPT ![r].pc = "external"]
  /\ UNCHANGED <<history, reports, faults>>

-----------------------------------------------------------------------------
\* The outcomes of a request: the expected status or another, below 500 (or 501) or not;
\* or no status, whether or not the request reached the application.
Outcomes == {"expected", "other", "expected5xx", "other5xx", "lost", "unanswered"}
Reached(o) == o # "lost"
StatusMatches(o) == o \in {"expected", "expected5xx"}
IsRetryable(o) == o \notin {"expected", "other"}

Step(r) == run[r].passed + run[r].failed + 1
Executing(r) == \/ run[r].pc = "local" /\ Step(r) <= run[r].total
                \/ run[r].pc = "external" /\ Step(r) <= run[r].total /\ run[r].failed = 0

\* The step is over: it is counted, and the next one starts with its first attempt.
StepResult(r, pass) ==
  \/ pass /\ run' = [run EXCEPT ![r] = [@ EXCEPT !.attempt = 1, !.passed = run[r].passed + 1]]
  \/ ~pass /\ run' = [run EXCEPT ![r] = [@ EXCEPT !.attempt = 1, !.failed = run[r].failed + 1]]

\* The request of an attempt reaches the application, or it does not.
Send(r, o) == reached' = IF Reached(o) THEN [reached EXCEPT ![r] = @ + 1] ELSE reached

LastAttempt(r) == run[r].attempt >= MaxAttempts

\* executeStepWithRetry: an attempt whose outcome may be transient is made again.
Retry(r, o) ==
  /\ run[r].pc = "local" /\ Executing(r)
  /\ IsRetryable(o) /\ ~LastAttempt(r)
  /\ run' = [run EXCEPT ![r].attempt = @ + 1]
  /\ Send(r, o)
  /\ UNCHANGED <<earned, reports, faults>>

\* Mutant of StepPasses: exhausted attempts count as an answer.
StepPassesAnyway(r, o) == StatusMatches(o) \/ IsRetryable(o)

\* On the local path a step whose attempts are exhausted fails, whatever it was answered.
StepPasses(r, o) == StatusMatches(o) /\ (run[r].pc = "local" => ~IsRetryable(o))

\* The attempt that decides the step; a remote gateway is asked once.
StepEnds(r, o) ==
  /\ Executing(r)
  /\ run[r].pc = "local" => ~IsRetryable(o) \/ LastAttempt(r)
  /\ StepResult(r, StepPasses(r, o))
  /\ earned' = IF StatusMatches(o) THEN [earned EXCEPT ![r] = @ + 1] ELSE earned
  /\ Send(r, o)
  /\ UNCHANGED <<reports, faults>>

\* A local run is over after its last step, one against a remote gateway with its first
\* failure.
Over(r) == run[r].pc \in {"local", "external"} /\ ~Executing(r)

Verdict(r) == IF run[r].failed > 0 THEN "failed" ELSE "passed"

\* Only a local run is escalated, and only when a step of it has failed.
Complete(r) ==
  /\ Over(r)
  /\ IF run[r].pc = "local"
       THEN /\ run' = [run EXCEPT ![r] = [@ EXCEPT !.pc = "done", !.status = Verdict(r)]]
            /\ posting' = posting \cup {r}
            /\ raising' = IF run[r].failed > 0 THEN raising \cup {r} ELSE raising
       ELSE /\ run' = [run EXCEPT ![r] = [@ EXCEPT !.pc = "post", !.status = Verdict(r)]]
            /\ UNCHANGED <<posting, raising>>
  /\ reached' = [reached EXCEPT ![r] = 0]
  /\ earned' = IF run[r].failed > 0 THEN [earned EXCEPT ![r] = 0] ELSE earned
  /\ UNCHANGED <<results, faults>>

-----------------------------------------------------------------------------
\* POST /plot-results of a remote run, in its own goroutine; a failure is not tried again.
PostRemote(r) ==
  /\ run[r].pc = "post"
  /\ run' = [run EXCEPT ![r].pc = "done"]
  /\ \/ results' = [results EXCEPT ![r] = run[r].status] /\ UNCHANGED faults
     \/ Fault /\ UNCHANGED results
  /\ UNCHANGED <<history, posting, raising>>

\* The same of a local run, in a goroutine of its own.
PostLocal(r) ==
  /\ r \in posting
  /\ posting' = posting \ {r}
  /\ \/ results' = [results EXCEPT ![r] = run[r].status] /\ UNCHANGED faults
     \/ Fault /\ UNCHANGED results
  /\ UNCHANGED <<run, history, raising>>

\* runs is in memory, and so is everything a goroutine was about to do.
CrashPlotTest ==
  /\ Fault
  /\ run' = [r \in Runs |-> IF run[r].pc = "none" THEN run[r]
                            ELSE [NoRun EXCEPT !.pc = "done"]]
  /\ reached' = [r \in Runs |-> 0]
  /\ posting' = {} /\ raising' = {}
  /\ UNCHANGED <<earned, results>>

PlotTestNext(r) ==
  \/ \E a \in Apps : Run(r, a)
  \/ Load(r) \/ LoadFails(r) \/ RemoteAnswers(r) \/ RemoteFails(r) \/ Token(r)
  \/ \E o \in Outcomes : Retry(r, o) \/ StepEnds(r, o)
  \/ Complete(r) \/ PostRemote(r) \/ PostLocal(r)
=============================================================================
