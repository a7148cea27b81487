----------------------------- MODULE Escalation -----------------------------
(***************************************************************************)
(* What becomes of a failed plot run: plot-test escalates it to            *)
(* Interactions (interactions/main.go), which triages it in a goroutine    *)
(* along one of three paths, with Notifier (notifier/main.go), AI-lien     *)
(* (ai-lien/main.py) and Lore.  Interactions waits at most 30 s for        *)
(* AI-lien, which goes on with an analysis nobody waits for and writes its *)
(* own records to Lore.                                                    *)
(***************************************************************************)
EXTENDS PlotRun

CONSTANTS
  Earlier,   \* stands for the runs before the initial state
  Written,   \* bound: the applications that users of Lore's API write about
  MaxEdits   \* bound on what users of Lore's API write

ASSUME EscalationAssumption ==
  Earlier \notin Runs /\ Written \subseteq Apps /\ MaxEdits \in Nat

VARIABLES
  incidents, trendPoints, baselines, patterns, edits,   \* the tables of Lore
  esc,   \* per run: the goroutine of triageEscalation
  page,  \* per run: the call of Notifier on Path 1, in a goroutine of its own
  ai     \* per run: the handler of AI-lien, then its thread that writes to Lore

INSTANCE Lore

tables == <<incidents, trendPoints, baselines, patterns, edits>>
vars == <<plotRun, faults, tables, esc, page, ai>>

\* clean: what hasCleanLoreHistory has returned; since: history, the open incidents about the
\* application when the run was escalated, until its triage has decided; silenced: Path 3;
\* accepted: answers of Notifier with 202.
EscState == [pc : {"none", "triage", "decide", "call", "wait", "notify", "incident", "fallback",
                   "done", "lost"},
             app : Apps, failed : Nat, total : Nat, clean : BOOLEAN, since : SUBSET Incident,
             critical : BOOLEAN, silenced : BOOLEAN, accepted : Nat, assessed : BOOLEAN]

NoEsc == [pc |-> "none", app |-> Self, failed |-> 0, total |-> 0, clean |-> FALSE, since |-> {},
          critical |-> FALSE, silenced |-> FALSE, accepted |-> 0, assessed |-> FALSE]

\* What the analysis says: no JSON object, nothing alarming (or no valid JSON), severity high
\* or critical, or escalate_to_wr4ngler.
Verdicts == {"null", "calm", "severe", "grave"}

AiState == [pc : {"idle", "thinking", "trend", "incident"}, verdict : Verdicts]

EscalationTypeOK ==
  /\ esc \in [Runs -> EscState]
  /\ page \in [Runs -> {"no", "due", "over"}]
  /\ ai \in [Runs -> AiState]

TypeOK == PlotRunTypeOK /\ LoreTypeOK /\ EscalationTypeOK

Init ==
  /\ PlotRunInit /\ LoreInit
  /\ esc = [r \in Runs |-> NoEsc]
  /\ page = [r \in Runs |-> "no"]
  /\ ai = [r \in Runs |-> [pc |-> "idle", verdict |-> "null"]]

-----------------------------------------------------------------------------
Escalated(r) ==
  [NoEsc EXCEPT !.pc = "triage", !.app = run[r].app, !.failed = run[r].failed,
                !.total = run[r].total, !.since = OpenRecently(run[r].app)]

\* POST /escalate, from a goroutine of plot-test: answered 202, triage goes on; or lost.
Escalate(r) ==
  /\ r \in raising
  /\ raising' = raising \ {r}
  /\ \/ esc' = [esc EXCEPT ![r] = Escalated(r)] /\ UNCHANGED faults
     \/ Fault /\ UNCHANGED esc
  /\ UNCHANGED <<run, history, results, posting, tables, page, ai>>

\* failureRate >= criticalFailureThreshold; no test at all is a rate of 0.
IsCritical(e) == e.total > 0 /\ 2 * e.failed >= e.total

\* Path 1: Notifier and AI-lien are called in parallel.
Immediate(r) ==
  /\ esc[r].pc = "triage" /\ IsCritical(esc[r])
  /\ esc' = [esc EXCEPT ![r] = [@ EXCEPT !.pc = "call", !.critical = TRUE, !.since = {}]]
  /\ page' = [page EXCEPT ![r] = "due"]
  /\ UNCHANGED <<plotRun, faults, tables, ai>>

\* Mutant of CleanHistory: a query that fails counts as a clean history.
CleanUnlessOpen(a, answered) == ~answered \/ OpenRecently(a) = {}

\* hasCleanLoreHistory: a query that fails is not a clean history.
CleanHistory(a, answered) == answered /\ OpenRecently(a) = {}

\* Path 2: more than one failed test is never silenced.
Several(r) ==
  /\ esc[r].pc = "triage" /\ ~IsCritical(esc[r]) /\ esc[r].failed # 1
  /\ esc' = [esc EXCEPT ![r] = [@ EXCEPT !.pc = "call", !.since = {}]]
  /\ UNCHANGED <<plotRun, faults, tables, page, ai>>

\* A single failure: Lore is asked, and answers with what it holds then.
AskLore(r) ==
  /\ esc[r].pc = "triage" /\ ~IsCritical(esc[r]) /\ esc[r].failed = 1
  /\ \E answered \in BOOLEAN :
       /\ IF answered THEN UNCHANGED faults ELSE Fault
       /\ esc' = [esc EXCEPT ![r] = [@ EXCEPT !.pc = "decide",
                                               !.clean = CleanHistory(esc[r].app, answered)]]
  /\ UNCHANGED <<plotRun, tables, page, ai>>

\* Path 3 or Path 2, on that answer, whatever has been recorded since.
Decide(r) ==
  /\ esc[r].pc = "decide"
  /\ esc' = [esc EXCEPT ![r] = IF @.clean
                                  THEN [@ EXCEPT !.pc = "done", !.silenced = TRUE, !.since = {}]
                                  ELSE [@ EXCEPT !.pc = "call", !.since = {}]]
  /\ UNCHANGED <<plotRun, faults, tables, page, ai>>

\* POST /notify on Path 1, with a prompt that is always short enough: 202, or no answer.
\* Interactions tries neither call of Notifier again.
Page(r) ==
  /\ page[r] = "due"
  /\ page' = [page EXCEPT ![r] = "over"]
  /\ \/ esc' = [esc EXCEPT ![r].accepted = @ + 1] /\ UNCHANGED faults
     \/ Fault /\ UNCHANGED esc
  /\ UNCHANGED <<plotRun, tables, ai>>

-----------------------------------------------------------------------------
\* POST /analyze, with what Results and Lore know if they answer; or AI-lien is not there.
CallAILien(r) ==
  /\ esc[r].pc = "call"
  /\ \/ /\ esc' = [esc EXCEPT ![r].pc = "wait"]
        /\ ai' = [ai EXCEPT ![r].pc = "thinking"]
        /\ UNCHANGED faults
     \/ Fault /\ esc' = [esc EXCEPT ![r].pc = "fallback"] /\ UNCHANGED ai
  /\ UNCHANGED <<plotRun, tables, page>>

\* Where an assessment takes callAILien: a critical failure is not paged a second time.
Assessed(e, verdict) ==
  IF verdict = "null" THEN [e EXCEPT !.pc = "done"]
  ELSE [e EXCEPT !.pc = IF verdict = "grave" /\ ~e.critical THEN "notify" ELSE "incident",
                 !.assessed = TRUE]

\* AI-lien answers 200, if Interactions still waits; its thread has the assessment to write.
Analyzed(r) ==
  /\ ai[r].pc = "thinking"
  /\ \E v \in Verdicts :
       /\ ai' = [ai EXCEPT ![r] = [pc |-> IF v = "null" THEN "idle" ELSE "trend", verdict |-> v]]
       /\ esc' = IF esc[r].pc = "wait" THEN [esc EXCEPT ![r] = Assessed(@, v)] ELSE esc
  /\ UNCHANGED <<plotRun, faults, tables, page>>

\* No active provider, or one that fails: AI-lien answers 503.
AnalysisFails(r) ==
  /\ ai[r].pc = "thinking"
  /\ ai' = [ai EXCEPT ![r].pc = "idle"]
  /\ esc' = IF esc[r].pc = "wait" THEN [esc EXCEPT ![r].pc = "fallback"] ELSE esc
  /\ UNCHANGED <<plotRun, faults, tables, page>>

\* Mutant of TimesOut: a client without a timeout, as plot-test's own.
NeverTimesOut(r) == FALSE /\ esc[r].pc = "wait" /\ UNCHANGED vars

\* The timeout of upstreamClient, 30 s; the two calls of the provider may take 120 s each.
TimesOut(r) ==
  /\ esc[r].pc = "wait"
  /\ esc' = [esc EXCEPT ![r].pc = "fallback"]
  /\ UNCHANGED <<plotRun, faults, tables, page, ai>>

\* The fallback trend point, in the name of "interactions".
Fallback(r) ==
  /\ esc[r].pc = "fallback"
  /\ esc' = [esc EXCEPT ![r].pc = "done"]
  /\ RecordTrendPoint(r, esc[r].app, "interactions")
  /\ UNCHANGED <<plotRun, faults, incidents, baselines, patterns, edits, page, ai>>

\* POST /notify on Path 2: the prompt quotes the root cause, and above 500 characters it is
\* refused with 400, which counts as fired.
NotifyOnAdvice(r) ==
  /\ esc[r].pc = "notify"
  /\ \/ \E n \in {0, 1} :
          /\ esc' = [esc EXCEPT ![r] = [@ EXCEPT !.pc = "incident", !.accepted = esc[r].accepted + n]]
          /\ UNCHANGED faults
     \/ Fault /\ esc' = [esc EXCEPT ![r].pc = "incident"]
  /\ UNCHANGED <<plotRun, tables, page, ai>>

\* Mutant of WriteIncident: only what was not critical is written.
WriteUnlessCritical(r) ==
  /\ esc[r].pc = "incident"
  /\ esc' = [esc EXCEPT ![r].pc = "done"]
  /\ IF esc[r].critical THEN UNCHANGED incidents
                         ELSE RecordIncident(r, esc[r].app, "interactions")
  /\ UNCHANGED <<plotRun, faults, trendPoints, baselines, patterns, edits, page, ai>>

\* POST /incidents after an assessment; a write that fails is not tried again.
WriteIncident(r) ==
  /\ esc[r].pc = "incident"
  /\ esc' = [esc EXCEPT ![r].pc = "done"]
  /\ \/ RecordIncident(r, esc[r].app, "interactions") /\ UNCHANGED faults
     \/ Fault /\ UNCHANGED incidents
  /\ UNCHANGED <<plotRun, trendPoints, baselines, patterns, edits, page, ai>>

\* _write_to_lore of AI-lien: a trend point for every assessment, then an incident when it
\* is severe.
AiWritesTrend(r) ==
  /\ ai[r].pc = "trend"
  /\ ai' = [ai EXCEPT ![r].pc = IF ai[r].verdict = "calm" THEN "idle" ELSE "incident"]
  /\ \/ RecordTrendPoint(r, esc[r].app, "ai-lien") /\ UNCHANGED faults
     \/ Fault /\ UNCHANGED trendPoints
  /\ UNCHANGED <<plotRun, incidents, baselines, patterns, edits, esc, page>>

AiWritesIncident(r) ==
  /\ ai[r].pc = "incident"
  /\ ai' = [ai EXCEPT ![r].pc = "idle"]
  /\ \/ RecordIncident(r, esc[r].app, "ai-lien") /\ UNCHANGED faults
     \/ Fault /\ UNCHANGED incidents
  /\ UNCHANGED <<plotRun, trendPoints, baselines, patterns, edits, esc, page>>

\* A triage that was accepted is in memory only.
CrashInteractions ==
  /\ Fault
  /\ esc' = [r \in Runs |-> IF esc[r].pc = "none" \/ (esc[r].pc = "done" /\ page[r] # "due")
                               THEN esc[r] ELSE [esc[r] EXCEPT !.pc = "lost"]]
  /\ page' = [r \in Runs |-> IF page[r] = "due" THEN "over" ELSE page[r]]
  /\ UNCHANGED <<plotRun, tables, ai>>

-----------------------------------------------------------------------------
Triage(r) == Escalate(r) \/ Immediate(r) \/ Several(r) \/ AskLore(r) \/ Decide(r) \/ Page(r)
             \/ CallAILien(r) \/ Analyzed(r) \/ AnalysisFails(r) \/ TimesOut(r) \/ Fallback(r)
             \/ NotifyOnAdvice(r) \/ WriteIncident(r) \/ AiWritesTrend(r) \/ AiWritesIncident(r)

LoreUser ==
  \/ Resolve \/ WeekPasses
  \/ \E a \in Written : PutBaseline(a) \/ AddPattern(a) \/ ReportIncident(a)

Next ==
  \/ \E r \in Runs : PlotTestNext(r) /\ UNCHANGED <<tables, esc, page, ai>>
  \/ \E r \in Runs : Triage(r)
  \/ CrashPlotTest /\ UNCHANGED <<tables, esc, page, ai>>
  \/ CrashInteractions
  \/ LoreUser /\ UNCHANGED <<plotRun, faults, esc, page, ai>>

Spec == Init /\ [][Next]_vars

\* Goroutines are scheduled and calls are answered or fail; nothing obliges a plot to be run.
FairSpec ==
  /\ Spec
  /\ \A r \in Runs :
       /\ WF_vars(PlotTestNext(r) /\ run[r].pc # "none" /\ UNCHANGED <<tables, esc, page, ai>>)
       /\ WF_vars(Escalate(r) \/ Immediate(r) \/ Several(r) \/ AskLore(r) \/ Decide(r)
                  \/ Fallback(r) \/ NotifyOnAdvice(r) \/ CallAILien(r) \/ WriteIncident(r)
                  \/ TimesOut(r))
       /\ WF_vars(Page(r))

-----------------------------------------------------------------------------
\* A plot run that plot-test itself executed and that passed has had the expected status from
\* the last attempt of every step, and no step of it failed.
PlotPassIsEarned ==
  \A r \in Runs : run[r].status = "passed" /\ (run[r].app = Self \/ run[r].mode # "internal")
                  => run[r].failed = 0 /\ earned[r] = run[r].total

\* A step reaches the application at most three times on the local path, and once on the
\* external one, however errors, 5xx answers and retries follow one another.
AttemptsAreBounded ==
  \A r \in Runs :
    LET over == run[r].passed + run[r].failed IN
    /\ run[r].pc = "local" => reached[r] <= MaxAttempts * over + run[r].attempt - 1
    /\ run[r].pc = "external" => reached[r] <= over

\* What Interactions divides (the failure rate) is never 0/0, nor above 1: only failed runs
\* are escalated, with their own counts.
RateIsDefined ==
  \A r \in Runs : esc[r].pc # "none" => 0 < esc[r].failed /\ esc[r].failed <= esc[r].total

\* When no call was lost and nothing crashed, a triage that has ended has paged for a critical
\* failure exactly once, has recorded an incident for every assessment, critical or not, and
\* has left no record of a failure that it silenced.
Accounted ==
  faults = 0 =>
    \A r \in Runs :
      esc[r].pc = "done" /\ page[r] # "due" =>
        /\ esc[r].critical => esc[r].accepted = 1
        /\ esc[r].assessed => \E i \in incidents : i.run = r /\ i.source = "interactions"
        /\ esc[r].silenced => /\ \A i \in incidents : i.run # r
                              /\ ~esc[r].critical /\ esc[r].accepted = 0

\* Lore is asked once and the triage decides later, on what may no longer be so.  Still, a
\* failure is never silenced over an incident about its application that was open when its
\* run was escalated and is open, and of the last 168 hours, when it is silenced: also when
\* Lore does not answer, and whatever other triages, AI-lien and users record or resolve.
SilenceIsClean ==
  [][\A r \in Runs : esc'[r].silenced /\ ~esc[r].silenced
       => esc[r].since \cap OpenRecently(esc[r].app) = {}]_vars

\* Every local run with a failed step is escalated, and its triage comes to an end: along one
\* of the three paths, or lost with a call or a crash.
FailureIsHandled ==
  \A r \in Runs :
    (r \in raising) ~> (esc[r].pc \in {"done", "lost"} /\ page[r] # "due") \/ faults > 0

\* What callAILien says it does when AI-lien fails: it writes a fallback trend point.
FallbackIsWritten ==
  [][\A r \in Runs : esc[r].pc = "fallback" /\ esc'[r].pc = "done"
       => \E t \in trendPoints' : t.run = r /\ t.source = "interactions"]_vars
=============================================================================
