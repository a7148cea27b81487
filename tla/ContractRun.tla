---------------------------- MODULE ContractRun ----------------------------
(***************************************************************************)
(* A contract test run.  executeRun (contract-test/main.go) sends its      *)
(* tests one by one to Augur Canis on a Redis pub/sub channel and waits    *)
(* for each answer on a second channel that all runs share; Augur Canis    *)
(* (augur-canis/main.go) executes each request in a goroutine of its own;  *)
(* the completed run is posted once to the Results job (results/main.py).  *)
(* Augur Canis also runs suites of its own tests                           *)
(* (augur-canis/contracttests.go) and publishes their results on the       *)
(* channel on which the runs wait for theirs.                              *)
(* Pub/sub keeps nothing: whoever is not subscribed at that moment misses  *)
(* the message.                                                            *)
(***************************************************************************)
EXTENDS Integers, Sequences, FiniteSets

CONSTANTS
  Runs,       \* runs that may be started, by the scheduler or by POST /run
  Suites,     \* suites that Augur Canis may start
  OwnTests,   \* tests in its own suite
  Contracts,  \* what the contract files may hold: sets of operations
  Instances,  \* replicas of Augur Canis
  Jobs,       \* services that the tests address
  Nil,
  MaxTests,   \* test cases generated from the contract files
  SlowRuns,   \* runs on whose requests Augur Canis may take longer than resultTimeout
  MaxFaults, MaxCrashes, MaxRestarts  \* bounds on the environment

-----------------------------------------------------------------------------
(* Test cases                                                              *)

\* What parseContract keeps of an operation: its path, its method and how many of its
\* responses are 2xx.  Public paths are those of requiresAuth, of which /event is one.
Operation == [path : {"public", "event", "other", "parameter"},
              method : {"GET", "POST", "PATCH", "DELETE"}, successes : Nat]

RequiresAuth(o) == o.path \notin {"public", "event"}

\* Neither operations that need a token nor mutations are tested, but for POST /event.
Tested(o) == ~RequiresAuth(o) /\ (o.method \in {"GET", "DELETE"} \/ o.path = "event")

\* generateTestCases: a test case for each 2xx response.
TestCases(contract) ==
  {t \in contract \X (1 .. MaxTests) : Tested(t[1]) /\ t[2] <= t[1].successes}

\* parseYAMLToTests: a test for each GET and each POST of a path without parameters.
AdHocTests(contract) == {o \in contract : o.path # "parameter" /\ o.method \in {"GET", "POST"}}

ASSUME ConstantsAssumption ==
  /\ Suites \cap Runs = {} /\ Instances # {}
  /\ OwnTests \in Nat \ {0} /\ MaxTests \in Nat
  /\ \A c \in Contracts : /\ c \subseteq Operation
                          /\ \A o \in c : o.successes <= MaxTests
                          /\ Cardinality(TestCases(c)) \in 0 .. MaxTests
                          /\ Cardinality(AdHocTests(c)) \in Nat
  /\ SlowRuns \subseteq Runs
  /\ MaxFaults \in Nat /\ MaxCrashes \in Nat /\ MaxRestarts \in Nat

VARIABLES
  pc, total, results, passed, failed, skipped, status, \* TestRun, per run
  sub, inbox,     \* the run's subscription to tca:contract-results
  ac,             \* per instance: down, deaf (not subscribed) or listening
  known,          \* per instance: registeredJobs
  registered,     \* Redis: ac:job:*
  work,           \* the instances' executeContractTest goroutines, and tests of suites
  suite,          \* Augur Canis's own suites: how many tests, 0 if not started
  answers,        \* every verdict an instance has published
  board,          \* Results: _contract_results
  faults, crashes, restarts

tallies == <<results, passed, failed, skipped>>
run == <<pc, total, tallies, status, sub>>
canis == <<ac, known, registered, work, suite, answers>>
env == <<crashes, restarts>>
vars == <<run, inbox, canis, board, faults, env>>

\* How a test ended: the verdicts of Augur Canis, of which "skip:" means that the service is
\* not deployed or cannot be reached ...
Verdicts == {"passed", "failed", "skipped"}
\* ... and what the run records when it has none.
Reasons == Verdicts \cup {"subscribe", "publish", "timeout"}

Request == (Runs \cup Suites) \X (Nat \ {0})
Answer == [req: Request, reason: Verdicts]
Record == [status: {"passed", "failed"}, total: Nat, results: Seq(Reasons),
           passed: Nat, failed: Nat, skipped: Nat]

TypeOK ==
  /\ pc \in [Runs -> {"idle", "token", "plan", "next", "publish", "wait",
                      "forward", "done", "gone"}]
  /\ total \in [Runs -> 0 .. MaxTests]
  /\ results \in [Runs -> Seq(Reasons)]
  /\ passed \in [Runs -> Nat] /\ failed \in [Runs -> Nat]
  /\ skipped \in [Runs -> Nat]
  /\ status \in [Runs -> {"none", "running", "error", "passed", "failed"}]
  /\ sub \in [Runs -> {"none", "open", "closed"}]
  /\ inbox \in [Runs -> Seq(Answer)]
  /\ ac \in [Instances -> {"down", "deaf", "listening"}]
  /\ known \in [Instances -> SUBSET Jobs]
  /\ registered \subseteq Jobs
  /\ work \subseteq [at: Instances, req: Request, job: Jobs,
                     step: {"lookup", "call", "answer", "kept", "publish"},
                     reason: Verdicts \cup {Nil}]
  /\ suite \in [Suites -> Nat]
  /\ answers \subseteq Answer
  /\ board \in [Runs -> Record \cup {Nil}]
  /\ faults \in Nat /\ crashes \in Nat /\ restarts \in Nat

Init ==
  /\ pc = [r \in Runs |-> "idle"]
  /\ total = [r \in Runs |-> 0]
  /\ results = [r \in Runs |-> <<>>]
  /\ passed = [r \in Runs |-> 0] /\ failed = [r \in Runs |-> 0]
  /\ skipped = [r \in Runs |-> 0]
  /\ status = [r \in Runs |-> "none"]
  /\ sub = [r \in Runs |-> "none"] /\ inbox = [r \in Runs |-> <<>>]
  /\ ac = [a \in Instances |-> "listening"]
  /\ known = [a \in Instances |-> {}] /\ registered = {}
  /\ work = {} /\ suite = [s \in Suites |-> 0] /\ answers = {}
  /\ board = [r \in Runs |-> Nil]
  /\ faults = 0 /\ crashes = 0 /\ restarts = 0

\* A Redis command, a message or a connection is lost.
Fault == faults < MaxFaults /\ faults' = faults + 1

\* A message reaches all of a channel's subscribers but those in missed.
Delivered(missed) == IF missed = {} THEN UNCHANGED faults ELSE Fault

-----------------------------------------------------------------------------
(* contract-test                                                           *)

At(r, step) == pc[r] = step
Goto(r, step) == pc' = [pc EXCEPT ![r] = step]

\* The request ID of the test at hand: the run's ID and a time.
Current(r) == <<r, Len(results[r]) + 1>>

\* How a result is counted: by Passed, else by the prefix "skip:".
Outcome(reason) ==
  IF reason \in {"passed", "skipped"} THEN reason ELSE "failed"

\* One test ends: its result is appended and counted, its subscription cancelled.
Tally(r, reason) ==
  LET count(kind, n) == IF Outcome(reason) = kind THEN n + 1 ELSE n IN
  /\ results' = [results EXCEPT ![r] = Append(@, reason)]
  /\ passed' = [passed EXCEPT ![r] = count("passed", @)]
  /\ failed' = [failed EXCEPT ![r] = count("failed", @)]
  /\ skipped' = [skipped EXCEPT ![r] = count("skipped", @)]
  /\ sub' = [sub EXCEPT ![r] = "none"]
  /\ inbox' = [inbox EXCEPT ![r] = <<>>]
  /\ Goto(r, "next")
  /\ UNCHANGED <<total, status>>

\* POST /run, or a tick of the application's ticker.
Start(r) ==
  /\ At(r, "idle")
  /\ Goto(r, "token")
  /\ status' = [status EXCEPT ![r] = "running"]
  /\ UNCHANGED <<total, tallies, sub, inbox, canis, board, faults, env>>

\* getServiceAccountToken: no test case needs the token, and the run goes on without it.
GetToken(r) ==
  /\ At(r, "token")
  /\ Goto(r, "plan")
  /\ UNCHANGED <<total, tallies, status, sub, inbox, canis, board, faults, env>>

\* No contract files: the run ends here and is not forwarded.
NoContracts(r) ==
  /\ At(r, "plan")
  /\ Goto(r, "done")
  /\ status' = [status EXCEPT ![r] = "error"]
  /\ UNCHANGED <<total, tallies, sub, inbox, canis, board, faults, env>>

\* The test cases of all files; one that cannot be read or parsed adds none.
Plan(r) ==
  /\ At(r, "plan")
  /\ Goto(r, "next")
  /\ \E c \in Contracts : total' = [total EXCEPT ![r] = Cardinality(TestCases(c))]
  /\ UNCHANGED <<tallies, status, sub, inbox, canis, board, faults, env>>

\* The subscription is taken before the request is published.
Subscribe(r) ==
  /\ At(r, "next") /\ Len(results[r]) < total[r]
  /\ \/ /\ Goto(r, "publish")
        /\ sub' = [sub EXCEPT ![r] = "open"]
        /\ UNCHANGED <<total, tallies, status, inbox, faults>>
     \/ Fault /\ Tally(r, "subscribe")
  /\ UNCHANGED <<canis, board, env>>

\* The goroutines that a request for job j starts in the instances it reaches.
Received(r, j, missed) ==
  {[at |-> a, req |-> Current(r), job |-> j, step |-> "lookup", reason |-> Nil] :
      a \in {b \in Instances \ missed : ac[b] = "listening"}}

Publish(r) ==
  /\ At(r, "publish")
  /\ \E j \in Jobs, missed \in SUBSET {a \in Instances : ac[a] = "listening"} :
       /\ work' = work \cup Received(r, j, missed)
       /\ Delivered(missed)
  /\ Goto(r, "wait")
  /\ UNCHANGED <<total, tallies, status, sub, inbox, ac, known, registered, suite,
                 answers, board, env>>

\* The reply to PUBLISH is lost; the request itself may have arrived.
PublishFails(r) ==
  /\ At(r, "publish")
  /\ Fault /\ Tally(r, "publish")
  /\ \/ UNCHANGED work
     \/ \E j \in Jobs : work' = work \cup Received(r, j, {})
  /\ UNCHANGED <<ac, known, registered, suite, answers, board, env>>

\* Mutant of Read: whatever arrives is taken for the answer.
ReadUncorrelated(r) ==
  /\ At(r, "wait") /\ inbox[r] # <<>>
  /\ Tally(r, Head(inbox[r]).reason)
  /\ UNCHANGED <<canis, board, faults, env>>

\* Mutant of Read: a message for another request empties the channel.
ReadDraining(r) ==
  /\ At(r, "wait") /\ inbox[r] # <<>>
  /\ \/ /\ Head(inbox[r]).req = Current(r)
        /\ Tally(r, Head(inbox[r]).reason)
     \/ /\ Head(inbox[r]).req # Current(r)
        /\ inbox' = [inbox EXCEPT ![r] = <<>>]
        /\ UNCHANGED run
  /\ UNCHANGED <<canis, board, faults, env>>

\* One turn of waitLoop: the answers to other requests are skipped.
Read(r) ==
  /\ At(r, "wait") /\ inbox[r] # <<>>
  /\ \/ /\ Head(inbox[r]).req = Current(r)
        /\ Tally(r, Head(inbox[r]).reason)
     \/ /\ Head(inbox[r]).req # Current(r)
        /\ inbox' = [inbox EXCEPT ![r] = Tail(@)]
        /\ UNCHANGED run
  /\ UNCHANGED <<canis, board, faults, env>>

\* Unless Augur Canis is slow, 30 seconds are enough for its 5-second client.
Expired(r) ==
  \/ r \in SlowRuns
  \/ /\ \A w \in work : w.req # Current(r)
     /\ \A i \in 1 .. Len(inbox[r]) : inbox[r][i].req # Current(r)

\* Mutant of TimeOut: an overdue answer counts as a skipped test.
TimeOutSkipped(r) ==
  /\ At(r, "wait") /\ Expired(r)
  /\ Tally(r, "skipped")
  /\ UNCHANGED <<canis, board, faults, env>>

\* Mutant of TimeOut: a closed channel ends the loop, an open one has no deadline.
TimeOutOnlyClosed(r) ==
  /\ At(r, "wait") /\ Expired(r) /\ sub[r] = "closed"
  /\ Tally(r, "timeout")
  /\ UNCHANGED <<canis, board, faults, env>>

TimeOut(r) ==
  /\ At(r, "wait") /\ Expired(r)
  /\ Tally(r, "timeout")
  /\ UNCHANGED <<canis, board, faults, env>>

Verdict(r) == IF failed[r] > 0 THEN "failed" ELSE "passed"

Finalize(r) ==
  /\ At(r, "next") /\ Len(results[r]) = total[r]
  /\ Goto(r, "forward")
  /\ status' = [status EXCEPT ![r] = Verdict(r)]
  /\ UNCHANGED <<total, tallies, sub, inbox, canis, board, faults, env>>

\* Mutant of Forward: runs that passed are not worth a report.
ForwardFailures(r) ==
  /\ At(r, "forward")
  /\ Goto(r, "done")
  /\ board' = [board EXCEPT ![r] =
                 IF status[r] = "failed"
                 THEN [status |-> status[r], total |-> total[r],
                       results |-> results[r], passed |-> passed[r],
                       failed |-> failed[r], skipped |-> skipped[r]]
                 ELSE @]
  /\ UNCHANGED <<total, tallies, status, sub, inbox, canis, faults, env>>

\* forwardToResults: one POST, not repeated; Results keeps it in memory.
Forward(r) ==
  /\ At(r, "forward")
  /\ Goto(r, "done")
  /\ \/ /\ board' = [board EXCEPT ![r] =
                       [status |-> status[r], total |-> total[r],
                        results |-> results[r], passed |-> passed[r],
                        failed |-> failed[r], skipped |-> skipped[r]]]
        /\ UNCHANGED faults
     \/ Fault /\ UNCHANGED board
  /\ UNCHANGED <<total, tallies, status, sub, inbox, canis, env>>

-----------------------------------------------------------------------------
(* Augur Canis                                                             *)

Become(w, step, reason) ==
  work' = (work \ {w}) \cup {[w EXCEPT !.step = step, !.reason = reason]}

\* getRegisteredJob: memory, then Redis, where a failed GET looks like no key.
Lookup(w) ==
  /\ w.step = "lookup"
  /\ \/ /\ w.job \in known[w.at] \cup registered
        /\ Become(w, "call", Nil) /\ UNCHANGED faults
     \/ /\ w.job \notin known[w.at] \cup registered
        /\ Become(w, "answer", "skipped") /\ UNCHANGED faults
     \/ /\ w.job \notin known[w.at]
        /\ Become(w, "answer", "skipped") /\ Fault
  /\ UNCHANGED <<run, inbox, ac, known, registered, suite, answers, board, env>>

\* The HTTP request passes with the right status, is skipped when the service cannot be
\* reached (DNS, refused, 5-second timeout), and fails in every other way.
Call(w) ==
  /\ w.step = "call"
  /\ \E v \in Verdicts : Become(w, "answer", v)
  /\ UNCHANGED <<run, inbox, ac, known, registered, suite, answers, board, faults, env>>

\* The results of a suite are published when all its tests are over, in their order.
Answers(w) ==
  \/ w.step = "answer" /\ w.req[1] \in Runs
  \/ /\ w.step = "publish"
     /\ \A v \in work : v.step = "publish" /\ v.req[1] = w.req[1] => v.req[2] >= w.req[2]

\* publishContractTestResult: PUBLISH, and SET tca:contract-result:<id>, which
\* nothing reads.  A pipeline that fails is not repeated.
AnswerRequest(w) ==
  LET m == [req |-> w.req, reason |-> w.reason]
      open == {r \in Runs : sub[r] = "open"} IN
  /\ Answers(w)
  /\ work' = work \ {w}
  /\ \/ \E missed \in SUBSET open :
          /\ answers' = answers \cup {m}
          /\ inbox' = [r \in Runs |-> IF r \in open \ missed
                                      THEN Append(inbox[r], m) ELSE inbox[r]]
          /\ Delivered(missed)
     \/ Fault /\ UNCHANGED <<answers, inbox>>
  /\ UNCHANGED <<run, ac, known, registered, suite, board, env>>

\* Test i of suite s, executed by instance a: its lookup and its call are those of a request.
SuiteTest(a, s, i, j) ==
  [at |-> a, req |-> <<s, i>>, job |-> j, step |-> "lookup", reason |-> Nil]

RunSuite(a, s, size) ==
  /\ ac[a] # "down" /\ suite[s] = 0 /\ size > 0
  /\ suite' = [suite EXCEPT ![s] = size]
  /\ \E j \in Jobs : work' = work \cup {SuiteTest(a, s, 1, j)}
  /\ UNCHANGED <<run, inbox, ac, known, registered, answers, board, faults, env>>

\* runContractTestScheduler, or POST /run-contract-tests.
OwnSuite(a, s) == RunSuite(a, s, OwnTests)

\* handleAdHocContractTest: a contract without a test is refused.
AdHocSuite(a, s) == \E c \in Contracts : RunSuite(a, s, Cardinality(AdHocTests(c)))

\* runContractTestSuite: one test after the other; after the last one persistSuiteResult.
EndSuiteTest(w) ==
  LET s == w.req[1]
      ended == {v \in work : v.req[1] = s} IN
  /\ w.step = "answer" /\ s \in Suites
  /\ IF w.req[2] < suite[s]
     THEN \E j \in Jobs : work' = (work \ {w}) \cup
            {[w EXCEPT !.step = "kept"], SuiteTest(w.at, s, w.req[2] + 1, j)}
     ELSE work' = (work \ ended) \cup {[v EXCEPT !.step = "publish"] : v \in ended}
  /\ UNCHANGED <<run, inbox, ac, known, registered, suite, answers, board, faults, env>>

\* handleContractTestRequests: the subscription drops; two seconds later a new one.
Drop(a) ==
  /\ ac[a] = "listening" /\ Fault
  /\ ac' = [ac EXCEPT ![a] = "deaf"]
  /\ UNCHANGED <<run, inbox, known, registered, work, suite, answers, board, env>>

Resubscribe(a) ==
  /\ ac[a] = "deaf"
  /\ ac' = [ac EXCEPT ![a] = "listening"]
  /\ UNCHANGED <<run, inbox, known, registered, work, suite, answers, board, faults, env>>

\* POST /jobs, at one instance: its memory, then Redis, whose reply is ignored.
Register(a, j) ==
  /\ ac[a] # "down" /\ j \notin known[a]
  /\ known' = [known EXCEPT ![a] = @ \cup {j}]
  /\ \/ registered' = registered \cup {j} /\ UNCHANGED faults
     \/ Fault /\ UNCHANGED registered
  /\ UNCHANGED <<run, inbox, ac, work, suite, answers, board, env>>

Crash(a) ==
  /\ ac[a] # "down" /\ crashes < MaxCrashes
  /\ crashes' = crashes + 1
  /\ ac' = [ac EXCEPT ![a] = "down"]
  /\ known' = [known EXCEPT ![a] = {}]
  /\ work' = {w \in work : w.at # a}
  /\ UNCHANGED <<run, inbox, registered, suite, answers, board, faults, restarts>>

\* loadPersistedJobs; the subscription comes later.
Restart(a) ==
  /\ ac[a] = "down"
  /\ ac' = [ac EXCEPT ![a] = "deaf"]
  /\ \/ known' = [known EXCEPT ![a] = registered] /\ UNCHANGED faults
     \/ Fault /\ UNCHANGED known
  /\ UNCHANGED <<run, inbox, registered, work, suite, answers, board, env>>

-----------------------------------------------------------------------------
(* The rest of the environment                                             *)

\* The connection of a run's subscription fails: Subscribe closes its channel.
Disconnect(r) ==
  /\ sub[r] = "open" /\ Fault
  /\ sub' = [sub EXCEPT ![r] = "closed"]
  /\ UNCHANGED <<pc, total, tallies, status, inbox, canis, board, env>>

\* The contract-test process dies with its runs.
RunnerRestart ==
  /\ restarts < MaxRestarts
  /\ restarts' = restarts + 1
  /\ pc' = [r \in Runs |-> IF pc[r] \in {"idle", "done"} THEN pc[r] ELSE "gone"]
  /\ sub' = [r \in Runs |-> "none"]
  /\ inbox' = [r \in Runs |-> <<>>]
  /\ UNCHANGED <<total, tallies, status, canis, board, faults, crashes>>

\* The Results job loses what it kept in memory.
ResultsRestart ==
  /\ restarts < MaxRestarts
  /\ restarts' = restarts + 1
  /\ board' = [r \in Runs |-> Nil]
  /\ UNCHANGED <<run, inbox, canis, faults, crashes>>

-----------------------------------------------------------------------------
\* executeRun, up to forwardToResults.
Advance(r) == \/ GetToken(r) \/ NoContracts(r) \/ Plan(r) \/ Subscribe(r) \/ Publish(r)
              \/ PublishFails(r) \/ Read(r) \/ TimeOut(r) \/ Finalize(r)
              \/ Forward(r)

Execute(w) == Lookup(w) \/ Call(w) \/ AnswerRequest(w) \/ EndSuiteTest(w)

Next ==
  \/ \E r \in Runs : Start(r) \/ Advance(r) \/ Disconnect(r)
  \/ \E w \in work : Execute(w)
  \/ \E a \in Instances : Drop(a) \/ Resubscribe(a) \/ Crash(a) \/ Restart(a)
  \/ \E a \in Instances, j \in Jobs : Register(a, j)
  \/ \E a \in Instances, s \in Suites : OwnSuite(a, s) \/ AdHocSuite(a, s)
  \/ RunnerRestart \/ ResultsRestart

Spec == Init /\ [][Next]_vars

\* Goroutines are scheduled; Augur Canis resubscribes and is restarted.
Fairness ==
  /\ \A r \in Runs : WF_vars(Advance(r))
  /\ WF_vars(\E w \in work : Execute(w))
  /\ \A a \in Instances : WF_vars(Resubscribe(a)) /\ WF_vars(Restart(a))

FairSpec == Spec /\ Fairness

-----------------------------------------------------------------------------
(* Properties                                                               *)

\* A passed or skipped test was answered so by Augur Canis itself, for this very
\* request: an answer that comes too late, or is meant for another run on the
\* same channel, is never taken for it.
AnswersBelong ==
  \A r \in Runs : \A i \in 1 .. Len(results[r]) :
    results[r][i] \in Verdicts =>
      [req |-> <<r, i>>, reason |-> results[r][i]] \in answers

\* What Results stores is a whole run: one result per generated test, each counted
\* once, and "passed" exactly when none of them failed.
StoredIsComplete ==
  \A r \in Runs : board[r] # Nil =>
    LET b == board[r] IN
    /\ Len(b.results) = b.total
    /\ b.passed + b.failed + b.skipped = b.total
    /\ b.status = "passed" <=>
         \A i \in 1 .. Len(b.results) : Outcome(b.results[i]) # "failed"

\* Results says "passed" only of a run all of whose tests Augur Canis answered, none
\* with a failure; lost messages and timeouts never make a run pass.
PassedIsEarned ==
  \A r \in Runs : (board[r] # Nil /\ board[r].status = "passed") =>
    \A i \in 1 .. total[r] : \E m \in answers :
      m.req = <<r, i>> /\ Outcome(m.reason) \in {"passed", "skipped"}

\* As long as nothing fails, no test of a run that Augur Canis serves quickly times out:
\* the run subscribes early enough and skips over the answers meant for others, late
\* ones included, without losing its own.
NoFalseTimeout ==
  (faults = 0 /\ crashes = 0) =>
    \A r \in Runs \ SlowRuns : \A i \in 1 .. Len(results[r]) : results[r][i] # "timeout"

\* Every test of a run has one result, a verdict only if Augur Canis gave it to this very test,
\* and a run is reported at most once, whole and counted right, with nothing added later:
\* however answers are lost, late or meant for others, and whichever program restarts.
Ledger == INSTANCE RunLedger WITH
            given <- answers, entries <- results, filed <- board,
            ended <- {r \in Runs : pc[r] \in {"done", "gone"}}
ImplementsLedger == Ledger!Spec

\* A run that was started ends, whatever is lost, unless its process dies.
RunEnds == \A r \in Runs : At(r, "token") ~> pc[r] \in {"done", "gone"}

\* A run of any contract reaches Results if no connection fails and neither
\* contract-test nor Results restarts, however Augur Canis crashes.
RunIsStored ==
  \A r \in Runs : At(r, "next") ~>
    (board[r] # Nil \/ faults > 0 \/ restarts > 0)
=============================================================================
