------------------------- MODULE ContractRun_proofs -------------------------
(***************************************************************************)
(* Theorems about contract test runs, for any number of runs, tests,       *)
(* Augur Canis instances, faults, crashes and restarts.                    *)
(***************************************************************************)
EXTENDS ContractRun, TLAPS, FiniteSetTheorems

\* A goroutine or a suite that is to answer has a verdict.
Reasoned == \A w \in work : w.step \in {"answer", "kept", "publish"} => w.reason \in Verdicts

\* A run is forwarded with its final status.
Judged == \A r \in Runs : pc[r] = "forward" => status[r] \in {"passed", "failed"}

\* What waits in a run's channel has been published.
InboxAnswered ==
  \A r \in Runs : \A i \in 1 .. Len(inbox[r]) : inbox[r][i] \in answers

\* The counters agree with the results.
Tallied ==
  \A r \in Runs :
    /\ passed[r] + failed[r] + skipped[r] = Len(results[r])
    /\ failed[r] = 0 <=>
         \A i \in 1 .. Len(results[r]) : Outcome(results[r][i]) # "failed"

\* The record that forwardToResults sends.
Snapshot(r) == [status |-> status[r], total |-> total[r],
                results |-> results[r], passed |-> passed[r],
                failed |-> failed[r], skipped |-> skipped[r]]

\* A run that is being forwarded, or is stored, has all its results and its final
\* status, and the stored record is still the run's.
Completed ==
  \A r \in Runs :
    /\ board[r] # Nil => pc[r] = "done" /\ board[r] = Snapshot(r)
    /\ (pc[r] = "forward" \/ board[r] # Nil) =>
         Len(results[r]) = total[r] /\ status[r] = Verdict(r)

\* A suite has begun if its tests are in work; all but one of them wait for the last
\* one to be over, or all are over and are being published.
OneAtATime ==
  \A w \in work : w.req[1] \in Suites =>
    /\ suite[w.req[1]] # 0
    /\ \A v \in work : v.req[1] = w.req[1] =>
         \/ v = w \/ "kept" \in {v.step, w.step}
         \/ v.step = "publish" /\ w.step = "publish"

\* The answer to the request at hand waits in the run's channel or is being worked out.
Answerable(r) ==
  \/ \E w \in work : w.req = Current(r)
  \/ \E i \in 1 .. Len(inbox[r]) : inbox[r][i].req = Current(r)

Quiet == faults = 0 /\ crashes = 0

\* As long as nothing fails, every instance listens, a run listens from before its
\* request until after the answer, and no answer is lost between the two.
Served ==
  Quiet =>
    /\ \A a \in Instances : ac[a] = "listening"
    /\ \A r \in Runs : /\ pc[r] \in {"publish", "wait"} => sub[r] = "open"
                       /\ pc[r] = "wait" => Answerable(r)

TypeInv == TypeOK /\ Reasoned /\ Judged
IInv == TypeInv /\ InboxAnswered /\ AnswersBelong /\ Tallied /\ Completed

-----------------------------------------------------------------------------
\* Every reason counts as one of three outcomes, and only a verdict of Augur Canis
\* counts as anything but a failure (executeRun, contract-test/main.go:577-592).
LEMMA Outcomes ==
  ASSUME NEW reason \in Reasons
  PROVE  /\ Outcome(reason) \in {"passed", "failed", "skipped"}
         /\ Outcome(reason) # "failed" => reason \in Verdicts
BY DEF Outcome, Reasons, Verdicts

\* The end of one test keeps the types of what it writes.
LEMMA TallyType ==
  ASSUME TypeOK, NEW r \in Runs, NEW reason \in Reasons, Tally(r, reason)
  PROVE  /\ pc' \in [Runs -> {"idle", "token", "plan", "next", "publish",
                              "wait", "forward", "done", "gone"}]
         /\ results' \in [Runs -> Seq(Reasons)]
         /\ passed' \in [Runs -> Nat] /\ failed' \in [Runs -> Nat]
         /\ skipped' \in [Runs -> Nat]
         /\ sub' \in [Runs -> {"none", "open", "closed"}]
         /\ inbox' \in [Runs -> Seq(Answer)]
         /\ UNCHANGED <<total, status>>
BY SMTT(30) DEF TypeOK, Tally, Goto

\* What a request starts in the instances are well-typed goroutines.
LEMMA ReceivedType ==
  ASSUME TypeOK, NEW r \in Runs, NEW j \in Jobs, NEW missed
  PROVE  \A w \in Received(r, j, missed) :
           /\ w \in [at: Instances, req: Request, job: Jobs,
                     step: {"lookup", "call", "answer", "kept", "publish"},
                     reason: Verdicts \cup {Nil}]
           /\ w.step = "lookup"
<1>1. Current(r) \in Request
  BY DEF Current, Request, TypeOK
<1> QED BY <1>1 DEF Received

\* So is the goroutine that executes a test of a suite.
LEMMA SuiteTestType ==
  ASSUME NEW a \in Instances, NEW s \in Suites, NEW i \in Nat \ {0}, NEW j \in Jobs
  PROVE  LET w == SuiteTest(a, s, i, j) IN
         /\ w \in [at: Instances, req: Request, job: Jobs,
                   step: {"lookup", "call", "answer", "kept", "publish"},
                   reason: Verdicts \cup {Nil}]
         /\ w.step = "lookup"
BY DEF SuiteTest, Request

\* An answer read from the channel is a verdict that was published for a request.
LEMMA HeadIsAnswer ==
  ASSUME TypeOK, InboxAnswered, NEW r \in Runs, inbox[r] # <<>>
  PROVE  /\ Head(inbox[r]) \in Answer /\ Head(inbox[r]) \in answers
         /\ Head(inbox[r]).reason \in Verdicts
         /\ Head(inbox[r]).reason \in Reasons
<1>1. inbox[r] \in Seq(Answer)  BY DEF TypeOK
<1>2. /\ 1 \in 1 .. Len(inbox[r]) /\ Head(inbox[r]) = inbox[r][1]
      /\ Head(inbox[r]) \in Answer
  BY <1>1
<1>3. Head(inbox[r]) \in answers
  BY <1>2 DEF InboxAnswered
<1> QED BY <1>2, <1>3 DEF Answer, Reasons

-----------------------------------------------------------------------------
\* The tests of a suite are taken one at a time.
LEMMA OneAtATimeStep ==
  ASSUME TypeOK, OneAtATime, Next
  PROVE  OneAtATime'
<1>t. /\ work \subseteq [at: Instances, req: Request, job: Jobs,
                        step: {"lookup", "call", "answer", "kept", "publish"},
                        reason: Verdicts \cup {Nil}]
      /\ suite \in [Suites -> Nat] /\ Suites \cap Runs = {}
  BY ConstantsAssumption DEF TypeOK
<1>1. ASSUME UNCHANGED suite,
             \A w \in work' : w.req[1] \in Suites => w \in work
      PROVE  OneAtATime'
  BY <1>1 DEF OneAtATime
<1>2. ASSUME NEW r \in Runs, UNCHANGED suite,
             \/ UNCHANGED work
             \/ \E j \in Jobs : \E missed : work' = work \cup Received(r, j, missed)
      PROVE  OneAtATime'
  BY <1>1, <1>2, <1>t DEF Received, Current
<1>3. ASSUME NEW w \in work, w.step \notin {"kept", "publish"}, UNCHANGED suite,
             NEW step, NEW reason, Become(w, step, reason)
      PROVE  OneAtATime'
  <2> DEFINE n == [w EXCEPT !.step = step, !.reason = reason]
  <2>1. n.req = w.req /\ work' = (work \ {w}) \cup {n}
    BY <1>3, <1>t DEF Become
  <2>2. \A v \in work \ {w} :
          v.req[1] = w.req[1] /\ w.req[1] \in Suites => v.step = "kept"
    BY <1>3 DEF OneAtATime
  <2> HIDE DEF n
  <2>3. ASSUME NEW x \in work', x.req[1] \in Suites
        PROVE  suite'[x.req[1]] # 0
    BY <1>3, <2>1, <2>3 DEF OneAtATime
  <2>4. ASSUME NEW x \in work', x.req[1] \in Suites, NEW y \in work', y.req[1] = x.req[1]
        PROVE  \/ y = x \/ "kept" \in {y.step, x.step}
               \/ y.step = "publish" /\ x.step = "publish"
    BY <2>1, <2>2, <2>4 DEF OneAtATime
  <2> QED BY <2>3, <2>4 DEF OneAtATime
<1>4. ASSUME NEW a \in Instances, NEW s \in Suites, NEW size \in Nat, RunSuite(a, s, size)
      PROVE  OneAtATime'
  <2>1. PICK j \in Jobs : work' = work \cup {SuiteTest(a, s, 1, j)}
    BY <1>4 DEF RunSuite
  <2>2. /\ SuiteTest(a, s, 1, j).req[1] = s
        /\ \A w \in work : w.req[1] # s
        /\ suite' = [suite EXCEPT ![s] = size] /\ size > 0
    BY <1>4 DEF SuiteTest, RunSuite, OneAtATime
  <2> HIDE DEF SuiteTest
  <2> QED BY <2>1, <2>2, <1>t DEF OneAtATime
<1>5. ASSUME NEW w \in work, EndSuiteTest(w)
      PROVE  OneAtATime'
  <2>1. CASE \E j \in Jobs : work' = (work \ {w}) \cup
               {[w EXCEPT !.step = "kept"], SuiteTest(w.at, w.req[1], w.req[2] + 1, j)}
    <3>1. PICK j \in Jobs : work' = (work \ {w}) \cup
            {[w EXCEPT !.step = "kept"], SuiteTest(w.at, w.req[1], w.req[2] + 1, j)}
      BY <2>1
    <3> DEFINE kept == [w EXCEPT !.step = "kept"]
               next == SuiteTest(w.at, w.req[1], w.req[2] + 1, j)
    <3>2. /\ kept.req = w.req /\ kept.step = "kept" /\ next.req[1] = w.req[1]
          /\ work' = (work \ {w}) \cup {kept, next} /\ UNCHANGED suite
          /\ w.req[1] \in Suites /\ suite[w.req[1]] # 0
          /\ \A v \in work \ {w} : v.req[1] = w.req[1] => v.step = "kept"
      BY <1>5, <1>t, <3>1 DEF EndSuiteTest, OneAtATime, SuiteTest
    <3> HIDE DEF kept, next
    <3>3. ASSUME NEW x \in work', x.req[1] \in Suites
          PROVE  suite'[x.req[1]] # 0
      BY <3>2, <3>3 DEF OneAtATime
    <3>4. ASSUME NEW x \in work', x.req[1] \in Suites,
                 NEW y \in work', y.req[1] = x.req[1]
          PROVE  \/ y = x \/ "kept" \in {y.step, x.step}
                 \/ y.step = "publish" /\ x.step = "publish"
      BY <3>2, <3>4 DEF OneAtATime
    <3> QED BY <3>3, <3>4 DEF OneAtATime
  <2>2. CASE LET ended == {v \in work : v.req[1] = w.req[1]} IN
             work' = (work \ ended) \cup {[v EXCEPT !.step = "publish"] : v \in ended}
    <3>1. \A v \in work : /\ [v EXCEPT !.step = "publish"].req = v.req
                         /\ [v EXCEPT !.step = "publish"].step = "publish"
      BY <1>t
    <3>2. UNCHANGED suite /\ suite[w.req[1]] # 0
      BY <1>5 DEF EndSuiteTest, OneAtATime
    <3>3. ASSUME NEW v \in work'
          PROVE  \/ v \in work /\ v.req[1] # w.req[1]
                 \/ \E u \in work : u.req[1] = w.req[1] /\ v = [u EXCEPT !.step = "publish"]
      BY <2>2, <3>3
    <3>4. ASSUME NEW v \in work'
          PROVE  \/ v \in work /\ v.req[1] # w.req[1]
                 \/ v.step = "publish" /\ v.req[1] = w.req[1]
      <4>1. CASE v \in work /\ v.req[1] # w.req[1]
        BY <4>1
      <4>2. CASE ~(v \in work /\ v.req[1] # w.req[1])
        <5>1. PICK u \in work :
                u.req[1] = w.req[1] /\ v = [u EXCEPT !.step = "publish"]
          BY <3>3, <4>2
        <5> QED BY <3>1, <5>1
      <4> QED BY <4>1, <4>2
    <3> QED BY <3>2, <3>4, ZenonT(30) DEF OneAtATime
  <2> QED BY <1>5, <2>1, <2>2 DEF EndSuiteTest
<1>6. ASSUME NEW w \in work, Execute(w)
      PROVE  OneAtATime'
  <2>1. CASE Lookup(w) \/ Call(w)
    BY <1>3, <2>1 DEF Lookup, Call
  <2>2. CASE AnswerRequest(w)
    BY <1>1, <2>2 DEF AnswerRequest
  <2> QED BY <1>5, <1>6, <2>1, <2>2 DEF Execute
<1>7. ASSUME NEW r \in Runs, Start(r) \/ Advance(r) \/ Disconnect(r)
      PROVE  OneAtATime'
  BY <1>2, <1>7
  DEF Start, Disconnect, Advance, GetToken, NoContracts, Plan, Subscribe, Publish,
      PublishFails, Read, TimeOut, Finalize, Forward, canis
<1>8. ASSUME NEW a \in Instances,
             \/ Drop(a) \/ Resubscribe(a) \/ Crash(a) \/ Restart(a)
             \/ \E j \in Jobs : Register(a, j)
      PROVE  OneAtATime'
  BY <1>1, <1>8 DEF Drop, Resubscribe, Crash, Restart, Register
<1>9. CASE RunnerRestart \/ ResultsRestart
  BY <1>1, <1>9 DEF RunnerRestart, ResultsRestart, canis
<1>10. ASSUME NEW a \in Instances, NEW s \in Suites, OwnSuite(a, s) \/ AdHocSuite(a, s)
       PROVE  OneAtATime'
  BY <1>4, <1>10, ConstantsAssumption DEF OwnSuite, AdHocSuite
<1> QED BY <1>6, <1>7, <1>8, <1>9, <1>10 DEF Next

\* The type invariant, with the verdicts of the goroutines that are to answer.
LEMMA TypeInvariant == Spec => [](TypeInv /\ InboxAnswered /\ OneAtATime)
<1>1. Init => TypeInv /\ InboxAnswered /\ OneAtATime
  BY ConstantsAssumption
  DEF Init, TypeInv, TypeOK, Reasoned, Judged, InboxAnswered, OneAtATime
<1>2. TypeInv /\ OneAtATime /\ [Next]_vars => OneAtATime'
  BY OneAtATimeStep DEF TypeInv, OneAtATime, vars, canis
<1>3. TypeInv /\ InboxAnswered /\ OneAtATime /\ [Next]_vars => (TypeInv /\ InboxAnswered)'
  <2>. SUFFICES ASSUME TypeInv, InboxAnswered, OneAtATime, [Next]_vars
                PROVE  (TypeInv /\ InboxAnswered)'
    OBVIOUS
  <2>t. TypeOK /\ Reasoned /\ Judged
    BY DEF TypeInv
  <2>0. ASSUME UNCHANGED <<work, inbox, answers>>, TypeOK', Judged'
        PROVE  (TypeInv /\ InboxAnswered)'
    BY <2>0, <2>t DEF TypeInv, Reasoned, InboxAnswered
  <2>. USE DEF Judged
  <2>1. ASSUME NEW r \in Runs, Start(r) \/ GetToken(r)
        PROVE  (TypeInv /\ InboxAnswered)'
    BY <2>1, <2>0, <2>t, ZenonT(30) DEF TypeOK, Start, GetToken, Goto, tallies, canis, env
  <2>2. ASSUME NEW r \in Runs, NoContracts(r)
        PROVE  (TypeInv /\ InboxAnswered)'
    BY <2>2, <2>0, <2>t DEF TypeOK, NoContracts, Goto, tallies, canis, env
  <2>3. ASSUME NEW r \in Runs, Plan(r)
        PROVE  (TypeInv /\ InboxAnswered)'
    BY <2>3, <2>0, <2>t, ConstantsAssumption, SMTT(30) DEF TypeOK, Plan, Goto, tallies, canis, env
  <2>4. ASSUME NEW r \in Runs, NEW reason \in Reasons, Tally(r, reason),
               UNCHANGED <<ac, known, registered, suite, answers, board, env>>,
               faults' \in Nat,
               work' = work \/ \E j \in Jobs : work' = work \cup Received(r, j, {})
        PROVE  (TypeInv /\ InboxAnswered)'
    <3>1. TypeOK'
      BY <2>4, <2>t, TallyType, ReceivedType DEF TypeOK, env
    <3>2. Reasoned'
      BY <2>4, <2>t, ReceivedType DEF Reasoned
    <3>3. InboxAnswered'
      BY <2>4, <2>t DEF InboxAnswered, Tally, TypeOK
    <3>4. Judged'
      BY <2>4, <2>t DEF Tally, Goto, TypeOK
    <3> QED BY <3>1, <3>2, <3>3, <3>4 DEF TypeInv
  <2>5. ASSUME NEW r \in Runs, Subscribe(r)
        PROVE  (TypeInv /\ InboxAnswered)'
    <3>1. CASE Fault /\ Tally(r, "subscribe")
      BY <2>5, <3>1, <2>4, <2>t DEF Subscribe, Fault, Reasons, canis, TypeOK
    <3>2. CASE ~(Fault /\ Tally(r, "subscribe"))
      BY <2>5, <3>2, <2>0, <2>t, ZenonT(30) DEF TypeOK, Subscribe, Goto, tallies, canis, env
    <3> QED BY <3>1, <3>2
  <2>6. ASSUME NEW r \in Runs, Publish(r)
        PROVE  (TypeInv /\ InboxAnswered)'
    <3>1. PICK j \in Jobs, missed \in SUBSET {a \in Instances : ac[a] = "listening"} :
            work' = work \cup Received(r, j, missed) /\ Delivered(missed)
      BY <2>6 DEF Publish
    <3>2. TypeOK'
      <4>1. faults' \in Nat
        BY <2>t, <3>1 DEF TypeOK, Delivered, Fault
      <4>2. work' \subseteq [at: Instances, req: Request, job: Jobs,
                             step: {"lookup", "call", "answer", "kept", "publish"},
                             reason: Verdicts \cup {Nil}]
        BY <2>t, <3>1, ReceivedType DEF TypeOK
      <4>3. /\ pc' = [pc EXCEPT ![r] = "wait"]
            /\ UNCHANGED <<total, tallies, status, sub, inbox, ac, known, registered,
                           suite, answers, board, env>>
        BY <2>6 DEF Publish, Goto
      <4> QED BY <4>1, <4>2, <4>3, <2>t DEF TypeOK, tallies, env
    <3>3. Reasoned'
      BY <2>t, <3>1, ReceivedType DEF Reasoned
    <3>4. Judged'
      BY <2>6, <2>t DEF Publish, Goto, TypeOK
    <3> QED BY <2>6, <3>2, <3>3, <3>4, <2>t DEF TypeInv, InboxAnswered, Publish
  <2>7. ASSUME NEW r \in Runs, PublishFails(r)
        PROVE  (TypeInv /\ InboxAnswered)'
    BY <2>7, <2>4, <2>t DEF PublishFails, Fault, Reasons, TypeOK
  <2>8. ASSUME NEW r \in Runs, Read(r)
        PROVE  (TypeInv /\ InboxAnswered)'
    <3>1. CASE Tally(r, Head(inbox[r]).reason)
      BY <2>8, <3>1, <2>4, <2>t, HeadIsAnswer DEF Read, canis, TypeOK
    <3>2. CASE inbox' = [inbox EXCEPT ![r] = Tail(@)] /\ UNCHANGED run
      <4>1. inbox[r] \in Seq(Answer) /\ inbox[r] # <<>>
        BY <2>8, <2>t DEF Read, TypeOK
      <4>2. /\ Tail(inbox[r]) \in Seq(Answer)
            /\ \A i \in 1 .. Len(Tail(inbox[r])) :
                 i + 1 \in 1 .. Len(inbox[r]) /\ Tail(inbox[r])[i] = inbox[r][i + 1]
        BY <4>1
      <4>3. TypeOK'
        BY <2>8, <3>2, <4>2, <2>t DEF TypeOK, Read, run, tallies, canis, env
      <4>4. Reasoned' /\ Judged'
        BY <2>8, <3>2, <2>t DEF Reasoned, Read, run, canis
      <4>5. InboxAnswered'
        <5>1. answers' = answers
          BY <2>8 DEF Read, canis
        <5>2. ASSUME NEW q \in Runs, NEW i \in 1 .. Len(inbox'[q])
              PROVE  inbox'[q][i] \in answers
          <6>1. CASE q = r
            BY <6>1, <5>2, <3>2, <4>2, <2>t DEF InboxAnswered, TypeOK
          <6>2. CASE q # r
            BY <6>2, <5>2, <3>2, <2>t DEF InboxAnswered, TypeOK
          <6> QED BY <6>1, <6>2
        <5> QED BY <5>1, <5>2 DEF InboxAnswered
      <4> QED BY <4>3, <4>4, <4>5 DEF TypeInv
    <3> QED BY <2>8, <3>1, <3>2 DEF Read
  <2>9. ASSUME NEW r \in Runs, TimeOut(r)
        PROVE  (TypeInv /\ InboxAnswered)'
    BY <2>9, <2>4, <2>t DEF TimeOut, Reasons, canis, TypeOK
  <2>10. ASSUME NEW r \in Runs, Finalize(r)
         PROVE  (TypeInv /\ InboxAnswered)'
    BY <2>10, <2>0, <2>t DEF TypeOK, Finalize, Verdict, Goto, tallies, canis, env
  <2>11. ASSUME NEW r \in Runs, Disconnect(r)
         PROVE  (TypeInv /\ InboxAnswered)'
    BY <2>11, <2>0, <2>t, SMTT(30) DEF TypeOK, Disconnect, Fault, tallies, canis, env
  <2>12. ASSUME NEW w \in work, NEW step \in {"lookup", "call", "answer"},
                NEW reason \in Verdicts \cup {Nil}, Become(w, step, reason),
                step = "answer" => reason \in Verdicts, faults' \in Nat,
                UNCHANGED <<run, inbox, ac, known, registered, suite, answers, board, env>>
         PROVE  (TypeInv /\ InboxAnswered)'
    <3>1. TypeOK'
      BY <2>12, <2>t, ZenonT(30) DEF TypeOK, Become, run, tallies, env
    <3>2. Reasoned'
      BY <2>12, <2>t DEF TypeOK, Reasoned, Become
    <3>3. Judged'
      BY <2>12, <2>t DEF run
    <3> QED BY <2>12, <3>1, <3>2, <3>3 DEF TypeInv, InboxAnswered
  <2>13. ASSUME NEW w \in work, Lookup(w)
         PROVE  (TypeInv /\ InboxAnswered)'
    <3>1. faults' \in Nat
      BY <2>13, <2>t DEF Lookup, Fault, TypeOK
    <3>2. Become(w, "call", Nil) \/ Become(w, "answer", "skipped")
      BY <2>13 DEF Lookup
    <3> QED BY <2>13, <3>1, <3>2, <2>12 DEF Lookup, Verdicts
  <2>14. ASSUME NEW w \in work, Call(w)
         PROVE  (TypeInv /\ InboxAnswered)'
    BY <2>14, <2>12, <2>t DEF Call, Verdicts, TypeOK
  <2>15. ASSUME NEW w \in work, AnswerRequest(w)
         PROVE  (TypeInv /\ InboxAnswered)'
    <3> DEFINE m == [req |-> w.req, reason |-> w.reason]
    <3>1. m \in Answer
      BY <2>15, <2>t DEF AnswerRequest, Answers, TypeOK, Reasoned, Answer
    <3>2. \/ inbox' = inbox /\ answers' = answers
          \/ /\ answers' = answers \cup {m}
             /\ \E open \in SUBSET Runs :
                  inbox' = [r \in Runs |-> IF r \in open THEN Append(inbox[r], m)
                                           ELSE inbox[r]]
      BY <2>15 DEF AnswerRequest
    <3>3. inbox' \in [Runs -> Seq(Answer)] /\ answers' \subseteq Answer
      <4>1. \A q \in Runs : inbox[q] \in Seq(Answer) /\ Append(inbox[q], m) \in Seq(Answer)
        BY <3>1, <2>t DEF TypeOK
      <4> HIDE DEF m
      <4> QED BY <3>1, <3>2, <4>1, <2>t, ZenonT(30) DEF TypeOK
    <3>4. TypeOK'
      BY <2>15, <2>t, <3>3
      DEF TypeOK, AnswerRequest, Delivered, Fault, run, tallies, env
    <3>5. Reasoned'
      BY <2>15, <2>t DEF AnswerRequest, Reasoned
    <3>6. InboxAnswered'
      <4>1. \A q \in Runs : inbox[q] \in Seq(Answer)
        BY <2>t DEF TypeOK
      <4> HIDE DEF m
      <4> QED BY <3>1, <3>2, <4>1 DEF InboxAnswered
    <3>7. Judged'
      BY <2>15, <2>t DEF AnswerRequest, run
    <3> QED BY <3>4, <3>5, <3>6, <3>7 DEF TypeInv
  <2>16. ASSUME NEW a \in Instances, Drop(a) \/ Resubscribe(a) \/ Restart(a)
         PROVE  (TypeInv /\ InboxAnswered)'
    <3>1. /\ UNCHANGED <<run, inbox, registered, work, suite, answers, board, env>>
          /\ faults' \in Nat
      BY <2>16, <2>t DEF Drop, Resubscribe, Restart, Fault, TypeOK
    <3>2. /\ ac' \in [Instances -> {"down", "deaf", "listening"}]
          /\ known' \in [Instances -> SUBSET Jobs]
      BY <2>16, <2>t DEF Drop, Resubscribe, Restart, TypeOK
    <3> QED BY <3>1, <3>2, <2>0, <2>t DEF TypeOK, run, tallies, env
  <2>17. ASSUME NEW a \in Instances, NEW j \in Jobs, Register(a, j)
         PROVE  (TypeInv /\ InboxAnswered)'
    <3>1. /\ known' \in [Instances -> SUBSET Jobs] /\ registered' \subseteq Jobs
          /\ faults' \in Nat
      BY <2>17, <2>t DEF Register, Fault, TypeOK
    <3> QED BY <2>17, <3>1, <2>0, <2>t DEF TypeOK, Register, run, tallies, env
  <2>18. ASSUME NEW a \in Instances, Crash(a)
         PROVE  (TypeInv /\ InboxAnswered)'
    BY <2>18, <2>t, ConstantsAssumption
    DEF TypeInv, Reasoned, InboxAnswered, TypeOK, Crash, run, tallies
  <2>19. CASE RunnerRestart
    BY <2>19, <2>t
    DEF TypeInv, Reasoned, InboxAnswered, TypeOK, RunnerRestart, tallies, canis
  <2>20. CASE ResultsRestart
    BY <2>20, <2>0, <2>t DEF TypeOK, ResultsRestart, run, tallies, canis
  <2>21. CASE UNCHANGED vars
    BY <2>21, <2>0, <2>t DEF TypeOK, vars, run, tallies, canis, env
  <2>22. ASSUME NEW r \in Runs, Forward(r)
         PROVE  (TypeInv /\ InboxAnswered)'
    <3>1. Snapshot(r) \in Record
      BY <2>22, <2>t DEF Forward, At, Snapshot, Record, TypeOK
    <3>2. board' \in [Runs -> Record \cup {Nil}]
      BY <2>22, <3>1, <2>t DEF Forward, Snapshot, TypeOK
    <3>3. /\ pc' = [pc EXCEPT ![r] = "done"] /\ faults' \in Nat
          /\ UNCHANGED <<total, tallies, status, sub, inbox, canis, env>>
      BY <2>22, <2>t DEF Forward, Goto, Fault, TypeOK
    <3>4. TypeOK'
      BY <3>2, <3>3, <2>t DEF TypeOK, tallies, canis, env
    <3>5. Judged'
      BY <3>3, <2>t DEF TypeOK
    <3> QED BY <3>3, <3>4, <3>5, <2>0 DEF canis
  <2>23. ASSUME NEW a \in Instances, NEW s \in Suites, NEW size \in Nat,
                RunSuite(a, s, size)
         PROVE  (TypeInv /\ InboxAnswered)'
    <3>1. PICK j \in Jobs : work' = work \cup {SuiteTest(a, s, 1, j)}
      BY <2>23 DEF RunSuite
    <3>2. TypeOK'
      BY <2>23, <3>1, <2>t, SuiteTestType DEF TypeOK, RunSuite, run, tallies, env
    <3>3. Reasoned'
      BY <3>1, <2>t, SuiteTestType DEF Reasoned
    <3> QED BY <2>23, <3>2, <3>3, <2>t DEF TypeInv, InboxAnswered, RunSuite, run
  <2>24. ASSUME NEW w \in work, EndSuiteTest(w)
         PROVE  (TypeInv /\ InboxAnswered)'
    <3>1. work' \subseteq [at: Instances, req: Request, job: Jobs,
                           step: {"lookup", "call", "answer", "kept", "publish"},
                           reason: Verdicts \cup {Nil}]
          /\ Reasoned'
      <4>1. CASE \E j \in Jobs : work' = (work \ {w}) \cup
                   {[w EXCEPT !.step = "kept"],
                    SuiteTest(w.at, w.req[1], w.req[2] + 1, j)}
        <5>1. w.req[2] + 1 \in Nat \ {0} /\ w.at \in Instances /\ w.req[1] \in Suites
          BY <2>24, <2>t DEF EndSuiteTest, TypeOK, Request
        <5>2. PICK j \in Jobs : work' = (work \ {w}) \cup
                {[w EXCEPT !.step = "kept"],
                 SuiteTest(w.at, w.req[1], w.req[2] + 1, j)}
          BY <4>1
        <5> DEFINE next == SuiteTest(w.at, w.req[1], w.req[2] + 1, j)
                   kept == [w EXCEPT !.step = "kept"]
        <5>3. /\ next \in [at: Instances, req: Request, job: Jobs,
                           step: {"lookup", "call", "answer", "kept", "publish"},
                           reason: Verdicts \cup {Nil}]
              /\ next.step = "lookup"
          BY <5>1, SuiteTestType
        <5>4. /\ kept \in [at: Instances, req: Request, job: Jobs,
                           step: {"lookup", "call", "answer", "kept", "publish"},
                           reason: Verdicts \cup {Nil}]
              /\ kept.reason \in Verdicts
          BY <2>24, <2>t DEF EndSuiteTest, TypeOK, Reasoned
        <5>5. work' = (work \ {w}) \cup {kept, next}
          BY <5>2
        <5> HIDE DEF next, kept
        <5> QED BY <5>3, <5>4, <5>5, <2>t DEF TypeOK, Reasoned
      <4>2. CASE LET ended == {v \in work : v.req[1] = w.req[1]} IN
                 work' = (work \ ended) \cup {[v EXCEPT !.step = "publish"] : v \in ended}
        <5>1. \A v \in work : v.req[1] = w.req[1] => v.reason \in Verdicts
          BY <2>24, <2>t DEF EndSuiteTest, OneAtATime, Reasoned
        <5>2. \A v \in work : /\ [v EXCEPT !.step = "publish"].reason = v.reason
                             /\ [v EXCEPT !.step = "publish"] \in
                                  [at: Instances, req: Request, job: Jobs,
                                   step: {"lookup", "call", "answer", "kept", "publish"},
                                   reason: Verdicts \cup {Nil}]
          BY <2>t, ZenonT(30) DEF TypeOK
        <5>3. \A v \in work' : v \in work \/ \E u \in work :
                /\ u.req[1] = w.req[1] /\ v = [u EXCEPT !.step = "publish"]
          BY <4>2
        <5>4. Reasoned'
          BY <5>1, <5>2, <5>3, <2>t DEF Reasoned
        <5>5. \A v \in work' : v \in [at: Instances, req: Request, job: Jobs,
                step: {"lookup", "call", "answer", "kept", "publish"},
                reason: Verdicts \cup {Nil}]
          <6>1. work \subseteq [at: Instances, req: Request, job: Jobs,
                  step: {"lookup", "call", "answer", "kept", "publish"},
                  reason: Verdicts \cup {Nil}]
            BY <2>t DEF TypeOK
          <6> QED BY <5>2, <5>3, <6>1, ZenonT(30)
        <5> QED BY <5>4, <5>5
      <4> QED BY <2>24, <4>1, <4>2 DEF EndSuiteTest
    <3>2. TypeOK'
      BY <2>24, <3>1, <2>t DEF TypeOK, EndSuiteTest, run, tallies, env
    <3> QED BY <2>24, <3>1, <3>2, <2>t DEF TypeInv, InboxAnswered, EndSuiteTest, run
  <2>25. ASSUME NEW a \in Instances, NEW s \in Suites, OwnSuite(a, s) \/ AdHocSuite(a, s)
         PROVE  (TypeInv /\ InboxAnswered)'
    BY <2>23, <2>25, ConstantsAssumption DEF OwnSuite, AdHocSuite
  <2> QED
    BY <2>1, <2>2, <2>3, <2>5, <2>6, <2>7, <2>8, <2>9, <2>10, <2>11, <2>13, <2>14,
       <2>15, <2>16, <2>17, <2>18, <2>19, <2>20, <2>21, <2>22, <2>24, <2>25
    DEF Next, Advance, Execute
<1> QED BY <1>1, <1>2, <1>3, PTL DEF Spec

\* The variables always have their types.
THEOREM TypeCorrect == Spec => []TypeOK
<1>1. TypeInv => TypeOK
  BY DEF TypeInv
<1> QED BY <1>1, TypeInvariant, PTL

-----------------------------------------------------------------------------
\* Who writes the results: the end of a test, with a reason that Augur Canis has
\* published for this request if it is one of its verdicts.
LEMMA ResultWriters ==
  ASSUME TypeInv, InboxAnswered, Next
  PROVE  /\ answers \subseteq answers'
         /\ \/ UNCHANGED <<tallies, total>>
            \/ UNCHANGED <<tallies, board>> /\ \E r \in Runs : Plan(r)
            \/ /\ UNCHANGED board
               /\ \E r \in Runs, reason \in Reasons :
                    /\ pc[r] \in {"next", "publish", "wait"}
                    /\ Tally(r, reason)
                    /\ reason \in Verdicts =>
                         [req |-> Current(r), reason |-> reason] \in answers
<1> SUFFICES ASSUME NEW r \in Runs, Advance(r)
             PROVE  /\ answers \subseteq answers'
                    /\ \/ UNCHANGED <<tallies, total>>
                       \/ UNCHANGED <<tallies, board>> /\ Plan(r)
                       \/ /\ UNCHANGED board
                          /\ \E reason \in Reasons :
                               /\ pc[r] \in {"next", "publish", "wait"}
                               /\ Tally(r, reason)
                               /\ reason \in Verdicts =>
                                    [req |-> Current(r), reason |-> reason] \in answers
  BY DEF Next, Execute, Start, Disconnect, Lookup, Call, AnswerRequest, EndSuiteTest,
         OwnSuite, AdHocSuite, RunSuite, Drop, Resubscribe, Crash, Restart, Register, RunnerRestart, ResultsRestart,
         run, canis
<1>1. CASE Read(r)
  <2>1. CASE Tally(r, Head(inbox[r]).reason) /\ Head(inbox[r]).req = Current(r)
    <3>1. /\ Head(inbox[r]) = [req |-> Current(r), reason |-> Head(inbox[r]).reason]
          /\ Head(inbox[r]) \in answers
          /\ Head(inbox[r]).reason \in Reasons
      BY <1>1, <2>1, HeadIsAnswer DEF Read, TypeInv, Answer
    <3> QED BY <1>1, <2>1, <3>1 DEF Read, At, canis
  <2> QED BY <1>1, <2>1 DEF Read, run, canis
<1>2. CASE Subscribe(r) \/ PublishFails(r) \/ TimeOut(r)
  BY <1>2 DEF Subscribe, PublishFails, TimeOut, At, Reasons, Verdicts, canis, tallies
<1> QED
  BY <1>1, <1>2 DEF Advance, GetToken, NoContracts, Plan, Publish, Finalize, Forward, canis,
     tallies

\* AnswersBelong is preserved: the only result that can be added to a request is the
\* verdict published for it.
LEMMA AnswersBelongStep ==
  ASSUME TypeInv, InboxAnswered, AnswersBelong, Next
  PROVE  AnswersBelong'
<1>1. answers \subseteq answers'
  BY ResultWriters
<1>2. CASE UNCHANGED tallies
  BY <1>1, <1>2 DEF AnswersBelong, tallies
<1>3. ASSUME NEW r \in Runs, NEW reason \in Reasons, Tally(r, reason),
             reason \in Verdicts =>
               [req |-> Current(r), reason |-> reason] \in answers
      PROVE  AnswersBelong'
  <2>1. results \in [Runs -> Seq(Reasons)]
    BY DEF TypeInv, TypeOK
  <2>2. /\ results'[r] = Append(results[r], reason)
        /\ \A q \in Runs \ {r} : results'[q] = results[q]
    BY <1>3, <2>1 DEF Tally
  <2>3. ASSUME NEW i \in 1 .. Len(results'[r]), results'[r][i] \in Verdicts
        PROVE  [req |-> <<r, i>>, reason |-> results'[r][i]] \in answers
    <3>1. CASE i = Len(results[r]) + 1
      BY <2>1, <2>2, <2>3, <3>1, <1>3 DEF Current
    <3>2. CASE i \in 1 .. Len(results[r])
      BY <2>1, <2>2, <2>3, <3>2 DEF AnswersBelong
    <3>3. results[r] \in Seq(Reasons) /\ Len(results'[r]) = Len(results[r]) + 1
      BY <2>1, <2>2
    <3> QED BY <2>3, <3>1, <3>2, <3>3
  <2> QED BY <1>1, <2>2, <2>3 DEF AnswersBelong
<1> QED BY <1>2, <1>3, ResultWriters

\* The end of a test moves one counter with the result it appends.
LEMMA TalliedStep ==
  ASSUME TypeInv, InboxAnswered, Tallied, Next
  PROVE  Tallied'
<1>1. CASE UNCHANGED tallies
  BY <1>1 DEF Tallied, tallies
<1>2. ASSUME NEW r \in Runs, NEW reason \in Reasons, Tally(r, reason)
      PROVE  Tallied'
  <2>1. /\ results \in [Runs -> Seq(Reasons)] /\ passed \in [Runs -> Nat]
        /\ failed \in [Runs -> Nat] /\ skipped \in [Runs -> Nat]
    BY DEF TypeInv, TypeOK
  <2>2. /\ results'[r] = Append(results[r], reason)
        /\ \A q \in Runs \ {r} :
             /\ results'[q] = results[q] /\ passed'[q] = passed[q]
             /\ failed'[q] = failed[q] /\ skipped'[q] = skipped[q]
    BY <1>2, <2>1 DEF Tally
  <2>3. /\ Outcome(reason) \in {"passed", "failed", "skipped"}
        /\ passed'[r] = IF Outcome(reason) = "passed" THEN passed[r] + 1
                        ELSE passed[r]
        /\ failed'[r] = IF Outcome(reason) = "failed" THEN failed[r] + 1
                        ELSE failed[r]
        /\ skipped'[r] = IF Outcome(reason) = "skipped" THEN skipped[r] + 1
                         ELSE skipped[r]
    BY <1>2, <2>1, Outcomes DEF Tally
  <2>4. passed'[r] + failed'[r] + skipped'[r] = Len(results'[r])
    BY <2>1, <2>2, <2>3 DEF Tallied
  <2>5. /\ Len(results'[r]) = Len(results[r]) + 1
        /\ results'[r][Len(results[r]) + 1] = reason
        /\ \A i \in 1 .. Len(results[r]) : results'[r][i] = results[r][i]
    BY <2>1, <2>2
  <2>6. failed'[r] = 0 <=> failed[r] = 0 /\ Outcome(reason) # "failed"
    BY <2>1, <2>3
  <2>7. (\A i \in 1 .. Len(results'[r]) : Outcome(results'[r][i]) # "failed") <=>
          /\ \A i \in 1 .. Len(results[r]) : Outcome(results[r][i]) # "failed"
          /\ Outcome(reason) # "failed"
    <3>1. \A i : i \in 1 .. Len(results'[r]) <=>
                   i \in 1 .. Len(results[r]) \/ i = Len(results[r]) + 1
      BY <2>1, <2>5
    <3> QED BY <2>5, <3>1, SMTT(30)
  <2>8. failed'[r] = 0 <=>
          \A i \in 1 .. Len(results'[r]) : Outcome(results'[r][i]) # "failed"
    BY <2>6, <2>7 DEF Tallied
  <2> QED BY <2>2, <2>4, <2>8, ZenonT(30) DEF Tallied
<1> QED BY <1>1, <1>2, ResultWriters

\* A run's record no longer changes once it is complete.
LEMMA CompletedStep ==
  ASSUME TypeInv, InboxAnswered, Completed, Next
  PROVE  Completed'
<1>t. /\ pc \in [Runs -> {"idle", "token", "plan", "next", "publish", "wait",
                          "forward", "done", "gone"}]
      /\ total \in [Runs -> 0 .. MaxTests] /\ results \in [Runs -> Seq(Reasons)]
      /\ passed \in [Runs -> Nat] /\ failed \in [Runs -> Nat]
      /\ skipped \in [Runs -> Nat] /\ DOMAIN status = Runs /\ DOMAIN board = Runs
      /\ status \in [Runs -> {"none", "running", "error", "passed", "failed"}]
  BY DEF TypeInv, TypeOK
<1>1. CASE UNCHANGED <<pc, total, tallies, status, board>>
  BY <1>1 DEF Completed, Snapshot, Verdict, tallies
<1>2. ASSUME NEW r \in Runs, pc[r] \notin {"forward", "done"}, pc'[r] # "forward",
             UNCHANGED board,
             \A q \in Runs \ {r} :
               /\ pc'[q] = pc[q] /\ total'[q] = total[q] /\ status'[q] = status[q]
               /\ results'[q] = results[q] /\ passed'[q] = passed[q]
               /\ failed'[q] = failed[q] /\ skipped'[q] = skipped[q]
      PROVE  Completed'
  BY <1>2, ZenonT(30) DEF Completed, Snapshot, Verdict
<1>3. ASSUME NEW r \in Runs, Start(r) \/ GetToken(r) \/ NoContracts(r) \/ Plan(r)
      PROVE  Completed'
  BY <1>2, <1>3, <1>t DEF Start, GetToken, NoContracts, Plan, At, Goto, tallies
<1>4. ASSUME NEW r \in Runs, NEW reason \in Reasons, Tally(r, reason),
             pc[r] \in {"next", "publish", "wait"}, UNCHANGED board
      PROVE  Completed'
  BY <1>2, <1>4, <1>t DEF Tally, Goto
<1>5. ASSUME NEW r \in Runs, Subscribe(r) \/ Publish(r), UNCHANGED tallies
      PROVE  Completed'
  BY <1>2, <1>5, <1>t DEF Subscribe, Publish, Tally, At, Goto, tallies
<1>6. ASSUME NEW r \in Runs, Finalize(r)
      PROVE  Completed'
  <2>1. /\ board[r] = Nil /\ UNCHANGED <<total, tallies, board>>
        /\ Len(results[r]) = total[r] /\ status'[r] = Verdict(r)
        /\ pc'[r] = "forward"
        /\ \A q \in Runs \ {r} : pc'[q] = pc[q] /\ status'[q] = status[q]
    BY <1>6, <1>t DEF Completed, Finalize, At, Goto
  <2> QED BY <2>1 DEF Completed, Snapshot, Verdict, tallies
<1>7. ASSUME NEW r \in Runs, Forward(r)
      PROVE  Completed'
  <2>1. /\ pc[r] = "forward" /\ UNCHANGED <<total, tallies, status>>
        /\ pc'[r] = "done" /\ board[r] = Nil
        /\ board'[r] \in {Snapshot(r), Nil}
        /\ \A q \in Runs \ {r} : pc'[q] = pc[q] /\ board'[q] = board[q]
    BY <1>7, <1>t DEF Completed, Forward, At, Goto, Snapshot
  <2> QED BY <2>1 DEF Completed, Snapshot, Verdict, tallies
<1>8. CASE RunnerRestart
  BY <1>8, <1>t DEF RunnerRestart, Completed, Snapshot, Verdict, tallies
<1>9. CASE ResultsRestart
  BY <1>9 DEF ResultsRestart, Completed, Snapshot, Verdict, run, tallies
<1>10. ASSUME NEW r \in Runs, Subscribe(r) \/ PublishFails(r) \/ Read(r) \/ TimeOut(r)
       PROVE  Completed'
  <2>1. UNCHANGED board
    BY <1>10 DEF Subscribe, PublishFails, Read, TimeOut
  <2>2. CASE \E reason \in Reasons : Tally(r, reason)
    BY <1>4, <1>10, <2>1, <2>2 DEF Subscribe, PublishFails, Read, TimeOut, At
  <2>3. CASE ~ \E reason \in Reasons : Tally(r, reason)
    <3>1. CASE Read(r)
      BY <1>1, <2>1, <2>3, <3>1, HeadIsAnswer DEF Read, run, TypeInv
    <3>2. CASE Subscribe(r)
      BY <1>5, <2>3, <3>2 DEF Subscribe, Reasons
    <3>3. CASE PublishFails(r) \/ TimeOut(r)
      BY <2>3, <3>3 DEF PublishFails, TimeOut, Reasons
    <3> QED BY <1>10, <3>1, <3>2, <3>3
  <2> QED BY <2>2, <2>3
<1>11. ASSUME NEW r \in Runs, Disconnect(r)
       PROVE  Completed'
  BY <1>1, <1>11 DEF Disconnect
<1>12. ASSUME NEW w \in work, Execute(w)
       PROVE  Completed'
  BY <1>1, <1>12 DEF Execute, Lookup, Call, AnswerRequest, EndSuiteTest, run
<1>13. ASSUME NEW a \in Instances, NEW j \in Jobs, Register(a, j)
       PROVE  Completed'
  BY <1>1, <1>13 DEF Register, run
<1>14. ASSUME NEW a \in Instances,
              Drop(a) \/ Resubscribe(a) \/ Crash(a) \/ Restart(a)
       PROVE  Completed'
  BY <1>1, <1>14 DEF Drop, Resubscribe, Crash, Restart, run
<1>16. ASSUME NEW a \in Instances, NEW s \in Suites, OwnSuite(a, s) \/ AdHocSuite(a, s)
       PROVE  Completed'
  BY <1>1, <1>16 DEF OwnSuite, AdHocSuite, RunSuite, run
<1>15. ASSUME NEW r \in Runs, Publish(r)
       PROVE  Completed'
  BY <1>5, <1>15 DEF Publish
<1> QED BY <1>3, <1>6, <1>7, <1>8, <1>9, <1>10, <1>11, <1>12, <1>13, <1>14, <1>15,
       <1>16
    DEF Next, Advance

\* The inductive invariant: channels hold published answers, results are such
\* answers, the counters agree with the results, a complete run is frozen.
LEMMA RunInvariant == Spec => []IInv
<1>1. Init => AnswersBelong /\ Tallied /\ Completed
  BY DEF Init, AnswersBelong, Tallied, Completed
<1>2. /\ TypeInv /\ InboxAnswered
      /\ AnswersBelong /\ Tallied /\ Completed /\ [Next]_vars
      => (AnswersBelong /\ Tallied /\ Completed)'
  <2>1. ASSUME AnswersBelong, Tallied, Completed, UNCHANGED vars
        PROVE  (AnswersBelong /\ Tallied /\ Completed)'
    BY <2>1 DEF vars, run, tallies, canis, AnswersBelong, Tallied, Completed,
       Snapshot, Verdict
  <2> QED BY <2>1, AnswersBelongStep, TalliedStep, CompletedStep
<1> QED BY <1>1, <1>2, TypeInvariant, PTL DEF Spec, IInv

\* A passed or skipped test was answered so, for its own request, by Augur Canis
\* (waitLoop of executeRun).
THEOREM ResultsAreAnswers == Spec => []AnswersBelong
<1>1. IInv => AnswersBelong  BY DEF IInv
<1> QED BY <1>1, RunInvariant, PTL

\* Results stores whole runs, counted right and judged by their failures.
THEOREM StoredRunsAreComplete == Spec => []StoredIsComplete
<1>1. IInv => StoredIsComplete
  <2> SUFFICES ASSUME IInv
               PROVE  StoredIsComplete
    OBVIOUS
  <2>1. ASSUME NEW r \in Runs, board[r] # Nil
        PROVE  /\ board[r] = Snapshot(r) /\ status[r] = Verdict(r)
               /\ Len(results[r]) = total[r]
               /\ passed[r] + failed[r] + skipped[r] = Len(results[r])
               /\ Verdict(r) = "passed" <=>
                    \A i \in 1 .. Len(results[r]) :
                      Outcome(results[r][i]) # "failed"
    <3>1. failed[r] \in Nat
      BY DEF IInv, TypeInv, TypeOK
    <3> QED BY <2>1, <3>1 DEF IInv, Completed, Tallied, Verdict
  <2>2. ASSUME NEW r \in Runs, board[r] # Nil
        PROVE  /\ board[r].status = status[r] /\ board[r].total = total[r]
               /\ board[r].results = results[r] /\ board[r].passed = passed[r]
               /\ board[r].failed = failed[r] /\ board[r].skipped = skipped[r]
    <3>1. board[r] = Snapshot(r)
      BY <2>1, <2>2
    <3> QED BY <3>1 DEF Snapshot
  <2>3. ASSUME NEW r \in Runs, board[r] # Nil
        PROVE  LET b == board[r] IN
               /\ Len(b.results) = b.total
               /\ b.passed + b.failed + b.skipped = b.total
               /\ b.status = "passed" <=>
                    \A i \in 1 .. Len(b.results) : Outcome(b.results[i]) # "failed"
    BY <2>1, <2>2, <2>3
  <2> QED BY <2>3 DEF StoredIsComplete
<1> QED BY <1>1, RunInvariant, PTL

\* A run is stored as passed only if Augur Canis answered every one of its tests and
\* failed none, whatever was lost, crashed or restarted.
THEOREM PassedRunsAreEarned == Spec => []PassedIsEarned
<1>1. IInv => PassedIsEarned
  <2> SUFFICES ASSUME IInv, NEW r \in Runs, board[r] # Nil,
                      board[r].status = "passed", NEW i \in 1 .. total[r]
               PROVE  \E m \in answers :
                        m.req = <<r, i>> /\ Outcome(m.reason) \in {"passed", "skipped"}
    BY DEF PassedIsEarned
  <2>1. results[r] \in Seq(Reasons) /\ failed[r] \in Nat
    BY DEF IInv, TypeInv, TypeOK
  <2>2. Len(results[r]) = total[r] /\ Verdict(r) = "passed"
    <3>1. /\ board[r] = Snapshot(r) /\ Len(results[r]) = total[r]
          /\ status[r] = Verdict(r)
      BY DEF IInv, Completed
    <3> QED BY <3>1 DEF Snapshot
  <2>3. results[r][i] \in Reasons /\ Outcome(results[r][i]) # "failed"
    BY <2>1, <2>2 DEF IInv, Tallied, Verdict
  <2>4. [req |-> <<r, i>>, reason |-> results[r][i]] \in answers
    BY <2>2, <2>3, Outcomes DEF IInv, AnswersBelong
  <2> QED BY <2>3, <2>4, Outcomes
<1> QED BY <1>1, RunInvariant, PTL
-----------------------------------------------------------------------------
\* A step after which nothing has failed yet: nothing had before, it loses no message,
\* and no test ends but by reading its answer or by a timeout.
LEMMA QuietStep ==
  ASSUME TypeInv, Next, Quiet'
  PROVE  /\ Quiet /\ ~Fault
         /\ \A a \in Instances : ~Crash(a)
<1>1. faults \in Nat /\ crashes \in Nat
  BY DEF TypeInv, TypeOK
<1>2. ~Fault
  BY <1>1 DEF Fault, Quiet
<1>3. \A a \in Instances : ~Crash(a)
  BY <1>1 DEF Crash, Quiet
<1>4. UNCHANGED faults
  <2>1. ASSUME NEW missed, Delivered(missed)
        PROVE  UNCHANGED faults
    BY <1>2, <2>1 DEF Delivered
  <2> QED
    BY <1>2, <1>3, <2>1
    DEF Next, Advance, Execute, Start, GetToken, NoContracts, Plan, Subscribe, Publish,
        PublishFails, Read, TimeOut, Finalize, Forward, Disconnect, Lookup, Call,
        AnswerRequest, EndSuiteTest, OwnSuite, AdHocSuite, RunSuite, Drop, Resubscribe,
        Restart, Register, RunnerRestart, ResultsRestart
<1>5. UNCHANGED crashes
  BY <1>3
  DEF Next, Advance, Execute, Start, GetToken, NoContracts, Plan, Subscribe, Publish,
      PublishFails, Read, TimeOut, Finalize, Forward, Disconnect, Lookup, Call,
      AnswerRequest, EndSuiteTest, OwnSuite, AdHocSuite, RunSuite, Drop, Resubscribe,
      Restart, Register, RunnerRestart, ResultsRestart, env
<1> QED BY <1>2, <1>3, <1>4, <1>5 DEF Quiet

\* No step takes a run's request or its answer away but the end of the test.
LEMMA ServedStep ==
  ASSUME TypeInv, Served, Next
  PROVE  Served'
<1> SUFFICES ASSUME Quiet'
             PROVE  /\ \A a \in Instances : ac'[a] = "listening"
                    /\ \A r \in Runs :
                         /\ pc'[r] \in {"publish", "wait"} => sub'[r] = "open"
                         /\ pc'[r] = "wait" => Answerable(r)'
  BY DEF Served
<1>q. /\ ~Fault /\ \A a \in Instances : ac[a] = "listening" /\ ~Crash(a)
      /\ \A r \in Runs : /\ pc[r] \in {"publish", "wait"} => sub[r] = "open"
                         /\ pc[r] = "wait" => Answerable(r)
  BY QuietStep DEF Served
<1>t. /\ pc \in [Runs -> {"idle", "token", "plan", "next", "publish", "wait",
                          "forward", "done", "gone"}]
      /\ results \in [Runs -> Seq(Reasons)] /\ inbox \in [Runs -> Seq(Answer)]
      /\ sub \in [Runs -> {"none", "open", "closed"}]
      /\ work \subseteq [at: Instances, req: Request, job: Jobs,
                        step: {"lookup", "call", "answer", "kept", "publish"},
                        reason: Verdicts \cup {Nil}]
      /\ Instances # {} /\ Suites \cap Runs = {}
  BY ConstantsAssumption DEF TypeInv, TypeOK
<1> DEFINE Goal(r) == /\ pc'[r] \in {"publish", "wait"} => sub'[r] = "open"
                      /\ pc'[r] = "wait" => Answerable(r)'
           Kept(r) == /\ pc'[r] = pc[r] /\ sub'[r] = sub[r]
                      /\ results'[r] = results[r] /\ inbox'[r] = inbox[r]
<1>1. ASSUME NEW r \in Runs, Kept(r),
             \A w \in work : w.req[1] \in Runs => \E v \in work' : v.req = w.req
      PROVE  Goal(r)
  <2>1. Current(r) = Current(r)' /\ Current(r)[1] \in Runs
    BY <1>1 DEF Current
  <2> QED BY <1>1, <2>1, <1>q DEF Answerable
<1>2. ASSUME NEW r \in Runs, work \subseteq work', UNCHANGED ac,
             \A q \in Runs \ {r} : Kept(q), Goal(r)
      PROVE  (\A a \in Instances : ac'[a] = "listening") /\ \A q \in Runs : Goal(q)
  BY <1>1, <1>2, <1>q
<1>3. ASSUME NEW r \in Runs, NEW reason, Tally(r, reason), UNCHANGED <<ac, work>>
      PROVE  (\A a \in Instances : ac'[a] = "listening") /\ \A q \in Runs : Goal(q)
  BY <1>2, <1>3, <1>t DEF Tally, Goto
<1>4. ASSUME NEW r \in Runs, Start(r) \/ GetToken(r) \/ NoContracts(r) \/ Plan(r)
                              \/ Finalize(r) \/ Forward(r)
      PROVE  (\A a \in Instances : ac'[a] = "listening") /\ \A q \in Runs : Goal(q)
  BY <1>2, <1>4, <1>t
  DEF Start, GetToken, NoContracts, Plan, Finalize, Forward, Goto, tallies, canis
<1>5. ASSUME NEW r \in Runs, Subscribe(r)
      PROVE  (\A a \in Instances : ac'[a] = "listening") /\ \A q \in Runs : Goal(q)
  BY <1>2, <1>5, <1>q, <1>t DEF Subscribe, Goto, tallies, canis
<1>6. ASSUME NEW r \in Runs, Publish(r)
      PROVE  (\A a \in Instances : ac'[a] = "listening") /\ \A q \in Runs : Goal(q)
  <2>1. PICK j \in Jobs : work' = work \cup Received(r, j, {})
    BY <1>6, <1>q DEF Publish, Delivered
  <2>2. PICK a \in Instances : ac[a] = "listening"
    BY <1>q, <1>t
  <2>3. \E w \in work' : w.req = Current(r)
    <3>1. [at |-> a, req |-> Current(r), job |-> j, step |-> "lookup", reason |-> Nil]
            \in Received(r, j, {})
      BY <2>2 DEF Received
    <3> QED BY <2>1, <3>1
  <2>4. pc[r] = "publish" /\ pc' = [pc EXCEPT ![r] = "wait"]
        /\ UNCHANGED <<sub, inbox, ac, results>>
    BY <1>6 DEF Publish, At, Goto, tallies
  <2> QED BY <2>1, <2>3, <2>4, <1>2, <1>q, <1>t DEF Answerable, Current
<1>7. ASSUME NEW r \in Runs, Read(r)
      PROVE  (\A a \in Instances : ac'[a] = "listening") /\ \A q \in Runs : Goal(q)
  <2>1. CASE Tally(r, Head(inbox[r]).reason)
    BY <1>3, <1>7, <2>1 DEF Read, canis
  <2>2. CASE Head(inbox[r]).req # Current(r) /\ inbox' = [inbox EXCEPT ![r] = Tail(@)]
             /\ UNCHANGED run
    <3>1. /\ inbox[r] \in Seq(Answer) /\ inbox[r] # <<>> /\ pc[r] = "wait"
          /\ UNCHANGED <<ac, work>>
      BY <1>7, <1>t DEF Read, At, canis
    <3>2. ASSUME NEW i \in 1 .. Len(inbox[r]), inbox[r][i].req = Current(r)
          PROVE  /\ i - 1 \in 1 .. Len(Tail(inbox[r]))
                 /\ Tail(inbox[r])[i - 1] = inbox[r][i]
      <4>1. Head(inbox[r]) = inbox[r][1]
        BY <3>1
      <4>2. i # 1
        BY <2>2, <3>2, <4>1
      <4> QED BY <3>1, <4>2
    <3>3. /\ UNCHANGED <<pc, sub, results>> /\ inbox'[r] = Tail(inbox[r])
          /\ \A q \in Runs \ {r} : inbox'[q] = inbox[q]
      BY <2>2, <1>t DEF run, tallies
    <3>4. Answerable(r)'
      <4>1. Answerable(r) /\ Current(r)' = Current(r)
        BY <3>1, <3>3, <1>q DEF Current
      <4>2. CASE \E v \in work : v.req = Current(r)
        BY <3>1, <4>1, <4>2 DEF Answerable
      <4>3. CASE \E i \in 1 .. Len(inbox[r]) : inbox[r][i].req = Current(r)
        BY <3>2, <3>3, <4>1, <4>3 DEF Answerable
      <4> QED BY <4>1, <4>2, <4>3 DEF Answerable
    <3> QED BY <1>2, <3>1, <3>3, <3>4, <1>q
  <2> QED BY <1>7, <2>1, <2>2 DEF Read
<1>8. ASSUME NEW r \in Runs, PublishFails(r) \/ TimeOut(r) \/ Disconnect(r)
      PROVE  (\A a \in Instances : ac'[a] = "listening") /\ \A q \in Runs : Goal(q)
  BY <1>3, <1>8, <1>q DEF PublishFails, TimeOut, Disconnect, canis
<1>9. ASSUME NEW w \in work, NEW step, NEW reason, Become(w, step, reason),
             UNCHANGED <<run, inbox, ac>>
      PROVE  (\A a \in Instances : ac'[a] = "listening") /\ \A q \in Runs : Goal(q)
  <2> DEFINE n == [w EXCEPT !.step = step, !.reason = reason]
  <2>1. n.req = w.req /\ work' = (work \ {w}) \cup {n}
    BY <1>9, <1>t DEF Become
  <2> HIDE DEF n
  <2>2. \A v \in work : \E u \in work' : u.req = v.req
    BY <2>1
  <2>3. \A q \in Runs : Kept(q)
    BY <1>9 DEF run, tallies
  <2> HIDE DEF Kept, Goal
  <2> QED BY <1>1, <1>9, <1>q, <2>2, <2>3
<1>10. ASSUME NEW w \in work, AnswerRequest(w)
       PROVE  (\A a \in Instances : ac'[a] = "listening") /\ \A q \in Runs : Goal(q)
  <2> DEFINE m == [req |-> w.req, reason |-> w.reason]
  <2>1. /\ work' = work \ {w} /\ UNCHANGED <<run, ac>>
        /\ inbox' = [r \in Runs |-> IF sub[r] = "open" THEN Append(inbox[r], m)
                                    ELSE inbox[r]]
    BY <1>10, <1>q DEF AnswerRequest, Delivered
  <2>2. m.req = w.req
    OBVIOUS
  <2> HIDE DEF m
  <2>3. UNCHANGED <<pc, sub, results>>
    BY <2>1 DEF run, tallies
  <2>4. ASSUME NEW r \in Runs, pc[r] = "wait"
        PROVE  Answerable(r)'
    <3>1. sub[r] = "open" /\ Answerable(r) /\ inbox[r] \in Seq(Answer)
      BY <2>4, <1>q, <1>t
    <3>2. /\ inbox'[r] = Append(inbox[r], m)
          /\ Len(inbox'[r]) = Len(inbox[r]) + 1 /\ Len(inbox[r]) \in Nat
          /\ inbox'[r][Len(inbox[r]) + 1] = m
          /\ \A i \in 1 .. Len(inbox[r]) : inbox'[r][i] = inbox[r][i]
      BY <2>1, <3>1
    <3>3. Current(r)' = Current(r)
      BY <2>3 DEF Current
    <3>4. CASE w.req = Current(r)
      <4>1. Len(inbox[r]) + 1 \in 1 .. Len(inbox'[r])
        BY <3>2
      <4> QED BY <2>2, <3>2, <3>3, <3>4, <4>1 DEF Answerable
    <3>5. CASE w.req # Current(r)
      <4>1. 1 .. Len(inbox[r]) \subseteq 1 .. Len(inbox'[r])
        BY <3>2
      <4> QED BY <2>1, <3>1, <3>2, <3>3, <3>5, <4>1 DEF Answerable
    <3> QED BY <3>4, <3>5
  <2> QED BY <2>1, <2>3, <2>4, <1>q
<1>11. ASSUME NEW w \in work, EndSuiteTest(w)
       PROVE  (\A a \in Instances : ac'[a] = "listening") /\ \A q \in Runs : Goal(q)
  <2>1. /\ \A v \in work : v.req[1] \in Runs => v \in work'
        /\ UNCHANGED <<run, inbox, ac>>
    BY <1>11, <1>t DEF EndSuiteTest
  <2>2. \A q \in Runs : Kept(q)
    BY <2>1 DEF run, tallies
  <2> HIDE DEF Kept, Goal
  <2> QED BY <1>1, <1>q, <2>1, <2>2
<1>12. ASSUME NEW a \in Instances, NEW s \in Suites, OwnSuite(a, s) \/ AdHocSuite(a, s)
       PROVE  (\A b \in Instances : ac'[b] = "listening") /\ \A q \in Runs : Goal(q)
  BY <1>1, <1>12, <1>q DEF OwnSuite, AdHocSuite, RunSuite, run, tallies
<1>13. ASSUME NEW a \in Instances,
              Drop(a) \/ Resubscribe(a) \/ Restart(a) \/ \E j \in Jobs : Register(a, j)
       PROVE  (\A b \in Instances : ac'[b] = "listening") /\ \A q \in Runs : Goal(q)
  BY <1>1, <1>13, <1>q DEF Drop, Resubscribe, Restart, Register, run, tallies
<1>14. CASE RunnerRestart
  BY <1>14, <1>q, <1>t DEF RunnerRestart, canis
<1>15. CASE ResultsRestart
  BY <1>1, <1>15, <1>q DEF ResultsRestart, run, tallies, canis
<1>16. ASSUME NEW w \in work, Lookup(w) \/ Call(w)
       PROVE  (\A a \in Instances : ac'[a] = "listening") /\ \A q \in Runs : Goal(q)
  BY <1>9, <1>16 DEF Lookup, Call
<1> QED
  BY <1>4, <1>5, <1>6, <1>7, <1>8, <1>10, <1>11, <1>12, <1>13, <1>14, <1>15, <1>16, <1>q
  DEF Next, Advance, Execute

\* While an answer can still come, the result of a test is not "timeout".
LEMMA TimeoutStep ==
  ASSUME TypeInv, InboxAnswered, Served, NoFalseTimeout, Next
  PROVE  NoFalseTimeout'
<1> SUFFICES ASSUME Quiet', NEW r \in Runs \ SlowRuns
             PROVE  \A i \in 1 .. Len(results'[r]) : results'[r][i] # "timeout"
  BY DEF NoFalseTimeout, Quiet
<1>q. /\ Quiet /\ ~Fault
      /\ pc[r] = "wait" => Answerable(r)
      /\ \A i \in 1 .. Len(results[r]) : results[r][i] # "timeout"
  BY QuietStep DEF Served, NoFalseTimeout, Quiet
<1>t. results \in [Runs -> Seq(Reasons)]
  BY DEF TypeInv, TypeOK
<1>1. CASE results'[r] = results[r]
  BY <1>1, <1>q
<1>2. ASSUME NEW reason \in Reasons \ {"timeout"}, results'[r] = Append(results[r], reason)
      PROVE  \A i \in 1 .. Len(results'[r]) : results'[r][i] # "timeout"
  <2>1. /\ Len(results'[r]) = Len(results[r]) + 1 /\ Len(results[r]) \in Nat
        /\ results'[r][Len(results[r]) + 1] = reason
        /\ \A i \in 1 .. Len(results[r]) : results'[r][i] = results[r][i]
    BY <1>2, <1>t
  <2>2. \A i \in 1 .. Len(results'[r]) :
          i \in 1 .. Len(results[r]) \/ i = Len(results[r]) + 1
    BY <2>1
  <2> QED BY <1>q, <2>1, <2>2
<1>3. ASSUME NEW q \in Runs, Read(q)
      PROVE  \A i \in 1 .. Len(results'[r]) : results'[r][i] # "timeout"
  <2>1. /\ Head(inbox[q]).reason \in Reasons \ {"timeout"}
    BY <1>3, HeadIsAnswer DEF Read, TypeInv, Verdicts
  <2> QED BY <1>1, <1>2, <1>3, <1>t, <2>1 DEF Read, Tally, run, tallies
<1>4. ASSUME NEW q \in Runs, TimeOut(q)
      PROVE  \A i \in 1 .. Len(results'[r]) : results'[r][i] # "timeout"
  <2>1. ASSUME q = r
        PROVE  FALSE
    <3>1. Answerable(r) /\ Expired(r)
      BY <1>4, <2>1, <1>q DEF TimeOut, At
    <3> QED BY <3>1 DEF Answerable, Expired
  <2> QED BY <1>1, <1>4, <2>1, <1>t DEF TimeOut, Tally
<1>5. ASSUME UNCHANGED results
      PROVE  \A i \in 1 .. Len(results'[r]) : results'[r][i] # "timeout"
  BY <1>1, <1>5
<1>6. ASSUME NEW q \in Runs, Start(q) \/ Advance(q) \/ Disconnect(q)
      PROVE  UNCHANGED results \/ Read(q) \/ TimeOut(q)
  BY <1>6, <1>q
  DEF Advance, Start, GetToken, NoContracts, Plan, Subscribe, Publish, PublishFails,
      Finalize, Forward, Disconnect, tallies
<1>7. CASE RunnerRestart \/ ResultsRestart
  BY <1>5, <1>7 DEF RunnerRestart, ResultsRestart, run, tallies
<1>8. ASSUME NEW w \in work, Execute(w)
      PROVE  UNCHANGED results
  BY <1>8 DEF Execute, Lookup, Call, AnswerRequest, EndSuiteTest, run, tallies
<1>9. ASSUME NEW a \in Instances,
             \/ Drop(a) \/ Resubscribe(a) \/ Crash(a) \/ Restart(a)
             \/ \E j \in Jobs : Register(a, j)
             \/ \E s \in Suites : OwnSuite(a, s) \/ AdHocSuite(a, s)
      PROVE  UNCHANGED results
  BY <1>9
  DEF OwnSuite, AdHocSuite, RunSuite, Drop, Resubscribe, Crash, Restart, Register, run,
      tallies
<1> QED BY <1>3, <1>4, <1>5, <1>6, <1>7, <1>8, <1>9 DEF Next

\* As long as no message is lost and no instance crashes, no test of a run that Augur
\* Canis serves quickly is given up (waitLoop and resultTimeout of executeRun).
THEOREM NoTestIsGivenUpFalsely == Spec => []NoFalseTimeout
<1>1. Init => Served /\ NoFalseTimeout
  BY DEF Init, Served, NoFalseTimeout
<1>2. TypeInv /\ InboxAnswered /\ Served /\ NoFalseTimeout /\ [Next]_vars
        => (Served /\ NoFalseTimeout)'
  <2>1. ASSUME Served, NoFalseTimeout, UNCHANGED vars
        PROVE  (Served /\ NoFalseTimeout)'
    BY <2>1 DEF Served, NoFalseTimeout, Quiet, Answerable, Current, vars, run, tallies,
       canis, env
  <2> QED BY <2>1, ServedStep, TimeoutStep
<1> QED BY <1>1, <1>2, TypeInvariant, PTL DEF Spec

-----------------------------------------------------------------------------
(* The ledger                                                               *)

\* Runs that are over.
Over == {r \in Runs : pc[r] \in {"done", "gone"}}

\* The tallies of a run are what the ledger counts among its results.
Counted ==
  \A r \in Runs : /\ passed[r] = Ledger!Count("passed", results[r])
                  /\ failed[r] = Ledger!Count("failed", results[r])
                  /\ skipped[r] = Ledger!Count("skipped", results[r])

\* A result counts where its outcome says and nowhere else.
LEMMA CountAppend ==
  ASSUME NEW reasons \in Seq(Reasons), NEW reason \in Reasons, NEW sort
  PROVE  /\ Ledger!Count(sort, reasons) \in Nat
         /\ Ledger!Count(sort, Append(reasons, reason)) =
              IF Outcome(reason) = sort THEN Ledger!Count(sort, reasons) + 1
              ELSE Ledger!Count(sort, reasons)
<1> DEFINE n == Len(reasons)
           longer == Append(reasons, reason)
           Old == {i \in 1 .. n : Outcome(reasons[i]) = sort}
           New == {i \in 1 .. Len(longer) : Outcome(longer[i]) = sort}
<1>1. n \in Nat /\ Len(longer) = n + 1 /\ longer[n + 1] = reason
      /\ \A i \in 1 .. n : longer[i] = reasons[i]
  OBVIOUS
<1>2. \A s, k : Ledger!Count(k, s) = Cardinality({i \in 1 .. Len(s) : Outcome(s[i]) = k})
  BY DEF Ledger!Count, Ledger!Outcome, Outcome, Ledger!Cardinality, Cardinality
<1>3. IsFiniteSet(Old) /\ n + 1 \notin Old
  <2>1. IsFiniteSet(1 .. n) BY <1>1, FS_Interval
  <2>2. Old \in SUBSET (1 .. n) /\ n + 1 \notin Old BY <1>1
  <2> QED BY <2>1, <2>2, FS_Subset
<1>4. New = IF Outcome(reason) = sort THEN Old \cup {n + 1} ELSE Old
  <2> HIDE DEF longer
  <2>1. \A i : i \in 1 .. Len(longer) <=> i \in 1 .. n \/ i = n + 1 BY <1>1
  <2> QED BY <1>1, <2>1
<1>5. Cardinality(Old) \in Nat /\ Cardinality(Old \cup {n + 1}) = Cardinality(Old) + 1
  <2> HIDE DEF Old
  <2> QED BY <1>3, FS_CardinalityType, FS_AddElement
<1>6. Ledger!Count(sort, reasons) = Cardinality(Old)
      /\ Ledger!Count(sort, longer) = Cardinality(New)
  BY <1>2
<1> HIDE DEF Old, New
<1> QED BY <1>4, <1>5, <1>6

\* The end of a test counts its result with the entry it makes.
LEMMA CountedStep ==
  ASSUME TypeInv, InboxAnswered, Counted, Next
  PROVE  Counted'
<1>1. CASE UNCHANGED tallies
  BY <1>1 DEF Counted, tallies
<1>2. ASSUME NEW r \in Runs, NEW reason \in Reasons, Tally(r, reason)
      PROVE  Counted'
  <2>1. /\ results \in [Runs -> Seq(Reasons)] /\ passed \in [Runs -> Nat]
        /\ failed \in [Runs -> Nat] /\ skipped \in [Runs -> Nat]
    BY DEF TypeInv, TypeOK
  <2>2. /\ results'[r] = Append(results[r], reason)
        /\ \A q \in Runs \ {r} :
             /\ results'[q] = results[q] /\ passed'[q] = passed[q]
             /\ failed'[q] = failed[q] /\ skipped'[q] = skipped[q]
    BY <1>2, <2>1 DEF Tally
  <2>3. /\ passed'[r] = IF Outcome(reason) = "passed" THEN passed[r] + 1 ELSE passed[r]
        /\ failed'[r] = IF Outcome(reason) = "failed" THEN failed[r] + 1 ELSE failed[r]
        /\ skipped'[r] = IF Outcome(reason) = "skipped" THEN skipped[r] + 1 ELSE skipped[r]
    BY <1>2, <2>1 DEF Tally
  <2>4. \A k : Ledger!Count(k, results'[r]) =
                 IF Outcome(reason) = k THEN Ledger!Count(k, results[r]) + 1
                 ELSE Ledger!Count(k, results[r])
    BY <2>1, <2>2, CountAppend
  <2>5. /\ passed'[r] = Ledger!Count("passed", results'[r])
        /\ failed'[r] = Ledger!Count("failed", results'[r])
        /\ skipped'[r] = Ledger!Count("skipped", results'[r])
    BY <2>3, <2>4 DEF Counted
  <2> QED BY <2>2, <2>5 DEF Counted
<1> QED BY <1>1, <1>2, ResultWriters

\* The end of a test is an entry in the ledger.
LEMMA TallyEnters ==
  ASSUME IInv, NEW r \in Runs, NEW reason \in Reasons, Tally(r, reason),
         pc[r] \in {"next", "publish", "wait"}, UNCHANGED <<answers, board>>,
         reason \in Verdicts => [req |-> Current(r), reason |-> reason] \in answers
  PROVE  Ledger!Enter(r, reason) /\ Ledger!Next
<1>1. pc \in [Runs -> {"idle", "token", "plan", "next", "publish", "wait",
                       "forward", "done", "gone"}]
  BY DEF IInv, TypeInv, TypeOK
<1>2. r \notin Over /\ Over' = Over
  BY <1>1 DEF Over, Tally, Goto
<1>3. Ledger!Enter(r, reason)
  BY <1>2 DEF Ledger!Enter, Over, Current, Tally
<1> QED BY <1>3 DEF Ledger!Next

\* What forwardToResults posts is the ledger's report.
LEMMA SnapshotIsReport ==
  ASSUME IInv, Counted, NEW r \in Runs, pc[r] = "forward"
  PROVE  Snapshot(r) = Ledger!Report(results[r])
<1>1. Len(results[r]) = total[r] /\ status[r] = Verdict(r) /\ failed[r] \in Nat
  BY DEF IInv, Completed, TypeInv, TypeOK
<1> QED BY <1>1 DEF Counted, Snapshot, Ledger!Report, Verdict

\* A step of a run is an entry, the end of the run or the filing of its report.
LEMMA AdvanceMaps ==
  ASSUME IInv, Counted, NEW r \in Runs, Advance(r)
  PROVE  Ledger!Next \/ UNCHANGED <<answers, results, Over, board>>
<1>t. pc \in [Runs -> {"idle", "token", "plan", "next", "publish", "wait",
                       "forward", "done", "gone"}]
  BY DEF IInv, TypeInv, TypeOK
<1>1. ASSUME pc[r] \notin {"done", "gone"}, NEW step, step \notin {"done", "gone"}, Goto(r, step)
      PROVE  Over' = Over
  BY <1>t, <1>1 DEF Over, Goto
<1>2. ASSUME pc[r] \notin {"done", "gone"}, Goto(r, "done")
      PROVE  r \notin Over /\ Over' = Over \cup {r}
  BY <1>t, <1>2 DEF Over, Goto
<1>3. CASE GetToken(r) \/ Plan(r) \/ Publish(r) \/ Finalize(r)
  BY <1>1, <1>3 DEF GetToken, Plan, Publish, Finalize, At, tallies, canis
<1>4. CASE NoContracts(r)
  <2>1. Over' = Over \cup {r} /\ UNCHANGED <<answers, results, board>>
    BY <1>2, <1>4 DEF NoContracts, At, tallies, canis
  <2>2. Ledger!End({r}) BY <2>1 DEF Ledger!End, Over
  <2> QED BY <2>2 DEF Ledger!Next
<1>5. ASSUME NEW reason \in Reasons, Tally(r, reason), Subscribe(r) \/ PublishFails(r) \/ TimeOut(r),
             reason \notin Verdicts
      PROVE  Ledger!Next
  BY <1>5, TallyEnters DEF Subscribe, PublishFails, TimeOut, At, canis
<1>6. CASE Subscribe(r)
  <2>1. CASE Tally(r, "subscribe") BY <1>5, <1>6, <2>1 DEF Reasons, Verdicts
  <2>2. CASE Goto(r, "publish") /\ UNCHANGED tallies
    BY <1>1, <1>6, <2>2 DEF Subscribe, At, tallies, canis
  <2> QED BY <1>6, <2>1, <2>2 DEF Subscribe
<1>7. CASE PublishFails(r) BY <1>5, <1>7 DEF PublishFails, Reasons, Verdicts
<1>8. CASE TimeOut(r) BY <1>5, <1>8 DEF TimeOut, Reasons, Verdicts
<1>9. CASE Read(r)
  <2>1. CASE Tally(r, Head(inbox[r]).reason) /\ Head(inbox[r]).req = Current(r)
    <3>1. /\ Head(inbox[r]) = [req |-> Current(r), reason |-> Head(inbox[r]).reason]
          /\ Head(inbox[r]) \in answers
          /\ Head(inbox[r]).reason \in Reasons
      BY <1>9, <2>1, HeadIsAnswer DEF Read, IInv, TypeInv, Answer
    <3> QED BY <1>9, <2>1, <3>1, TallyEnters DEF Read, At, canis
  <2>2. CASE UNCHANGED run
    BY <1>9, <2>2 DEF Read, run, tallies, canis, Over
  <2> QED BY <1>9, <2>1, <2>2 DEF Read
<1>10. CASE Forward(r)
  <2>1. pc[r] = "forward" /\ Goto(r, "done") /\ UNCHANGED <<answers, results>>
    BY <1>10 DEF Forward, At, tallies, canis
  <2>2. r \notin Over /\ Over' = Over \cup {r} BY <1>2, <2>1
  <2>3. CASE UNCHANGED board
    <3>1. Ledger!End({r}) BY <2>1, <2>2, <2>3 DEF Ledger!End, Over
    <3> QED BY <3>1 DEF Ledger!Next
  <2>4. CASE board' = [board EXCEPT ![r] = Snapshot(r)]
    <3>1. Snapshot(r) = Ledger!Report(results[r]) BY <2>1, SnapshotIsReport
    <3>2. Ledger!File(r) BY <2>1, <2>2, <2>4, <3>1 DEF Ledger!File, Over
    <3> QED BY <3>2 DEF Ledger!Next
  <2> QED BY <1>10, <2>3, <2>4 DEF Forward, Snapshot
<1> QED BY <1>3, <1>4, <1>6, <1>7, <1>8, <1>9, <1>10 DEF Advance

\* Every step makes an entry, files a report, ends runs, gives a verdict or forgets, or
\* leaves the ledger alone.
LEMMA LedgerStep ==
  ASSUME IInv, Counted, Next
  PROVE  Ledger!Next \/ UNCHANGED <<answers, results, Over, board>>
<1>t. pc \in [Runs -> {"idle", "token", "plan", "next", "publish", "wait",
                       "forward", "done", "gone"}]
  BY DEF IInv, TypeInv, TypeOK
<1>1. ASSUME NEW r \in Runs, Start(r)
      PROVE  UNCHANGED <<answers, results, Over, board>>
  BY <1>t, <1>1 DEF Start, At, Goto, Over, tallies, canis
<1>2. ASSUME NEW w \in work, AnswerRequest(w)
      PROVE  Ledger!Next
  <2>1. answers \subseteq answers' /\ UNCHANGED <<results, board, pc>>
    BY <1>2 DEF AnswerRequest, run, tallies
  <2>2. Ledger!Give BY <2>1 DEF Ledger!Give
  <2> QED BY <2>2 DEF Ledger!Next
<1>3. CASE RunnerRestart
  <2>1. PICK lost \in SUBSET Runs : lost = {r \in Runs : pc[r] \notin {"idle", "done"}} OBVIOUS
  <2>2. Over' = Over \cup lost
    BY <1>t, <1>3, <2>1 DEF RunnerRestart, Over
  <2>3. Ledger!End(lost)
    BY <1>3, <2>2 DEF RunnerRestart, tallies, canis, Ledger!End, Over
  <2> QED BY <2>3 DEF Ledger!Next
<1>4. CASE ResultsRestart
  <2>1. Ledger!Forget
    BY <1>4 DEF ResultsRestart, run, tallies, canis, Ledger!Forget
  <2> QED BY <2>1 DEF Ledger!Next
<1>5. ASSUME NEW r \in Runs, Disconnect(r)
      PROVE  UNCHANGED <<answers, results, Over, board>>
  BY <1>5 DEF Disconnect, tallies, canis, Over
<1>6. ASSUME NEW w \in work, Lookup(w) \/ Call(w) \/ EndSuiteTest(w)
      PROVE  UNCHANGED <<answers, results, Over, board>>
  BY <1>6 DEF Lookup, Call, EndSuiteTest, run, tallies, Over
<1>7. ASSUME NEW a \in Instances, Drop(a) \/ Resubscribe(a) \/ Crash(a) \/ Restart(a)
      PROVE  UNCHANGED <<answers, results, Over, board>>
  BY <1>7 DEF Drop, Resubscribe, Crash, Restart, run, tallies, Over
<1>8. ASSUME NEW a \in Instances, NEW j \in Jobs, Register(a, j)
      PROVE  UNCHANGED <<answers, results, Over, board>>
  BY <1>8 DEF Register, run, tallies, Over
<1>9. ASSUME NEW a \in Instances, NEW s \in Suites, OwnSuite(a, s) \/ AdHocSuite(a, s)
      PROVE  UNCHANGED <<answers, results, Over, board>>
  BY <1>9 DEF OwnSuite, AdHocSuite, RunSuite, run, tallies, Over
<1> QED BY <1>1, <1>2, <1>3, <1>4, <1>5, <1>6, <1>7, <1>8, <1>9, AdvanceMaps DEF Next, Execute

\* Contract test runs keep a ledger: each test has one result, and a verdict only if Augur
\* Canis gave it to this very test (executeRun); a run is reported to Results at most once,
\* as it then is and stays, with every result counted (forwardToResults).
THEOREM RunsImplementLedger == Spec => ImplementsLedger
<1>1. Init => Ledger!Init /\ Counted
  <2>1. SUFFICES ASSUME Init PROVE Ledger!Init /\ Counted OBVIOUS
  <2>2. \A k : Ledger!Count(k, <<>>) = 0
    <3>1. \A k : Ledger!Count(k, <<>>) = Cardinality({})
      <4>1. \A k : {i \in 1 .. Len(<<>>) : Outcome(<<>>[i]) = k} = {} OBVIOUS
      <4> QED BY <4>1 DEF Ledger!Count, Ledger!Outcome, Outcome, Ledger!Cardinality, Cardinality
    <3> QED BY <3>1, FS_EmptySet
  <2>3. Counted BY <2>1, <2>2 DEF Init, Counted
  <2>4. Ledger!Init BY <2>1 DEF Init, Ledger!Init
  <2> QED BY <2>3, <2>4
<1>2. IInv /\ Counted /\ [Next]_vars => Counted'
  <2>1. ASSUME Counted, UNCHANGED vars PROVE Counted'
    BY <2>1 DEF Counted, vars, run, tallies
  <2> QED BY <2>1, CountedStep DEF IInv
<1>3. IInv /\ Counted /\ [Next]_vars => [Ledger!Next]_<<answers, results, Over, board>>
  <2>1. ASSUME UNCHANGED vars PROVE UNCHANGED <<answers, results, Over, board>>
    BY <2>1 DEF vars, run, tallies, canis, Over
  <2> QED BY <2>1, LedgerStep
<1>4. Spec => []Counted BY <1>1, <1>2, RunInvariant, PTL DEF Spec
<1> QED BY <1>1, <1>3, <1>4, RunInvariant, PTL DEF Spec, ImplementsLedger, Ledger!Spec, Over
=============================================================================
