------------------------------ MODULE Scheduler ------------------------------
(***************************************************************************)
(* The scheduler of contract-test (contract-test/main.go): every minute it *)
(* reads the applications from Policy and keeps one watcher goroutine, with *)
(* a ticker and a stop channel, for each active application.  A watcher    *)
(* executes its runs itself, so it sees a closed stop channel only between *)
(* two runs, and a tick that is already in the ticker's channel can win    *)
(* over it.                                                                *)
(***************************************************************************)
EXTENDS PolicyRegistry

CONSTANTS Slots  \* names for the watchers of one application

ASSUME SchedulerAssumption ==
  /\ Nil \notin Slots
  /\ \A s \in Schedules : s.interval \in Int

VARIABLES
  fetched,   \* what syncSchedules holds: Nil, or the active applications' schedules
  scheduled, \* scheduledApps: per application, its watcher's slot or Nil
  watcher    \* per application and slot: the goroutine

sched == <<fetched, scheduled, watcher>>
vars == <<policyVars, sched>>

\* tick: a tick waits in the ticker's channel.  late: runs begun since the stop.
Idle == [state |-> "none", interval |-> 0, stopped |-> FALSE, tick |-> FALSE, late |-> 0]
Begun(i) == [Idle EXCEPT !.state = "waiting", !.interval = i]

SchedTypeOK ==
  /\ TypeOK
  /\ \/ fetched = Nil
     \/ fetched \in [AppIds -> Schedules \cup {Nil}]
  /\ scheduled \in [AppIds -> Slots \cup {Nil}]
  /\ watcher \in [AppIds -> [Slots ->
       [state: {"none", "waiting", "running"}, interval: Nat,
        stopped: BOOLEAN, tick: BOOLEAN, late: Nat]]]

NoWatchers == [a \in AppIds |-> [w \in Slots |-> Idle]]

Init ==
  /\ PolicyInit
  /\ fetched = Nil
  /\ scheduled = [a \in AppIds |-> Nil]
  /\ watcher = NoWatchers

-----------------------------------------------------------------------------
Active(a) == apps[a] # Nil /\ apps[a].status = "active"

\* fetchApplicationsFromPolicy: only the active applications.
Fetch ==
  /\ fetched = Nil
  /\ \/ /\ fetched' = [a \in AppIds |->
             IF Active(a) THEN apps[a].schedule ELSE Nil]
        /\ UNCHANGED faults
     \/ Fault /\ UNCHANGED fetched
  /\ UNCHANGED <<registry, monitoring, ingested, subs, handlers, restarts,
                 scheduled, watcher>>

\* An interval that is not positive means 15 minutes.
Interval(s) == IF s.interval <= 0 THEN 15 ELSE s.interval

\* What is wanted of application a: a watcher, none, or whatever there is.
Wanted(a) == fetched[a] # Nil /\ fetched[a].enabled
Gone(a) == fetched[a] = Nil

\* Mutant of Starts: a change of the interval is not noticed.
StartsOnlyNew(a) == Wanted(a) /\ scheduled[a] = Nil

Starts(a) ==
  /\ Wanted(a)
  /\ scheduled[a] # Nil => watcher[a][scheduled[a]].interval # Interval(fetched[a])

\* Mutant of Stops: the loop over removed applications is missing.
StopsOnlyChanged(a) == scheduled[a] # Nil /\ Starts(a)

Stops(a) == scheduled[a] # Nil /\ (Gone(a) \/ Starts(a))

\* syncSchedules, under its mutex.
Sync ==
  /\ fetched # Nil
  /\ fetched' = Nil
  /\ \E slot \in [AppIds -> Slots] :
       /\ \A a \in AppIds : Starts(a) => watcher[a][slot[a]].state = "none"
       /\ watcher' = [a \in AppIds |-> [w \in Slots |->
            IF Starts(a) /\ w = slot[a] THEN Begun(Interval(fetched[a]))
            ELSE IF Stops(a) /\ w = scheduled[a]
                 THEN [watcher[a][w] EXCEPT !.stopped = TRUE]
            ELSE watcher[a][w]]]
       /\ scheduled' = [a \in AppIds |-> IF Starts(a) THEN slot[a]
                                         ELSE IF Stops(a) THEN Nil ELSE scheduled[a]]
  /\ UNCHANGED policyVars

Become(a, w, g) ==
  /\ watcher' = [watcher EXCEPT ![a][w] = g]
  /\ UNCHANGED <<policyVars, fetched, scheduled>>

\* The ticker's channel holds one tick; a stopped ticker sends none.
Tick(a, w) ==
  LET g == watcher[a][w] IN
  /\ g.state # "none" /\ ~g.stopped /\ ~g.tick
  /\ Become(a, w, [g EXCEPT !.tick = TRUE])

\* The tick is used up; after the stop it is a late one.
Running(g) == [g EXCEPT !.state = "running", !.tick = FALSE,
                        !.late = IF g.stopped THEN @ + 1 ELSE @]

\* select: a tick and a closed stop channel are equally good.
Trigger(a, w) ==
  LET g == watcher[a][w] IN
  /\ g.state = "waiting" /\ g.tick
  /\ Become(a, w, Running(g))

EndRun(a, w) ==
  LET g == watcher[a][w] IN
  /\ g.state = "running"
  /\ Become(a, w, [g EXCEPT !.state = "waiting"])

Exit(a, w) ==
  LET g == watcher[a][w] IN
  /\ g.state = "waiting" /\ g.stopped
  /\ Become(a, w, Idle)

\* contract-test restarts.
SchedulerRestart ==
  /\ restarts < MaxRestarts
  /\ restarts' = restarts + 1
  /\ fetched' = Nil
  /\ scheduled' = [a \in AppIds |-> Nil]
  /\ watcher' = NoWatchers
  /\ UNCHANGED <<registry, monitoring, ingested, subs, handlers, faults>>

Watch(a, w) == Trigger(a, w) \/ EndRun(a, w) \/ Exit(a, w)

Next ==
  \/ PolicyNext /\ UNCHANGED sched
  \/ Fetch \/ Sync \/ SchedulerRestart
  \/ \E a \in AppIds, w \in Slots : Tick(a, w) \/ Watch(a, w)

Spec == Init /\ [][Next]_vars

\* Goroutines are scheduled, runs end (ContractRun!RunEnds), the minute ticker ticks.
FairSpec ==
  /\ Spec
  /\ WF_vars(Fetch) /\ WF_vars(Sync)
  /\ \A a \in AppIds, w \in Slots : WF_vars(Watch(a, w))

-----------------------------------------------------------------------------
(* Properties                                                               *)

\* Watchers and scheduledApps agree: an application's only watcher that has not been
\* stopped is the one on record, so no watcher escapes syncSchedules.
NoStrayWatcher ==
  \A a \in AppIds, w \in Slots :
    (watcher[a][w].state # "none" /\ ~watcher[a][w].stopped) <=> scheduled[a] = w

\* After "stopped watching" at most one more run is started: the tick that was
\* already waiting.
LateRunsBounded == \A a \in AppIds, w \in Slots : watcher[a][w].late <= 1

\* The calls that change the registry end (MaxCalls).  After the last of them, and the
\* last restart, every application that is active and enabled comes to be watched at
\* its interval, and stays so.
ActiveIsWatched ==
  <>[](\A a \in AppIds :
         Active(a) /\ apps[a].schedule.enabled =>
           /\ scheduled[a] # Nil
           /\ watcher[a][scheduled[a]].interval = Interval(apps[a].schedule))

\* Then, too, an application that is gone or suspended comes to have no watcher at all.
InactiveIsReleased ==
  <>[](\A a \in AppIds :
         ~Active(a) => \A w \in Slots : watcher[a][w].state = "none")
=============================================================================
