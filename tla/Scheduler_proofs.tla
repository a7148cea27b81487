-------------------------- MODULE Scheduler_proofs --------------------------
(***************************************************************************)
(* Types, the agreement of watchers and scheduledApps, and the bound on    *)
(* runs begun after the stop, for any applications and slots.              *)
(***************************************************************************)
EXTENDS Scheduler, TLAPS

(***************************************************************************)
(* The registry: types, and service accounts, for any names, tags and      *)
(* handlers.  The accounts need to be told apart by their names: an        *)
(* application's account is called after its ID or, if it was activated,   *)
(* after its tag, and the deletion of another application must not hit     *)
(* that name.                                                              *)
(***************************************************************************)
\* The account of application a has one of the two names it can have.
IsAccountOf(c, a) ==
  /\ c.app = a
  /\ c.id = Account(a) \/ \E t \in Tags : a = AppId(t) /\ c.id = Account(t)

Accounted == \A a \in AppIds : apps[a] # Nil => \E c \in accounts : IsAccountOf(c, a)

-----------------------------------------------------------------------------
LEMMA AccountNames ==
  /\ \A t \in Tags : AppId(t) \in AppIds
  /\ Names \subseteq AppIds
  /\ \A x \in Names \cup Tags \cup AppIds : Account(x) \in AccountName
  /\ \A x, y : Account(x) = Account(y) => x = y
  /\ \A t, u : AppId(t) = AppId(u) => t = u
BY DEF AppIds, AppId, Account, AccountName

LEMMA InitTyped == PolicyInit => TypeOK
BY RegistryAssumption, AccountNames DEF PolicyInit, TypeOK, StartApps, StartAccounts, App

LEMMA NamedTyped ==
  ASSUME TypeOK, NEW a \in AppIds, RegisterApplication(a) \/ DeleteApplication(a)
  PROVE  TypeOK'
<1>1. CASE RegisterApplication(a)
  <2>1. PICK s \in Schedules :
          apps' = [apps EXCEPT ![a] = [status |-> "active", schedule |-> s]]
    BY <1>1 DEF RegisterApplication
  <2>2. [status |-> "active", schedule |-> s] \in App
    BY DEF App
  <2>3. accounts' \subseteq [id: AccountName, app: AppIds]
    BY <1>1, AccountNames DEF RegisterApplication, PutAccount, TypeOK
  <2> QED  BY <1>1, <2>1, <2>2, <2>3 DEF RegisterApplication, TypeOK, Call
<1>2. CASE DeleteApplication(a)
  BY <1>2 DEF DeleteApplication, TypeOK, Call
<1> QED  BY <1>1, <1>2

\* A request is given its tag.
LEMMA BeginTyped ==
  ASSUME TypeOK, NEW q \in Requests, NEW t \in Tags,
         BeginRegister(q, t) \/ BeginDeregister(q, t)
  PROVE  TypeOK'
<1>1. UNCHANGED <<apps, accounts, monitoring, ingested, subs, faults, restarts>>
  BY DEF BeginRegister, BeginDeregister, registry
<1>2. PICK step \in {"store", "unfederate"} :
        pc' = [pc EXCEPT ![q] = step] /\ tag' = [tag EXCEPT ![q] = t]
  BY DEF BeginRegister, BeginDeregister, Take, Goto
<1>3. pc' \in [Requests -> {"idle", "store", "federate", "ingest", "activate",
                           "unfederate", "suspend", "deactivate"}]
  BY <1>2 DEF TypeOK
<1>4. calls' \in Nat
  BY DEF BeginRegister, BeginDeregister, Call, TypeOK
<1>5. /\ tag' \in [Requests -> Tags \cup {Nil}]
      /\ \A p \in Requests : pc'[p] # "idle" => tag'[p] \in Tags
  BY <1>2 DEF TypeOK
<1> QED  BY <1>1, <1>3, <1>4, <1>5 DEF TypeOK

\* The steps of a handler that has taken up tag[q].
LEMMA HandleTyped ==
  ASSUME TypeOK, NEW q \in Requests, Handle(q)
  PROVE  TypeOK'
<1> DEFINE t == tag[q]
           a == AppId(t)
<1>1. pc[q] # "idle"
  BY DEF Handle, Store, RequestFederation, RequestIngest, Activate, RequestDisconnect,
         Suspend, Deactivate, At
<1>2. t \in Tags /\ a \in AppIds /\ Account(t) \in AccountName
  BY <1>1, AccountNames DEF TypeOK
<1>3. CASE Store(q)
  <2>1. [status |-> "active", schedule |-> Default] \in App
    BY RegistryAssumption DEF App
  <2>2. apps' \in [AppIds -> App \cup {Nil}]
    BY <1>2, <1>3, <2>1 DEF Store, registry, TypeOK
  <2>3. accounts' \subseteq [id: AccountName, app: AppIds]
    BY <1>2, <1>3 DEF Store, registry, PutAccount, TypeOK
  <2> QED  BY <1>2, <1>3, <2>2, <2>3 DEF Store, TypeOK, At, Goto
<1>4. CASE RequestFederation(q)
  BY <1>2, <1>4 DEF RequestFederation, TypeOK, At, Goto, registry
<1>5. CASE RequestIngest(q)
  <2>1. ingested' \subseteq Tags /\ faults' \in Nat
    BY <1>2, <1>5 DEF RequestIngest, TypeOK, Fault
  <2> QED  BY <1>2, <1>5, <2>1 DEF RequestIngest, TypeOK, Goto, registry
<1>6. CASE Activate(q)
  BY <1>2, <1>6 DEF Activate, TypeOK, At, Goto, Respond, registry
<1>7. CASE RequestDisconnect(q)
  <2>1. subs' \subseteq Tags \cup AppIds /\ faults' \in Nat
    BY <1>2, <1>7 DEF RequestDisconnect, TypeOK, Fault
  <2> QED  BY <1>2, <1>7, <2>1 DEF RequestDisconnect, TypeOK, Goto, registry
<1>8. CASE Suspend(q)
  <2>1. apps' \in [AppIds -> App \cup {Nil}]
    BY <1>2, <1>8 DEF Suspend, TypeOK, App
  <2> QED  BY <1>2, <1>8, <2>1 DEF Suspend, TypeOK, At, Goto
<1>9. CASE Deactivate(q)
  BY <1>2, <1>9 DEF Deactivate, TypeOK, At, Goto, Respond, registry
<1> QED  BY <1>3, <1>4, <1>5, <1>6, <1>7, <1>8, <1>9 DEF Handle

LEMMA RestartTyped ==
  ASSUME TypeOK, Restart
  PROVE  TypeOK'
BY RegistryAssumption, AccountNames
DEF TypeOK, Restart, StartApps, StartAccounts, App

LEMMA PolicyStepTyped ==
  ASSUME TypeOK, [PolicyNext]_policyVars
  PROVE  TypeOK'
<1>1. CASE UNCHANGED policyVars
  BY <1>1 DEF TypeOK, policyVars, registry, handlers
<1>2. CASE \E n \in Names : RegisterApplication(n)
  BY <1>2, NamedTyped, AccountNames
<1>3. CASE \E a \in AppIds : DeleteApplication(a)
  BY <1>3, NamedTyped
<1>4. CASE \E t \in Tags : Federate(t)
  BY <1>4 DEF Federate, TypeOK, registry, handlers
<1> QED  BY <1>1, <1>2, <1>3, <1>4, BeginTyped, HandleTyped, RestartTyped DEF PolicyNext

\* Types of the registry, of the handlers' locals and of what other services keep.
THEOREM TypeCorrect == PolicySpec => []TypeOK
BY InitTyped, PolicyStepTyped, PTL DEF PolicySpec

-----------------------------------------------------------------------------
\* Replacing the account of a new application takes no other application's.
LEMMA PutKeeps ==
  ASSUME Tags \cap AppIds = {}, NEW b \in AppIds, NEW id, IsAccountOf([id |-> id, app |-> b], b),
         NEW a \in AppIds \ {b}, NEW c \in accounts, IsAccountOf(c, a)
  PROVE  c \in PutAccount(id, b)
<1>1. id = Account(b) \/ \E t \in Tags : b = AppId(t) /\ id = Account(t)
  BY DEF IsAccountOf
<1>2. c.id # id
  BY <1>1, AccountNames DEF IsAccountOf
<1> QED  BY <1>2 DEF PutAccount

\* What is left to do in a step that changes accounts and apps[b] only.
LEMMA AccountedStep ==
  ASSUME TypeOK, Tags \cap AppIds = {}, Accounted, [PolicyNext]_policyVars
  PROVE  Accounted'
<1>1. ASSUME NEW n \in Names, RegisterApplication(n)
      PROVE  Accounted'
  <2>1. n \in AppIds /\ IsAccountOf([id |-> Account(n), app |-> n], n)
    BY AccountNames DEF IsAccountOf
  <2>2. accounts' = PutAccount(Account(n), n) /\ \A a \in AppIds \ {n} : apps'[a] = apps[a]
    BY <1>1 DEF RegisterApplication, TypeOK
  <2>3. [id |-> Account(n), app |-> n] \in accounts'
    BY <2>2 DEF PutAccount
  <2> QED  BY <2>1, <2>2, <2>3, PutKeeps DEF Accounted, IsAccountOf
<1>2. ASSUME NEW b \in AppIds, DeleteApplication(b)
      PROVE  Accounted'
  <2>1. ASSUME NEW a \in AppIds, apps'[a] # Nil
        PROVE  \E c \in accounts' : IsAccountOf(c, a)
    <3>1. a # b /\ apps[a] # Nil
      BY <1>2, <2>1 DEF DeleteApplication, TypeOK
    <3>2. PICK c \in accounts : IsAccountOf(c, a)
      BY <3>1 DEF Accounted
    <3>3. c.id # Account(b)
      BY <3>1, <3>2, AccountNames DEF IsAccountOf
    <3> QED  BY <1>2, <3>2, <3>3 DEF DeleteApplication
  <2> QED  BY <2>1 DEF Accounted, IsAccountOf
<1>3. ASSUME NEW q \in Requests, Store(q)
      PROVE  Accounted'
  <2> DEFINE t == tag[q]
             b == AppId(t)
  <2>1. t \in Tags /\ b \in AppIds
    BY <1>3, AccountNames DEF Store, At, TypeOK
  <2>2. CASE apps[b] # Nil
    BY <1>3, <2>2 DEF Store, registry, Accounted, IsAccountOf
  <2>3. CASE apps[b] = Nil
    <3>1. accounts' = PutAccount(Account(t), b) /\ \A a \in AppIds \ {b} : apps'[a] = apps[a]
      BY <1>3, <2>3 DEF Store, TypeOK
    <3>2. IsAccountOf([id |-> Account(t), app |-> b], b)
      BY <2>1 DEF IsAccountOf
    <3>3. [id |-> Account(t), app |-> b] \in accounts'
      BY <3>1 DEF PutAccount
    <3> HIDE DEF b, t
    <3> QED  BY <2>1, <3>1, <3>2, <3>3, PutKeeps DEF Accounted, IsAccountOf
  <2> QED  BY <2>2, <2>3
<1>4. ASSUME NEW q \in Requests, Suspend(q)
      PROVE  Accounted'
  BY <1>4 DEF Suspend, Accounted, IsAccountOf, TypeOK
<1>5. CASE Restart
  BY <1>5 DEF Restart, StartApps, StartAccounts, Accounted, IsAccountOf
<1>6. CASE UNCHANGED registry
  BY <1>6 DEF registry, Accounted, IsAccountOf
<1>7. \/ \E n \in Names : RegisterApplication(n)
      \/ \E b \in AppIds : DeleteApplication(b)
      \/ \E q \in Requests : Store(q) \/ Suspend(q)
      \/ Restart \/ UNCHANGED registry
  BY DEF PolicyNext, Handle, policyVars, BeginRegister, BeginDeregister, RequestFederation,
         RequestIngest, Activate, RequestDisconnect, Deactivate, Federate
<1> QED  BY <1>1, <1>2, <1>3, <1>4, <1>5, <1>6, <1>7

\* Every application has a service account, whoever registers, activates, deletes and
\* restarts, if no tag is the ID of an application.
THEOREM AccountsComplete == PolicySpec => []EveryAppHasAccount
<1>1. CASE Tags \cap AppIds = {}
  <2>1. PolicyInit => Accounted
    BY DEF PolicyInit, StartApps, StartAccounts, Accounted, IsAccountOf
  <2>2. Accounted => EveryAppHasAccount
    BY DEF Accounted, EveryAppHasAccount, IsAccountOf
  <2>3. TypeOK /\ Accounted /\ [PolicyNext]_policyVars => Accounted'
    BY <1>1, AccountedStep
  <2> QED  BY <2>1, <2>2, <2>3, TypeCorrect, PTL DEF PolicySpec
<1>2. CASE Tags \cap AppIds # {}
  <2>1. EveryAppHasAccount
    BY <1>2 DEF EveryAppHasAccount
  <2> QED  BY <2>1, PTL
<1> QED  BY <1>1, <1>2

-----------------------------------------------------------------------------
(***************************************************************************)
(* The watchers.                                                           *)
(***************************************************************************)
Watcher == [state: {"none", "waiting", "running"}, interval: Nat,
            stopped: BOOLEAN, tick: BOOLEAN, late: Nat]

\* The one late run uses up the tick that was waiting at the stop.
LateUsesTick ==
  \A a \in AppIds, w \in Slots :
    LET g == watcher[a][w] IN
    /\ g.late <= 1
    /\ ~g.stopped \/ g.tick => g.late = 0

IInv == SchedTypeOK /\ NoStrayWatcher /\ LateUsesTick

-----------------------------------------------------------------------------
LEMMA FreshWatcher ==
  /\ Idle \in Watcher
  /\ \A i \in Nat : Begun(i) \in Watcher /\ Begun(i).late = 0
BY DEF Idle, Begun, Watcher

LEMMA Intervals == \A s \in Schedules : Interval(s) \in Nat
BY SchedulerAssumption DEF Interval

\* Closing the stop channel changes nothing else of the goroutine.
LEMMA Stopping ==
  ASSUME NEW g \in Watcher, NEW h, h = [g EXCEPT !.stopped = TRUE]
  PROVE  h \in Watcher /\ h.stopped /\ h.tick = g.tick /\ h.late = g.late
BY DEF Watcher

LEMMA RunningWatcher ==
  ASSUME NEW g \in Watcher, g.late = 0
  PROVE  /\ Running(g) \in Watcher /\ Running(g).state = "running"
         /\ Running(g).stopped = g.stopped /\ ~Running(g).tick
         /\ Running(g).late = IF g.stopped THEN 1 ELSE 0
<1> DEFINE late == IF g.stopped THEN g.late + 1 ELSE g.late
<1>1. late \in Nat /\ late = IF g.stopped THEN 1 ELSE 0
  OBVIOUS
<1>2. Running(g) = [g EXCEPT !.state = "running", !.tick = FALSE, !.late = late]
  BY DEF Running
<1> HIDE DEF late
<1> QED  BY <1>1, <1>2 DEF Watcher

LEMMA InitIInv == Init => IInv
<1> SUFFICES ASSUME Init PROVE IInv
  OBVIOUS
<1>1. watcher \in [AppIds -> [Slots -> Watcher]]
  BY FreshWatcher DEF Init, NoWatchers
<1>2. SchedTypeOK
  BY <1>1, InitTyped DEF Init, SchedTypeOK, Watcher
<1>3. \A a \in AppIds, w \in Slots : watcher[a][w] = Idle
  BY DEF Init, NoWatchers
<1>4. NoStrayWatcher
  BY <1>3, SchedulerAssumption DEF Init, NoStrayWatcher, Idle
<1>5. LateUsesTick
  BY <1>3 DEF LateUsesTick, Idle
<1> QED  BY <1>2, <1>4, <1>5 DEF IInv

\* Steps of one watcher: it may go from live to live, or from stopped to stopped or none.
LEMMA BecomeIInv ==
  ASSUME IInv, NEW a \in AppIds, NEW w \in Slots, NEW g \in Watcher, Become(a, w, g),
         (g.state # "none" /\ ~g.stopped)
           <=> (watcher[a][w].state # "none" /\ ~watcher[a][w].stopped),
         g.late <= 1, ~g.stopped \/ g.tick => g.late = 0
  PROVE  IInv'
<1>1. watcher' \in [AppIds -> [Slots -> Watcher]]
  BY DEF Become, IInv, SchedTypeOK, Watcher
<1>2. SchedTypeOK'
  <2>1. TypeOK'
    BY PolicyStepTyped DEF Become, IInv, SchedTypeOK
  <2> QED  BY <1>1, <2>1 DEF Become, IInv, SchedTypeOK, Watcher
<1>3. \A b \in AppIds, v \in Slots :
        watcher'[b][v] = IF b = a /\ v = w THEN g ELSE watcher[b][v]
  BY DEF Become, IInv, SchedTypeOK
<1>4. NoStrayWatcher'
  BY <1>3 DEF Become, IInv, NoStrayWatcher
<1>5. LateUsesTick'
  BY <1>3 DEF IInv, LateUsesTick
<1> QED  BY <1>2, <1>4, <1>5 DEF IInv

LEMMA WatchIInv ==
  ASSUME IInv, NEW a \in AppIds, NEW w \in Slots, Tick(a, w) \/ Watch(a, w)
  PROVE  IInv'
<1> DEFINE g == watcher[a][w]
<1>1. g \in Watcher /\ g.late <= 1 /\ (~g.stopped \/ g.tick => g.late = 0)
  BY DEF IInv, SchedTypeOK, LateUsesTick, Watcher
<1> HIDE DEF g
<1>2. CASE Tick(a, w)
  <2>1. [g EXCEPT !.tick = TRUE] \in Watcher
    BY <1>1 DEF Watcher
  <2> QED  BY <1>1, <1>2, <2>1, BecomeIInv DEF Tick, g, Watcher
<1>3. CASE Trigger(a, w)
  <2>1. Become(a, w, Running(g)) /\ g.state # "none" /\ g.late = 0
    BY <1>1, <1>3 DEF Trigger, g
  <2>2. /\ Running(g) \in Watcher /\ Running(g).state = "running"
        /\ Running(g).stopped = g.stopped /\ ~Running(g).tick
        /\ Running(g).late = IF g.stopped THEN 1 ELSE 0
    BY <1>1, <2>1, RunningWatcher
  <2> QED  BY <2>1, <2>2, BecomeIInv DEF g
<1>4. CASE EndRun(a, w)
  <2>1. [g EXCEPT !.state = "waiting"] \in Watcher
    BY <1>1 DEF Watcher
  <2> QED  BY <1>1, <1>4, <2>1, BecomeIInv DEF EndRun, g, Watcher
<1>5. CASE Exit(a, w)
  BY <1>1, <1>5, FreshWatcher, BecomeIInv DEF Exit, g, Idle
<1> QED  BY <1>2, <1>3, <1>4, <1>5 DEF Watch

\* syncSchedules starts a watcher in a free slot and stops the one on record.
LEMMA SyncIInv ==
  ASSUME IInv, Sync
  PROVE  IInv'
<1>1. PICK slot \in [AppIds -> Slots] :
        /\ \A a \in AppIds : Starts(a) => watcher[a][slot[a]].state = "none"
        /\ watcher' = [a \in AppIds |-> [w \in Slots |->
             IF Starts(a) /\ w = slot[a] THEN Begun(Interval(fetched[a]))
             ELSE IF Stops(a) /\ w = scheduled[a]
                  THEN [watcher[a][w] EXCEPT !.stopped = TRUE]
             ELSE watcher[a][w]]]
        /\ scheduled' = [a \in AppIds |-> IF Starts(a) THEN slot[a]
                                          ELSE IF Stops(a) THEN Nil ELSE scheduled[a]]
  BY DEF Sync
<1>2. fetched \in [AppIds -> Schedules \cup {Nil}] /\ fetched' = Nil
  BY DEF Sync, IInv, SchedTypeOK
<1>3. ASSUME NEW a \in AppIds, NEW w \in Slots
      PROVE  /\ watcher[a][w] \in Watcher
             /\ watcher'[a][w] = IF Starts(a) /\ w = slot[a] THEN Begun(Interval(fetched[a]))
                  ELSE IF Stops(a) /\ w = scheduled[a]
                       THEN [watcher[a][w] EXCEPT !.stopped = TRUE]
                  ELSE watcher[a][w]
             /\ Starts(a) => Interval(fetched[a]) \in Nat
  <2>1. watcher[a][w] \in Watcher
    BY DEF IInv, SchedTypeOK, Watcher
  <2>2. Starts(a) => Interval(fetched[a]) \in Nat
    BY <1>2, Intervals DEF Starts, Wanted
  <2> QED  BY <1>1, <2>1, <2>2
<1>4. watcher' \in [AppIds -> [Slots -> Watcher]]
  <2>1. ASSUME NEW a \in AppIds, NEW w \in Slots PROVE watcher'[a][w] \in Watcher
    <3>1. [watcher[a][w] EXCEPT !.stopped = TRUE] \in Watcher
      BY <1>3, Stopping
    <3> QED  BY <1>3, <3>1, FreshWatcher
  <2>2. \A a \in AppIds : watcher'[a] = [w \in Slots |-> watcher'[a][w]]
    BY <1>1
  <2>3. watcher' = [a \in AppIds |-> [w \in Slots |-> watcher'[a][w]]]
    BY <1>1, <2>2
  <2> QED  BY <2>1, <2>3
<1>5. SchedTypeOK'
  <2>1. TypeOK'
    BY PolicyStepTyped DEF Sync, IInv, SchedTypeOK
  <2>2. scheduled' \in [AppIds -> Slots \cup {Nil}]
    BY <1>1 DEF IInv, SchedTypeOK
  <2> QED  BY <1>2, <1>4, <2>1, <2>2 DEF SchedTypeOK, Watcher
<1>6. NoStrayWatcher'
  <2> SUFFICES ASSUME NEW a \in AppIds, NEW w \in Slots
               PROVE  (watcher'[a][w].state # "none" /\ ~watcher'[a][w].stopped)
                        <=> scheduled'[a] = w
    BY DEF NoStrayWatcher
  <2>1. (watcher[a][w].state # "none" /\ ~watcher[a][w].stopped) <=> scheduled[a] = w
    BY DEF IInv, NoStrayWatcher
  <2>2. CASE Starts(a) /\ w = slot[a]
    BY <1>1, <1>3, <2>2 DEF Begun, Idle
  <2>3. CASE Stops(a) /\ w = scheduled[a] /\ ~(Starts(a) /\ w = slot[a])
    <3>1. watcher'[a][w].stopped
      BY <1>3, <2>3, Stopping
    <3>2. scheduled'[a] # w
      BY <1>1, <2>3, SchedulerAssumption
    <3> QED  BY <3>1, <3>2
  <2>4. CASE ~(Stops(a) /\ w = scheduled[a]) /\ ~(Starts(a) /\ w = slot[a])
    <3>1. watcher'[a][w] = watcher[a][w]
      BY <1>3, <2>4
    <3>2. CASE Starts(a)
      <4>1. scheduled'[a] = slot[a] /\ scheduled'[a] # w
        BY <1>1, <2>4, <3>2
      <4>2. scheduled[a] # w
        BY <2>4, <3>2, SchedulerAssumption DEF Stops
      <4> QED  BY <2>1, <3>1, <4>1, <4>2
    <3>3. CASE ~Starts(a) /\ Stops(a)
      <4>1. scheduled'[a] = Nil /\ scheduled[a] # w
        BY <1>1, <2>4, <3>3
      <4> QED  BY <2>1, <3>1, <4>1, SchedulerAssumption
    <3>4. CASE ~Starts(a) /\ ~Stops(a)
      <4>1. scheduled'[a] = scheduled[a]
        BY <1>1, <3>4
      <4> QED  BY <2>1, <3>1, <4>1
    <3> QED  BY <3>2, <3>3, <3>4
  <2> QED  BY <2>2, <2>3, <2>4
<1>7. LateUsesTick'
  <2> SUFFICES ASSUME NEW a \in AppIds, NEW w \in Slots
               PROVE  /\ watcher'[a][w].late <= 1
                      /\ ~watcher'[a][w].stopped \/ watcher'[a][w].tick
                           => watcher'[a][w].late = 0
    BY DEF LateUsesTick
  <2>1. /\ watcher[a][w].late <= 1
        /\ ~watcher[a][w].stopped \/ watcher[a][w].tick => watcher[a][w].late = 0
    BY DEF IInv, LateUsesTick
  <2>2. CASE Starts(a) /\ w = slot[a]
    <3>1. watcher'[a][w] = Begun(Interval(fetched[a])) /\ Interval(fetched[a]) \in Nat
      BY <1>3, <2>2
    <3>2. watcher'[a][w].late = 0
      BY <3>1, FreshWatcher
    <3> QED  BY <3>2
  <2>3. CASE Stops(a) /\ w = scheduled[a] /\ ~(Starts(a) /\ w = slot[a])
    <3>1. ~watcher[a][w].stopped
      BY <2>3 DEF IInv, NoStrayWatcher
    <3>2. watcher'[a][w] = [watcher[a][w] EXCEPT !.stopped = TRUE]
      BY <1>3, <2>3
    <3> QED  BY <1>3, <2>1, <3>1, <3>2, Stopping
  <2>4. CASE ~(Stops(a) /\ w = scheduled[a]) /\ ~(Starts(a) /\ w = slot[a])
    BY <1>3, <2>1, <2>4
  <2> QED  BY <2>2, <2>3, <2>4
<1> QED  BY <1>5, <1>6, <1>7 DEF IInv

LEMMA StepIInv ==
  ASSUME IInv, [Next]_vars
  PROVE  IInv'
<1>1. ASSUME UNCHANGED sched, TypeOK' PROVE IInv'
  BY <1>1 DEF IInv, sched, SchedTypeOK, NoStrayWatcher, LateUsesTick
<1>2. CASE PolicyNext /\ UNCHANGED sched
  BY <1>1, <1>2, PolicyStepTyped DEF IInv, SchedTypeOK
<1>3. CASE UNCHANGED vars
  BY <1>1, <1>3, PolicyStepTyped DEF IInv, SchedTypeOK, vars
<1>4. CASE Fetch
  <2>1. fetched' = Nil \/ fetched' \in [AppIds -> Schedules \cup {Nil}]
    BY <1>4 DEF Fetch, IInv, SchedTypeOK, TypeOK, App, Active
  <2>2. faults' \in Nat
    BY <1>4 DEF Fetch, Fault, IInv, SchedTypeOK, TypeOK
  <2>3. TypeOK'
    BY <1>4, <2>2 DEF Fetch, IInv, SchedTypeOK, TypeOK, registry, handlers
  <2> QED  BY <1>4, <2>1, <2>3 DEF Fetch, IInv, SchedTypeOK, NoStrayWatcher, LateUsesTick
<1>5. CASE SchedulerRestart
  <2>1. TypeOK'
    BY <1>5 DEF SchedulerRestart, IInv, SchedTypeOK, TypeOK, registry, handlers
  <2>2. watcher' \in [AppIds -> [Slots -> Watcher]]
    BY <1>5, FreshWatcher DEF SchedulerRestart, NoWatchers
  <2>3. \A a \in AppIds, w \in Slots : watcher'[a][w] = Idle
    BY <1>5 DEF SchedulerRestart, NoWatchers
  <2>4. SchedTypeOK'
    BY <1>5, <2>1, <2>2 DEF SchedulerRestart, SchedTypeOK, Watcher
  <2>5. NoStrayWatcher'
    BY <1>5, <2>3, SchedulerAssumption DEF SchedulerRestart, NoStrayWatcher, Idle
  <2>6. LateUsesTick'
    BY <2>3 DEF LateUsesTick, Idle
  <2> QED  BY <2>4, <2>5, <2>6 DEF IInv
<1> QED  BY <1>2, <1>3, <1>4, <1>5, SyncIInv, WatchIInv DEF Next

LEMMA IInvHolds == Spec => []IInv
BY InitIInv, StepIInv, PTL DEF Spec

\* Types of the scheduler's map, its goroutines and the registry it reads.
THEOREM SchedTypeCorrect == Spec => []SchedTypeOK
<1>1. IInv => SchedTypeOK
  BY DEF IInv
<1> QED  BY <1>1, IInvHolds, PTL

\* scheduledApps names every watcher that was not told to stop, and no other, however
\* deletions, changed intervals, restarts and running tests interleave.
THEOREM NoWatcherEscapes == Spec => []NoStrayWatcher
<1>1. IInv => NoStrayWatcher
  BY DEF IInv
<1> QED  BY <1>1, IInvHolds, PTL

\* A watcher that was told to stop begins at most one more run.
THEOREM AtMostOneLateRun == Spec => []LateRunsBounded
<1>1. IInv => LateRunsBounded
  BY DEF IInv, LateUsesTick, LateRunsBounded
<1> QED  BY <1>1, IInvHolds, PTL

\* Every registered application keeps its service account while contract-test watches, which
\* only reads the registry (syncScheduledApps).
THEOREM WatchedAccountsComplete == Spec => []EveryAppHasAccount
<1>1. CASE Tags \cap AppIds = {}
  <2>1. Init => Accounted
    BY DEF Init, PolicyInit, StartApps, StartAccounts, Accounted, IsAccountOf
  <2>2. Accounted => EveryAppHasAccount
    BY DEF Accounted, EveryAppHasAccount, IsAccountOf
  <2>3. SchedTypeOK /\ Accounted /\ [Next]_vars => Accounted'
    <3> SUFFICES ASSUME SchedTypeOK, Accounted, [Next]_vars PROVE Accounted'
      OBVIOUS
    <3>1. [PolicyNext]_policyVars \/ UNCHANGED <<registry, handlers>>
      BY DEF Next, Fetch, Sync, SchedulerRestart, Tick, Watch, Trigger, EndRun, Exit, Become,
             vars, policyVars
    <3>2. CASE [PolicyNext]_policyVars
      BY <1>1, <3>2, AccountedStep DEF SchedTypeOK
    <3>3. CASE UNCHANGED <<registry, handlers>>
      BY <3>3 DEF registry, handlers, Accounted, IsAccountOf
    <3> QED  BY <3>1, <3>2, <3>3
  <2> QED  BY <2>1, <2>2, <2>3, SchedTypeCorrect, PTL DEF Spec
<1>2. CASE Tags \cap AppIds # {}
  <2>1. EveryAppHasAccount
    BY <1>2 DEF EveryAppHasAccount
  <2> QED  BY <2>1, PTL
<1> QED  BY <1>1, <1>2
=============================================================================
