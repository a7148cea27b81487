---------------------------- MODULE Health_proofs ---------------------------
(* Theorems about health and alerts:                                         *)
(*   - the life of an alert in Augur Canis (AlertLifecycle, extended here),  *)
(*     for any services, containers, numbers of concurrent handlers,         *)
(*     silences, faults and crashes,                                         *)
(*   - the health check, and the Redis client that it and the services use   *)
(*     (HealthCheck, RedisClient), for any checks, faults and restarts.      *)
(* Each is a specification of its own and each theorem is about one of them. *)
(* A name that both declare (MaxFaults, MaxCrashes; faults, crashes) stands, *)
(* in a theorem, for the one of its specification.                           *)
EXTENDS AlertLifecycle, HealthPromise, TLAPS, SequenceTheorems, FiniteSetTheorems

CONSTANTS Clients, Owner, Free, AugurCanis
VARIABLES holder, link, stray, answer, listener, worker

H == INSTANCE HealthCheck

-----------------------------------------------------------------------------
(* Pipelines                                                                *)

\* The commands of the two pipelines, as sets.
LEMMA Commands ==
  /\ All(ClearCommands) = {"active", "id", "type", "count", "last"}
  /\ All(FireCommands) = {"active", "id", "type", "count", "last", "byId"}
<1>1. /\ DOMAIN ClearCommands = 1 .. 5
      /\ ClearCommands[1] = "active" /\ ClearCommands[2] = "id"
      /\ ClearCommands[3] = "type" /\ ClearCommands[4] = "count"
      /\ ClearCommands[5] = "last"
  BY DEF ClearCommands
<1>2. /\ DOMAIN FireCommands = 1 .. 6
      /\ FireCommands[1] = "active" /\ FireCommands[2] = "id"
      /\ FireCommands[3] = "type" /\ FireCommands[4] = "count"
      /\ FireCommands[5] = "last" /\ FireCommands[6] = "byId"
  BY DEF FireCommands, ClearCommands
<1>3. 1 .. 5 = {1, 2, 3, 4, 5} /\ 1 .. 6 = {1, 2, 3, 4, 5, 6}
  OBVIOUS
<1>4. All(ClearCommands) = {"active", "id", "type", "count", "last"}
  BY <1>1, <1>3 DEF All
<1>5. QED
  BY <1>2, <1>3, <1>4 DEF All

\* A pipeline is executed whole, or costs a failure and changes nothing or leaves a half.
LEMMA PipelineIsCut ==
  ASSUME NEW n, NEW commands, NEW done, Executes(n, commands, done)
  PROVE  \/ done = All(commands) /\ half' = half \ {n} /\ UNCHANGED faults
         \/ done = {} /\ UNCHANGED half /\ Fault
         \/ half' = half \cup {n} /\ Fault
BY DEF Executes

-----------------------------------------------------------------------------
(* The life of an alert                                                     *)

\* Where a goroutine can be, and what it holds there.
LocalsOK ==
  /\ \A c \in Checks :
       /\ pc[c] \in {"idle", "prev", "replaced", "resolve", "clear", "resolved",
                    "setPrev"}
       /\ pc[c] # "idle" => container[c] \in Containers /\ svc[c] \in Services
  /\ \A k \in Acks : pc[k] \in {"idle", "verify", "mark", "acked"}
  /\ \A p \in Procs :
       IF pc[p] \in {"idle", "scan"} THEN aid[p] = 0 ELSE svc[p] \in Names
  /\ pc[Detector] = "setCount" => count \in Nat
  /\ kind # "resolved"

Typed == TypeOK /\ LocalsOK

LEMMA NamesCover ==
  Services \subseteq Names /\ \A s \in Services : AlertName(s) \in Names
BY DEF Names

\* A pipeline on the record of n writes that record and no other.
RecordOfOnly(n) ==
  /\ alertActive' \in [Names -> {0, 1}] /\ alertId' \in [Names -> Nat]
  /\ alertType' \in [Names -> {"silence", "none"}]
  /\ barkCount' \in [Names -> Nat \cup {Nil, Acknowledged}]
  /\ lastBark' \in [Names -> {"none", "recent", "due"}]
  /\ half' \in SUBSET Names /\ faults' \in Nat /\ faults' >= faults
  /\ \A m \in Names \ {n} :
       /\ alertActive'[m] = alertActive[m] /\ alertId'[m] = alertId[m]
       /\ alertType'[m] = alertType[m] /\ barkCount'[m] = barkCount[m]
       /\ lastBark'[m] = lastBark[m]
       /\ m \in half' <=> m \in half

\* What fireAlert's pipeline leaves: the whole record of a new alert, what was there
\* before, or a half.
LEMMA FireWrites ==
  ASSUME Typed, Fire
  PROVE  LET n == svc[Detector]
             entry == [id |-> nextId, service |-> n] IN
         /\ n \in Names /\ RecordOfOnly(n)
         /\ alertId'[n] \in {alertId[n], nextId} /\ nextId' = nextId + 1
         /\ alertById' \in {alertById, alertById \cup {entry}}
         /\ \/ /\ half' = half \ {n} /\ UNCHANGED faults
               /\ alertActive'[n] = 1 /\ alertId'[n] = nextId
               /\ alertType'[n] = "silence" /\ barkCount'[n] = 1
               /\ lastBark'[n] = "recent" /\ entry \in alertById'
               /\ alertId' = [alertId EXCEPT ![n] = nextId]
            \/ UNCHANGED <<alert, alertById, half>> /\ Fault
            \/ half' = half \cup {n} /\ Fault
<1> DEFINE n == svc[Detector]
           entry == [id |-> nextId, service |-> n]
<1>1. n \in Names /\ nextId \in Nat \ {0} /\ nextId' = nextId + 1
  BY ConstantsAssumption DEF Typed, TypeOK, LocalsOK, Fire, At, Procs, NextTick
<1>2. PICK done \in SUBSET All(FireCommands) :
        /\ Executes(n, FireCommands, done)
        /\ alertActive' = Put(alertActive, n, 1, "active" \in done)
        /\ alertId' = Put(alertId, n, nextId, "id" \in done)
        /\ alertType' = Put(alertType, n, "silence", "type" \in done)
        /\ barkCount' = Put(barkCount, n, 1, "count" \in done)
        /\ lastBark' = Put(lastBark, n, "recent", "last" \in done)
        /\ alertById' = alertById \cup (IF "byId" \in done THEN {entry} ELSE {})
  BY DEF Fire
<1>3. /\ alertActive \in [Names -> {0, 1}] /\ alertId \in [Names -> Nat]
      /\ alertType \in [Names -> {"silence", "none"}]
      /\ barkCount \in [Names -> Nat \cup {Nil, Acknowledged}]
      /\ lastBark \in [Names -> {"none", "recent", "due"}]
      /\ half \in SUBSET Names /\ faults \in Nat
  BY DEF Typed, TypeOK
<1>4. \/ done = All(FireCommands) /\ half' = half \ {n} /\ UNCHANGED faults
      \/ done = {} /\ UNCHANGED half /\ Fault
      \/ half' = half \cup {n} /\ Fault
  BY <1>2, PipelineIsCut
<1>5. RecordOfOnly(n)
  <2>1. half' \in SUBSET Names /\ faults' \in Nat /\ faults' >= faults
    BY <1>1, <1>3, <1>4 DEF Fault
  <2>2. \A m \in Names \ {n} : m \in half' <=> m \in half
    BY <1>4
  <2>3. QED
    BY <1>1, <1>2, <1>3, <2>1, <2>2 DEF RecordOfOnly, Put
<1>6. alertId'[n] \in {alertId[n], nextId} /\ alertById' \in {alertById, alertById \cup {entry}}
  BY <1>1, <1>2, <1>3 DEF Put
<1>7. CASE done = All(FireCommands) /\ half' = half \ {n} /\ UNCHANGED faults
  <2>1. /\ "active" \in done /\ "id" \in done /\ "type" \in done /\ "count" \in done
        /\ "last" \in done /\ "byId" \in done
    BY <1>7, Commands
  <2>2. /\ alertActive'[n] = 1 /\ alertId'[n] = nextId
        /\ alertType'[n] = "silence" /\ barkCount'[n] = 1
        /\ lastBark'[n] = "recent" /\ entry \in alertById'
        /\ alertId' = [alertId EXCEPT ![n] = nextId]
    BY <1>1, <1>2, <1>3, <2>1 DEF Put
  <2>3. QED
    BY <1>1, <1>5, <1>6, <1>7, <2>2
<1>8. CASE done = {} /\ UNCHANGED half /\ Fault
  <2>1. UNCHANGED <<alert, alertById>>
    BY <1>2, <1>8 DEF Put, alert
  <2>2. QED
    BY <1>1, <1>5, <1>6, <1>8, <2>1
<1>9. CASE half' = half \cup {n} /\ Fault
  BY <1>1, <1>5, <1>6, <1>9
<1>10. QED
  BY <1>4, <1>7, <1>8, <1>9

\* What resolveAlert's pipeline leaves: nothing, what was there before, or a half.
LEMMA ClearWrites ==
  ASSUME Typed, NEW p \in Resolvers, Clear(p)
  PROVE  LET n == svc[p] IN
         /\ n \in Names /\ RecordOfOnly(n)
         /\ alertId'[n] \in {alertId[n], 0}
         /\ UNCHANGED <<alertById, nextId>>
         /\ \/ /\ half' = half \ {n} /\ UNCHANGED faults
               /\ alertActive'[n] = 0 /\ alertId'[n] = 0 /\ alertType'[n] = "none"
               /\ alertId' = [alertId EXCEPT ![n] = 0]
            \/ UNCHANGED <<alert, half>> /\ Fault
            \/ half' = half \cup {n} /\ Fault
<1> DEFINE n == svc[p]
<1>1. n \in Names /\ UNCHANGED <<alertById, nextId>>
  BY ConstantsAssumption
  DEF Typed, TypeOK, LocalsOK, Clear, At, Procs, Resolvers, keys
<1>2. PICK done \in SUBSET All(ClearCommands) :
        /\ Executes(n, ClearCommands, done)
        /\ alertActive' = Put(alertActive, n, 0, "active" \in done)
        /\ alertId' = Put(alertId, n, 0, "id" \in done)
        /\ alertType' = Put(alertType, n, "none", "type" \in done)
        /\ barkCount' = Put(barkCount, n, Nil, "count" \in done)
        /\ lastBark' = Put(lastBark, n, "none", "last" \in done)
  BY DEF Clear, Del
<1>3. /\ alertActive \in [Names -> {0, 1}] /\ alertId \in [Names -> Nat]
      /\ alertType \in [Names -> {"silence", "none"}]
      /\ barkCount \in [Names -> Nat \cup {Nil, Acknowledged}]
      /\ lastBark \in [Names -> {"none", "recent", "due"}]
      /\ half \in SUBSET Names /\ faults \in Nat
  BY DEF Typed, TypeOK
<1>4. \/ done = All(ClearCommands) /\ half' = half \ {n} /\ UNCHANGED faults
      \/ done = {} /\ UNCHANGED half /\ Fault
      \/ half' = half \cup {n} /\ Fault
  BY <1>2, PipelineIsCut
<1>5. RecordOfOnly(n)
  <2>1. half' \in SUBSET Names /\ faults' \in Nat /\ faults' >= faults
    BY <1>1, <1>3, <1>4 DEF Fault
  <2>2. \A m \in Names \ {n} : m \in half' <=> m \in half
    BY <1>4
  <2>3. QED
    BY <1>1, <1>2, <1>3, <2>1, <2>2 DEF RecordOfOnly, Put
<1>6. alertId'[n] \in {alertId[n], 0}
  BY <1>1, <1>2, <1>3 DEF Put
<1>7. CASE done = All(ClearCommands) /\ half' = half \ {n} /\ UNCHANGED faults
  <2>1. "active" \in done /\ "id" \in done /\ "type" \in done
    BY <1>7, Commands
  <2>2. /\ alertActive'[n] = 0 /\ alertId'[n] = 0 /\ alertType'[n] = "none"
        /\ alertId' = [alertId EXCEPT ![n] = 0]
    BY <1>1, <1>2, <1>3, <2>1 DEF Put
  <2>3. QED
    BY <1>1, <1>5, <1>6, <1>7, <2>2
<1>8. CASE done = {} /\ UNCHANGED half /\ Fault
  <2>1. UNCHANGED alert
    BY <1>2, <1>8 DEF Put, alert
  <2>2. QED
    BY <1>1, <1>5, <1>6, <1>8, <2>1
<1>9. CASE half' = half \cup {n} /\ Fault
  BY <1>1, <1>5, <1>6, <1>9
<1>10. QED
  BY <1>4, <1>7, <1>8, <1>9

\* The type invariant, with what each goroutine holds at each step: the lemma the
\* other proofs rest on.
LEMMA TypedInvariant == Spec => []Typed
<1>1. Init => Typed
  BY ConstantsAssumption, NamesCover
  DEF Init, Typed, TypeOK, LocalsOK, Steps, Kinds, Message, Procs
<1>2. Typed /\ [Next]_vars => Typed'
  <2>. SUFFICES ASSUME Typed, [Next]_vars
                PROVE  Typed'
    OBVIOUS
  <2>. USE ConstantsAssumption, NamesCover
       DEF Typed, TypeOK, LocalsOK, Steps, Kinds, Message, Procs, Resolvers
  <2>1. CASE StartScan
    BY <2>1 DEF keys, alert, env, At, Goto, Fault, Tracked, StartScan
  <2>2. CASE EndScan
    BY <2>2 DEF keys, alert, locals, env, At, Goto, EndScan
  <2>3. ASSUME NEW s \in Services, ReadLastSeen(s)
        PROVE  Typed'
    BY <2>3 DEF keys, alert, env, At, Goto, Fault, ReadLastSeen
  <2>4. CASE ReadActive
    BY <2>4 DEF keys, alert, env, At, Goto, Return, Reply, Fault, ReadActive
  <2>5. CASE Fire
    <3>1. /\ svc[Detector] \in Names /\ RecordOfOnly(svc[Detector])
          /\ nextId' = nextId + 1
          /\ alertById' \in
               {alertById, alertById \cup {[id |-> nextId, service |-> svc[Detector]]}}
      BY <2>5, FireWrites
    <3>2. alertById' \in SUBSET [id: Nat, service: Names] /\ nextId' \in Nat \ {0}
      BY <3>1
    <3>3. /\ UNCHANGED <<lastSeen, prev, feed, svc, todo, seen, last, container, silences,
                        crashes>>
          /\ pc' = [pc EXCEPT ![Detector] = "bark"]
          /\ aid' = [aid EXCEPT ![Detector] = nextId]
          /\ count' = 1 /\ kind' = "fired"
      BY <2>5 DEF Fire, Goto
    <3>4. TypeOK'
      BY <3>1, <3>2, <3>3 DEF RecordOfOnly
    <3>5. LocalsOK'
      BY <3>1, <3>3
    <3>6. QED
      BY <3>4, <3>5
  <2>6. CASE ReadCount
    BY <2>6 DEF keys, alert, env, At, Goto, Reply, Fault, Atoi, ReadCount
  <2>7. CASE ReadLast
    BY <2>7 DEF keys, alert, env, At, Goto, Reply, Fault, ReadLast
  <2>8. CASE ReadId
    BY <2>8 DEF keys, alert, env, At, Goto, Return, Reply, Fault, ReadId
  <2>9. CASE SetCount
    BY <2>9 DEF keys, locals, env, At, Goto, Fault, SetCount
  <2>10. CASE SetLast
    BY <2>10 DEF keys, locals, env, At, Goto, Fault, SetLast
  <2>11. CASE Bark
    BY <2>11 DEF keys, alert, env, At, Goto, Return, Fault, Publish, Bark
  <2>12. CASE ReadType
    BY <2>12 DEF keys, alert, locals, env, At, Goto, Return, Reply, Fault, ReadType
  <2>13. ASSUME NEW p \in Resolvers, ResolveReadId(p)
         PROVE  Typed'
    BY <2>13 DEF keys, alert, locals, env, At, Goto, Reply, Fault, ResolveReadId
  <2>14. ASSUME NEW p \in Resolvers, Clear(p)
         PROVE  Typed'
    <3>1. RecordOfOnly(svc[p])
      BY <2>14, ClearWrites
    <3>2. /\ UNCHANGED <<lastSeen, prev, alertById, feed, svc, aid, todo, seen, count, last,
                        kind, container, nextId, silences, crashes>>
          /\ pc[p] = "clear" /\ pc' = [pc EXCEPT ![p] = "resolved"]
      BY <2>14 DEF Clear, Goto, At, keys, locals
    <3>3. TypeOK'
      BY <3>1, <3>2 DEF RecordOfOnly
    <3>4. LocalsOK'
      BY <3>2
    <3>5. QED
      BY <3>3, <3>4
  <2>15. ASSUME NEW p \in Resolvers, BarkResolved(p)
         PROVE  Typed'
    BY <2>15, SMTT(30) DEF keys, alert, locals, env, At, Goto, Return, Fault, Publish,
       BarkResolved
  <2>16. ASSUME NEW c \in Checks, ReadPrev(c)
         PROVE  Typed'
    BY <2>16 DEF keys, alert, env, At, Goto, Return, Reply, Fault, EndCheck,
       ReadPrev
  <2>17. ASSUME NEW c \in Checks, ReadActiveOnReplace(c)
         PROVE  Typed'
    BY <2>17 DEF keys, alert, locals, env, At, Goto, Reply, Fault,
       ReadActiveOnReplace
  <2>18. ASSUME NEW c \in Checks, SetPrev(c)
         PROVE  Typed'
    BY <2>18 DEF alert, env, At, Goto, Return, Fault, EndCheck, SetPrev
  <2>19. ASSUME NEW k \in Acks, Verify(k)
         PROVE  Typed'
    BY <2>19 DEF keys, alert, locals, env, At, Goto, Return, Reply, Fault, Verify
  <2>20. ASSUME NEW k \in Acks, Mark(k)
         PROVE  Typed'
    BY <2>20 DEF keys, locals, env, At, Goto, Fault, Mark
  <2>21. ASSUME NEW k \in Acks, BarkAck(k)
         PROVE  Typed'
    BY <2>21 DEF keys, alert, locals, env, At, Goto, Return, Fault, Publish, BarkAck
  <2>22. ASSUME NEW c \in Checks, NEW s \in Services, NEW k \in Containers \cup {Nil}, Receive(c, s, k)
         PROVE  Typed'
    BY <2>22 DEF alert, env, At, Goto, Fault, RecordHealthState, Receive
  <2>23. ASSUME NEW k \in Acks, NEW e \in alertById, RequestAck(k, e)
         PROVE  Typed'
    BY <2>23 DEF keys, alert, locals, env, At, Goto, RequestAck
  <2>24. ASSUME NEW s \in Services, FallSilent(s)
         PROVE  Typed'
    BY <2>24 DEF alert, locals, At, Unhurried, FallSilent
  <2>25. ASSUME NEW n \in Names, ReminderDue(n)
         PROVE  Typed'
    BY <2>25 DEF keys, locals, env, At, Unhurried, ReminderDue
  <2>26. CASE Crash
    BY <2>26 DEF keys, alert, Crash
  <2>27. CASE UNCHANGED vars
    BY <2>27 DEF vars, keys, alert, locals, env
  <2>28. QED
    BY <2>1, <2>2, <2>3, <2>4, <2>5, <2>6, <2>7, <2>8, <2>9, <2>10, <2>11, <2>12,
       <2>13, <2>14, <2>15, <2>16, <2>17, <2>18, <2>19, <2>20, <2>21, <2>22, <2>23,
       <2>24, <2>25, <2>26, <2>27 DEF Next, DetectorStep, CheckStep, AckStep,
       Environment, Resolve
<1>3. QED
  BY <1>1, <1>2, PTL DEF Spec

\* No reachable state leaves the types of the Redis keys, the channel and the
\* goroutines' locals.
THEOREM TypeCorrect == Spec => []TypeOK
<1>1. Typed => TypeOK
  BY DEF Typed
<1>2. QED
  BY <1>1, TypedInvariant, PTL

-----------------------------------------------------------------------------
(* Which actions write what.                                               *)

\* The six keys of a service's alert, and the IDs handed out.
LEMMA RecordWriters ==
  ASSUME [Next]_vars
  PROVE  \/ UNCHANGED <<alert, alertById, nextId, half>>
         \/ Fire
         \/ SetCount
         \/ SetLast
         \/ \E p \in Resolvers : Clear(p)
         \/ \E k \in Acks : Mark(k)
         \/ \E n \in Names : ReminderDue(n)
BY  DEF Next, vars, DetectorStep, CheckStep, AckStep, Environment, Resolve,
   Resolvers, keys, alert, locals, env, StartScan, EndScan, ReadLastSeen,
   ReadActive, ReadCount, ReadLast, ReadId, Bark, ReadType, ResolveReadId,
   BarkResolved, ReadPrev, ReadActiveOnReplace, SetPrev, Verify, BarkAck, Receive,
   RequestAck, FallSilent, Crash

\* The alerts channel.
LEMMA FeedWriters ==
  ASSUME [Next]_vars
  PROVE  \/ UNCHANGED feed
         \/ Bark
         \/ \E p \in Resolvers : BarkResolved(p)
         \/ \E k \in Acks : BarkAck(k)
BY  DEF Next, vars, DetectorStep, CheckStep, AckStep, Environment, Resolve,
   Resolvers, keys, alert, locals, env, StartScan, EndScan, ReadLastSeen,
   ReadActive, Fire, ReadCount, ReadLast, ReadId, SetCount, SetLast, ReadType,
   ResolveReadId, Clear, ReadPrev, ReadActiveOnReplace, SetPrev, Verify, Mark,
   Receive, RequestAck, FallSilent, ReminderDue, Crash

\* A failed command is never forgotten.
LEMMA FaultsOnlyGrow ==
  ASSUME faults \in Nat, [Next]_vars
  PROVE  faults' >= faults
<1>1. CASE Fire
  BY <1>1 DEF Fire, Executes, Fault
<1>2. ASSUME NEW p \in Resolvers, Clear(p)
      PROVE  faults' >= faults
  BY <1>2 DEF Clear, Executes, Fault
<1>3. QED
  BY <1>1, <1>2
  DEF Next, vars, DetectorStep, CheckStep, AckStep, Environment, Resolve, Fault,
   Reply, Publish, RecordHealthState, StartScan, EndScan, ReadLastSeen, Resolvers,
   ReadActive, ReadCount, ReadLast, ReadId, SetCount, SetLast, Bark, ReadType,
   ResolveReadId, BarkResolved, ReadPrev, ReadActiveOnReplace, SetPrev,
   Verify, Mark, BarkAck, Receive, RequestAck, FallSilent, ReminderDue, Crash

-----------------------------------------------------------------------------
\* Under any interleaving, failed command, cut pipeline or crash, half an alert is what a
\* cut pipeline left and lasts until the next pipeline that changes the record whole: the
\* single SETs of bark_count and last_bark_at can leave an orphan key behind but make no
\* half, and neither a new alert nor a resolution builds on one.
THEOREM RecordsStayConsistent == Spec => []RecordConsistent
<1>1. Init => RecordConsistent
  BY DEF Init, RecordConsistent
<1>2. Typed /\ RecordConsistent /\ [Next]_vars => RecordConsistent'
  <2>. SUFFICES ASSUME Typed, RecordConsistent, [Next]_vars
                PROVE  RecordConsistent'
    OBVIOUS
  <2>. USE ConstantsAssumption, NamesCover
       DEF RecordConsistent, Typed, TypeOK, LocalsOK, Procs, Resolvers
  <2>1. CASE Fire
    <3>1. /\ svc[Detector] \in Names /\ RecordOfOnly(svc[Detector])
          /\ alertById \subseteq alertById'
          /\ \/ /\ alertActive'[svc[Detector]] = 1 /\ alertId'[svc[Detector]] = nextId
                /\ alertType'[svc[Detector]] = "silence" /\ barkCount'[svc[Detector]] = 1
                /\ lastBark'[svc[Detector]] = "recent"
                /\ [id |-> nextId, service |-> svc[Detector]] \in alertById'
             \/ UNCHANGED <<alert, alertById, half>>
             \/ svc[Detector] \in half'
      BY <2>1, FireWrites
    <3>2. nextId # 0 /\ 1 # Nil
      OBVIOUS
    <3>3. QED
      BY <3>1, <3>2 DEF RecordOfOnly, alert
  <2>2. CASE SetCount
    BY <2>2 DEF keys, locals, env, At, Goto, Fault, SetCount
  <2>3. CASE SetLast
    BY <2>3 DEF keys, locals, env, At, Goto, Fault, SetLast
  <2>4. ASSUME NEW p \in Resolvers, Clear(p)
        PROVE  RecordConsistent'
    <3>1. /\ svc[p] \in Names /\ RecordOfOnly(svc[p]) /\ UNCHANGED alertById
          /\ \/ /\ alertActive'[svc[p]] = 0 /\ alertId'[svc[p]] = 0
                /\ alertType'[svc[p]] = "none"
             \/ UNCHANGED <<alert, half>>
             \/ svc[p] \in half'
      BY <2>4, ClearWrites
    <3>2. QED
      BY <3>1 DEF RecordOfOnly, alert
  <2>5. ASSUME NEW k \in Acks, Mark(k)
        PROVE  RecordConsistent'
    BY <2>5 DEF keys, locals, env, At, Goto, Fault, Mark
  <2>6. ASSUME NEW n \in Names, ReminderDue(n)
        PROVE  RecordConsistent'
    BY <2>6 DEF keys, locals, env, At, Unhurried, ReminderDue
  <2>7. CASE UNCHANGED <<alert, alertById, nextId, half>>
    BY <2>7 DEF alert
  <2>8. QED
    BY <2>1, <2>2, <2>3, <2>4, <2>5, <2>6, <2>7, RecordWriters
<1>3. QED
  BY <1>1, <1>2, TypedInvariant, PTL DEF Spec

-----------------------------------------------------------------------------
\* Alert a is held for service s: in its record, in the lookup keys, on the channel
\* or by a goroutine that works on s.
Held(a, s) ==
  \/ alertId[s] = a
  \/ [id |-> a, service |-> s] \in alertById
  \/ \E m \in feed : m.id = a /\ m.service = s
  \/ \E p \in Procs : aid[p] = a /\ svc[p] = s

\* Every ID held was handed out before, and is held for one service only.
Ownership ==
  \A a \in Nat \ {0}, s \in Names :
    Held(a, s) => a < nextId /\ \A t \in Names : Held(a, t) => s = t

\* A step hands an ID on within its service, except that Fire hands out a new one.
PassedOn(a, s) ==
  \/ Held(a, s) /\ nextId' >= nextId
  \/ a = nextId /\ nextId' = nextId + 1 /\ s = svc[Detector]

LEMMA HeldStep ==
  ASSUME Typed, [Next]_vars, NEW a \in Nat \ {0}, NEW s \in Names, Held(a, s)'
  PROVE  PassedOn(a, s)
<1>. USE ConstantsAssumption, NamesCover
     DEF PassedOn, Held, Typed, TypeOK, LocalsOK, Message, Procs, Resolvers
<1>1. CASE UNCHANGED <<alertById, feed, aid, svc, nextId>> /\ \A t \in Names : alertId[t]' \in {alertId[t], 0}
  BY <1>1
<1>2. ASSUME NEW t \in Services, ReadLastSeen(t)
      PROVE  PassedOn(a, s)
  BY <1>2 DEF keys, alert, env, At, Goto, Fault, ReadLastSeen
<1>3. CASE ReadActive
  BY <1>3 DEF keys, alert, env, At, Goto, Return, Reply, Fault, ReadActive
<1>4. CASE Fire
  <2>1. /\ nextId' = nextId + 1 /\ RecordOfOnly(svc[Detector])
        /\ alertId'[svc[Detector]] \in {alertId[svc[Detector]], nextId}
        /\ alertById' \in
             {alertById, alertById \cup {[id |-> nextId, service |-> svc[Detector]]}}
    BY <1>4, FireWrites
  <2>2. /\ UNCHANGED <<feed, svc>> /\ aid' = [aid EXCEPT ![Detector] = nextId]
    BY <1>4 DEF Fire
  <2>3. QED
    BY <2>1, <2>2 DEF RecordOfOnly
<1>5. CASE ReadId
  BY <1>5 DEF keys, alert, env, At, Goto, Return, Reply, Fault, ReadId
<1>6. CASE Bark
  BY <1>6 DEF keys, alert, env, At, Goto, Return, Fault, Publish, Bark
<1>7. CASE ReadType
  BY <1>7 DEF keys, alert, locals, env, At, Goto, Return, Reply, Fault, ReadType
<1>8. ASSUME NEW p \in Resolvers, ResolveReadId(p)
      PROVE  PassedOn(a, s)
  BY <1>8 DEF keys, alert, locals, env, At, Goto, Reply, Fault, ResolveReadId
<1>9. ASSUME NEW p \in Resolvers, BarkResolved(p)
      PROVE  PassedOn(a, s)
  BY <1>9 DEF keys, alert, locals, env, At, Goto, Return, Fault, Publish,
     BarkResolved
<1>10. ASSUME NEW c \in Checks, ReadPrev(c)
       PROVE  PassedOn(a, s)
  BY <1>10 DEF keys, alert, env, At, Goto, Return, Reply, Fault, EndCheck, ReadPrev
<1>11. ASSUME NEW c \in Checks, SetPrev(c)
       PROVE  PassedOn(a, s)
  BY <1>11 DEF alert, env, At, Goto, Return, Fault, EndCheck, SetPrev
<1>12. ASSUME NEW k \in Acks, Verify(k)
       PROVE  PassedOn(a, s)
  BY <1>12 DEF keys, alert, locals, env, At, Goto, Return, Reply, Fault, Verify
<1>13. ASSUME NEW k \in Acks, BarkAck(k)
       PROVE  PassedOn(a, s)
  BY <1>13 DEF keys, alert, locals, env, At, Goto, Return, Fault, Publish, BarkAck
<1>14. ASSUME NEW c \in Checks, NEW t \in Services, NEW k \in Containers \cup {Nil}, Receive(c, t, k)
       PROVE  PassedOn(a, s)
  BY <1>14 DEF alert, env, At, Goto, Fault, RecordHealthState, Receive
<1>15. ASSUME NEW k \in Acks, NEW e \in alertById, RequestAck(k, e)
       PROVE  PassedOn(a, s)
  BY <1>15 DEF keys, alert, locals, env, At, Goto, RequestAck
<1>16. CASE Crash
  BY <1>16 DEF keys, alert, Crash
<1>17. CASE StartScan \/ EndScan \/ ReadCount \/ ReadLast \/ SetCount \/ SetLast
  BY <1>1, <1>17, SMTT(30) DEF keys, alert, locals, env, StartScan, EndScan, ReadCount, ReadLast,
     SetCount, SetLast
<1>18. ASSUME NEW p \in Resolvers, Clear(p)
       PROVE  PassedOn(a, s)
  <2>1. /\ RecordOfOnly(svc[p]) /\ alertId'[svc[p]] \in {alertId[svc[p]], 0}
        /\ UNCHANGED <<alertById, nextId>>
    BY <1>18, ClearWrites
  <2>2. UNCHANGED <<feed, aid, svc>>
    BY <1>18 DEF Clear
  <2>3. \A t \in Names : alertId[t]' \in {alertId[t], 0}
    BY <2>1 DEF RecordOfOnly
  <2>4. QED
    BY <1>1, <2>1, <2>2, <2>3
<1>19. ASSUME NEW c \in Checks, ReadActiveOnReplace(c)
       PROVE  PassedOn(a, s)
  BY <1>1, <1>19, SMTT(30) DEF keys, alert, locals, env, ReadActiveOnReplace
<1>20. ASSUME NEW k \in Acks, Mark(k)
       PROVE  PassedOn(a, s)
  BY <1>1, <1>20, SMTT(30) DEF keys, alert, locals, env, Mark
<1>21. ASSUME NEW n, FallSilent(n) \/ ReminderDue(n)
       PROVE  PassedOn(a, s)
  BY <1>1, <1>21, SMTT(30) DEF keys, alert, locals, env, FallSilent, ReminderDue
<1>22. CASE UNCHANGED vars
  BY <1>1, <1>22 DEF vars, keys, alert, locals, env
<1>. HIDE DEF PassedOn, Held, Typed, TypeOK, LocalsOK, Message
<1>23. DetectorStep => PassedOn(a, s)
  BY <1>2, <1>3, <1>4, <1>5, <1>6, <1>7, <1>17 DEF DetectorStep
<1>24. ASSUME NEW p \in Resolvers, Resolve(p) PROVE PassedOn(a, s)
  BY <1>8, <1>9, <1>18, <1>24 DEF Resolve
<1>25. Environment => PassedOn(a, s)
  BY <1>14, <1>15, <1>16, <1>21 DEF Environment
<1>26. QED
  BY <1>10, <1>11, <1>12, <1>13, <1>19, <1>20, <1>22, <1>23, <1>24, <1>25
  DEF Next, CheckStep, AckStep

LEMMA OwnershipInvariant == Spec => []Ownership
<1>1. Init => Ownership
  BY DEF Init, Ownership, Held
<1>2. Typed /\ Typed' /\ Ownership /\ [Next]_vars => Ownership'
  <2>. SUFFICES ASSUME Typed, Typed', Ownership, [Next]_vars,
                       NEW a \in Nat \ {0}, NEW s \in Names, Held(a, s)'
                PROVE  a < nextId' /\ \A t \in Names : Held(a, t)' => s = t
    BY DEF Ownership
  <2>1. nextId \in Nat /\ nextId' \in Nat
    BY DEF Typed, TypeOK
  <2>2. \A t \in Names : Held(a, t)' => PassedOn(a, t)
    BY HeldStep
  <2>3. QED
    BY <2>1, <2>2 DEF Ownership, PassedOn
<1>3. QED
  BY <1>1, <1>2, TypedInvariant, PTL DEF Spec

\* An alert ID never crosses services.
THEOREM AlertsStaySeparate == Spec => []AlertsDoNotMix
<1>1. Typed /\ Ownership => AlertsDoNotMix
  <2>. SUFFICES ASSUME Typed, Ownership
                PROVE  AlertsDoNotMix
    OBVIOUS
  <2>1. \A m \in feed : m.service \in Names /\ m.id \in Nat /\ Held(m.id, m.service)
    BY DEF Typed, TypeOK, Message, Held
  <2>2. \A s \in Names : alertId[s] \in Nat /\ Held(alertId[s], s)
    BY DEF Typed, TypeOK, Held
  <2>3. \A a \in Nat \ {0}, s, t \in Names : Held(a, s) /\ Held(a, t) => s = t
    BY DEF Ownership
  <2>4. QED
    BY <2>1, <2>2, <2>3 DEF AlertsDoNotMix
<1>2. QED
  BY <1>1, TypedInvariant, OwnershipInvariant, PTL

-----------------------------------------------------------------------------
\* Between its DEL and its bark a resolver already holds an ID that is in no record.
Deleted(a) == \A s \in Names : alertId[s] # a

Announcing(p) == pc[p] = "resolved" /\ aid[p] # 0

\* The inductive form of ResolvedMeansGone.
Gone ==
  faults = 0 =>
    /\ \A a \in Nat \ {0} : Resolved(a) => Deleted(a)
    /\ \A p \in Resolvers : Announcing(p) => Deleted(aid[p])

\* An ID that nobody has used yet is in no record; a record that is in use stays out
\* of reach of what was deleted: only Fire puts an ID into a record, and it is new.
LEMMA DeletedForever ==
  ASSUME Typed, Ownership, [Next]_vars, NEW a \in Nat \ {0}, a < nextId, Deleted(a)
  PROVE  Deleted(a)'
<1>. USE ConstantsAssumption, NamesCover DEF Deleted, Typed, TypeOK, LocalsOK, Procs, Resolvers
<1>1. CASE Fire
  BY <1>1, FireWrites DEF RecordOfOnly
<1>2. CASE SetCount
  BY <1>2 DEF keys, locals, env, At, Goto, Fault, SetCount
<1>3. CASE SetLast
  BY <1>3 DEF keys, locals, env, At, Goto, Fault, SetLast
<1>4. ASSUME NEW p \in Resolvers, Clear(p)
      PROVE  Deleted(a)'
  BY <1>4, ClearWrites DEF RecordOfOnly
<1>5. ASSUME NEW k \in Acks, Mark(k)
      PROVE  Deleted(a)'
  BY <1>5 DEF keys, locals, env, At, Goto, Fault, Mark
<1>6. ASSUME NEW n \in Names, ReminderDue(n)
      PROVE  Deleted(a)'
  BY <1>6 DEF keys, locals, env, At, Unhurried, ReminderDue
<1>7. CASE UNCHANGED <<alert, nextId>>
  BY <1>7 DEF alert
<1>8. QED
  BY <1>1, <1>2, <1>3, <1>4, <1>5, <1>6, <1>7, RecordWriters

\* A resolver reaches its bark only through its DEL, which removes the ID it holds.
LEMMA AnnouncingAfterClear ==
  ASSUME Typed, Ownership, [Next]_vars, NEW p \in Resolvers, Announcing(p)',
         faults' = 0
  PROVE  \/ Announcing(p) /\ aid[p]' = aid[p]
         \/ aid[p]' = aid[p] /\ Deleted(aid[p])'
<1>. USE ConstantsAssumption, NamesCover
     DEF Announcing, Typed, TypeOK, LocalsOK, Procs, Resolvers
<1>1. ASSUME NEW q \in Resolvers, Clear(q)
      PROVE  \/ Announcing(p) /\ aid[p]' = aid[p]
             \/ aid[p]' = aid[p] /\ Deleted(aid[p])'
  <2>1. CASE p # q
    BY <1>1, <2>1 DEF Clear, Goto
  <2>2. CASE p = q
    <3>1. aid[p]' = aid[p] /\ aid[p] \in Nat \ {0} /\ svc[p] \in Names
      BY <1>1, <2>2 DEF Clear, At
    <3>2. \A s \in Names : alertId[s] = aid[p] => s = svc[p]
      <4>1. \A s \in Names : alertId[s] = aid[p] => Held(aid[p], s)
        BY DEF Held
      <4>2. Held(aid[p], svc[p])
        BY DEF Held, Resolvers, Procs
      <4>3. QED
        BY <3>1, <4>1, <4>2 DEF Ownership
    <3>3. alertId' = [alertId EXCEPT ![svc[p]] = 0]
      BY <1>1, <2>2, ClearWrites DEF Fault
    <3>4. QED
      BY <3>1, <3>2, <3>3 DEF Deleted
  <2>3. QED
    BY <2>1, <2>2
<1>2. CASE StartScan
  BY <1>2 DEF keys, alert, env, At, Goto, Fault, Tracked, StartScan
<1>3. CASE EndScan
  BY <1>3 DEF keys, alert, locals, env, At, Goto, EndScan
<1>4. ASSUME NEW s \in Services, ReadLastSeen(s)
      PROVE  Announcing(p) /\ aid[p]' = aid[p]
  BY <1>4 DEF keys, alert, env, At, Goto, Fault, ReadLastSeen
<1>5. CASE ReadActive
  BY <1>5 DEF keys, alert, env, At, Goto, Return, Reply, Fault, ReadActive
<1>6. CASE Fire
  BY <1>6 DEF alert, env, At, Goto, Fault, NextTick, Fire
<1>7. CASE ReadCount
  BY <1>7 DEF keys, alert, env, At, Goto, Reply, Fault, Atoi, ReadCount
<1>8. CASE ReadLast
  BY <1>8 DEF keys, alert, env, At, Goto, Reply, Fault, ReadLast
<1>9. CASE ReadId
  BY <1>9 DEF keys, alert, env, At, Goto, Return, Reply, Fault, ReadId
<1>10. CASE SetCount
  BY <1>10 DEF keys, locals, env, At, Goto, Fault, SetCount
<1>11. CASE SetLast
  BY <1>11 DEF keys, locals, env, At, Goto, Fault, SetLast
<1>12. CASE Bark
  BY <1>12 DEF keys, alert, env, At, Goto, Return, Fault, Publish, Bark
<1>13. CASE ReadType
  BY <1>13 DEF keys, alert, locals, env, At, Goto, Return, Reply, Fault, ReadType
<1>14. ASSUME NEW q \in Resolvers, ResolveReadId(q)
       PROVE  Announcing(p) /\ aid[p]' = aid[p]
  BY <1>14 DEF keys, alert, locals, env, At, Goto, Reply, Fault, ResolveReadId
<1>15. ASSUME NEW q \in Resolvers, BarkResolved(q)
       PROVE  Announcing(p) /\ aid[p]' = aid[p]
  BY <1>15 DEF keys, alert, locals, env, At, Goto, Return, Fault, Publish,
     BarkResolved
<1>16. ASSUME NEW c \in Checks, ReadPrev(c)
       PROVE  Announcing(p) /\ aid[p]' = aid[p]
  BY <1>16 DEF keys, alert, env, At, Goto, Return, Reply, Fault, EndCheck, ReadPrev
<1>17. ASSUME NEW c \in Checks, ReadActiveOnReplace(c)
       PROVE  Announcing(p) /\ aid[p]' = aid[p]
  BY <1>17 DEF keys, alert, locals, env, At, Goto, Reply, Fault, ReadActiveOnReplace
<1>18. ASSUME NEW c \in Checks, SetPrev(c)
       PROVE  Announcing(p) /\ aid[p]' = aid[p]
  BY <1>18 DEF alert, env, At, Goto, Return, Fault, EndCheck, SetPrev
<1>19. ASSUME NEW k \in Acks, Verify(k)
       PROVE  Announcing(p) /\ aid[p]' = aid[p]
  BY <1>19 DEF keys, alert, locals, env, At, Goto, Return, Reply, Fault, Verify
<1>20. ASSUME NEW k \in Acks, Mark(k)
       PROVE  Announcing(p) /\ aid[p]' = aid[p]
  BY <1>20 DEF keys, locals, env, At, Goto, Fault, Mark
<1>21. ASSUME NEW k \in Acks, BarkAck(k)
       PROVE  Announcing(p) /\ aid[p]' = aid[p]
  BY <1>21 DEF keys, alert, locals, env, At, Goto, Return, Fault, Publish, BarkAck
<1>22. ASSUME NEW c \in Checks, NEW s \in Services, NEW k \in Containers \cup {Nil}, Receive(c, s, k)
       PROVE  Announcing(p) /\ aid[p]' = aid[p]
  BY <1>22 DEF alert, env, At, Goto, Fault, RecordHealthState, Receive
<1>23. ASSUME NEW k \in Acks, NEW e \in alertById, RequestAck(k, e)
       PROVE  Announcing(p) /\ aid[p]' = aid[p]
  BY <1>23 DEF keys, alert, locals, env, At, Goto, RequestAck
<1>24. ASSUME NEW s \in Services, FallSilent(s)
       PROVE  Announcing(p) /\ aid[p]' = aid[p]
  BY <1>24 DEF alert, locals, At, Unhurried, FallSilent
<1>25. ASSUME NEW n \in Names, ReminderDue(n)
       PROVE  Announcing(p) /\ aid[p]' = aid[p]
  BY <1>25 DEF keys, locals, env, At, Unhurried, ReminderDue
<1>26. CASE Crash
  BY <1>26 DEF keys, alert, Crash
<1>27. CASE UNCHANGED vars
  BY <1>27 DEF vars, locals
<1>28. QED
  BY <1>1, <1>2, <1>3, <1>4, <1>5, <1>6, <1>7, <1>8, <1>9, <1>10, <1>11, <1>12,
     <1>13, <1>14, <1>15, <1>16, <1>17, <1>18, <1>19, <1>20, <1>21, <1>22, <1>23,
     <1>24, <1>25, <1>26, <1>27 DEF Next, DetectorStep, CheckStep, AckStep,
     Environment, Resolve

\* Nothing announced as resolved is in a record while no command has failed.
THEOREM ResolvedStaysGone == Spec => []ResolvedMeansGone
<1>1. Init => Gone
  BY ConstantsAssumption DEF Init, Gone, Resolved, Announcing, Resolvers, Procs
<1>2. Typed /\ Typed' /\ Ownership /\ Gone /\ [Next]_vars => Gone'
  <2>. SUFFICES ASSUME Typed, Typed', Ownership, Gone, [Next]_vars, faults' = 0
                PROVE  /\ \A a \in Nat \ {0} : Resolved(a)' => Deleted(a)'
                       /\ \A p \in Resolvers : Announcing(p)' => Deleted(aid[p])'
    BY DEF Gone
  <2>1. faults = 0
    BY FaultsOnlyGrow DEF Typed, TypeOK
  <2>2. ASSUME NEW p \in Resolvers, NEW a \in Nat \ {0}, Announcing(p), aid[p] = a
        PROVE  Deleted(a)'
    <3>1. p \in Procs /\ svc[p] \in Names
      BY <2>2, ConstantsAssumption
      DEF Announcing, Typed, TypeOK, LocalsOK, Resolvers, Procs
    <3>2. a < nextId
      BY <2>2, <3>1 DEF Ownership, Held
    <3>3. QED
      BY <2>1, <2>2, <3>1, <3>2, DeletedForever DEF Gone
  <2>3. ASSUME NEW a \in Nat \ {0}, Resolved(a)'
        PROVE  Deleted(a)'
    <3>1. CASE Resolved(a)
      <4>1. a < nextId
        <5>1. PICK m \in feed : m.id = a
          BY <3>1 DEF Resolved
        <5>2. m.service \in Names /\ Held(a, m.service)
          BY <5>1 DEF Held, Typed, TypeOK, Message
        <5>3. QED
          BY <5>2 DEF Ownership
      <4>2. QED
        BY <2>1, <3>1, <4>1, DeletedForever DEF Gone
    <3>2. CASE ~Resolved(a)
      <4>1. PICK p \in Resolvers : Announcing(p) /\ aid[p] = a
        BY <2>3, <3>2, FeedWriters
        DEF Resolved, Bark, BarkResolved, BarkAck, Publish, Announcing, At, Typed,
            LocalsOK
      <4>2. QED
        BY <2>2, <4>1
    <3>3. QED
      BY <3>1, <3>2
  <2>4. ASSUME NEW p \in Resolvers, Announcing(p)'
        PROVE  Deleted(aid[p])'
    <3>1. CASE Announcing(p) /\ aid[p]' = aid[p]
      <4>1. PICK a \in Nat \ {0} : aid[p] = a
        BY <3>1, ConstantsAssumption
        DEF Announcing, Typed, TypeOK, Resolvers, Procs
      <4>2. QED
        BY <2>2, <3>1, <4>1 DEF Deleted
    <3>2. CASE aid[p]' = aid[p] /\ Deleted(aid[p])'
      BY <3>2
    <3>3. QED
      BY <2>4, <3>1, <3>2, AnnouncingAfterClear
  <2>5. QED
    BY <2>3, <2>4
<1>3. Typed /\ Gone => ResolvedMeansGone
  BY DEF Gone, Deleted, ResolvedMeansGone, Typed, TypeOK
<1>4. QED
  BY <1>1, <1>2, <1>3, TypedInvariant, OwnershipInvariant, PTL DEF Spec

-----------------------------------------------------------------------------
\* Without faults the detector only ever reaches fireAlert for a service that has no
\* alert: between its GET of alert_active and the pipeline nobody else fires.
FireIsFree ==
  /\ faults = 0 /\ half = {}
  /\ pc[Detector] = "fire" => alertId[svc[Detector]] = 0

LEMMA FireIsFreeInvariant ==
  ASSUME MaxFaults = 0
  PROVE  Spec => []FireIsFree
<1>1. Init => FireIsFree
  BY ConstantsAssumption DEF Init, FireIsFree, Procs
<1>2. Typed /\ RecordConsistent /\ FireIsFree /\ [Next]_vars => FireIsFree'
  <2>. SUFFICES ASSUME Typed, RecordConsistent, FireIsFree, [Next]_vars
                PROVE  FireIsFree'
    OBVIOUS
  <2>. USE ConstantsAssumption, NamesCover
       DEF FireIsFree, RecordConsistent, Typed, TypeOK, LocalsOK, Procs, Resolvers
  <2>1. CASE StartScan
    BY <2>1 DEF keys, alert, env, At, Goto, Fault, Tracked, StartScan
  <2>2. CASE EndScan
    BY <2>2 DEF keys, alert, locals, env, At, Goto, EndScan
  <2>3. ASSUME NEW s \in Services, ReadLastSeen(s)
        PROVE  FireIsFree'
    BY <2>3 DEF keys, alert, env, At, Goto, Fault, ReadLastSeen
  <2>4. CASE ReadActive
    <3>1. UNCHANGED <<faults, half>> /\ UNCHANGED alertId
      BY <2>4 DEF alert, env, Reply, Fault, ReadActive
    <3>2. pc'[Detector] = "fire" => alertActive[svc[Detector]] # 1 /\ UNCHANGED svc
      BY <2>4 DEF At, Goto, Return, Reply, Fault, ReadActive
    <3>3. svc[Detector] \in Names
      BY <2>4 DEF At, ReadActive
    <3>4. QED
      BY <3>1, <3>2, <3>3
  <2>5. CASE Fire
    <3>1. UNCHANGED faults /\ half' \in {half, half \ {svc[Detector]}}
      BY <2>5, FireWrites DEF Fault
    <3>2. pc'[Detector] = "bark"
      BY <2>5 DEF Fire, Goto
    <3>3. QED
      BY <3>1, <3>2
  <2>6. CASE ReadCount
    BY <2>6 DEF keys, alert, env, At, Goto, Reply, Fault, Atoi, ReadCount
  <2>7. CASE ReadLast
    BY <2>7 DEF keys, alert, env, At, Goto, Reply, Fault, ReadLast
  <2>8. CASE ReadId
    BY <2>8 DEF keys, alert, env, At, Goto, Return, Reply, Fault, ReadId
  <2>9. CASE SetCount
    BY <2>9 DEF keys, locals, env, At, Goto, Fault, SetCount
  <2>10. CASE SetLast
    BY <2>10 DEF keys, locals, env, At, Goto, Fault, SetLast
  <2>11. CASE Bark
    BY <2>11 DEF keys, alert, env, At, Goto, Return, Fault, Publish, Bark
  <2>12. CASE ReadType
    BY <2>12 DEF keys, alert, locals, env, At, Goto, Return, Reply, Fault, ReadType
  <2>13. ASSUME NEW p \in Resolvers, ResolveReadId(p)
         PROVE  FireIsFree'
    BY <2>13 DEF keys, alert, locals, env, At, Goto, Reply, Fault, ResolveReadId
  <2>14. ASSUME NEW p \in Resolvers, Clear(p)
         PROVE  FireIsFree'
    <3>1. /\ UNCHANGED faults /\ half' \in {half, half \ {svc[p]}}
          /\ RecordOfOnly(svc[p]) /\ alertId'[svc[p]] \in {alertId[svc[p]], 0}
      BY <2>14, ClearWrites DEF Fault
    <3>2. pc' = [pc EXCEPT ![p] = "resolved"] /\ UNCHANGED svc
      BY <2>14 DEF Clear, Goto
    <3>3. pc[Detector] = "fire" => svc[Detector] \in Names
      OBVIOUS
    <3>4. QED
      BY <3>1, <3>2, <3>3 DEF RecordOfOnly
  <2>15. ASSUME NEW p \in Resolvers, BarkResolved(p)
         PROVE  FireIsFree'
    BY <2>15 DEF keys, alert, locals, env, At, Goto, Return, Fault, Publish,
       BarkResolved
  <2>16. ASSUME NEW c \in Checks, ReadPrev(c)
         PROVE  FireIsFree'
    BY <2>16 DEF keys, alert, env, At, Goto, Return, Reply, Fault, EndCheck,
       ReadPrev
  <2>17. ASSUME NEW c \in Checks, ReadActiveOnReplace(c)
         PROVE  FireIsFree'
    BY <2>17 DEF keys, alert, locals, env, At, Goto, Reply, Fault,
       ReadActiveOnReplace
  <2>18. ASSUME NEW c \in Checks, SetPrev(c)
         PROVE  FireIsFree'
    BY <2>18 DEF alert, env, At, Goto, Return, Fault, EndCheck, SetPrev
  <2>19. ASSUME NEW k \in Acks, Verify(k)
         PROVE  FireIsFree'
    BY <2>19 DEF keys, alert, locals, env, At, Goto, Return, Reply, Fault, Verify
  <2>20. ASSUME NEW k \in Acks, Mark(k)
         PROVE  FireIsFree'
    BY <2>20 DEF keys, locals, env, At, Goto, Fault, Mark
  <2>21. ASSUME NEW k \in Acks, BarkAck(k)
         PROVE  FireIsFree'
    BY <2>21 DEF keys, alert, locals, env, At, Goto, Return, Fault, Publish, BarkAck
  <2>22. ASSUME NEW c \in Checks, NEW s \in Services, NEW k \in Containers \cup {Nil}, Receive(c, s, k)
         PROVE  FireIsFree'
    BY <2>22 DEF alert, env, At, Goto, Fault, RecordHealthState, Receive
  <2>23. ASSUME NEW k \in Acks, NEW e \in alertById, RequestAck(k, e)
         PROVE  FireIsFree'
    BY <2>23 DEF keys, alert, locals, env, At, Goto, RequestAck
  <2>24. ASSUME NEW s \in Services, FallSilent(s)
         PROVE  FireIsFree'
    BY <2>24 DEF alert, locals, At, Unhurried, FallSilent
  <2>25. ASSUME NEW n \in Names, ReminderDue(n)
         PROVE  FireIsFree'
    BY <2>25 DEF keys, locals, env, At, Unhurried, ReminderDue
  <2>26. CASE Crash
    BY <2>26 DEF keys, alert, Crash
  <2>27. CASE UNCHANGED vars
    BY <2>27 DEF vars, alert, env
  <2>28. QED
    BY <2>1, <2>2, <2>3, <2>4, <2>5, <2>6, <2>7, <2>8, <2>9, <2>10, <2>11, <2>12,
       <2>13, <2>14, <2>15, <2>16, <2>17, <2>18, <2>19, <2>20, <2>21, <2>22, <2>23,
       <2>24, <2>25, <2>26, <2>27 DEF Next, DetectorStep, CheckStep, AckStep,
       Environment, Resolve
<1>3. QED
  BY <1>1, <1>2, TypedInvariant, RecordsStayConsistent, PTL DEF Spec

\* Without faults every step of the lifecycle raises one alert for a service that has
\* none, clears one, or changes neither.
THEOREM LifecycleImplementsBoard ==
  ASSUME MaxFaults = 0
  PROVE  Spec => ImplementsBoard
<1>1. Init => Board!Init
  BY DEF Init, Board!Init
<1>2. Typed /\ FireIsFree /\ [Next]_vars => [Board!Next]_<<alertId, nextId - 1>>
  <2>. SUFFICES ASSUME Typed, FireIsFree, [Next]_vars
                PROVE  Board!Next \/ UNCHANGED <<alertId, nextId - 1>>
    OBVIOUS
  <2>1. ASSUME Fire
        PROVE  Board!Raise(svc[Detector]) /\ svc[Detector] \in Names
    <3>1. /\ alertId' = [alertId EXCEPT ![svc[Detector]] = nextId]
          /\ nextId' = nextId + 1 /\ svc[Detector] \in Names
      BY <2>1, FireWrites DEF FireIsFree, Fault
    <3>2. alertId[svc[Detector]] = 0
      BY <2>1 DEF FireIsFree, Fire, At
    <3>3. QED
      BY <3>1, <3>2 DEF Board!Raise, Typed, TypeOK
  <2>2. ASSUME NEW p \in Resolvers, Clear(p)
        PROVE  Board!Next \/ UNCHANGED <<alertId, nextId - 1>>
    <3>1. svc[p] \in Names /\ alertId' = [alertId EXCEPT ![svc[p]] = 0]
      BY <2>2, ClearWrites DEF Fault, FireIsFree
    <3>2. UNCHANGED nextId
      BY <2>2 DEF Clear
    <3>3. CASE alertId[svc[p]] = 0
      BY <3>1, <3>2, <3>3 DEF Typed, TypeOK
    <3>4. CASE alertId[svc[p]] # 0
      <4>1. Board!Clear(svc[p])
        BY <3>1, <3>2, <3>4 DEF Board!Clear
      <4>2. QED
        BY <3>1, <4>1 DEF Board!Next
    <3>5. QED
      BY <3>3, <3>4
  <2>3. CASE UNCHANGED <<alert, nextId>>
    BY <2>3 DEF alert
  <2>4. CASE SetCount \/ SetLast \/ (\E k \in Acks : Mark(k))
               \/ (\E n \in Names : ReminderDue(n))
    BY <2>4 DEF SetCount, SetLast, Mark, ReminderDue
  <2>5. QED
    BY <2>1, <2>2, <2>3, <2>4, RecordWriters DEF Board!Next
<1>3. QED
  BY <1>1, <1>2, TypedInvariant, FireIsFreeInvariant, PTL
  DEF Spec, ImplementsBoard, Board!Spec

-----------------------------------------------------------------------------
(* Queues of a subscription                                                 *)

\* t is what is left of q after some messages were lost or taken: the others keep their order.
Thinned(t, q) ==
  \E f \in [1 .. Len(t) -> 1 .. Len(q)] :
    /\ \A i \in 1 .. Len(t) : t[i] = q[f[i]]
    /\ \A i, j \in 1 .. Len(t) : i < j => f[i] < f[j]

\* The queue without its k-th message (RemoveAt of the community modules, as Torn uses it).
Removed(q, k) == SubSeq(q, 1, k - 1) \o SubSeq(q, k + 1, Len(q))

\* A message lost from the middle of a queue (Torn) thins it.
LEMMA RemovedThins ==
  ASSUME NEW M, NEW q \in Seq(M), NEW k \in 1 .. Len(q)
  PROVE  Removed(q, k) \in Seq(M) /\ Thinned(Removed(q, k), q)
<1> DEFINE a == SubSeq(q, 1, k - 1)
           b == SubSeq(q, k + 1, Len(q))
           r == Removed(q, k)
           f == [i \in 1 .. Len(r) |-> IF i < k THEN i ELSE i + 1]
<1>1. Len(q) \in Nat BY LenProperties
<1>2. /\ a \in Seq(M) /\ Len(a) = k - 1 /\ \A i \in 1 .. k - 1 : a[i] = q[i]
      /\ b \in Seq(M) /\ Len(b) = Len(q) - k /\ \A i \in 1 .. Len(q) - k : b[i] = q[k + i]
  <2>1. a \in Seq(M) /\ Len(a) = k - 1 /\ \A i \in 1 .. k - 1 : a[i] = q[i]
    BY <1>1, SubSeqProperties
  <2>2. b \in Seq(M) /\ Len(b) = Len(q) - k /\ \A i \in 1 .. Len(q) - k : b[i] = q[k + i]
    BY <1>1, SubSeqProperties
  <2> QED BY <2>1, <2>2
<1>3. /\ r \in Seq(M) /\ Len(r) = Len(q) - 1
      /\ \A i \in 1 .. Len(r) : r[i] = IF i < k THEN q[i] ELSE q[i + 1]
  <2>1. r = a \o b BY DEF Removed
  <2>2. r \in Seq(M) /\ Len(r) = Len(a) + Len(b)
        /\ \A i \in 1 .. Len(a) + Len(b) : r[i] = IF i <= Len(a) THEN a[i] ELSE b[i - Len(a)]
    <3>1. a \in Seq(M) /\ b \in Seq(M) BY <1>2
    <3> HIDE DEF a, b
    <3> QED BY <2>1, <3>1, ConcatProperties
  <2> HIDE DEF a, b, r
  <2>3. Len(r) = Len(q) - 1 BY <1>1, <1>2, <2>2
  <2>4. ASSUME NEW i \in 1 .. Len(r) PROVE r[i] = IF i < k THEN q[i] ELSE q[i + 1]
    <3>1. CASE i < k BY <1>1, <1>2, <2>2, <2>3, <3>1
    <3>2. CASE i >= k
      <4>1. r[i] = b[i - (k - 1)] BY <1>1, <1>2, <2>2, <2>3, <3>2
      <4>2. PICK j \in 1 .. Len(q) - k : j = i - (k - 1) BY <1>1, <2>3, <3>2
      <4>3. k + j = i + 1 BY <1>1, <2>3, <4>2
      <4>4. b[j] = q[i + 1] BY <1>2, <4>3
      <4> QED BY <3>2, <4>1, <4>2, <4>4
    <3> QED BY <2>3, <1>1, <3>1, <3>2
  <2> QED BY <2>2, <2>3, <2>4
<1> HIDE DEF a, b, r
<1>4. /\ f \in [1 .. Len(r) -> 1 .. Len(q)]
      /\ \A i \in 1 .. Len(r) : r[i] = q[f[i]]
      /\ \A i, j \in 1 .. Len(r) : i < j => f[i] < f[j]
  BY <1>1, <1>3
<1>5. Thinned(r, q)
  <2> HIDE DEF f
  <2> QED BY <1>4 DEF Thinned
<1> QED BY <1>3, <1>5 DEF r

\* The end of a queue lost with its connection (Broken) thins it.
LEMMA CutThins ==
  ASSUME NEW M, NEW q \in Seq(M), NEW k \in 0 .. Len(q)
  PROVE  SubSeq(q, 1, k) \in Seq(M) /\ Thinned(SubSeq(q, 1, k), q)
<1> DEFINE r == SubSeq(q, 1, k)
           f == [i \in 1 .. Len(r) |-> i]
<1>1. Len(q) \in Nat BY LenProperties
<1>2. r \in Seq(M) /\ Len(r) = k /\ \A i \in 1 .. k : r[i] = q[i]
  BY <1>1, SubSeqProperties
<1> HIDE DEF r
<1>3. /\ f \in [1 .. Len(r) -> 1 .. Len(q)]
      /\ \A i \in 1 .. Len(r) : r[i] = q[f[i]]
      /\ \A i, j \in 1 .. Len(r) : i < j => f[i] < f[j]
  BY <1>1, <1>2
<1> HIDE DEF f
<1>4. Thinned(r, q) BY <1>3 DEF Thinned
<1> QED BY <1>2, <1>4 DEF r

\* Taking the first message thins a queue.
LEMMA TailThins ==
  ASSUME NEW M, NEW q \in Seq(M), q # <<>>
  PROVE  Tail(q) \in Seq(M) /\ Thinned(Tail(q), q)
<1> DEFINE r == Tail(q)
           f == [i \in 1 .. Len(r) |-> i + 1]
<1>1. Len(q) \in Nat \ {0} BY LenProperties, EmptySeq
<1>2. r \in Seq(M) /\ Len(r) = Len(q) - 1 /\ \A i \in 1 .. Len(r) : r[i] = q[i + 1]
  BY <1>1, HeadTailProperties
<1> HIDE DEF r
<1>3. /\ f \in [1 .. Len(r) -> 1 .. Len(q)]
      /\ \A i \in 1 .. Len(r) : r[i] = q[f[i]]
      /\ \A i, j \in 1 .. Len(r) : i < j => f[i] < f[j]
  BY <1>1, <1>2
<1> HIDE DEF f
<1>4. Thinned(r, q) BY <1>3 DEF Thinned
<1> QED BY <1>2, <1>4 DEF r

\* From an empty queue nothing is left.
LEMMA EmptyOnly ==
  ASSUME NEW M, NEW t \in Seq(M), NEW q, Thinned(t, q), q = <<>>
  PROVE  t = <<>>
<1>1. PICK f : f \in [1 .. Len(t) -> 1 .. Len(q)] BY DEF Thinned
<1>2. Len(q) = 0 /\ Len(t) \in Nat BY LenProperties
<1>3. Len(t) = 0
  <2>1. SUFFICES ASSUME Len(t) # 0 PROVE FALSE OBVIOUS
  <2>2. 1 \in 1 .. Len(t) BY <1>2, <2>1
  <2>3. f[1] \in 1 .. 0 BY <1>1, <1>2, <2>2
  <2> QED BY <2>3
<1> QED BY <1>3, EmptySeq

-----------------------------------------------------------------------------
(* The health check and its Redis clients                                   *)

\* Whose goroutine is whose: a health check runs one, Augur Canis a worker per request and its
\* cycle, and each uses the Redis client of its own process.
LEMMA Sides ==
  ASSUME H!HealthCheckConstants
  PROVE  /\ \A h \in Probes : /\ H!Check(h) \in Goroutines /\ Owner[H!Check(h)] = h
                              /\ H!Worker(h) \in Goroutines /\ Owner[H!Worker(h)] = AugurCanis
         /\ H!Cycle \in Goroutines /\ Owner[H!Cycle] = AugurCanis
         /\ \A g \in Goroutines : Owner[g] \in Clients
         /\ \A g \in Goroutines : g[1] = "check" <=> Owner[g] # AugurCanis
         /\ \A g \in Goroutines : Owner[g] # AugurCanis => Owner[g] \in Probes /\ g = H!Check(Owner[g])
         /\ AugurCanis \in Clients /\ Probes \subseteq Clients /\ AugurCanis \notin Probes
         /\ Clients = Probes \cup {AugurCanis}
         /\ Free \notin Goroutines /\ MaxFaults \in Nat /\ MaxCrashes \in Nat
<1> USE DEF H!HealthCheckConstants, H!RedisClientConstants, H!Check, H!Worker, H!Cycle
<1>1. \A h \in Probes : H!Check(h) \in Goroutines /\ H!Worker(h) \in Goroutines
  OBVIOUS
<1>2. H!Cycle \in Goroutines OBVIOUS
<1>3. \A h \in Probes : Owner[H!Check(h)] = h /\ Owner[H!Worker(h)] = AugurCanis
  BY <1>1
<1>4. Owner[H!Cycle] = AugurCanis BY <1>2
<1>5. ASSUME NEW g \in Goroutines
      PROVE  /\ g[1] = "check" <=> Owner[g] # AugurCanis
             /\ Owner[g] # AugurCanis => Owner[g] \in Probes /\ g = H!Check(Owner[g])
  <2>1. CASE g \in {"check", "worker"} \X Probes
    BY <2>1
  <2>2. CASE g = H!Cycle
    BY <2>2
  <2> QED BY <2>1, <2>2
<1> QED BY <1>1, <1>2, <1>3, <1>4, <1>5

\* The parts of a state that is type correct.
LEMMA Types ==
  ASSUME H!HealthCheckConstants, H!TypeOK
  PROVE  /\ \A c \in Clients : /\ link[c] \in H!Links(H!Commands)
                               /\ link[c].state \in {"none", "up", "broken"}
                               /\ link[c].requests \in Seq(H!Commands)
                               /\ link[c].replies \in Seq([cmd: H!Commands, ok: BOOLEAN])
         /\ \A g \in Goroutines : /\ call[g] \in H!CallsOf(H!Commands)
                                  /\ call[g].cmds \in Seq(H!Commands)
                                  /\ call[g].read \in Seq(H!Commands)
         /\ \A h \in Probes : /\ answer[h].up \in BOOLEAN
                              /\ answer[h].queue \in Seq({"healthy"})
         /\ listener.sub.up \in BOOLEAN /\ listener.sub.queue \in Seq(Probes)
BY DEF H!TypeOK, H!ClientTypeOK, H!Links, H!CallsOf, H!Subscription

\* What a subscription holds is of its type, whatever is delivered to it or lost.
LEMMA Holds ==
  ASSUME NEW M, NEW s \in H!Subscription(M)
  PROVE  /\ \A m \in M : H!Deliver(s, m) \in H!Subscription(M)
         /\ s.queue # <<>> => H!Taken(s) \in H!Subscription(M) /\ Head(s.queue) \in M
         /\ H!Torn(s) \cup H!Broken(s) \subseteq H!Subscription(M)
         /\ H!Subscribed \in H!Subscription(M) /\ H!Unsubscribed \in H!Subscription(M)
<1>1. s = [up |-> s.up, queue |-> s.queue] /\ s.up \in BOOLEAN /\ s.queue \in Seq(M)
  BY DEF H!Subscription
<1>2. \A m \in M : H!Deliver(s, m) \in H!Subscription(M)
  BY <1>1 DEF H!Subscription, H!Deliver
<1>3. s.queue # <<>> => H!Taken(s) \in H!Subscription(M) /\ Head(s.queue) \in M
  BY <1>1, SMTT(30) DEF H!Subscription, H!Taken
<1>4. ASSUME NEW t \in H!Torn(s) PROVE t \in H!Subscription(M)
  <2>1. s.up BY DEF H!Torn
  <2>2. PICK k \in 1 .. Len(s.queue) : t = [s EXCEPT !.queue = H!RemoveAt(@, k)]
    BY <2>1 DEF H!Torn
  <2>3. H!RemoveAt(s.queue, k) \in Seq(M)
    <3>1. SubSeq(s.queue, 1, k - 1) \in Seq(M) /\ SubSeq(s.queue, k + 1, Len(s.queue)) \in Seq(M)
      BY <1>1, SubSeqProperties
    <3> QED BY <3>1, ConcatProperties DEF H!RemoveAt
  <2> QED BY <1>1, <2>2, <2>3 DEF H!Subscription
<1>5. ASSUME NEW t \in H!Broken(s) PROVE t \in H!Subscription(M)
  <2>1. s.up BY DEF H!Broken
  <2>2. PICK k \in 0 .. Len(s.queue) : t = [up |-> FALSE, queue |-> SubSeq(s.queue, 1, k)]
    BY <2>1 DEF H!Broken
  <2>3. SubSeq(s.queue, 1, k) \in Seq(M) BY <1>1, <2>2, SubSeqProperties
  <2> QED BY <2>2, <2>3 DEF H!Subscription
<1> QED BY <1>2, <1>3, <1>4, <1>5 DEF H!Subscription, H!Subscribed, H!Unsubscribed

\* The Redis clients' part of the types.
Client == H!ClientTypeOK(H!Commands)

\* What happens to a connection (written, read, executed, torn down) keeps it a connection.
LEMMA LinkTypes ==
  ASSUME NEW C, NEW l \in H!Links(C)
  PROVE  /\ H!NoLink \in H!Links(C) /\ [H!NoLink EXCEPT !.state = "broken"] \in H!Links(C)
         /\ H!Elements(l.requests) \subseteq C
         /\ \A q \in Seq(C) : [l EXCEPT !.state = "up", !.requests = @ \o q] \in H!Links(C)
         /\ l.replies # <<>> => /\ [l EXCEPT !.replies = Tail(@)] \in H!Links(C)
                                /\ Head(l.replies).cmd \in C /\ Head(l.replies).ok \in BOOLEAN
         /\ l.requests # <<>> =>
              /\ Head(l.requests) \in C
              /\ \A ok \in BOOLEAN :
                   [l EXCEPT !.requests = Tail(@),
                             !.replies = Append(@, [cmd |-> Head(l.requests), ok |-> ok])] \in H!Links(C)
<1>1. /\ l.state \in {"none", "up", "broken"} /\ l.requests \in Seq(C)
      /\ l.replies \in Seq([cmd: C, ok: BOOLEAN])
      /\ l = [state |-> l.state, requests |-> l.requests, replies |-> l.replies]
  BY DEF H!Links
<1>2. H!NoLink \in H!Links(C) /\ [H!NoLink EXCEPT !.state = "broken"] \in H!Links(C)
  <2>1. <<>> \in Seq(C) /\ <<>> \in Seq([cmd: C, ok: BOOLEAN]) BY EmptySeq
  <2> QED BY <2>1 DEF H!Links, H!NoLink
<1>3. H!Elements(l.requests) \subseteq C
  BY <1>1 DEF H!Elements
<1>4. \A q \in Seq(C) : [l EXCEPT !.state = "up", !.requests = @ \o q] \in H!Links(C)
  BY <1>1, ConcatProperties DEF H!Links
<1>5. ASSUME l.replies # <<>>
      PROVE  /\ [l EXCEPT !.replies = Tail(@)] \in H!Links(C)
             /\ Head(l.replies).cmd \in C /\ Head(l.replies).ok \in BOOLEAN
  <2>1. Head(l.replies) \in [cmd: C, ok: BOOLEAN] /\ Tail(l.replies) \in Seq([cmd: C, ok: BOOLEAN])
    BY <1>1, <1>5, HeadTailProperties
  <2> QED BY <1>1, <2>1 DEF H!Links
<1>6. ASSUME l.requests # <<>>
      PROVE  /\ Head(l.requests) \in C
             /\ \A ok \in BOOLEAN :
                   [l EXCEPT !.requests = Tail(@),
                             !.replies = Append(@, [cmd |-> Head(l.requests), ok |-> ok])] \in H!Links(C)
  <2>1. Head(l.requests) \in C /\ Tail(l.requests) \in Seq(C)
    BY <1>1, <1>6, HeadTailProperties
  <2>2. ASSUME NEW ok \in BOOLEAN
        PROVE  Append(l.replies, [cmd |-> Head(l.requests), ok |-> ok]) \in Seq([cmd: C, ok: BOOLEAN])
    BY <1>1, <2>1, AppendProperties
  <2> QED BY <1>1, <2>1, <2>2 DEF H!Links
<1> QED BY <1>1, <1>2, <1>3, <1>4, <1>5, <1>6

\* A call that returns (RedisClient.Send, sendPipeline) keeps the types.
LEMMA ReturnTypes ==
  ASSUME H!HealthCheckConstants, Client, NEW g \in Goroutines, NEW outcome \in {"ok", "failed"},
         NEW done \in SUBSET H!Commands, H!Return(g, outcome, done)
  PROVE  /\ holder' \in [Clients -> Goroutines \cup {Free}]
         /\ \A c \in Clients : holder'[c] # Free => Owner[holder'[c]] = c
         /\ call' \in [Goroutines -> H!CallsOf(H!Commands)]
         /\ acked' \in [Goroutines -> SUBSET H!Commands]
<1>1. /\ holder \in [Clients -> Goroutines \cup {Free}] /\ call \in [Goroutines -> H!CallsOf(H!Commands)]
      /\ acked \in [Goroutines -> SUBSET H!Commands]
      /\ \A c \in Clients : holder[c] # Free => Owner[holder[c]] = c
  BY DEF Client, H!ClientTypeOK
<1>2. Owner[g] \in Clients BY Sides
<1>3. [call[g] EXCEPT !.at = outcome] \in H!CallsOf(H!Commands)
  <2>1. call[g] \in H!CallsOf(H!Commands) BY <1>1
  <2> QED BY <2>1 DEF H!CallsOf
<1>4. call' \in [Goroutines -> H!CallsOf(H!Commands)]
  BY <1>1, <1>3 DEF H!Return
<1>5. acked' \in [Goroutines -> SUBSET H!Commands]
  BY <1>1 DEF H!Return
<1>6. /\ holder' \in [Clients -> Goroutines \cup {Free}]
      /\ \A c \in Clients : holder'[c] # Free => Owner[holder'[c]] = c
  BY <1>1, <1>2 DEF H!Return
<1> QED BY <1>4, <1>5, <1>6

\* Dropping a connection (RedisClient.reset) keeps the types.
LEMMA ResetTypes ==
  ASSUME H!HealthCheckConstants, Client, NEW c \in Clients, H!Reset(c)
  PROVE  link' \in [Clients -> H!Links(H!Commands)] /\ stray' \subseteq H!Commands
<1>1. link[c] \in H!Links(H!Commands) BY DEF Client, H!ClientTypeOK
<1>2. H!NoLink \in H!Links(H!Commands) /\ H!Elements(link[c].requests) \subseteq H!Commands
  BY <1>1, LinkTypes
<1> QED BY <1>2 DEF Client, H!ClientTypeOK, H!Reset

\* Every step of a call keeps the types.
LEMMA ClientTypes ==
  ASSUME H!HealthCheckConstants, Client, NEW g \in Goroutines, H!ClientStep(g)
  PROVE  Client'
<1> DEFINE c == Owner[g]
<1>a. c \in Clients BY Sides
<1>b. link[c] \in H!Links(H!Commands) /\ call[g] \in H!CallsOf(H!Commands)
  BY <1>a DEF Client, H!ClientTypeOK
<1>c. call[g].cmds \in Seq(H!Commands) /\ call[g].read \in Seq(H!Commands)
  BY <1>b DEF H!CallsOf
<1>d. H!Elements(call[g].read) \subseteq H!Commands /\ H!Elements(call[g].cmds) \subseteq H!Commands
  BY <1>c DEF H!Elements
<1>f. H!Fault => faults' \in 0 .. MaxFaults
  BY Sides DEF H!Fault, Client, H!ClientTypeOK
<1>1. CASE H!Lock(g)
  <2>1. call' \in [Goroutines -> H!CallsOf(H!Commands)]
    <3>1. [call[g] EXCEPT !.at = "send"] \in H!CallsOf(H!Commands)
      BY <1>b DEF H!CallsOf
    <3> QED BY <1>1, <3>1 DEF Client, H!ClientTypeOK, H!Lock
  <2>2. /\ holder' \in [Clients -> Goroutines \cup {Free}]
        /\ \A k \in Clients : holder'[k] # Free => Owner[holder'[k]] = k
    BY <1>1, <1>a DEF Client, H!ClientTypeOK, H!Lock
  <2> QED BY <1>1, <2>1, <2>2 DEF Client, H!ClientTypeOK, H!Lock
<1>2. CASE H!Send(g)
  <2>1. CASE link[c].state # "broken" /\ UNCHANGED <<holder, acked, stray, faults, executed>>
             /\ link' = [link EXCEPT ![c].state = "up", ![c].requests = @ \o call[g].cmds]
             /\ call' = [call EXCEPT ![g].at = "read"]
    <3>1. link' = [link EXCEPT ![c] = [link[c] EXCEPT !.state = "up", !.requests = @ \o call[g].cmds]]
      BY <2>1, <1>a DEF Client, H!ClientTypeOK
    <3>2. link' \in [Clients -> H!Links(H!Commands)]
      BY <3>1, <1>b, <1>c, LinkTypes DEF Client, H!ClientTypeOK
    <3>3. call' \in [Goroutines -> H!CallsOf(H!Commands)]
      BY <2>1, <1>b DEF Client, H!ClientTypeOK, H!CallsOf
    <3> QED BY <2>1, <3>2, <3>3 DEF Client, H!ClientTypeOK
  <2>2. CASE H!Fault /\ H!Return(g, "failed", {}) /\ UNCHANGED <<link, stray, executed>>
    BY <2>2, <1>f, ReturnTypes DEF Client, H!ClientTypeOK
  <2>3. CASE H!Reset(c) /\ H!Return(g, "failed", {}) /\ UNCHANGED <<faults, executed>>
    BY <2>3, <1>a, ReturnTypes, ResetTypes DEF Client, H!ClientTypeOK
  <2> QED BY <1>2, <2>1, <2>2, <2>3 DEF H!Send
<1>3. CASE H!ReadReply(g)
  <2> DEFINE reply == Head(link[c].replies)
             read == Append(call[g].read, reply.cmd)
  <2>1. /\ [link[c] EXCEPT !.replies = Tail(@)] \in H!Links(H!Commands)
        /\ reply.cmd \in H!Commands
    BY <1>3, <1>b, LinkTypes DEF H!ReadReply
  <2>2. read \in Seq(H!Commands)
    BY <2>1, <1>c, AppendProperties
  <2>3. link' = [link EXCEPT ![c].replies = Tail(@)] => link' \in [Clients -> H!Links(H!Commands)]
    <3> SUFFICES ASSUME link' = [link EXCEPT ![c].replies = Tail(@)] PROVE link' \in [Clients -> H!Links(H!Commands)]
      OBVIOUS
    <3>1. link' = [link EXCEPT ![c] = [link[c] EXCEPT !.replies = Tail(@)]]
      BY <1>a DEF Client, H!ClientTypeOK
    <3> QED BY <3>1, <2>1 DEF Client, H!ClientTypeOK
  <2>4. CASE /\ link' = [link EXCEPT ![c].replies = Tail(@)]
             /\ call' = [call EXCEPT ![g].read = read]
             /\ UNCHANGED <<holder, acked, stray, executed, faults>>
    <3>1. call' \in [Goroutines -> H!CallsOf(H!Commands)]
      BY <2>4, <2>2, <1>b DEF Client, H!ClientTypeOK, H!CallsOf
    <3> QED BY <2>4, <2>3, <3>1 DEF Client, H!ClientTypeOK
  <2>5. CASE /\ link' = [link EXCEPT ![c].replies = Tail(@)]
             /\ call' = [call EXCEPT ![g].at = "ok", ![g].read = read]
             /\ acked' = [acked EXCEPT ![g] = H!Elements(call[g].cmds)]
             /\ holder' = [holder EXCEPT ![c] = Free]
             /\ UNCHANGED <<stray, executed, faults>>
    <3>1. call' \in [Goroutines -> H!CallsOf(H!Commands)]
      BY <2>5, <2>2, <1>b DEF Client, H!ClientTypeOK, H!CallsOf
    <3>2. acked' \in [Goroutines -> SUBSET H!Commands]
      BY <2>5, <1>d DEF Client, H!ClientTypeOK
    <3>3. /\ holder' \in [Clients -> Goroutines \cup {Free}]
          /\ \A k \in Clients : holder'[k] # Free => Owner[holder'[k]] = k
      BY <2>5, <1>a DEF Client, H!ClientTypeOK
    <3> QED BY <2>5, <2>3, <3>1, <3>2, <3>3 DEF Client, H!ClientTypeOK
  <2>6. CASE H!Reset(c) /\ H!Failing(g) /\ UNCHANGED <<executed, faults>>
    BY <2>6, <1>a, <1>d, ReturnTypes, ResetTypes DEF Client, H!ClientTypeOK, H!Failing
  <2> QED BY <1>3, <2>4, <2>5, <2>6 DEF H!ReadReply
<1>4. CASE H!ReadFails(g)
  <2>1. faults' \in 0 .. MaxFaults
    BY <1>4, <1>f DEF H!ReadFails, Client, H!ClientTypeOK
  <2> QED BY <1>4, <2>1, <1>a, <1>d, ReturnTypes, ResetTypes
        DEF Client, H!ClientTypeOK, H!ReadFails, H!Failing
<1> QED BY <1>1, <1>2, <1>3, <1>4 DEF H!ClientStep

\* Beginning a call keeps the types.
LEMMA CallTypes ==
  ASSUME H!HealthCheckConstants, Client, NEW g \in Goroutines, NEW cmds \in Seq(H!Commands),
         NEW deadline \in BOOLEAN, H!Calls(g, cmds, deadline)
  PROVE  Client'
<1>1. [H!Idle EXCEPT !.at = "lock", !.cmds = cmds, !.deadline = deadline] \in H!CallsOf(H!Commands)
  <2>1. <<>> \in Seq(H!Commands) BY EmptySeq
  <2> QED BY <2>1 DEF H!Idle, H!CallsOf
<1> QED BY <1>1 DEF Client, H!ClientTypeOK, H!Calls, H!Begin

\* What Redis executes and what breaks keeps the types.
LEMMA RedisTypes ==
  ASSUME H!HealthCheckConstants, Client
  PROVE  /\ \A c \in Clients : H!Execute(c) => Client' /\ executed' \subseteq executed \cup H!Commands
         /\ \A c \in Clients : H!Break(c) => Client' /\ executed' = executed
         /\ \A cmd \in stray : H!ExecuteStray(cmd) => Client'
<1>f. H!Fault => faults' \in 0 .. MaxFaults
  BY Sides DEF H!Fault, Client, H!ClientTypeOK
<1>1. ASSUME NEW c \in Clients, H!Execute(c) PROVE Client'
  <2> DEFINE cmd == Head(link[c].requests)
             L(ok) == [link[c] EXCEPT !.requests = Tail(@),
                                      !.replies = Append(@, [cmd |-> cmd, ok |-> ok])]
  <2>1. link[c] \in H!Links(H!Commands) BY DEF Client, H!ClientTypeOK
  <2>2. cmd \in H!Commands /\ \A ok \in BOOLEAN : L(ok) \in H!Links(H!Commands)
    BY <1>1, <2>1, LinkTypes DEF H!Execute
  <2>3. CASE /\ executed' = executed \cup {cmd} /\ UNCHANGED faults
             /\ link' = [link EXCEPT ![c].requests = Tail(@),
                                ![c].replies = Append(@, [cmd |-> cmd, ok |-> TRUE])]
    <3>1. link' = [link EXCEPT ![c] = L(TRUE)] BY <2>3 DEF Client, H!ClientTypeOK
    <3>2. link' \in [Clients -> H!Links(H!Commands)] BY <3>1, <2>2 DEF Client, H!ClientTypeOK
    <3> QED BY <1>1, <2>2, <2>3, <3>2 DEF Client, H!ClientTypeOK, H!Execute
  <2>4. CASE /\ UNCHANGED executed /\ H!Fault
             /\ link' = [link EXCEPT ![c].requests = Tail(@),
                                ![c].replies = Append(@, [cmd |-> cmd, ok |-> FALSE])]
    <3>1. link' = [link EXCEPT ![c] = L(FALSE)] BY <2>4 DEF Client, H!ClientTypeOK
    <3>2. link' \in [Clients -> H!Links(H!Commands)] BY <3>1, <2>2 DEF Client, H!ClientTypeOK
    <3> QED BY <1>1, <2>4, <1>f, <3>2 DEF Client, H!ClientTypeOK, H!Execute
  <2> QED BY <1>1, <2>3, <2>4 DEF H!Execute
<1>2. ASSUME NEW c \in Clients, H!Break(c) PROVE Client'
  <2>1. link[c] \in H!Links(H!Commands) BY DEF Client, H!ClientTypeOK
  <2>2. [H!NoLink EXCEPT !.state = "broken"] \in H!Links(H!Commands)
        /\ H!Elements(link[c].requests) \subseteq H!Commands
    BY <2>1, LinkTypes
  <2> QED BY <1>2, <1>f, <2>2 DEF Client, H!ClientTypeOK, H!Break
<1>3. ASSUME NEW cmd \in stray, H!ExecuteStray(cmd) PROVE Client'
  BY <1>3 DEF Client, H!ClientTypeOK, H!ExecuteStray
<1> QED BY <1>1, <1>2, <1>3 DEF H!Break, Client, H!ClientTypeOK

\* What the goroutines send are sequences of commands.
LEMMA CommandTypes ==
  /\ \A h \in Probes : /\ <<H!Cmd("request", h)>> \in Seq(H!Commands)
                       /\ <<H!Cmd("ping", h)>> \in Seq(H!Commands)
                       /\ <<H!Cmd("seen", h)>> \in Seq(H!Commands)
                       /\ <<H!Cmd("copy", h), H!Cmd("result", h)>> \in Seq(H!Commands)
                       /\ <<H!Cmd("feed", h)>> \in Seq(H!Commands)
  /\ <<H!Cmd("get", AugurCanis)>> \in Seq(H!Commands)
BY DEF H!Cmd, H!Commands

\* A published message keeps the two subscriptions what they are.
LEMMA MessageTypes ==
  ASSUME H!TypeOK, H!Messages
  PROVE  /\ listener' \in [at: {"connect", "read", "sleep"}, sub: H!Subscription(Probes)]
         /\ answer' \in [Probes -> H!Subscription({"healthy"})]
<1>1. /\ listener \in [at: {"connect", "read", "sleep"}, sub: H!Subscription(Probes)]
      /\ answer \in [Probes -> H!Subscription({"healthy"})]
  BY DEF H!TypeOK
<1>2. \A h \in Probes : H!Deliver(answer[h], "healthy") \in H!Subscription({"healthy"})
  BY <1>1, Holds
<1>3. answer' \in [Probes -> H!Subscription({"healthy"})]
  BY <1>1, <1>2 DEF H!Messages
<1>4. ASSUME NEW h \in Probes
      PROVE  [listener EXCEPT !.sub = H!Deliver(@, h)] \in
               [at: {"connect", "read", "sleep"}, sub: H!Subscription(Probes)]
  <2>1. H!Deliver(listener.sub, h) \in H!Subscription(Probes) BY <1>1, Holds
  <2> QED BY <1>1, <2>1
<1>5. CASE \E h \in Probes : H!Cmd("request", h) \in executed' \ executed
  <2>1. PICK h \in Probes : h = CHOOSE k \in Probes : H!Cmd("request", k) \in executed' \ executed
    BY <1>5
  <2> QED BY <1>3, <1>4, <1>5, <2>1 DEF H!Messages
<1>6. CASE ~\E h \in Probes : H!Cmd("request", h) \in executed' \ executed
  BY <1>1, <1>3, <1>6 DEF H!Messages
<1> QED BY <1>5, <1>6

\* Type correctness: every step keeps the state in its types.
LEMMA HealthTypeStep ==
  ASSUME H!HealthCheckConstants, H!TypeOK, [H!Next]_H!vars
  PROVE  H!TypeOK'
<1> DEFINE PCs == H!Ended \cup {"subscribe", "publish", "publishing", "wait", "ping", "pinging"}
           Listeners == [at: {"connect", "read", "sleep"}, sub: H!Subscription(Probes)]
           Workers == {"none", "record", "recording", "answering", "feeding", "done", "gone"}
<1>a. /\ Client /\ faults \in 0 .. MaxFaults
      /\ probe \in [Probes -> PCs] /\ answer \in [Probes -> H!Subscription({"healthy"})]
      /\ listener \in Listeners /\ worker \in [Probes -> Workers]
      /\ hurt \subseteq Probes /\ crashes \in 0 .. MaxCrashes
  BY DEF H!TypeOK, Client, H!ClientTypeOK
<1>b. (/\ Client'
       /\ probe' \in [Probes -> PCs] /\ answer' \in [Probes -> H!Subscription({"healthy"})]
       /\ listener' \in Listeners /\ worker' \in [Probes -> Workers]
       /\ hurt' \subseteq Probes /\ crashes' \in 0 .. MaxCrashes) => H!TypeOK'
  BY DEF H!TypeOK, Client
<1>f. H!Fault => faults' \in 0 .. MaxFaults
  BY <1>a, Sides DEF H!Fault
<1>u. UNCHANGED <<holder, link, call, acked, stray, executed>> /\ faults' \in 0 .. MaxFaults => Client'
  BY <1>a DEF Client, H!ClientTypeOK
<1>h. \A h \in Probes : H!Check(h) \in Goroutines /\ H!Worker(h) \in Goroutines
  BY Sides
<1>s. /\ H!Subscribed \in H!Subscription({"healthy"}) /\ H!Unsubscribed \in H!Subscription({"healthy"})
      /\ H!Subscribed \in H!Subscription(Probes) /\ H!Unsubscribed \in H!Subscription(Probes)
  <2>1. H!Unsubscribed \in H!Subscription({"healthy"}) /\ H!Unsubscribed \in H!Subscription(Probes)
    BY EmptySeq DEF H!Unsubscribed, H!Subscription
  <2> QED BY <2>1, Holds
<1>1. ASSUME NEW h \in Probes, H!CheckStep(h) PROVE H!TypeOK'
  <2>1. CASE H!SubscribeFirst(h)
    <3>1. Client' BY <2>1, <1>a, <1>f, <1>u DEF H!SubscribeFirst
    <3> QED BY <2>1, <3>1, <1>a, <1>b, <1>s DEF H!SubscribeFirst, H!Goto
  <2>2. CASE H!PublishRequest(h)
    <3>1. Client' BY <2>2, <1>a, <1>h, CallTypes, CommandTypes DEF H!PublishRequest
    <3> QED BY <2>2, <3>1, <1>a, <1>b DEF H!PublishRequest, H!Goto
  <2>3. CASE H!Published(h)
    <3>1. Client' BY <2>3, <1>a, <1>u DEF H!Published, H!redis
    <3> QED BY <2>3, <3>1, <1>a, <1>b DEF H!Published, H!Goto
  <2>4. CASE H!Answered(h)
    <3>1. Client' BY <2>4, <1>a, <1>u DEF H!Answered, H!redis
    <3> QED BY <2>4, <3>1, <1>a, <1>b, <1>s DEF H!Answered, H!Goto, H!Ended
  <2>5. CASE H!TimesOut(h)
    <3>1. Client' BY <2>5, <1>a, <1>u DEF H!TimesOut, H!redis
    <3> QED BY <2>5, <3>1, <1>a, <1>b DEF H!TimesOut, H!Goto
  <2>6. CASE H!PingRedis(h)
    <3>1. Client' BY <2>6, <1>a, <1>h, CallTypes, CommandTypes DEF H!PingRedis
    <3> QED BY <2>6, <3>1, <1>a, <1>b DEF H!PingRedis, H!Goto
  <2>7. CASE H!Pinged(h)
    <3>1. Client' BY <2>7, <1>a, <1>u DEF H!Pinged, H!redis
    <3> QED BY <2>7, <3>1, <1>a, <1>b DEF H!Pinged, H!Goto, H!Ended
  <2> QED BY <1>1, <2>1, <2>2, <2>3, <2>4, <2>5, <2>6, <2>7 DEF H!CheckStep
<1>2. ASSUME NEW h \in Probes, H!AnswerDrops(h) PROVE H!TypeOK'
  <2>1. Client' BY <1>2, <1>a, <1>f, <1>u DEF H!AnswerDrops
  <2>2. answer[h] \in H!Subscription({"healthy"}) BY <1>a
  <2>3. H!Torn(answer[h]) \cup H!Broken(answer[h]) \subseteq H!Subscription({"healthy"})
    BY <2>2, Holds
  <2> QED BY <1>2, <2>1, <2>3, <1>a, <1>b DEF H!AnswerDrops
<1>3. ASSUME NEW h \in Probes, H!WorkerStep(h) PROVE H!TypeOK'
  <2>1. ASSUME NEW here, NEW cmds \in Seq(H!Commands), NEW follow \in Workers, H!WorkerCalls(h, here, cmds, follow)
        PROVE  H!TypeOK'
    <3>1. Client' BY <2>1, <1>a, <1>h, CallTypes DEF H!WorkerCalls
    <3> QED BY <2>1, <3>1, <1>a, <1>b DEF H!WorkerCalls, H!GotoWorker
  <2>2. CASE H!RecordState(h) BY <2>1, <2>2, CommandTypes DEF H!RecordState
  <2>3. CASE H!SendAnswer(h) BY <2>1, <2>3, CommandTypes DEF H!SendAnswer
  <2>4. ASSUME UNCHANGED H!redis, H!GotoWorker(h, "done"), UNCHANGED <<probe, answer, listener, hurt, crashes>>
        PROVE  H!TypeOK'
    <3>1. Client' BY <2>4, <1>a, <1>u DEF H!redis
    <3> QED BY <2>4, <3>1, <1>a, <1>b DEF H!GotoWorker
  <2>5. CASE H!SendFeedEvent(h) BY <2>1, <2>4, <2>5, CommandTypes DEF H!SendFeedEvent
  <2>6. CASE H!WorkerEnds(h) BY <2>4, <2>6 DEF H!WorkerEnds
  <2> QED BY <1>3, <2>2, <2>3, <2>5, <2>6 DEF H!WorkerStep
<1>4. CASE H!Listen
  <2>1. Client' BY <1>4, <1>a, <1>f, <1>u DEF H!Listen
  <2> QED BY <1>4, <2>1, <1>a, <1>b, <1>s DEF H!Listen
<1>5. CASE H!TakeRequest
  <2>1. Client' BY <1>5, <1>a, <1>u DEF H!TakeRequest, H!redis
  <2>2. listener.sub \in H!Subscription(Probes) BY <1>a
  <2>3. H!Taken(listener.sub) \in H!Subscription(Probes) /\ Head(listener.sub.queue) \in Probes
    BY <1>5, <2>2, Holds DEF H!TakeRequest
  <2> QED BY <1>5, <2>1, <2>3, <1>a, <1>b DEF H!TakeRequest, H!GotoWorker
<1>6. CASE H!ListenerDrops
  <2>1. Client' BY <1>6, <1>a, <1>f, <1>u DEF H!ListenerDrops
  <2>2. listener.sub \in H!Subscription(Probes) BY <1>a
  <2>3. H!Torn(listener.sub) \cup H!Broken(listener.sub) \subseteq H!Subscription(Probes)
    BY <2>2, Holds
  <2> QED BY <1>6, <2>1, <2>3, <1>a, <1>b DEF H!ListenerDrops
<1>7. CASE H!CycleReads
  <2>1. H!Cycle \in Goroutines BY Sides
  <2>2. Client' BY <1>7, <2>1, <1>a, CallTypes, CommandTypes DEF H!CycleReads
  <2> QED BY <1>7, <2>2, <1>a, <1>b DEF H!CycleReads
<1>8. CASE H!Crash
  <2>1. AugurCanis \in Clients /\ MaxCrashes \in Nat BY Sides
  <2>2. link' \in [Clients -> H!Links(H!Commands)] /\ stray' \subseteq H!Commands
    BY <1>8, <2>1, <1>a, ResetTypes DEF H!Crash
  <2>3. call' \in [Goroutines -> H!CallsOf(H!Commands)]
    <3>1. H!Idle \in H!CallsOf(H!Commands)
      <4>1. <<>> \in Seq(H!Commands) BY EmptySeq
      <4> QED BY <4>1 DEF H!Idle, H!CallsOf
    <3> QED BY <1>8, <1>a, <3>1 DEF H!Crash, Client, H!ClientTypeOK
  <2>4. /\ holder' \in [Clients -> Goroutines \cup {Free}]
        /\ \A k \in Clients : holder'[k] # Free => Owner[holder'[k]] = k
    BY <1>8, <1>a, <2>1 DEF H!Crash, Client, H!ClientTypeOK
  <2>5. Client' BY <1>8, <1>a, <2>2, <2>3, <2>4 DEF H!Crash, Client, H!ClientTypeOK
  <2> QED BY <1>8, <2>1, <2>5, <1>a, <1>b, <1>s DEF H!Crash
<1>9. ASSUME NEW g \in Goroutines, H!Step(g) PROVE H!TypeOK'
  <2>1. Client' BY <1>9, <1>a, ClientTypes DEF H!Step
  <2> QED BY <1>9, <2>1, <1>a, <1>b DEF H!Step, H!Hurt
<1>10. ASSUME NEW c \in Clients, H!RedisStep(c) PROVE H!TypeOK'
  <2>1. Client' BY <1>10, <1>a, RedisTypes DEF H!RedisStep
  <2>2. listener' \in Listeners /\ answer' \in [Probes -> H!Subscription({"healthy"})]
    BY <1>10, <1>a, MessageTypes DEF H!RedisStep
  <2> QED BY <1>10, <2>1, <2>2, <1>a, <1>b DEF H!RedisStep, H!Hurt
<1>11. CASE H!StrayStep
  <2>1. Client' BY <1>11, <1>a, RedisTypes DEF H!StrayStep
  <2>2. listener' \in Listeners /\ answer' \in [Probes -> H!Subscription({"healthy"})]
    BY <1>11, MessageTypes DEF H!StrayStep
  <2> QED BY <1>11, <2>1, <2>2, <1>a, <1>b DEF H!StrayStep
<1>12. CASE UNCHANGED H!vars
  <2>1. Client' BY <1>12, <1>a, <1>u DEF H!vars, H!redis
  <2> QED BY <1>12, <2>1, <1>a, <1>b DEF H!vars
<1> QED BY <1>1, <1>2, <1>3, <1>4, <1>5, <1>6, <1>7, <1>8, <1>9, <1>10, <1>11, <1>12 DEF H!Next

\* One goroutine holds a client's mutex from its Send to its last reply.
Mutex == \A g \in Goroutines : call[g].at \in {"send", "read"} <=> holder[Owner[g]] = g

\* What is on the way, from the replies read to the requests not executed yet, are the commands
\* of the call, in their order.
Pipeline(read, replies, requests, cmds) ==
  /\ Len(read) + Len(replies) + Len(requests) = Len(cmds)
  /\ \A i \in 1 .. Len(replies) : replies[i].cmd = cmds[Len(read) + i]
  /\ \A i \in 1 .. Len(requests) : requests[i] = cmds[Len(read) + Len(replies) + i]

\* A connection carries the pipeline of the call that is reading from it, and else nothing.
Reading(c) == holder[c] # Free /\ call[holder[c]].at = "read" /\ link[c].state = "up"
Wire(c) ==
  IF Reading(c)
  THEN Pipeline(call[holder[c]].read, link[c].replies, link[c].requests, call[holder[c]].cmds)
  ELSE link[c].requests = <<>> /\ link[c].replies = <<>>

\* What a call has read is a beginning of its commands.
Line(g) ==
  /\ Len(call[g].read) <= Len(call[g].cmds)
  /\ \A i \in 1 .. Len(call[g].read) : call[g].read[i] = call[g].cmds[i]
  /\ call[g].at \in {"idle", "lock", "send"} => call[g].read = <<>>
  /\ call[g].at = "ok" => Len(call[g].read) = Len(call[g].cmds)

\* A client is in order: one holder, its pipeline on the wire, its replies in line.
ClientInv == Mutex /\ (\A c \in Clients : Wire(c)) /\ \A g \in Goroutines : Line(g)

\* A pipeline just written has nothing read and nothing replied.
LEMMA PipelineStarts ==
  ASSUME NEW C, NEW cmds \in Seq(C)
  PROVE  <<>> \o cmds = cmds /\ Pipeline(<<>>, <<>>, cmds, cmds)
<1>1. <<>> \o cmds = cmds
  <2>1. <<>> \in Seq(C) BY EmptySeq
  <2> QED BY <2>1, ConcatProperties
<1> QED BY <1>1 DEF Pipeline

\* Reading a reply moves it to what was read, and it is the reply to the next command.
LEMMA PipelineReads ==
  ASSUME NEW C, NEW read \in Seq(C), NEW replies \in Seq([cmd: C, ok: BOOLEAN]),
         NEW requests \in Seq(C), NEW cmds \in Seq(C), Pipeline(read, replies, requests, cmds),
         replies # <<>>
  PROVE  /\ Pipeline(Append(read, Head(replies).cmd), Tail(replies), requests, cmds)
         /\ Head(replies).cmd = cmds[Len(read) + 1] /\ Len(read) + 1 <= Len(cmds)
<1>1. Len(replies) \in Nat \ {0} /\ Len(read) \in Nat /\ Len(requests) \in Nat /\ Len(cmds) \in Nat
  BY EmptySeq, LenProperties
<1>2. Head(replies) = replies[1] /\ Head(replies).cmd \in C
  <2>1. Head(replies) \in [cmd: C, ok: BOOLEAN] BY HeadTailProperties
  <2> QED BY <1>1, <2>1
<1>3. /\ Len(Append(read, Head(replies).cmd)) = Len(read) + 1
      /\ Len(Tail(replies)) = Len(replies) - 1
      /\ \A i \in 1 .. Len(replies) - 1 : Tail(replies)[i] = replies[i + 1]
  BY <1>1, <1>2, AppendProperties, HeadTailProperties
<1>4. Head(replies).cmd = cmds[Len(read) + 1] /\ Len(read) + 1 <= Len(cmds)
  BY <1>1, <1>2 DEF Pipeline
<1>5. \A i \in 1 .. Len(replies) - 1 : Tail(replies)[i].cmd = cmds[Len(read) + 1 + i]
  <2>1. TAKE i \in 1 .. Len(replies) - 1
  <2>2. replies[i + 1].cmd = cmds[Len(read) + (i + 1)] BY <1>1 DEF Pipeline
  <2> QED BY <1>1, <1>3, <2>2
<1>6. \A i \in 1 .. Len(requests) : requests[i] = cmds[(Len(read) + 1) + (Len(replies) - 1) + i]
  BY <1>1 DEF Pipeline
<1> QED BY <1>1, <1>3, <1>4, <1>5, <1>6 DEF Pipeline

\* Executing a request moves it to the replies.
LEMMA PipelineExecutes ==
  ASSUME NEW C, NEW read \in Seq(C), NEW replies \in Seq([cmd: C, ok: BOOLEAN]),
         NEW requests \in Seq(C), NEW cmds \in Seq(C), Pipeline(read, replies, requests, cmds),
         requests # <<>>, NEW ok \in BOOLEAN
  PROVE  Pipeline(read, Append(replies, [cmd |-> Head(requests), ok |-> ok]), Tail(requests), cmds)
<1> DEFINE new == Append(replies, [cmd |-> Head(requests), ok |-> ok])
<1>1. Len(requests) \in Nat \ {0} /\ Len(read) \in Nat /\ Len(replies) \in Nat /\ Len(cmds) \in Nat
  BY EmptySeq, LenProperties
<1>2. Head(requests) = requests[1] /\ Head(requests) \in C
  BY <1>1
<1>3. /\ Len(new) = Len(replies) + 1 /\ new[Len(replies) + 1].cmd = requests[1]
      /\ \A i \in 1 .. Len(replies) : new[i] = replies[i]
      /\ Len(Tail(requests)) = Len(requests) - 1
      /\ \A i \in 1 .. Len(requests) - 1 : Tail(requests)[i] = requests[i + 1]
  BY <1>1, <1>2, AppendProperties, HeadTailProperties
<1>4. \A i \in 1 .. Len(replies) + 1 : new[i].cmd = cmds[Len(read) + i]
  <2>1. requests[1] = cmds[Len(read) + Len(replies) + 1] BY <1>1 DEF Pipeline
  <2>2. TAKE i \in 1 .. Len(replies) + 1
  <2>3. CASE i = Len(replies) + 1 BY <1>1, <1>3, <2>1, <2>3
  <2>4. CASE i \in 1 .. Len(replies) BY <1>3, <2>4 DEF Pipeline
  <2> QED BY <1>1, <2>3, <2>4
<1>5. \A i \in 1 .. Len(requests) - 1 : Tail(requests)[i] = cmds[Len(read) + (Len(replies) + 1) + i]
  <2>1. TAKE i \in 1 .. Len(requests) - 1
  <2>2. requests[i + 1] = cmds[Len(read) + Len(replies) + (i + 1)] BY <1>1 DEF Pipeline
  <2> QED BY <1>1, <1>3, <2>2
<1> QED BY <1>1, <1>3, <1>4, <1>5 DEF Pipeline

\* A step of one client leaves the lines of the others as they were.
LEMMA OtherWires ==
  ASSUME NEW k \in Clients, Wire(k), holder'[k] = holder[k], link'[k] = link[k],
         holder[k] # Free => call'[holder[k]] = call[holder[k]]
  PROVE  Wire(k)'
BY DEF Wire, Reading

\* A call that is left alone stays in line.
LEMMA OtherLines ==
  ASSUME NEW g \in Goroutines, Line(g), call'[g] = call[g]
  PROVE  Line(g)'
BY DEF Line

\* A call returns: its mutex is free and its connection empty.
LEMMA ReturnKeeps ==
  ASSUME H!HealthCheckConstants, H!TypeOK, ClientInv, NEW g \in Goroutines,
         call[g].at \in {"send", "read"}, NEW outcome \in {"ok", "failed"},
         call' \in [Goroutines -> H!CallsOf(H!Commands)],
         \A k \in Goroutines \ {g} : call'[k] = call[k],
         call'[g].at = outcome, holder' = [holder EXCEPT ![Owner[g]] = Free],
         \A k \in Clients \ {Owner[g]} : link'[k] = link[k],
         link'[Owner[g]].requests = <<>>, link'[Owner[g]].replies = <<>>,
         Line(g)'
  PROVE  ClientInv'
<1> DEFINE c == Owner[g]
<1>1. c \in Clients /\ Free \notin Goroutines BY Sides
<1>2. holder[c] = g BY DEF ClientInv, Mutex
<1>3. holder \in [Clients -> Goroutines \cup {Free}]
  BY DEF H!TypeOK, H!ClientTypeOK
<1>4. Mutex'
  <2>1. SUFFICES ASSUME NEW k \in Goroutines
                 PROVE  call'[k].at \in {"send", "read"} <=> holder'[Owner[k]] = k
    BY DEF Mutex
  <2>2. Owner[k] \in Clients BY Sides
  <2>3. CASE k = g BY <1>1, <1>3, <2>3
  <2>4. CASE k # g /\ Owner[k] = c
    BY <1>1, <1>2, <1>3, <2>4 DEF ClientInv, Mutex
  <2>5. CASE k # g /\ Owner[k] # c
    BY <1>3, <2>2, <2>5 DEF ClientInv, Mutex
  <2> QED BY <2>3, <2>4, <2>5
<1>5. ASSUME NEW k \in Clients PROVE Wire(k)'
  <2>1. CASE k = c BY <1>1, <1>3, <2>1 DEF Wire, Reading
  <2>2. CASE k # c
    <3>1. holder[k] # Free => holder[k] # g /\ holder[k] \in Goroutines
      BY <1>3, <2>2 DEF H!TypeOK, H!ClientTypeOK
    <3> QED BY <1>3, <2>2, <3>1, OtherWires DEF ClientInv
  <2> QED BY <2>1, <2>2
<1>6. ASSUME NEW k \in Goroutines PROVE Line(k)'
  <2>1. CASE k = g BY <2>1
  <2>2. CASE k # g BY <2>2, OtherLines DEF ClientInv
  <2> QED BY <2>1, <2>2
<1> QED BY <1>4, <1>5, <1>6 DEF ClientInv

\* Every step of a call keeps its client in order.
LEMMA ClientKeeps ==
  ASSUME H!HealthCheckConstants, H!TypeOK, ClientInv, NEW g \in Goroutines, H!ClientStep(g)
  PROVE  ClientInv'
<1> DEFINE c == Owner[g]
<1>a. c \in Clients /\ Free \notin Goroutines BY Sides
<1>b. /\ holder \in [Clients -> Goroutines \cup {Free}]
      /\ \A k \in Clients : holder[k] # Free => Owner[holder[k]] = k
      /\ link \in [Clients -> H!Links(H!Commands)]
      /\ call \in [Goroutines -> H!CallsOf(H!Commands)]
  BY DEF H!TypeOK, H!ClientTypeOK
<1>c. /\ link[c].requests \in Seq(H!Commands)
      /\ link[c].replies \in Seq([cmd: H!Commands, ok: BOOLEAN])
      /\ call[g].cmds \in Seq(H!Commands) /\ call[g].read \in Seq(H!Commands)
      /\ Len(call[g].read) \in Nat /\ Len(call[g].cmds) \in Nat
  BY <1>a, Types, LenProperties
<1>d. Mutex /\ Wire(c) /\ Line(g) /\ \A k \in Clients : Wire(k) BY <1>a DEF ClientInv
<1>e. call' \in [Goroutines -> H!CallsOf(H!Commands)]
  BY ClientTypes DEF Client, H!TypeOK, H!ClientTypeOK
<1>n. H!NoLink.requests = <<>> /\ H!NoLink.replies = <<>> BY DEF H!NoLink
<1>f. \A k \in Clients \ {c} : holder[k] # Free => holder[k] # g /\ holder[k] \in Goroutines
  BY <1>b
<1>1. CASE H!Lock(g)
  <2>1. /\ holder[c] = Free /\ holder' = [holder EXCEPT ![c] = g]
        /\ call' = [call EXCEPT ![g].at = "send"] /\ link' = link /\ call[g].at = "lock"
    BY <1>1 DEF H!Lock, H!At
  <2>2. Mutex'
    <3>1. SUFFICES ASSUME NEW k \in Goroutines
                   PROVE  call'[k].at \in {"send", "read"} <=> holder'[Owner[k]] = k
      BY DEF Mutex
    <3>2. Owner[k] \in Clients BY Sides
    <3>3. CASE k = g BY <1>a, <1>b, <2>1, <3>3
    <3>4. CASE k # g /\ Owner[k] = c
      BY <1>a, <1>b, <1>d, <2>1, <3>4 DEF Mutex
    <3>5. CASE k # g /\ Owner[k] # c
      BY <1>b, <1>d, <2>1, <3>2, <3>5 DEF Mutex
    <3> QED BY <3>3, <3>4, <3>5
  <2>3. ASSUME NEW k \in Clients PROVE Wire(k)'
    <3>1. CASE k = c
      <4>1. link[c].requests = <<>> /\ link[c].replies = <<>>
        BY <1>d, <2>1 DEF Wire, Reading
      <4>2. ~Reading(c)' BY <1>a, <1>b, <2>1 DEF Reading
      <4> QED BY <2>1, <3>1, <4>1, <4>2 DEF Wire
    <3>2. CASE k # c
      <4>1. holder[k] # Free => call'[holder[k]] = call[holder[k]]
        BY <1>b, <1>f, <2>1, <3>2
      <4> QED BY <1>b, <1>d, <2>1, <3>2, <4>1, OtherWires
    <3> QED BY <3>1, <3>2
  <2>4. ASSUME NEW k \in Goroutines PROVE Line(k)'
    <3>1. CASE k = g
      <4>1. /\ call'[g].at = "send" /\ call'[g].read = call[g].read /\ call'[g].cmds = call[g].cmds
            /\ call[g].read = <<>>
        BY <1>b, <1>d, <2>1 DEF Line
      <4> QED BY <1>d, <3>1, <4>1 DEF Line
    <3>2. CASE k # g
      BY <1>b, <2>1, <3>2, OtherLines DEF ClientInv
    <3> QED BY <3>1, <3>2
  <2> QED BY <2>2, <2>3, <2>4 DEF ClientInv
<1>2. CASE H!Send(g)
  <2>0. call[g].at = "send" /\ holder[c] = g
    BY <1>2, <1>d DEF H!Send, H!At, Mutex
  <2>1. link[c].requests = <<>> /\ link[c].replies = <<>> /\ call[g].read = <<>>
    BY <1>d, <2>0 DEF Wire, Reading, Line
  <2>2. CASE /\ UNCHANGED holder
             /\ link' = [link EXCEPT ![c].state = "up", ![c].requests = @ \o call[g].cmds]
             /\ call' = [call EXCEPT ![g].at = "read"]
    <3>1. /\ call'[g].at = "read" /\ call'[g].read = call[g].read /\ call'[g].cmds = call[g].cmds
          /\ \A k \in Goroutines \ {g} : call'[k] = call[k]
      BY <1>b, <2>2
    <3>2. /\ link'[c].state = "up" /\ link'[c].requests = <<>> \o call[g].cmds
          /\ link'[c].replies = <<>> /\ \A k \in Clients \ {c} : link'[k] = link[k]
      BY <1>a, <1>b, <2>1, <2>2 DEF H!Links
    <3>3. Mutex'
      <4>1. SUFFICES ASSUME NEW k \in Goroutines
                     PROVE  call'[k].at \in {"send", "read"} <=> holder'[Owner[k]] = k
        BY DEF Mutex
      <4>2. CASE k = g BY <2>0, <2>2, <3>1, <4>2
      <4>3. CASE k # g BY <1>d, <2>2, <3>1, <4>3 DEF Mutex
      <4> QED BY <4>2, <4>3
    <3>4. ASSUME NEW k \in Clients PROVE Wire(k)'
      <4>1. CASE k = c
        <5>1. Pipeline(call'[g].read, link'[c].replies, link'[c].requests, call'[g].cmds)
          BY <1>c, <2>1, <3>1, <3>2, PipelineStarts
        <5>2. holder'[c] = g /\ Reading(c)' BY <1>a, <2>0, <2>2, <3>1, <3>2 DEF Reading
        <5> QED BY <4>1, <5>1, <5>2 DEF Wire
      <4>2. CASE k # c
        <5>1. holder[k] # Free => call'[holder[k]] = call[holder[k]]
          BY <1>f, <3>1, <4>2
        <5> QED BY <1>d, <2>2, <3>2, <4>2, <5>1, OtherWires
      <4> QED BY <4>1, <4>2
    <3>5. ASSUME NEW k \in Goroutines PROVE Line(k)'
      <4>1. CASE k = g BY <1>d, <3>1, <4>1 DEF Line
      <4>2. CASE k # g BY <3>1, <4>2, OtherLines DEF ClientInv
      <4> QED BY <4>1, <4>2
    <3> QED BY <3>3, <3>4, <3>5 DEF ClientInv
  <2>3. CASE H!Return(g, "failed", {}) /\ (UNCHANGED link \/ H!Reset(c))
    <3>1. /\ call'[g].at = "failed" /\ call'[g].read = call[g].read /\ call'[g].cmds = call[g].cmds
          /\ \A k \in Goroutines \ {g} : call'[k] = call[k]
          /\ holder' = [holder EXCEPT ![c] = Free]
      BY <1>b, <2>3 DEF H!Return
    <3>2. /\ link'[c].requests = <<>> /\ link'[c].replies = <<>>
          /\ \A k \in Clients \ {c} : link'[k] = link[k]
      BY <1>a, <1>b, <1>n, <2>1, <2>3 DEF H!Reset
    <3>3. Line(g)' BY <1>d, <3>1 DEF Line
    <3> QED BY <1>e, <2>0, <3>1, <3>2, <3>3, ReturnKeeps
  <2> QED BY <1>2, <2>2, <2>3 DEF H!Send
<1>3. CASE H!ReadReply(g)
  <2> DEFINE reply == Head(link[c].replies)
             read == Append(call[g].read, reply.cmd)
  <2>0. call[g].at = "read" /\ holder[c] = g /\ link[c].replies # <<>>
    BY <1>3, <1>d DEF H!ReadReply, H!At, Mutex
  <2>1. /\ link[c].state = "up"
        /\ Pipeline(call[g].read, link[c].replies, link[c].requests, call[g].cmds)
    BY <1>d, <2>0 DEF Wire, Reading
  <2>2. /\ Pipeline(read, Tail(link[c].replies), link[c].requests, call[g].cmds)
        /\ reply.cmd = call[g].cmds[Len(call[g].read) + 1]
        /\ Len(call[g].read) + 1 <= Len(call[g].cmds)
    BY <1>c, <2>0, <2>1, PipelineReads
  <2>3. reply.cmd \in H!Commands
    <3>1. reply \in [cmd: H!Commands, ok: BOOLEAN] BY <1>c, <2>0, HeadTailProperties
    <3> QED BY <3>1
  <2>4. /\ Len(read) = Len(call[g].read) + 1 /\ Len(read) <= Len(call[g].cmds)
        /\ \A i \in 1 .. Len(read) : read[i] = call[g].cmds[i]
    <3>1. /\ Len(read) = Len(call[g].read) + 1 /\ read[Len(call[g].read) + 1] = reply.cmd
          /\ \A i \in 1 .. Len(call[g].read) : read[i] = call[g].read[i]
      BY <1>c, <2>3, AppendProperties
    <3>2. ASSUME NEW i \in 1 .. Len(read) PROVE read[i] = call[g].cmds[i]
      <4>1. CASE i = Len(call[g].read) + 1 BY <2>2, <3>1, <4>1
      <4>2. CASE i \in 1 .. Len(call[g].read) BY <1>d, <3>1, <4>2 DEF Line
      <4>3. Len(call[g].read) \in Nat BY <1>c, LenProperties
      <4> QED BY <3>1, <4>1, <4>2, <4>3
    <3> QED BY <2>2, <3>1, <3>2
  <2>5. CASE /\ link' = [link EXCEPT ![c].replies = Tail(@)]
             /\ call' = [call EXCEPT ![g].read = read]
             /\ UNCHANGED holder
    <3>1. /\ call'[g].at = "read" /\ call'[g].read = read /\ call'[g].cmds = call[g].cmds
          /\ \A k \in Goroutines \ {g} : call'[k] = call[k]
      BY <1>b, <2>0, <2>5
    <3>2. /\ link'[c].state = "up" /\ link'[c].requests = link[c].requests
          /\ link'[c].replies = Tail(link[c].replies) /\ \A k \in Clients \ {c} : link'[k] = link[k]
      BY <1>a, <1>b, <2>1, <2>5 DEF H!Links
    <3>3. Mutex'
      <4>1. SUFFICES ASSUME NEW k \in Goroutines
                     PROVE  call'[k].at \in {"send", "read"} <=> holder'[Owner[k]] = k
        BY DEF Mutex
      <4>2. CASE k = g BY <2>0, <2>5, <3>1, <4>2
      <4>3. CASE k # g BY <1>d, <2>5, <3>1, <4>3 DEF Mutex
      <4> QED BY <4>2, <4>3
    <3>4. ASSUME NEW k \in Clients PROVE Wire(k)'
      <4>1. CASE k = c
        <5>1. holder'[c] = g /\ Reading(c)' BY <1>a, <2>0, <2>5, <3>1, <3>2 DEF Reading
        <5>2. Pipeline(call'[g].read, link'[c].replies, link'[c].requests, call'[g].cmds)
          BY <2>2, <3>1, <3>2
        <5> QED BY <4>1, <5>1, <5>2 DEF Wire
      <4>2. CASE k # c
        <5>1. holder[k] # Free => call'[holder[k]] = call[holder[k]]
          BY <1>f, <3>1, <4>2
        <5> QED BY <1>d, <2>5, <3>2, <4>2, <5>1, OtherWires
      <4> QED BY <4>1, <4>2
    <3>5. ASSUME NEW k \in Goroutines PROVE Line(k)'
      <4>1. CASE k = g BY <2>4, <3>1, <4>1 DEF Line
      <4>2. CASE k # g BY <3>1, <4>2, OtherLines DEF ClientInv
      <4> QED BY <4>1, <4>2
    <3> QED BY <3>3, <3>4, <3>5 DEF ClientInv
  <2>6. CASE /\ Len(read) = Len(call[g].cmds)
             /\ link' = [link EXCEPT ![c].replies = Tail(@)]
             /\ call' = [call EXCEPT ![g].at = "ok", ![g].read = read]
             /\ holder' = [holder EXCEPT ![c] = Free]
    <3>1. /\ call'[g].at = "ok" /\ call'[g].read = read /\ call'[g].cmds = call[g].cmds
          /\ \A k \in Goroutines \ {g} : call'[k] = call[k]
      BY <1>b, <2>6
    <3>2. Tail(link[c].replies) = <<>> /\ link[c].requests = <<>>
      <4>1. Tail(link[c].replies) \in Seq([cmd: H!Commands, ok: BOOLEAN])
        BY <1>c, <2>0, HeadTailProperties
      <4>2. Len(Tail(link[c].replies)) = 0 /\ Len(link[c].requests) = 0
        <5>1. Len(read) + Len(Tail(link[c].replies)) + Len(link[c].requests) = Len(call[g].cmds)
          BY <2>2 DEF Pipeline
        <5>2. Len(Tail(link[c].replies)) \in Nat /\ Len(link[c].requests) \in Nat
          BY <1>c, <4>1, LenProperties
        <5>3. Len(read) = Len(call[g].cmds) /\ Len(call[g].cmds) \in Nat BY <1>c, <2>6
        <5>4. \A n, a, b \in Nat : n + a + b = n => a = 0 /\ b = 0 OBVIOUS
        <5>5. Len(call[g].cmds) + Len(Tail(link[c].replies)) + Len(link[c].requests) = Len(call[g].cmds)
          BY <5>1, <5>3
        <5> QED BY <5>2, <5>3, <5>4, <5>5
      <4> QED BY <1>c, <4>1, <4>2, EmptySeq
    <3>3. /\ link'[c].requests = <<>> /\ link'[c].replies = <<>>
          /\ \A k \in Clients \ {c} : link'[k] = link[k]
      BY <1>a, <1>b, <2>6, <3>2 DEF H!Links
    <3>4. Line(g)' BY <2>4, <2>6, <3>1 DEF Line
    <3> QED BY <1>e, <2>0, <2>6, <3>1, <3>3, <3>4, ReturnKeeps
  <2>7. CASE H!Reset(c) /\ H!Failing(g)
    <3>1. /\ call'[g].at = "failed" /\ call'[g].read = call[g].read /\ call'[g].cmds = call[g].cmds
          /\ \A k \in Goroutines \ {g} : call'[k] = call[k]
          /\ holder' = [holder EXCEPT ![c] = Free]
      BY <1>b, <2>7 DEF H!Return, H!Failing
    <3>2. /\ link'[c].requests = <<>> /\ link'[c].replies = <<>>
          /\ \A k \in Clients \ {c} : link'[k] = link[k]
      BY <1>a, <1>b, <1>n, <2>7 DEF H!Reset
    <3>3. Line(g)' BY <1>d, <3>1 DEF Line
    <3> QED BY <1>e, <2>0, <3>1, <3>2, <3>3, ReturnKeeps
  <2> QED BY <1>3, <2>5, <2>6, <2>7 DEF H!ReadReply
<1>4. CASE H!ReadFails(g)
  <2>0. call[g].at = "read" /\ H!Reset(c) /\ H!Failing(g)
    BY <1>4 DEF H!ReadFails, H!At
  <2>1. /\ call'[g].at = "failed" /\ call'[g].read = call[g].read /\ call'[g].cmds = call[g].cmds
        /\ \A k \in Goroutines \ {g} : call'[k] = call[k]
        /\ holder' = [holder EXCEPT ![c] = Free]
    BY <1>b, <2>0 DEF H!Return, H!Failing
  <2>2. /\ link'[c].requests = <<>> /\ link'[c].replies = <<>>
        /\ \A k \in Clients \ {c} : link'[k] = link[k]
    BY <1>a, <1>b, <1>n, <2>0 DEF H!Reset
  <2>3. Line(g)' BY <1>d, <2>1 DEF Line
  <2> QED BY <1>e, <2>0, <2>1, <2>2, <2>3, ReturnKeeps
<1> QED BY <1>1, <1>2, <1>3, <1>4 DEF H!ClientStep

\* A goroutine that makes no call may begin one.
LEMMA BeginKeeps ==
  ASSUME H!HealthCheckConstants, H!TypeOK, ClientInv, NEW g \in Goroutines, ~H!Calling(g),
         NEW cmds \in Seq(H!Commands), NEW deadline, H!Calls(g, cmds, deadline)
  PROVE  ClientInv'
<1>a. /\ holder \in [Clients -> Goroutines \cup {Free}]
      /\ \A k \in Clients : holder[k] # Free => Owner[holder[k]] = k
      /\ call \in [Goroutines -> H!CallsOf(H!Commands)]
  BY DEF H!TypeOK, H!ClientTypeOK
<1>1. /\ call'[g].at = "lock" /\ call'[g].read = <<>> /\ call'[g].cmds = cmds
      /\ \A k \in Goroutines \ {g} : call'[k] = call[k]
      /\ UNCHANGED <<holder, link>>
  BY <1>a DEF H!Calls, H!Begin, H!Idle
<1>2. holder[Owner[g]] # g BY DEF ClientInv, Mutex, H!Calling
<1>3. Mutex'
  <2>1. SUFFICES ASSUME NEW k \in Goroutines
                 PROVE  call'[k].at \in {"send", "read"} <=> holder'[Owner[k]] = k
    BY DEF Mutex
  <2>2. CASE k = g BY <1>1, <1>2, <2>2
  <2>3. CASE k # g BY <1>1, <2>3 DEF ClientInv, Mutex
  <2> QED BY <2>2, <2>3
<1>4. ASSUME NEW k \in Clients PROVE Wire(k)'
  <2>1. holder[k] # Free => holder[k] # g /\ holder[k] \in Goroutines BY <1>a, <1>2
  <2> QED BY <1>1, <2>1, OtherWires DEF ClientInv
<1>5. ASSUME NEW k \in Goroutines PROVE Line(k)'
  <2>1. CASE k = g
    <3>1. Len(cmds) \in Nat BY LenProperties
    <3> QED BY <1>1, <2>1, <3>1 DEF Line
  <2>2. CASE k # g BY <1>1, <2>2, OtherLines DEF ClientInv
  <2> QED BY <2>1, <2>2
<1> QED BY <1>3, <1>4, <1>5 DEF ClientInv

\* What Redis executes and what breaks keeps the clients in order.
LEMMA RedisKeeps ==
  ASSUME H!HealthCheckConstants, H!TypeOK, ClientInv, NEW c \in Clients,
         H!Execute(c) \/ H!Break(c)
  PROVE  ClientInv'
<1>a. /\ holder \in [Clients -> Goroutines \cup {Free}]
      /\ \A k \in Clients : holder[k] # Free => Owner[holder[k]] = k
      /\ link \in [Clients -> H!Links(H!Commands)]
      /\ UNCHANGED <<holder, call>>
  BY DEF H!TypeOK, H!ClientTypeOK, H!Execute, H!Break
<1>b. /\ link[c].requests \in Seq(H!Commands)
      /\ link[c].replies \in Seq([cmd: H!Commands, ok: BOOLEAN])
  BY Types
<1>1. \A k \in Clients \ {c} : link'[k] = link[k]
  BY <1>a DEF H!Execute, H!Break
<1>2. Wire(c)'
  <2>1. CASE H!Break(c)
    <3>1. link'[c] = [H!NoLink EXCEPT !.state = "broken"] BY <1>a, <2>1 DEF H!Break
    <3>2. link'[c].state = "broken" /\ link'[c].requests = <<>> /\ link'[c].replies = <<>>
      BY <3>1 DEF H!NoLink
    <3> QED BY <3>2 DEF Wire, Reading
  <2>2. CASE H!Execute(c)
    <3> DEFINE g == holder[c]
    <3>1. link[c].state = "up" /\ link[c].requests # <<>> BY <2>2 DEF H!Execute
    <3>2. /\ Reading(c) /\ g \in Goroutines
          /\ Pipeline(call[g].read, link[c].replies, link[c].requests, call[g].cmds)
      BY <1>a, <3>1 DEF ClientInv, Wire, Reading
    <3>3. PICK ok \in BOOLEAN :
            link' = [link EXCEPT ![c].requests = Tail(@),
                       ![c].replies = Append(@, [cmd |-> Head(link[c].requests), ok |-> ok])]
      BY <2>2 DEF H!Execute
    <3>4. /\ link'[c].state = "up" /\ link'[c].requests = Tail(link[c].requests)
          /\ link'[c].replies = Append(link[c].replies, [cmd |-> Head(link[c].requests), ok |-> ok])
      BY <1>a, <3>1, <3>3 DEF H!Links
    <3>5. call[g].read \in Seq(H!Commands) /\ call[g].cmds \in Seq(H!Commands)
      BY <3>2, Types
    <3>6. Pipeline(call[g].read, link'[c].replies, link'[c].requests, call[g].cmds)
      <4>1. Pipeline(call[g].read, Append(link[c].replies, [cmd |-> Head(link[c].requests), ok |-> ok]),
                     Tail(link[c].requests), call[g].cmds)
        <5> HIDE DEF g
        <5> QED BY <1>b, <3>1, <3>2, <3>5, PipelineExecutes
      <4> QED BY <3>4, <4>1
    <3> QED BY <1>a, <3>2, <3>4, <3>6 DEF Wire, Reading
  <2> QED BY <2>1, <2>2
<1>3. ASSUME NEW k \in Clients PROVE Wire(k)'
  <2>1. CASE k = c BY <1>2, <2>1
  <2>2. CASE k # c BY <1>a, <1>1, <2>2, OtherWires DEF ClientInv
  <2> QED BY <2>1, <2>2
<1>4. Mutex' /\ \A k \in Goroutines : Line(k)'
  BY <1>a, OtherLines DEF ClientInv, Mutex
<1> QED BY <1>3, <1>4 DEF ClientInv

\* Nothing else touches the clients.
LEMMA StillKeeps ==
  ASSUME H!TypeOK, ClientInv, UNCHANGED <<holder, link, call>>
  PROVE  ClientInv'
BY DEF ClientInv, Mutex, Wire, Reading, Line

\* A restart of Augur Canis takes its client with it and leaves those of the checks alone.
LEMMA CrashKeeps ==
  ASSUME H!HealthCheckConstants, H!TypeOK, ClientInv, H!Crash
  PROVE  ClientInv'
<1>a. /\ holder \in [Clients -> Goroutines \cup {Free}]
      /\ \A k \in Clients : holder[k] # Free => Owner[holder[k]] = k
      /\ link \in [Clients -> H!Links(H!Commands)]
  BY DEF H!TypeOK, H!ClientTypeOK
<1>b. AugurCanis \in Clients /\ Free \notin Goroutines BY Sides
<1>1. /\ holder' = [holder EXCEPT ![AugurCanis] = Free]
      /\ link' = [link EXCEPT ![AugurCanis] = H!NoLink]
      /\ \A g \in Goroutines : call'[g] = IF g[1] = "check" THEN call[g] ELSE H!Idle
  BY DEF H!Crash, H!Reset
<1>2. \A g \in Goroutines : Owner[g] # AugurCanis <=> g[1] = "check" BY Sides
<1>3. Mutex'
  <2>1. SUFFICES ASSUME NEW g \in Goroutines
                 PROVE  call'[g].at \in {"send", "read"} <=> holder'[Owner[g]] = g
    BY DEF Mutex
  <2>2. Owner[g] \in Clients BY Sides
  <2>3. CASE g[1] = "check"
    BY <1>a, <1>1, <1>2, <2>2, <2>3 DEF ClientInv, Mutex
  <2>4. CASE g[1] # "check"
    BY <1>a, <1>b, <1>1, <1>2, <2>4 DEF H!Idle
  <2> QED BY <2>3, <2>4
<1>4. ASSUME NEW k \in Clients PROVE Wire(k)'
  <2>1. CASE k = AugurCanis
    <3>1. link'[k].requests = <<>> /\ link'[k].replies = <<>> /\ holder'[k] = Free
      BY <1>a, <1>b, <1>1, <2>1 DEF H!NoLink
    <3> QED BY <3>1 DEF Wire, Reading
  <2>2. CASE k # AugurCanis
    <3>1. holder[k] # Free => call'[holder[k]] = call[holder[k]]
      BY <1>a, <1>1, <1>2, <2>2
    <3> QED BY <1>a, <1>1, <2>2, <3>1, OtherWires DEF ClientInv
  <2> QED BY <2>1, <2>2
<1>5. ASSUME NEW g \in Goroutines PROVE Line(g)'
  <2>1. CASE g[1] = "check" BY <1>1, <2>1, OtherLines DEF ClientInv
  <2>2. CASE g[1] # "check"
    <3>1. call'[g].at = "idle" /\ call'[g].read = <<>> /\ call'[g].cmds = <<>>
      BY <1>1, <2>2 DEF H!Idle
    <3> QED BY <3>1 DEF Line
  <2> QED BY <2>1, <2>2
<1> QED BY <1>3, <1>4, <1>5 DEF ClientInv

\* A goroutine makes one call at a time.
Resting ==
  \A h \in Probes :
    /\ probe[h] \notin {"publishing", "pinging"} => ~H!Calling(H!Check(h))
    /\ worker[h] \in {"none", "record"} => ~H!Calling(H!Worker(h))

\* A request is delivered once: before that it has no worker, and after it it was executed.
Queued ==
  /\ \A i, j \in 1 .. Len(listener.sub.queue) :
       listener.sub.queue[i] = listener.sub.queue[j] => i = j
  /\ \A i \in 1 .. Len(listener.sub.queue) :
       worker[listener.sub.queue[i]] = "none" /\ H!Cmd("request", listener.sub.queue[i]) \in executed
  /\ \A h \in Probes : worker[h] # "none" => H!Cmd("request", h) \in executed

\* The inductive invariant: types, clients in order, calls made one at a time, requests
\* delivered once.
HealthOrder == H!TypeOK /\ ClientInv /\ Resting /\ Queued

\* No two goroutines are the same.
LEMMA Apart ==
  /\ \A h, k \in Probes : H!Check(h) # H!Worker(k) /\ H!Check(h) # H!Cycle /\ H!Worker(h) # H!Cycle
  /\ \A h, k \in Probes : H!Check(h) = H!Check(k) => h = k
  /\ \A h, k \in Probes : H!Worker(h) = H!Worker(k) => h = k
BY DEF H!Check, H!Worker, H!Cycle

\* A step of a call is a step of one goroutine.
LEMMA OneCall ==
  ASSUME H!TypeOK, NEW g \in Goroutines, H!ClientStep(g)
  PROVE  H!Calling(g) /\ \A k \in Goroutines \ {g} : call'[k] = call[k]
<1>a. call \in [Goroutines -> H!CallsOf(H!Commands)]
  BY DEF H!TypeOK, H!ClientTypeOK
<1>1. CASE H!Lock(g)
  BY <1>a, <1>1 DEF H!Lock, H!Calling, H!At
<1>2. CASE H!Send(g)
  BY <1>a, <1>2 DEF H!Send, H!Calling, H!At, H!Return
<1>3. CASE H!ReadReply(g)
  BY <1>a, <1>3 DEF H!ReadReply, H!Calling, H!At, H!Return, H!Failing
<1>4. CASE H!ReadFails(g)
  BY <1>a, <1>4 DEF H!ReadFails, H!Calling, H!At, H!Return, H!Failing
<1> QED BY <1>1, <1>2, <1>3, <1>4 DEF H!ClientStep

\* A call is begun by one goroutine.
LEMMA OneBegin ==
  ASSUME H!TypeOK, NEW g \in Goroutines, NEW cmds, NEW deadline, H!Calls(g, cmds, deadline)
  PROVE  /\ \A k \in Goroutines \ {g} : call'[k] = call[k]
         /\ call'[g].cmds = cmds /\ call'[g].at = "lock"
BY DEF H!TypeOK, H!ClientTypeOK, H!Calls, H!Begin, H!Idle

\* What a lost or broken subscription still holds is what it held, thinned.
LEMMA Loses ==
  ASSUME NEW M, NEW s \in H!Subscription(M)
  PROVE  /\ \A t \in H!Torn(s) \cup H!Broken(s) : t.queue \in Seq(M) /\ Thinned(t.queue, s.queue)
         /\ \A t \in H!Torn(s) : s.up /\ t.up
<1>1. s = [up |-> s.up, queue |-> s.queue] /\ s.up \in BOOLEAN /\ s.queue \in Seq(M)
  BY DEF H!Subscription
<1>2. ASSUME NEW t \in H!Torn(s)
      PROVE  t.queue \in Seq(M) /\ Thinned(t.queue, s.queue) /\ s.up /\ t.up
  <2>1. s.up BY DEF H!Torn
  <2>2. PICK k \in 1 .. Len(s.queue) : t = [s EXCEPT !.queue = H!RemoveAt(@, k)]
    BY <2>1 DEF H!Torn
  <2>3. t.queue = Removed(s.queue, k) /\ t.up
    BY <1>1, <2>1, <2>2 DEF H!RemoveAt, Removed
  <2> QED BY <1>1, <2>1, <2>3, RemovedThins
<1>3. ASSUME NEW t \in H!Broken(s) PROVE t.queue \in Seq(M) /\ Thinned(t.queue, s.queue)
  <2>1. PICK k \in 0 .. Len(s.queue) : t = [up |-> FALSE, queue |-> SubSeq(s.queue, 1, k)]
    BY DEF H!Broken
  <2> QED BY <1>1, <2>1, CutThins
<1> QED BY <1>2, <1>3

\* Queued, for any queue, set of executed commands and workers.
QueueOK(q, done, wait) ==
  /\ \A i, j \in 1 .. Len(q) : q[i] = q[j] => i = j
  /\ \A i \in 1 .. Len(q) : wait[q[i]] = "none" /\ H!Cmd("request", q[i]) \in done

\* Requests delivered once are still so when some are lost.
LEMMA ThinnedOK ==
  ASSUME NEW M, NEW q \in Seq(M), NEW t \in Seq(M), Thinned(t, q), NEW done, NEW wait, QueueOK(q, done, wait)
  PROVE  QueueOK(t, done, wait)
<1>1. PICK f \in [1 .. Len(t) -> 1 .. Len(q)] :
        /\ \A i \in 1 .. Len(t) : t[i] = q[f[i]]
        /\ \A i, j \in 1 .. Len(t) : i < j => f[i] < f[j]
  BY DEF Thinned
<1>2. Len(t) \in Nat /\ Len(q) \in Nat BY LenProperties
<1>3. ASSUME NEW i \in 1 .. Len(t), NEW j \in 1 .. Len(t), t[i] = t[j] PROVE i = j
  <2>1. f[i] \in 1 .. Len(q) /\ f[j] \in 1 .. Len(q) BY <1>1
  <2>2. f[i] = f[j] BY <1>1, <1>3, <2>1 DEF QueueOK
  <2> QED BY <1>1, <1>2, <2>1, <2>2
<1>4. \A i \in 1 .. Len(t) : wait[t[i]] = "none" /\ H!Cmd("request", t[i]) \in done
  BY <1>1 DEF QueueOK
<1> QED BY <1>3, <1>4 DEF QueueOK

\* What is executed makes at most one message.
LEMMA RequestIsDelivered ==
  ASSUME H!HealthCheckConstants, H!TypeOK, Queued, H!Messages, UNCHANGED worker,
         NEW cmd, executed' \subseteq executed \cup {cmd}, executed \subseteq executed'
  PROVE  Queued'
<1> DEFINE q == listener.sub.queue
           qq == listener'.sub.queue
<1>1. q \in Seq(Probes) /\ listener.sub \in H!Subscription(Probes)
      /\ listener = [at |-> listener.at, sub |-> listener.sub]
  BY Types DEF H!TypeOK
<1>2. Len(q) \in Nat BY <1>1, LenProperties
<1>3. CASE qq = q
  <2> HIDE DEF q, qq
  <2>1. \A h : H!Cmd("request", h) \in executed => H!Cmd("request", h) \in executed'
    OBVIOUS
  <2>2. Queued' BY <1>3, <2>1 DEF Queued, q, qq
  <2> QED BY <2>2
<1>4. ASSUME NEW h \in Probes, H!Cmd("request", h) \in executed' \ executed, qq = Append(q, h)
      PROVE  Queued'
  <2>1. /\ Len(qq) = Len(q) + 1 /\ qq[Len(q) + 1] = h /\ \A i \in 1 .. Len(q) : qq[i] = q[i]
    BY <1>1, <1>4, AppendProperties
  <2>2. worker[h] = "none" BY <1>4 DEF Queued
  <2>3. \A i \in 1 .. Len(q) : q[i] # h BY <1>4 DEF Queued
  <2> HIDE DEF q, qq
  <2>4. \A i, j \in 1 .. Len(q) : q[i] = q[j] => i = j BY DEF Queued, q
  <2>5. \A i \in 1 .. Len(q) : worker[q[i]] = "none" /\ H!Cmd("request", q[i]) \in executed'
    BY DEF Queued, q
  <2>6. ASSUME NEW i \in 1 .. Len(qq), NEW j \in 1 .. Len(qq), qq[i] = qq[j] PROVE i = j
    BY <1>2, <2>1, <2>3, <2>4, <2>6
  <2>7. ASSUME NEW i \in 1 .. Len(qq)
        PROVE  worker[qq[i]] = "none" /\ H!Cmd("request", qq[i]) \in executed'
    BY <1>2, <1>4, <2>1, <2>2, <2>5
  <2>8. \A k \in Probes : worker[k] # "none" => H!Cmd("request", k) \in executed'
    BY DEF Queued
  <2> QED BY <2>6, <2>7, <2>8 DEF Queued, qq
<1>5. CASE \E h \in Probes : H!Cmd("request", h) \in executed' \ executed
  <2>1. PICK h \in Probes :
          /\ h = CHOOSE k \in Probes : H!Cmd("request", k) \in executed' \ executed
          /\ H!Cmd("request", h) \in executed' \ executed
    BY <1>5
  <2>2. listener' = [listener EXCEPT !.sub = H!Deliver(@, h)]
    BY <1>5, <2>1 DEF H!Messages
  <2>3. qq = q \/ qq = Append(q, h)
    BY <1>1, <2>2 DEF H!Deliver, H!Subscription
  <2> QED BY <1>3, <1>4, <2>1, <2>3
<1>6. CASE ~\E h \in Probes : H!Cmd("request", h) \in executed' \ executed
  <2>1. listener' = listener BY <1>6 DEF H!Messages
  <2> QED BY <1>3, <2>1
<1> QED BY <1>5, <1>6

\* Queued is QueueOK of the listener.
LEMMA QueuedIsOK ==
  Queued <=> /\ QueueOK(listener.sub.queue, executed, worker)
             /\ \A h \in Probes : worker[h] # "none" => H!Cmd("request", h) \in executed
BY DEF Queued, QueueOK

\* Every step keeps the order.
LEMMA OrderStep ==
  ASSUME H!HealthCheckConstants, HealthOrder, [H!Next]_H!vars
  PROVE  HealthOrder'
<1>a. H!TypeOK /\ ClientInv /\ Resting /\ Queued /\ H!TypeOK'
  BY HealthTypeStep DEF HealthOrder
<1>b. ClientInv' /\ Resting' /\ Queued' => HealthOrder' BY <1>a DEF HealthOrder
<1>s. \A h \in Probes : H!Check(h) \in Goroutines /\ H!Worker(h) \in Goroutines
  BY Sides
<1>t. /\ probe \in [Probes -> H!Ended \cup {"subscribe", "publish", "publishing", "wait", "ping", "pinging"}]
      /\ listener.sub \in H!Subscription(Probes) /\ listener.sub.queue \in Seq(Probes)
      /\ DOMAIN worker = Probes
  BY <1>a DEF H!TypeOK, H!Subscription
<1>q. UNCHANGED <<listener, executed, worker>> => Queued'
  BY <1>a DEF Queued
<1>u. UNCHANGED <<holder, link, call>> => ClientInv'
  BY <1>a, StillKeeps
<1>1. ASSUME NEW h \in Probes, H!CheckStep(h) PROVE HealthOrder'
  <2> DEFINE Still == UNCHANGED <<call, worker>>
                      /\ \A k \in Probes \ {h} : probe'[k] = probe[k]
  <2>1. Still /\ (probe'[h] \in {"publishing", "pinging"} \/ ~H!Calling(H!Check(h))) => Resting'
    BY <1>a DEF Resting, H!Calling
  <2>2. ASSUME NEW cmds \in Seq(H!Commands), H!Calls(H!Check(h), cmds, TRUE), probe[h] \in {"publish", "ping"},
               probe'[h] \in {"publishing", "pinging"}, \A k \in Probes \ {h} : probe'[k] = probe[k],
               UNCHANGED <<listener, worker>>
        PROVE  HealthOrder'
    <3>1. ~H!Calling(H!Check(h)) BY <1>a, <2>2 DEF Resting
    <3>2. ClientInv' BY <1>a, <1>s, <2>2, <3>1, BeginKeeps
    <3>3. \A k \in Goroutines \ {H!Check(h)} : call'[k] = call[k]
      BY <1>a, <1>s, <2>2, OneBegin
    <3>4. Resting'
      BY <1>a, <1>s, <2>2, <3>3, Apart DEF Resting, H!Calling
    <3>5. Queued' BY <1>q, <2>2 DEF H!Calls
    <3> QED BY <1>b, <3>2, <3>4, <3>5
  <2>3. CASE H!PublishRequest(h)
    BY <1>t, <2>2, <2>3, CommandTypes DEF H!PublishRequest, H!Goto
  <2>4. CASE H!PingRedis(h)
    BY <1>t, <2>2, <2>4, CommandTypes DEF H!PingRedis, H!Goto
  <2>5. CASE H!Published(h) \/ H!Pinged(h)
    <3>1. ~H!Calling(H!Check(h)) BY <2>5 DEF H!Published, H!Pinged, H!At, H!Calling
    <3>2. Still /\ UNCHANGED <<holder, link, listener, executed>>
      BY <1>t, <2>5 DEF H!Published, H!Pinged, H!Goto, H!redis
    <3> QED BY <1>b, <1>q, <1>u, <2>1, <3>1, <3>2
  <2>6. CASE H!SubscribeFirst(h) \/ H!Answered(h) \/ H!TimesOut(h)
    <3>1. ~H!Calling(H!Check(h))
      BY <1>a, <2>6 DEF H!SubscribeFirst, H!Answered, H!TimesOut, Resting
    <3>2. Still /\ UNCHANGED <<holder, link, listener, executed>>
      BY <1>t, <2>6 DEF H!SubscribeFirst, H!Answered, H!TimesOut, H!Goto, H!redis
    <3> QED BY <1>b, <1>q, <1>u, <2>1, <3>1, <3>2
  <2> QED BY <1>1, <2>3, <2>4, <2>5, <2>6 DEF H!CheckStep
<1>2. ASSUME NEW h \in Probes, H!AnswerDrops(h) PROVE HealthOrder'
  <2>1. Resting' BY <1>a, <1>2 DEF H!AnswerDrops, Resting, H!Calling
  <2> QED BY <1>2, <1>b, <1>q, <1>u, <2>1 DEF H!AnswerDrops
<1>3. ASSUME NEW h \in Probes, H!WorkerStep(h) PROVE HealthOrder'
  <2>1. worker[h] # "none" /\ \A k \in Probes \ {h} : worker'[k] = worker[k]
    BY <1>3, <1>t DEF H!WorkerStep, H!RecordState, H!SendAnswer, H!SendFeedEvent, H!WorkerEnds,
                      H!WorkerCalls, H!GotoWorker
  <2>2. worker'[h] \notin {"none", "record"}
    BY <1>3, <1>t DEF H!WorkerStep, H!RecordState, H!SendAnswer, H!SendFeedEvent, H!WorkerEnds,
                      H!WorkerCalls, H!GotoWorker
  <2>3. UNCHANGED <<listener, executed, probe>>
    BY <1>3 DEF H!WorkerStep, H!RecordState, H!SendAnswer, H!SendFeedEvent, H!WorkerEnds,
                H!WorkerCalls, H!Calls, H!redis
  <2>4. Queued'
    <3>1. \A i \in 1 .. Len(listener.sub.queue) : listener.sub.queue[i] \in Probes \ {h}
      BY <1>a, <1>t, <2>1 DEF Queued
    <3> QED BY <1>a, <2>1, <2>3, <3>1 DEF Queued
  <2>5. ClientInv' /\ \A k \in Goroutines \ {H!Worker(h)} : call'[k] = call[k]
    <3>1. ASSUME NEW cmds \in Seq(H!Commands), ~H!Calling(H!Worker(h)), H!Calls(H!Worker(h), cmds, FALSE)
          PROVE  ClientInv' /\ \A k \in Goroutines \ {H!Worker(h)} : call'[k] = call[k]
      BY <1>a, <1>s, <3>1, BeginKeeps, OneBegin
    <3>2. CASE H!RecordState(h)
      BY <1>a, <3>1, <3>2, CommandTypes DEF H!RecordState, H!WorkerCalls, Resting
    <3>3. CASE H!SendAnswer(h)
      BY <3>1, <3>3, CommandTypes DEF H!SendAnswer, H!WorkerCalls
    <3>4. CASE H!SendFeedEvent(h)
      BY <1>u, <3>1, <3>4, CommandTypes DEF H!SendFeedEvent, H!WorkerCalls, H!redis
    <3>5. CASE H!WorkerEnds(h)
      BY <1>u, <3>5 DEF H!WorkerEnds, H!redis
    <3> QED BY <1>3, <3>2, <3>3, <3>4, <3>5 DEF H!WorkerStep
  <2>6. Resting'
    BY <1>a, <1>s, <2>1, <2>2, <2>3, <2>5, Apart DEF Resting, H!Calling
  <2> QED BY <1>b, <2>4, <2>5, <2>6
<1>4. CASE H!Listen
  <2>1. UNCHANGED <<holder, link, call, probe, worker, executed>> BY <1>4 DEF H!Listen
  <2>2. Resting' BY <1>a, <2>1 DEF Resting, H!Calling
  <2>3. CASE listener' = [at |-> "read", sub |-> H!Subscribed]
    <3>1. listener'.sub.queue = <<>> BY <2>3 DEF H!Subscribed
    <3>2. Queued' BY <1>a, <2>1, <3>1 DEF Queued
    <3> QED BY <1>b, <1>u, <2>1, <2>2, <3>2
  <2>4. CASE listener' = [listener EXCEPT !.at = "sleep"]
    <3>1. listener'.sub = listener.sub BY <1>a, <2>4 DEF H!TypeOK
    <3>2. Queued' BY <1>a, <2>1, <3>1 DEF Queued
    <3> QED BY <1>b, <1>u, <2>1, <2>2, <3>2
  <2> QED BY <1>4, <2>3, <2>4 DEF H!Listen
<1>5. CASE H!TakeRequest
  <2> DEFINE q == listener.sub.queue
             h == Head(q)
  <2>1. /\ q # <<>> /\ worker' = [worker EXCEPT ![h] = "record"]
        /\ listener' = [listener EXCEPT !.sub = H!Taken(@)]
        /\ UNCHANGED <<holder, link, call, probe, executed>>
    BY <1>5 DEF H!TakeRequest, H!GotoWorker, H!redis
  <2>2. Len(q) \in Nat \ {0} /\ h = q[1] /\ h \in Probes
    BY <1>t, <2>1, LenProperties, EmptySeq, HeadTailProperties
  <2>3. worker[h] = "none" /\ H!Cmd("request", h) \in executed
    BY <1>a, <2>2 DEF Queued
  <2>4. listener'.sub.queue = Tail(q)
    BY <1>a, <1>t, <2>1 DEF H!TypeOK, H!Taken, H!Subscription
  <2>5. /\ Len(Tail(q)) = Len(q) - 1 /\ \A i \in 1 .. Len(q) - 1 : Tail(q)[i] = q[i + 1]
    BY <1>t, <2>1, HeadTailProperties
  <2>6. \A i \in 1 .. Len(q) - 1 : q[i + 1] # h /\ q[i + 1] \in Probes
    BY <1>a, <1>t, <2>2 DEF Queued
  <2>7. Queued'
    <3>1. QueueOK(Tail(q), executed, worker)
      <4>1. Tail(q) \in Seq(Probes) /\ Thinned(Tail(q), q) BY <1>t, <2>1, TailThins
      <4>2. QueueOK(q, executed, worker) BY <1>a, QueuedIsOK
      <4>3. q \in Seq(Probes) BY <1>t
      <4> HIDE DEF q, h
      <4>4. \E t : t = Tail(q) OBVIOUS
      <4>5. PICK t : t = Tail(q) BY <4>4
      <4>6. QueueOK(t, executed, worker) BY <4>1, <4>2, <4>3, <4>5, ThinnedOK
      <4> QED BY <4>5, <4>6
    <3>2. \A i \in 1 .. Len(Tail(q)) : worker'[Tail(q)[i]] = worker[Tail(q)[i]]
      BY <1>t, <2>1, <2>5, <2>6
    <3>3. QueueOK(Tail(q), executed, worker') BY <3>1, <3>2 DEF QueueOK
    <3>4. \A k \in Probes : worker'[k] # "none" => H!Cmd("request", k) \in executed
      BY <1>a, <1>t, <2>1, <2>3 DEF Queued
    <3> HIDE DEF q, h
    <3>5. /\ QueueOK(listener'.sub.queue, executed', worker')
          /\ \A k \in Probes : worker'[k] # "none" => H!Cmd("request", k) \in executed'
      BY <2>1, <2>4, <3>3, <3>4
    <3> QED BY <3>5 DEF Queued, QueueOK
  <2>8. Resting' BY <1>a, <1>t, <2>1, <2>2, <2>3 DEF Resting, H!Calling
  <2> QED BY <1>b, <1>u, <2>1, <2>7, <2>8
<1>6. CASE H!ListenerDrops
  <2>1. UNCHANGED <<holder, link, call, probe, worker, executed>> BY <1>6 DEF H!ListenerDrops
  <2>2. Resting' BY <1>a, <2>1 DEF Resting, H!Calling
  <2>3. ASSUME NEW s \in H!Torn(listener.sub) \cup H!Broken(listener.sub),
               listener' = [listener EXCEPT !.sub = s]
        PROVE  HealthOrder'
    <3>1. listener'.sub.queue = s.queue BY <1>a, <2>3 DEF H!TypeOK
    <3>2. s.queue \in Seq(Probes) /\ Thinned(s.queue, listener.sub.queue)
      BY <1>t, <2>3, Loses
    <3>3. QueueOK(s.queue, executed, worker)
      BY <1>a, <1>t, <3>2, ThinnedOK, QueuedIsOK
    <3>4. Queued' BY <1>a, <2>1, <3>1, <3>3 DEF Queued, QueueOK
    <3> QED BY <1>b, <1>u, <2>1, <2>2, <3>4
  <2>4. CASE listener' = [listener EXCEPT !.at = "sleep"]
    <3>1. listener'.sub = listener.sub BY <1>a, <2>4 DEF H!TypeOK
    <3>2. Queued' BY <1>a, <2>1, <3>1 DEF Queued
    <3> QED BY <1>b, <1>u, <2>1, <2>2, <3>2
  <2> QED BY <1>6, <2>3, <2>4 DEF H!ListenerDrops
<1>7. CASE H!CycleReads
  <2>1. H!Cycle \in Goroutines BY Sides
  <2>2. ClientInv' /\ \A k \in Goroutines \ {H!Cycle} : call'[k] = call[k]
    BY <1>7, <1>a, <2>1, BeginKeeps, OneBegin, CommandTypes DEF H!CycleReads
  <2>3. Resting' BY <1>7, <1>a, <1>s, <2>2, Apart DEF H!CycleReads, Resting, H!Calling
  <2> QED BY <1>7, <1>b, <1>q, <2>2, <2>3 DEF H!CycleReads, H!Calls
<1>8. CASE H!Crash
  <2>1. ClientInv' BY <1>8, <1>a, CrashKeeps
  <2>2. Resting'
    <3>1. ASSUME NEW h \in Probes
          PROVE  call'[H!Check(h)] = call[H!Check(h)] /\ call'[H!Worker(h)].at = "idle"
      BY <1>8, <1>s DEF H!Crash, H!Check, H!Worker, H!Idle
    <3> QED BY <1>8, <1>a, <3>1 DEF H!Crash, Resting, H!Calling
  <2>3. Queued'
    <3>1. listener'.sub.queue = <<>> BY <1>8 DEF H!Crash, H!Unsubscribed
    <3> QED BY <1>8, <1>a, <3>1 DEF H!Crash, Queued
  <2> QED BY <1>b, <2>1, <2>2, <2>3
<1>9. ASSUME NEW g \in Goroutines, H!Step(g) PROVE HealthOrder'
  <2>1. H!Calling(g) /\ \A k \in Goroutines \ {g} : call'[k] = call[k]
    BY <1>9, <1>a, OneCall DEF H!Step
  <2>2. ClientInv' BY <1>9, <1>a, ClientKeeps DEF H!Step
  <2>3. Resting'
    BY <1>9, <1>a, <1>s, <2>1 DEF H!Step, Resting, H!Calling
  <2>4. executed' = executed
    BY <1>9 DEF H!Step, H!ClientStep, H!Lock, H!Send, H!ReadReply, H!ReadFails
  <2> QED BY <1>9, <1>b, <1>q, <2>2, <2>3, <2>4 DEF H!Step
<1>10. ASSUME NEW c \in Clients, H!RedisStep(c) PROVE HealthOrder'
  <2>1. ClientInv' BY <1>10, <1>a, RedisKeeps DEF H!RedisStep
  <2>2. UNCHANGED <<call, probe, worker>> BY <1>10 DEF H!RedisStep, H!Execute, H!Break
  <2>3. Resting' BY <1>a, <2>2 DEF Resting, H!Calling
  <2>4. CASE H!Execute(c) /\ H!Messages
    <3>1. PICK cmd : cmd = Head(link[c].requests) OBVIOUS
    <3>2. executed' \subseteq executed \cup {cmd} /\ executed \subseteq executed'
      BY <2>4, <3>1 DEF H!Execute
    <3>3. Queued' BY <1>a, <2>2, <2>4, <3>2, RequestIsDelivered
    <3> QED BY <1>b, <2>1, <2>3, <3>3
  <2>5. CASE H!Break(c) /\ UNCHANGED <<listener, answer>>
    <3>1. Queued' BY <1>q, <2>2, <2>5 DEF H!Break
    <3> QED BY <1>b, <2>1, <2>3, <3>1
  <2> QED BY <1>10, <2>4, <2>5 DEF H!RedisStep
<1>11. CASE H!StrayStep
  <2>1. PICK cmd \in stray : H!ExecuteStray(cmd) BY <1>11 DEF H!StrayStep
  <2>2. UNCHANGED <<holder, link, call, probe, worker>> BY <1>11, <2>1 DEF H!StrayStep, H!ExecuteStray
  <2>3. Resting' BY <1>a, <2>2 DEF Resting, H!Calling
  <2>4. executed' \subseteq executed \cup {cmd} /\ executed \subseteq executed'
    BY <2>1 DEF H!ExecuteStray
  <2>5. Queued' BY <1>11, <1>a, <2>2, <2>4, RequestIsDelivered DEF H!StrayStep
  <2> QED BY <1>b, <1>u, <2>2, <2>3, <2>5
<1>12. CASE UNCHANGED H!vars
  <2>1. UNCHANGED <<holder, link, call, probe, worker, listener, executed>> BY <1>12 DEF H!vars, H!redis
  <2>2. Resting' BY <1>a, <2>1 DEF Resting, H!Calling
  <2> QED BY <1>b, <1>q, <1>u, <2>1, <2>2
<1> QED BY <1>1, <1>2, <1>3, <1>4, <1>5, <1>6, <1>7, <1>8, <1>9, <1>10, <1>11, <1>12 DEF H!Next

\* It begins in order.
LEMMA OrderStart == ASSUME H!HealthCheckConstants, H!Init PROVE HealthOrder
<1>a. /\ Free \notin Goroutines /\ MaxFaults \in Nat /\ MaxCrashes \in Nat
      /\ \A g \in Goroutines : Owner[g] \in Clients
      /\ \A h \in Probes : H!Check(h) \in Goroutines /\ H!Worker(h) \in Goroutines
  BY Sides
<1>b. <<>> \in Seq(H!Commands) /\ <<>> \in Seq([cmd: H!Commands, ok: BOOLEAN])
      /\ <<>> \in Seq({"healthy"}) /\ <<>> \in Seq(Probes)
  BY EmptySeq
<1>c. H!NoLink \in H!Links(H!Commands) /\ H!Idle \in H!CallsOf(H!Commands)
  BY <1>b DEF H!NoLink, H!Idle, H!Links, H!CallsOf
<1>d. H!Unsubscribed \in H!Subscription({"healthy"}) /\ H!Unsubscribed \in H!Subscription(Probes)
  BY <1>b DEF H!Unsubscribed, H!Subscription
<1>1. H!ClientTypeOK(H!Commands)
  BY <1>a, <1>c DEF H!Init, H!ClientInit, H!ClientTypeOK
<1>2. H!TypeOK
  BY <1>a, <1>d, <1>1 DEF H!Init, H!TypeOK
<1>3. /\ \A g \in Goroutines : call[g].at = "idle" /\ call[g].read = <<>> /\ call[g].cmds = <<>>
      /\ \A c \in Clients : holder[c] = Free /\ link[c].requests = <<>> /\ link[c].replies = <<>>
      /\ \A h \in Probes : worker[h] = "none"
      /\ listener.sub.queue = <<>>
  BY DEF H!Init, H!ClientInit, H!Idle, H!NoLink, H!Unsubscribed
<1>4. ClientInv
  <2>1. Mutex BY <1>a, <1>3 DEF Mutex
  <2>2. \A c \in Clients : Wire(c) BY <1>3 DEF Wire, Reading
  <2>3. \A g \in Goroutines : Line(g) BY <1>3 DEF Line
  <2> QED BY <2>1, <2>2, <2>3 DEF ClientInv
<1>5. Resting BY <1>a, <1>3 DEF Resting, H!Calling
<1>6. Queued BY <1>3 DEF Queued
<1> QED BY <1>2, <1>4, <1>5, <1>6 DEF HealthOrder

\* It is always in order.
LEMMA OrderAlways == ASSUME H!HealthCheckConstants PROVE H!Spec => []HealthOrder
<1>1. H!Init => HealthOrder BY OrderStart
<1>2. HealthOrder /\ [H!Next]_H!vars => HealthOrder' BY OrderStep
<1> QED BY <1>1, <1>2, PTL DEF H!Spec

\* The variables of the health check stay in their types, for any number of checks, faults
\* and restarts.
THEOREM HealthTypeCorrect == ASSUME H!HealthCheckConstants PROVE H!Spec => []H!TypeOK
<1>1. HealthOrder => H!TypeOK BY DEF HealthOrder
<1> QED BY <1>1, OrderAlways, PTL

\* Replies in line are those to the first commands of the call.
LEMMA LineIsOwn ==
  ASSUME H!HealthCheckConstants, H!TypeOK, NEW g \in Goroutines, Line(g)
  PROVE  call[g].read = SubSeq(call[g].cmds, 1, Len(call[g].read))
<1> DEFINE read == call[g].read
           cmds == call[g].cmds
<1>1. read \in Seq(H!Commands) /\ cmds \in Seq(H!Commands) BY Types
<1>2. Len(read) \in Nat /\ Len(cmds) \in Nat BY <1>1, LenProperties
<1>3. Len(read) <= Len(cmds) /\ \A i \in 1 .. Len(read) : read[i] = cmds[i]
  BY DEF Line
<1> HIDE DEF read, cmds
<1>4. /\ SubSeq(cmds, 1, Len(read)) \in Seq(H!Commands)
      /\ Len(SubSeq(cmds, 1, Len(read))) = Len(read)
      /\ \A i \in 1 .. Len(read) : SubSeq(cmds, 1, Len(read))[i] = cmds[i]
  BY <1>1, <1>2, <1>3, SubSeqProperties
<1>5. read = SubSeq(cmds, 1, Len(read))
  BY <1>1, <1>3, <1>4, SeqEqual
<1> QED BY <1>5 DEF read, cmds

\* A call reads the replies to its own commands and to no others, in their order, whichever
\* goroutines share the connection, wherever it breaks and whatever reset leaves behind
\* (RedisClient.Send, sendPipeline, reset).
THEOREM RepliesAreAlwaysOwn == ASSUME H!HealthCheckConstants PROVE H!Spec => []OwnReply
<1>1. HealthOrder => OwnReply BY LineIsOwn DEF HealthOrder, ClientInv, OwnReply
<1> QED BY <1>1, OrderAlways, PTL

\* What Redis has answered it has executed, and a failure is a failure of the own connection.
ReadIsExecuted ==
  /\ \A g \in Goroutines : \A i \in 1 .. Len(call[g].read) : call[g].read[i] \in executed
  /\ \A c \in Clients : \A i \in 1 .. Len(link[c].replies) :
       link[c].replies[i].ok => link[c].replies[i].cmd \in executed

\* A call of a check fails, a connection of it breaks and a reply of it is an error only if
\* something failed for that check.
FailedIsHurt ==
  \A h \in Probes :
    /\ call[H!Check(h)].at = "failed" => h \in hurt
    /\ link[h].state = "broken" => h \in hurt
    /\ \A i \in 1 .. Len(link[h].replies) : ~link[h].replies[i].ok => h \in hurt

\* What the clients know of what was executed and of what failed.
ClientFacts == AckedIsExecuted /\ ReadIsExecuted /\ FailedIsHurt

\* Where a check is on its way, and what it may conclude there.
CheckFact(h) ==
  /\ answer[h].queue # <<>> => H!Cmd("result", h) \in executed
  /\ probe[h] \in {"publish", "publishing", "wait"} => answer[h].up \/ h \in hurt
  /\ probe[h] = "pinging" => call[H!Check(h)].cmds = <<H!Cmd("ping", h)>>
  /\ probe[h] = "healthy" => H!Cmd("result", h) \in executed \/ H!Cmd("ping", h) \in executed
  /\ probe[h] = "unhealthy" => h \in hurt

\* The strengthening of ExitIsFounded: the order, the facts of the clients, those of the checks.
HealthFacts == HealthOrder /\ ClientFacts /\ \A h \in Probes : CheckFact(h)

\* These facts outlast steps that leave the clients alone.
LEMMA ClientFactsStay ==
  ASSUME H!HealthCheckConstants, H!TypeOK, ClientFacts, UNCHANGED <<link, call, acked, executed>>, hurt \subseteq hurt'
  PROVE  ClientFacts'
BY DEF ClientFacts, AckedIsExecuted, ReadIsExecuted, FailedIsHurt

\* They outlast the beginning of a call.
LEMMA ClientFactsBegin ==
  ASSUME H!HealthCheckConstants, H!TypeOK, ClientFacts, NEW g \in Goroutines, NEW cmds, NEW deadline,
         H!Calls(g, cmds, deadline), UNCHANGED hurt
  PROVE  ClientFacts'
<1>1. /\ \A k \in Goroutines \ {g} : call'[k] = call[k]
      /\ call'[g].at = "lock" /\ call'[g].read = <<>>
      /\ UNCHANGED <<link, acked, executed>>
  BY DEF H!TypeOK, H!ClientTypeOK, H!Calls, H!Begin, H!Idle
<1>2. AckedIsExecuted' BY <1>1 DEF ClientFacts, AckedIsExecuted
<1>3. ReadIsExecuted'
  <2>1. ASSUME NEW k \in Goroutines, NEW i \in 1 .. Len(call'[k].read) PROVE call'[k].read[i] \in executed'
    <3>1. CASE k = g BY <1>1, <2>1, <3>1
    <3>2. CASE k # g BY <1>1, <2>1, <3>2 DEF ClientFacts, ReadIsExecuted
    <3> QED BY <3>1, <3>2
  <2> QED BY <1>1, <2>1 DEF ClientFacts, ReadIsExecuted
<1>4. FailedIsHurt'
  <2>1. ASSUME NEW h \in Probes, call'[H!Check(h)].at = "failed" PROVE h \in hurt'
    <3>1. H!Check(h) \in Goroutines /\ H!Check(h) # g BY <1>1, <2>1, Sides
    <3> QED BY <1>1, <2>1, <3>1 DEF ClientFacts, FailedIsHurt
  <2> QED BY <1>1, <2>1 DEF ClientFacts, FailedIsHurt
<1> QED BY <1>2, <1>3, <1>4 DEF ClientFacts

\* The steps of a call.
LEMMA ClientFactsStep ==
  ASSUME H!HealthCheckConstants, HealthOrder, HealthOrder', ClientFacts, NEW g \in Goroutines,
         H!ClientStep(g), H!Hurt(Owner[g])
  PROVE  ClientFacts' /\ \A k \in Goroutines : call'[k].cmds = call[k].cmds
<1> DEFINE c == Owner[g]
<1>a. /\ c \in Clients /\ (c # AugurCanis => c \in Probes /\ g = H!Check(c))
      /\ \A h \in Probes : h \in Clients /\ H!Check(h) \in Goroutines /\ Owner[H!Check(h)] = h
      /\ AugurCanis \notin Probes
  BY Sides
<1>b. H!TypeOK /\ Line(g) /\ Line(g)' BY DEF HealthOrder, ClientInv
<1>c. /\ link \in [Clients -> H!Links(H!Commands)]
      /\ call \in [Goroutines -> H!CallsOf(H!Commands)]
      /\ acked \in [Goroutines -> SUBSET H!Commands]
      /\ link[c].replies \in Seq([cmd: H!Commands, ok: BOOLEAN])
      /\ call[g].read \in Seq(H!Commands) /\ call[g].cmds \in Seq(H!Commands)
      /\ faults \in Nat
  <2>1. /\ link \in [Clients -> H!Links(H!Commands)]
        /\ call \in [Goroutines -> H!CallsOf(H!Commands)]
        /\ acked \in [Goroutines -> SUBSET H!Commands]
        /\ faults \in 0 .. MaxFaults
    BY <1>b DEF H!TypeOK, H!ClientTypeOK
  <2>2. MaxFaults \in Nat BY Sides
  <2>3. faults \in Nat BY <2>1, <2>2
  <2>4. /\ link[c].replies \in Seq([cmd: H!Commands, ok: BOOLEAN])
        /\ call[g].read \in Seq(H!Commands) /\ call[g].cmds \in Seq(H!Commands)
    BY <1>a, <1>b, Types
  <2> QED BY <2>1, <2>3, <2>4
<1>d. executed' = executed /\ hurt \subseteq hurt'
  BY DEF H!ClientStep, H!Lock, H!Send, H!ReadReply, H!ReadFails, H!Hurt
<1>e. AckedIsExecuted /\ ReadIsExecuted /\ FailedIsHurt BY DEF ClientFacts
<1>f. \A k \in Goroutines \ {g} : call'[k] = call[k] BY <1>b, OneCall
<1>h. H!Fault => Probes \cap {c} \subseteq hurt'
  BY <1>c DEF H!Fault, H!Hurt
\* What is to be shown of this call and its connection.
<1> DEFINE ReadOK == \A i \in 1 .. Len(call'[g].read) : call'[g].read[i] \in executed
           RepliesOK == \A i \in 1 .. Len(link'[c].replies) :
                          \E j \in 1 .. Len(link[c].replies) : link'[c].replies[i] = link[c].replies[j]


<1>g. ASSUME ReadOK, RepliesOK, acked'[g] \subseteq executed, \A k \in Goroutines \ {g} : acked'[k] = acked[k],
             \A k \in Clients \ {c} : link'[k] = link[k],
             call'[g].at = "failed" => Probes \cap {c} \subseteq hurt',
             link'[c].state = "broken" => link[c].state = "broken",
             call'[g].cmds = call[g].cmds
      PROVE  ClientFacts' /\ \A k \in Goroutines : call'[k].cmds = call[k].cmds
  <2>1. AckedIsExecuted' BY <1>d, <1>e, <1>g DEF AckedIsExecuted
  <2>2. ReadIsExecuted'
    <3>1. ASSUME NEW k \in Goroutines, NEW i \in 1 .. Len(call'[k].read) PROVE call'[k].read[i] \in executed
      <4>1. CASE k = g BY <1>g, <3>1, <4>1
      <4>2. CASE k # g BY <1>e, <1>f, <3>1, <4>2 DEF ReadIsExecuted
      <4> QED BY <4>1, <4>2
    <3>2. ASSUME NEW k \in Clients, NEW i \in 1 .. Len(link'[k].replies), link'[k].replies[i].ok
          PROVE  link'[k].replies[i].cmd \in executed
      <4>1. CASE k = c
        <5>1. PICK j \in 1 .. Len(link[c].replies) : link'[c].replies[i] = link[c].replies[j]
          BY <1>g, <3>2, <4>1
        <5>2. link[c].replies[j].ok BY <3>2, <4>1, <5>1
        <5> HIDE DEF c
        <5> QED BY <1>a, <1>e, <4>1, <5>1, <5>2 DEF ReadIsExecuted
      <4>2. CASE k # c BY <1>e, <1>g, <3>2, <4>2 DEF ReadIsExecuted
      <4> QED BY <4>1, <4>2
    <3> QED BY <1>d, <3>1, <3>2 DEF ReadIsExecuted
  <2>3. FailedIsHurt'
    <3>1. SUFFICES ASSUME NEW h \in Probes
                   PROVE  /\ call'[H!Check(h)].at = "failed" => h \in hurt'
                          /\ link'[h].state = "broken" => h \in hurt'
                          /\ \A i \in 1 .. Len(link'[h].replies) : ~link'[h].replies[i].ok => h \in hurt'
      BY DEF FailedIsHurt
    <3>2. CASE h = c
      <4>1. g = H!Check(h) BY <1>a, <3>2
      <4>2. \A i \in 1 .. Len(link'[h].replies) : ~link'[h].replies[i].ok => h \in hurt
        BY <1>e, <1>g, <3>2 DEF FailedIsHurt
      <4> QED BY <1>d, <1>e, <1>g, <3>2, <4>1, <4>2 DEF FailedIsHurt
    <3>3. CASE h # c
      <4>1. H!Check(h) # g /\ H!Check(h) \in Goroutines /\ h \in Clients BY <1>a, <3>3
      <4> QED BY <1>d, <1>e, <1>f, <1>g, <3>3, <4>1 DEF FailedIsHurt
    <3> QED BY <3>2, <3>3
  <2>4. \A k \in Goroutines : call'[k].cmds = call[k].cmds
    BY <1>f, <1>g
  <2> QED BY <2>1, <2>2, <2>3, <2>4 DEF ClientFacts
<1>n. H!NoLink.replies = <<>> /\ H!NoLink.state = "none" BY DEF H!NoLink
<1>r. H!Reset(c) => RepliesOK /\ link'[c].state # "broken" /\ \A k \in Clients \ {c} : link'[k] = link[k]
  BY <1>a, <1>c, <1>n DEF H!Reset
<1>s. H!Elements(call[g].read) \subseteq executed /\ \A i \in 1 .. Len(call[g].read) : call[g].read[i] \in executed
  BY <1>c, <1>e, SMTT(30) DEF ReadIsExecuted, H!Elements
<1>v. acked[g] \subseteq executed BY <1>e DEF AckedIsExecuted
<1>w. UNCHANGED link => RepliesOK OBVIOUS
<1>x. ASSUME NEW done \in SUBSET executed, H!Return(g, "failed", done)
      PROVE  /\ acked'[g] \subseteq executed /\ \A k \in Goroutines \ {g} : acked'[k] = acked[k]
             /\ ReadOK /\ call'[g].cmds = call[g].cmds /\ call'[g].at = "failed"
  BY <1>c, <1>s, <1>x DEF H!Return
<1>1. CASE H!Lock(g)
  <2>1. /\ call'[g].read = call[g].read /\ call'[g].cmds = call[g].cmds /\ call'[g].at = "send"
        /\ link' = link /\ acked' = acked
    BY <1>1, <1>c DEF H!Lock
  <2> QED BY <1>g, <1>s, <1>v, <1>w, <2>1
<1>2. CASE H!Send(g)
  <2>1. CASE /\ link' = [link EXCEPT ![c].state = "up", ![c].requests = @ \o call[g].cmds]
             /\ call' = [call EXCEPT ![g].at = "read"] /\ UNCHANGED acked
    <3>1. /\ call'[g].read = call[g].read /\ call'[g].cmds = call[g].cmds /\ call'[g].at = "read"
          /\ link'[c].replies = link[c].replies /\ link'[c].state = "up"
          /\ \A k \in Clients \ {c} : link'[k] = link[k]
      <4>1. link[c] \in H!Links(H!Commands) BY <1>a, <1>c
      <4>2. link'[c] = [link[c] EXCEPT !.state = "up", !.requests = @ \o call[g].cmds]
            /\ \A k \in Clients \ {c} : link'[k] = link[k]
        BY <1>a, <1>c, <2>1
      <4>3. link'[c].replies = link[c].replies /\ link'[c].state = "up"
        BY <4>1, <4>2 DEF H!Links
      <4>4. call'[g].read = call[g].read /\ call'[g].cmds = call[g].cmds /\ call'[g].at = "read"
        BY <1>c, <2>1
      <4> QED BY <4>2, <4>3, <4>4
    <3>2. ReadOK /\ RepliesOK BY <1>s, <3>1
    <3> QED BY <1>g, <1>v, <2>1, <3>1, <3>2
  <2>2. CASE H!Fault /\ H!Return(g, "failed", {}) /\ UNCHANGED link
    <3>1. Probes \cap {c} \subseteq hurt' BY <1>h, <2>2
    <3>2. {} \in SUBSET executed OBVIOUS
    <3>3. /\ acked'[g] \subseteq executed /\ \A k \in Goroutines \ {g} : acked'[k] = acked[k]
          /\ ReadOK /\ call'[g].cmds = call[g].cmds /\ call'[g].at = "failed"
      BY <1>x, <2>2, <3>2
    <3>4. /\ RepliesOK /\ \A k \in Clients \ {c} : link'[k] = link[k]
          /\ link'[c].state = "broken" => link[c].state = "broken"
      BY <1>w, <2>2
    <3> HIDE DEF ReadOK, RepliesOK
    <3> QED BY <1>g, <3>1, <3>3, <3>4
  <2>3. CASE link[c].state = "broken" /\ H!Reset(c) /\ H!Return(g, "failed", {})
    <3>1. Probes \cap {c} \subseteq hurt' BY <1>d, <1>e, <2>3 DEF FailedIsHurt
    <3> QED BY <1>g, <1>r, <1>x, <2>3, <3>1
  <2> QED BY <1>2, <2>1, <2>2, <2>3 DEF H!Send
<1>3. CASE H!ReadReply(g)
  <2> DEFINE replies == link[c].replies
             reply == Head(replies)
             read == Append(call[g].read, reply.cmd)
  <2>1. /\ replies # <<>> /\ Len(replies) \in Nat \ {0} /\ reply = replies[1]
        /\ reply \in [cmd: H!Commands, ok: BOOLEAN]
    <3>1. replies # <<>> BY <1>3 DEF H!ReadReply
    <3>2. reply \in [cmd: H!Commands, ok: BOOLEAN]
      BY <1>c, <3>1, HeadTailProperties
    <3>3. Len(replies) \in Nat /\ Len(replies) # 0 BY <1>c, <3>1, LenProperties, EmptySeq
    <3>4. reply = replies[1] BY <1>c, <3>1
    <3> QED BY <3>1, <3>2, <3>3, <3>4
  <2>2. reply.ok => \A i \in 1 .. Len(read) : read[i] \in executed
    <3>1. reply.ok => reply.cmd \in executed BY <1>a, <1>e, <2>1 DEF ReadIsExecuted
    <3>2. /\ Len(read) = Len(call[g].read) + 1 /\ read[Len(call[g].read) + 1] = reply.cmd
          /\ \A i \in 1 .. Len(call[g].read) : read[i] = call[g].read[i]
      BY <1>c, <2>1, AppendProperties
    <3>3. Len(call[g].read) \in Nat BY <1>c, LenProperties
    <3> HIDE DEF read, reply
    <3> QED BY <1>s, <3>1, <3>2, <3>3
  <2>3. /\ Len(Tail(replies)) = Len(replies) - 1
        /\ \A i \in 1 .. Len(replies) - 1 : Tail(replies)[i] = replies[i + 1]
    BY <1>c, <2>1, HeadTailProperties
  <2>4. link' = [link EXCEPT ![c].replies = Tail(@)] =>
          /\ RepliesOK /\ link'[c].state = link[c].state
          /\ \A k \in Clients \ {c} : link'[k] = link[k]
    <3>1. SUFFICES ASSUME link' = [link EXCEPT ![c].replies = Tail(@)]
                   PROVE  /\ RepliesOK /\ link'[c].state = link[c].state
                          /\ \A k \in Clients \ {c} : link'[k] = link[k]
      OBVIOUS
    <3>2. /\ link'[c].replies = Tail(replies) /\ link'[c].state = link[c].state
          /\ \A k \in Clients \ {c} : link'[k] = link[k]
      BY <1>a, <1>c, <3>1 DEF H!Links
    <3>3. RepliesOK
      <4>1. \A i \in 1 .. Len(Tail(replies)) : i + 1 \in 1 .. Len(replies) /\ Tail(replies)[i] = replies[i + 1]
        BY <2>1, <2>3
      <4> QED BY <3>2, <4>1
    <3> QED BY <3>2, <3>3
  <2>5. CASE /\ reply.ok /\ link' = [link EXCEPT ![c].replies = Tail(@)]
             /\ call' = [call EXCEPT ![g].read = read] /\ UNCHANGED acked
    <3>1. call'[g].read = read /\ call'[g].cmds = call[g].cmds /\ call'[g].at = call[g].at
      BY <1>c, <2>5
    <3>2. call[g].at # "failed" BY <1>3 DEF H!ReadReply, H!At
    <3>3. ReadOK BY <2>2, <2>5, <3>1
    <3> QED BY <1>g, <1>v, <2>4, <2>5, <3>1, <3>2, <3>3
  <2>6. CASE /\ reply.ok /\ link' = [link EXCEPT ![c].replies = Tail(@)]
             /\ call' = [call EXCEPT ![g].at = "ok", ![g].read = read]
             /\ acked' = [acked EXCEPT ![g] = H!Elements(call[g].cmds)]
    <3>1. /\ call'[g].read = read /\ call'[g].cmds = call[g].cmds /\ call'[g].at = "ok"
          /\ acked'[g] = H!Elements(call[g].cmds) /\ \A k \in Goroutines \ {g} : acked'[k] = acked[k]
      BY <1>c, <2>6
    <3>3. ReadOK BY <2>2, <2>6, <3>1
    <3>4. H!Elements(call[g].cmds) \subseteq executed
      <4>1. Len(call'[g].read) = Len(call[g].cmds)
            /\ \A i \in 1 .. Len(call'[g].read) : call'[g].read[i] = call[g].cmds[i]
        BY <1>b, <3>1 DEF Line
      <4> QED BY <1>c, <3>3, <4>1, SMTT(30) DEF H!Elements
    <3> QED BY <1>g, <2>4, <2>6, <3>1, <3>3, <3>4
  <2>7. CASE ~reply.ok /\ H!Reset(c) /\ H!Failing(g)
    <3>1. Probes \cap {c} \subseteq hurt' BY <1>d, <1>e, <2>1, <2>7 DEF FailedIsHurt
    <3> QED BY <1>g, <1>r, <1>s, <1>x, <2>7, <3>1 DEF H!Failing
  <2> QED BY <1>3, <2>5, <2>6, <2>7 DEF H!ReadReply
<1>4. CASE H!ReadFails(g)
  <2>1. Probes \cap {c} \subseteq hurt'
    BY <1>4, <1>d, <1>e, <1>h DEF H!ReadFails, FailedIsHurt
  <2> QED BY <1>4, <1>g, <1>r, <1>s, <1>x, <2>1 DEF H!ReadFails, H!Failing
<1> QED BY <1>1, <1>2, <1>3, <1>4 DEF H!ClientStep

\* They outlast what Redis executes and what breaks.
LEMMA ClientFactsRedis ==
  ASSUME H!HealthCheckConstants, H!TypeOK, ClientFacts, NEW c \in Clients,
         H!Execute(c) \/ H!Break(c), H!Hurt(c)
  PROVE  ClientFacts'
<1>a. /\ link \in [Clients -> H!Links(H!Commands)]
      /\ link[c].replies \in Seq([cmd: H!Commands, ok: BOOLEAN])
      /\ link[c].requests \in Seq(H!Commands)
      /\ UNCHANGED <<call, acked>> /\ faults \in Nat
  <2>1. link \in [Clients -> H!Links(H!Commands)] /\ faults \in 0 .. MaxFaults
    BY DEF H!TypeOK, H!ClientTypeOK
  <2>2. faults \in Nat BY <2>1, Sides
  <2>3. /\ link[c].replies \in Seq([cmd: H!Commands, ok: BOOLEAN])
        /\ link[c].requests \in Seq(H!Commands)
    BY Types
  <2> QED BY <2>1, <2>2, <2>3 DEF H!Execute, H!Break
<1>b. executed \subseteq executed' /\ hurt \subseteq hurt'
  BY DEF H!Execute, H!Break, H!Hurt
<1>c. H!Fault => Probes \cap {c} \subseteq hurt'
  BY <1>a DEF H!Fault, H!Hurt
<1>d. \A k \in Clients \ {c} : link'[k] = link[k]
  BY <1>a DEF H!Execute, H!Break
<1>e. AckedIsExecuted' BY <1>a, <1>b DEF ClientFacts, AckedIsExecuted
<1>f. /\ \A g \in Goroutines : \A i \in 1 .. Len(call[g].read) : call[g].read[i] \in executed'
      /\ \A k \in Clients \ {c} : \A i \in 1 .. Len(link'[k].replies) :
           link'[k].replies[i].ok => link'[k].replies[i].cmd \in executed'
  BY <1>b, <1>d DEF ClientFacts, ReadIsExecuted
<1>g. \A h \in Probes :
        /\ call[H!Check(h)].at = "failed" => h \in hurt'
        /\ h # c => /\ link'[h].state = "broken" => h \in hurt'
                    /\ \A i \in 1 .. Len(link'[h].replies) : ~link'[h].replies[i].ok => h \in hurt'
  <2>1. \A h \in Probes : h \in Clients BY Sides
  <2> QED BY <1>b, <1>d, <2>1 DEF ClientFacts, FailedIsHurt
<1>1. CASE H!Break(c)
  <2>1. link'[c] = [H!NoLink EXCEPT !.state = "broken"] BY <1>1, <1>a DEF H!Break
  <2>2. link'[c].replies = <<>> BY <2>1 DEF H!NoLink
  <2>3. Probes \cap {c} \subseteq hurt' BY <1>1, <1>c DEF H!Break
  <2>4. ReadIsExecuted' BY <1>a, <1>f, <2>2 DEF ReadIsExecuted
  <2>5. FailedIsHurt' BY <1>a, <1>g, <2>3 DEF FailedIsHurt
  <2> QED BY <1>e, <2>4, <2>5 DEF ClientFacts
<1>2. CASE H!Execute(c)
  <2> DEFINE cmd == Head(link[c].requests)
             old == link[c].replies
             new == link'[c].replies
  <2>1. link[c].state = "up" /\ link[c].requests # <<>> BY <1>2 DEF H!Execute
  <2>2. cmd \in H!Commands BY <1>a, <2>1, HeadTailProperties
  <2>3. PICK ok \in BOOLEAN :
          /\ link' = [link EXCEPT ![c].requests = Tail(@), ![c].replies = Append(@, [cmd |-> cmd, ok |-> ok])]
          /\ ok => cmd \in executed'
          /\ ~ok => H!Fault
    BY <1>2 DEF H!Execute
  <2>4. new = Append(old, [cmd |-> cmd, ok |-> ok]) /\ link'[c].state = "up"
    BY <1>a, <2>1, <2>3 DEF H!Links
  <2>5. /\ Len(new) = Len(old) + 1 /\ Len(old) \in Nat
        /\ new[Len(old) + 1].cmd = cmd /\ new[Len(old) + 1].ok = ok
        /\ \A i \in 1 .. Len(old) : new[i] = old[i]
    BY <1>a, <2>2, <2>4, AppendProperties, LenProperties
  <2>6. \A i \in 1 .. Len(old) : old[i].ok => old[i].cmd \in executed'
    BY <1>b DEF ClientFacts, ReadIsExecuted
  <2>7. ASSUME NEW i \in 1 .. Len(new) PROVE i = Len(old) + 1 \/ i \in 1 .. Len(old)
    BY <2>5
  <2>8. ASSUME NEW i \in 1 .. Len(new), new[i].ok PROVE new[i].cmd \in executed'
    <3>1. CASE i = Len(old) + 1 BY <2>3, <2>5, <2>8, <3>1
    <3>2. CASE i \in 1 .. Len(old) BY <2>5, <2>6, <2>8, <3>2
    <3> QED BY <2>7, <3>1, <3>2
  <2>9. ReadIsExecuted' BY <1>a, <1>f, <2>8 DEF ReadIsExecuted
  <2>10. ASSUME c \in Probes, NEW i \in 1 .. Len(new), ~new[i].ok PROVE c \in hurt'
    <3>1. CASE i = Len(old) + 1 BY <1>c, <2>3, <2>5, <2>10, <3>1
    <3>2. CASE i \in 1 .. Len(old)
      BY <1>b, <2>5, <2>10, <3>2 DEF ClientFacts, FailedIsHurt
    <3> QED BY <2>7, <3>1, <3>2
  <2>11. FailedIsHurt' BY <1>a, <1>g, <2>4, <2>10 DEF FailedIsHurt
  <2> QED BY <1>e, <2>9, <2>11 DEF ClientFacts
<1> QED BY <1>1, <1>2

\* They outlast a restart of Augur Canis, which leaves the calls of the checks alone.
LEMMA ClientFactsCrash ==
  ASSUME H!HealthCheckConstants, H!TypeOK, ClientFacts, H!Crash
  PROVE  ClientFacts' /\ \A h \in Probes : call'[H!Check(h)] = call[H!Check(h)]
<1>a. /\ link \in [Clients -> H!Links(H!Commands)]
      /\ UNCHANGED <<acked, executed, hurt>>
      /\ \A g \in Goroutines : call'[g] = IF g[1] = "check" THEN call[g] ELSE H!Idle
      /\ link' = [link EXCEPT ![AugurCanis] = H!NoLink]
  BY DEF H!TypeOK, H!ClientTypeOK, H!Crash, H!Reset
<1>b. AugurCanis \in Clients /\ AugurCanis \notin Probes
      /\ \A h \in Probes : h \in Clients /\ H!Check(h) \in Goroutines
  BY Sides
<1>1. \A h \in Probes : call'[H!Check(h)] = call[H!Check(h)] /\ link'[h] = link[h]
  BY <1>a, <1>b DEF H!Check
<1>2. AckedIsExecuted' BY <1>a DEF ClientFacts, AckedIsExecuted
<1>3. ReadIsExecuted'
  <2>1. ASSUME NEW g \in Goroutines, NEW i \in 1 .. Len(call'[g].read) PROVE call'[g].read[i] \in executed'
    <3>1. CASE g[1] = "check" BY <1>a, <2>1, <3>1 DEF ClientFacts, ReadIsExecuted
    <3>2. CASE g[1] # "check"
      <4>1. call'[g].read = <<>> BY <1>a, <3>2 DEF H!Idle
      <4> QED BY <2>1, <4>1
    <3> QED BY <3>1, <3>2
  <2>2. ASSUME NEW c \in Clients, NEW i \in 1 .. Len(link'[c].replies), link'[c].replies[i].ok
        PROVE  link'[c].replies[i].cmd \in executed'
    <3>1. CASE c = AugurCanis
      <4>1. link'[c].replies = <<>> BY <1>a, <1>b, <3>1 DEF H!NoLink
      <4> QED BY <2>2, <4>1
    <3>2. CASE c # AugurCanis BY <1>a, <2>2, <3>2 DEF ClientFacts, ReadIsExecuted
    <3> QED BY <3>1, <3>2
  <2> QED BY <2>1, <2>2 DEF ReadIsExecuted
<1>4. FailedIsHurt' BY <1>a, <1>1 DEF ClientFacts, FailedIsHurt
<1> QED BY <1>1, <1>2, <1>3, <1>4 DEF ClientFacts

\* What is known of a check outlasts steps that leave the check where it is.
LEMMA CheckFactStays ==
  ASSUME NEW h \in Probes, CheckFact(h), probe'[h] = probe[h], call'[H!Check(h)].cmds = call[H!Check(h)].cmds,
         executed \subseteq executed', hurt \subseteq hurt',
         answer'[h].up = answer[h].up \/ h \in hurt',
         answer'[h].queue # <<>> => H!Cmd("result", h) \in executed'
  PROVE  CheckFact(h)'
BY DEF CheckFact

\* A result is delivered only when it was published.
LEMMA MessageFacts ==
  ASSUME H!TypeOK, H!Messages, NEW h \in Probes, CheckFact(h), executed \subseteq executed'
  PROVE  /\ answer'[h].up = answer[h].up
         /\ answer'[h].queue # <<>> => H!Cmd("result", h) \in executed'
<1>1. answer[h] \in H!Subscription({"healthy"}) BY DEF H!TypeOK
<1>2. answer'[h] = IF H!Cmd("result", h) \in executed' \ executed
                   THEN H!Deliver(answer[h], "healthy") ELSE answer[h]
  BY DEF H!Messages
<1>3. H!Deliver(answer[h], "healthy").up = answer[h].up
  BY <1>1 DEF H!Deliver, H!Subscription
<1> QED BY <1>2, <1>3 DEF CheckFact

\* Every step keeps the facts.
LEMMA FactsStep ==
  ASSUME H!HealthCheckConstants, HealthFacts, [H!Next]_H!vars
  PROVE  HealthFacts'
<1>a. HealthOrder /\ HealthOrder' /\ H!TypeOK /\ ClientFacts /\ \A h \in Probes : CheckFact(h)
  BY OrderStep DEF HealthFacts, HealthOrder
<1>b. ClientFacts' /\ (\A h \in Probes : CheckFact(h)') => HealthFacts' BY <1>a DEF HealthFacts
<1>s. \A h \in Probes : H!Check(h) \in Goroutines BY Sides
<1>t. /\ DOMAIN probe = Probes /\ answer \in [Probes -> H!Subscription({"healthy"})]
  BY <1>a DEF H!TypeOK
<1>u. UNCHANGED <<link, call, acked, executed>> /\ hurt \subseteq hurt' => ClientFacts'
  BY <1>a, ClientFactsStay
<1>v. ASSUME UNCHANGED <<probe, answer>>, executed \subseteq executed', hurt \subseteq hurt',
             \A h \in Probes : call'[H!Check(h)].cmds = call[H!Check(h)].cmds
      PROVE  \A h \in Probes : CheckFact(h)'
  <2>1. TAKE h \in Probes
  <2>2. answer'[h].queue # <<>> => H!Cmd("result", h) \in executed' BY <1>a, <1>v DEF CheckFact
  <2> QED BY <1>a, <1>v, <2>2, CheckFactStays
<1>1. ASSUME NEW h \in Probes, H!CheckStep(h) PROVE HealthFacts'
  <2>a. CheckFact(h) /\ answer[h] \in H!Subscription({"healthy"}) BY <1>a, <1>t
  <2>e. \A k \in Probes \ {h} : probe'[k] = probe[k] /\ answer'[k] = answer[k]
    BY <1>1, <1>t DEF H!CheckStep, H!SubscribeFirst, H!PublishRequest, H!Published, H!Answered, H!TimesOut,
                      H!PingRedis, H!Pinged, H!Goto
  <2>o. ASSUME executed' = executed, hurt \subseteq hurt',
               \A k \in Probes \ {h} : call'[H!Check(k)].cmds = call[H!Check(k)].cmds
        PROVE  \A k \in Probes \ {h} : CheckFact(k)'
    <3>1. TAKE k \in Probes \ {h}
    <3>2. answer'[k].queue # <<>> => H!Cmd("result", k) \in executed' BY <1>a, <2>e, <2>o DEF CheckFact
    <3> QED BY <1>a, <2>e, <2>o, <3>2, CheckFactStays
  <2>f. ClientFacts' /\ CheckFact(h)' /\ executed' = executed /\ hurt \subseteq hurt'
        /\ (\A k \in Probes \ {h} : call'[H!Check(k)].cmds = call[H!Check(k)].cmds) => HealthFacts'
    BY <1>b, <2>o
  <2>1. CASE H!SubscribeFirst(h)
    <3>1. UNCHANGED <<link, call, acked, executed>> /\ hurt \subseteq hurt'
      BY <2>1 DEF H!SubscribeFirst
    <3>2. CASE answer' = [answer EXCEPT ![h] = H!Subscribed] /\ H!Goto(h, "publish")
      <4>1. answer'[h].up /\ answer'[h].queue = <<>> /\ probe'[h] = "publish"
        BY <1>t, <3>2 DEF H!Goto, H!Subscribed
      <4>2. CheckFact(h)' BY <4>1 DEF CheckFact
      <4> QED BY <1>u, <2>f, <3>1, <4>2
    <3>3. CASE H!Goto(h, "ping") /\ UNCHANGED answer
      <4>1. probe'[h] = "ping" BY <1>t, <3>3 DEF H!Goto
      <4>2. CheckFact(h)' BY <2>a, <3>1, <3>3, <4>1 DEF CheckFact
      <4> QED BY <1>u, <2>f, <3>1, <4>2
    <3> QED BY <2>1, <3>2, <3>3 DEF H!SubscribeFirst
  <2>2. CASE H!PublishRequest(h) \/ H!PingRedis(h)
    <3>1. ASSUME NEW cmds \in Seq(H!Commands), H!Calls(H!Check(h), cmds, TRUE), UNCHANGED <<answer, hurt>>,
                 \/ probe'[h] = "publishing" /\ probe[h] = "publish"
                 \/ probe'[h] = "pinging" /\ cmds = <<H!Cmd("ping", h)>>
          PROVE  HealthFacts'
      <4>1. ClientFacts' BY <1>a, <1>s, <3>1, ClientFactsBegin
      <4>2. call'[H!Check(h)].cmds = cmds /\ \A k \in Goroutines \ {H!Check(h)} : call'[k] = call[k]
        BY <1>a, <1>s, <3>1, OneBegin
      <4>3. executed' = executed BY <3>1 DEF H!Calls
      <4>4. CheckFact(h)' BY <2>a, <3>1, <4>2, <4>3 DEF CheckFact
      <4>5. \A k \in Probes \ {h} : call'[H!Check(k)].cmds = call[H!Check(k)].cmds
        BY <1>s, <4>2, Apart
      <4> QED BY <2>f, <3>1, <4>1, <4>3, <4>4, <4>5
    <3>2. <<H!Cmd("request", h)>> \in Seq(H!Commands) /\ <<H!Cmd("ping", h)>> \in Seq(H!Commands)
      BY CommandTypes
    <3>3. CASE H!PublishRequest(h)
      <4>1. /\ H!Calls(H!Check(h), <<H!Cmd("request", h)>>, TRUE) /\ UNCHANGED <<answer, hurt>>
            /\ probe'[h] = "publishing" /\ probe[h] = "publish"
        BY <1>t, <3>3 DEF H!PublishRequest, H!Goto
      <4> QED BY <3>1, <3>2, <4>1
    <3>4. CASE H!PingRedis(h)
      <4>1. /\ H!Calls(H!Check(h), <<H!Cmd("ping", h)>>, TRUE) /\ UNCHANGED <<answer, hurt>>
            /\ probe'[h] = "pinging"
        BY <1>t, <3>4 DEF H!PingRedis, H!Goto
      <4> QED BY <3>1, <3>2, <4>1
    <3> QED BY <2>2, <3>3, <3>4
  <2>3. CASE H!Published(h) \/ H!TimesOut(h)
    <3>1. UNCHANGED <<link, call, acked, executed, hurt, answer>> /\ probe'[h] \in {"wait", "ping"}
          /\ (probe'[h] = "wait" => probe[h] = "publishing")
      BY <1>t, <2>3 DEF H!Published, H!TimesOut, H!Goto, H!redis
    <3>2. CheckFact(h)' BY <2>a, <3>1 DEF CheckFact
    <3> QED BY <1>u, <2>f, <3>1, <3>2
  <2>4. CASE H!Answered(h)
    <3>1. UNCHANGED <<link, call, acked, executed, hurt>> /\ answer'[h].queue = <<>>
      BY <1>t, <2>4 DEF H!Answered, H!redis, H!Unsubscribed
    <3>2. \/ probe'[h] = "healthy" /\ answer[h].queue # <<>>
          \/ probe'[h] = "unhealthy" /\ ~answer[h].up /\ probe[h] = "wait"
      BY <1>t, <2>4 DEF H!Answered, H!Goto, H!Drained
    <3>3. CheckFact(h)' BY <2>a, <3>1, <3>2 DEF CheckFact
    <3> QED BY <1>u, <2>f, <3>1, <3>3
  <2>5. CASE H!Pinged(h)
    <3>1. UNCHANGED <<link, call, acked, executed, hurt, answer>> BY <2>5 DEF H!Pinged, H!redis
    <3>2. CASE call[H!Check(h)].at = "failed" /\ probe'[h] = "unhealthy"
      <4>1. h \in hurt BY <1>a, <3>2 DEF ClientFacts, FailedIsHurt
      <4>2. CheckFact(h)' BY <2>a, <3>1, <3>2, <4>1 DEF CheckFact
      <4> QED BY <1>u, <2>f, <3>1, <4>2
    <3>3. CASE call[H!Check(h)].at = "ok" /\ probe'[h] = "healthy"
      <4>1. call[H!Check(h)].cmds = <<H!Cmd("ping", h)>> BY <2>a, <2>5 DEF CheckFact, H!Pinged
      <4>2. Line(H!Check(h)) BY <1>a, <1>s DEF HealthOrder, ClientInv
      <4>3. Len(call[H!Check(h)].read) = 1 /\ call[H!Check(h)].read[1] = H!Cmd("ping", h)
        BY <3>3, <4>1, <4>2 DEF Line
      <4>4. H!Cmd("ping", h) \in executed BY <1>a, <1>s, <4>3 DEF ClientFacts, ReadIsExecuted
      <4>5. CheckFact(h)' BY <2>a, <3>1, <3>3, <4>4 DEF CheckFact
      <4> QED BY <1>u, <2>f, <3>1, <4>5
    <3> QED BY <1>t, <2>5, <3>2, <3>3 DEF H!Pinged, H!Goto, H!At
  <2> QED BY <1>1, <2>1, <2>2, <2>3, <2>4, <2>5 DEF H!CheckStep
<1>2. ASSUME NEW h \in Probes, H!AnswerDrops(h) PROVE HealthFacts'
  <2>1. UNCHANGED <<link, call, acked, executed, probe>> /\ hurt \subseteq hurt' BY <1>2 DEF H!AnswerDrops
  <2>2. ClientFacts' BY <1>u, <2>1
  <2>3. PICK s \in H!Torn(answer[h]) \cup H!Broken(answer[h]) :
          answer' = [answer EXCEPT ![h] = s] /\ (s \in H!Torn(answer[h]) \/ h \in hurt')
    BY <1>2 DEF H!AnswerDrops
  <2>4. s.queue \in Seq({"healthy"}) /\ Thinned(s.queue, answer[h].queue)
        /\ (s \in H!Torn(answer[h]) => answer[h].up /\ s.up)
    BY <1>t, <2>3, Loses
  <2>5. s.queue # <<>> => answer[h].queue # <<>>
    BY <2>4, EmptyOnly
  <2>6. ASSUME NEW k \in Probes PROVE CheckFact(k)'
    <3>1. CASE k = h
      <4>1. answer'[h] = s BY <1>t, <2>3
      <4>2. answer'[h].queue # <<>> => H!Cmd("result", h) \in executed'
        BY <1>a, <2>1, <2>5, <4>1 DEF CheckFact
      <4>3. CheckFact(h) BY <1>a
      <4>4. answer'[h].up \/ h \in hurt' BY <2>3, <2>4, <4>1
      <4> QED BY <2>1, <3>1, <4>2, <4>3, <4>4 DEF CheckFact
    <3>2. CASE k # h
      <4>1. answer'[k] = answer[k] BY <1>t, <2>3, <3>2
      <4>2. CheckFact(k) BY <1>a
      <4> QED BY <2>1, <4>1, <4>2 DEF CheckFact
    <3> QED BY <3>1, <3>2
  <2> QED BY <1>b, <2>2, <2>6
<1>3. ASSUME NEW h \in Probes, H!WorkerStep(h) PROVE HealthFacts'
  <2>1. UNCHANGED <<probe, answer, hurt, executed>>
    BY <1>3 DEF H!WorkerStep, H!RecordState, H!SendAnswer, H!SendFeedEvent, H!WorkerEnds,
                H!WorkerCalls, H!Calls, H!redis
  <2>2. H!Worker(h) \in Goroutines BY Sides
  <2>3. ASSUME NEW cmds, H!Calls(H!Worker(h), cmds, FALSE)
        PROVE  ClientFacts' /\ \A k \in Probes : call'[H!Check(k)].cmds = call[H!Check(k)].cmds
    <3>1. \A k \in Goroutines \ {H!Worker(h)} : call'[k] = call[k] BY <1>a, <2>2, <2>3, OneBegin
    <3> QED BY <1>a, <1>s, <2>1, <2>2, <2>3, <3>1, ClientFactsBegin, Apart
  <2>4. UNCHANGED H!redis => ClientFacts' /\ \A k \in Probes : call'[H!Check(k)].cmds = call[H!Check(k)].cmds
    BY <1>u, <2>1 DEF H!redis
  <2>5. ClientFacts' /\ \A k \in Probes : call'[H!Check(k)].cmds = call[H!Check(k)].cmds
    BY <1>3, <2>3, <2>4 DEF H!WorkerStep, H!RecordState, H!SendAnswer, H!SendFeedEvent, H!WorkerEnds,
                            H!WorkerCalls
  <2> QED BY <1>b, <1>v, <2>1, <2>5
<1>4. CASE H!Listen \/ H!TakeRequest \/ H!ListenerDrops \/ UNCHANGED H!vars
  <2>1. UNCHANGED <<link, call, acked, executed, probe, answer, hurt>>
    BY <1>4 DEF H!Listen, H!TakeRequest, H!ListenerDrops, H!vars, H!redis
  <2> QED BY <1>b, <1>u, <1>v, <2>1
<1>5. CASE H!CycleReads
  <2>1. H!Cycle \in Goroutines BY Sides
  <2>2. \A k \in Goroutines \ {H!Cycle} : call'[k] = call[k]
    BY <1>5, <1>a, <2>1, OneBegin DEF H!CycleReads
  <2>3. ClientFacts' BY <1>5, <1>a, <2>1, ClientFactsBegin DEF H!CycleReads
  <2>4. UNCHANGED <<probe, answer, hurt, executed>> BY <1>5 DEF H!CycleReads, H!Calls
  <2>5. \A k \in Probes : call'[H!Check(k)].cmds = call[H!Check(k)].cmds BY <1>s, <2>2, Apart
  <2> QED BY <1>b, <1>v, <2>3, <2>4, <2>5
<1>6. CASE H!Crash
  <2>1. ClientFacts' /\ \A h \in Probes : call'[H!Check(h)] = call[H!Check(h)]
    BY <1>6, <1>a, ClientFactsCrash
  <2>2. UNCHANGED <<probe, answer, hurt, executed>> BY <1>6 DEF H!Crash
  <2> QED BY <1>b, <1>v, <2>1, <2>2
<1>7. ASSUME NEW g \in Goroutines, H!Step(g) PROVE HealthFacts'
  <2>1. ClientFacts' /\ \A k \in Goroutines : call'[k].cmds = call[k].cmds
    BY <1>7, <1>a, ClientFactsStep DEF H!Step
  <2>2. UNCHANGED <<probe, answer, executed>> /\ hurt \subseteq hurt'
    BY <1>7 DEF H!Step, H!Hurt, H!ClientStep, H!Lock, H!Send, H!ReadReply, H!ReadFails
  <2> QED BY <1>b, <1>s, <1>v, <2>1, <2>2
<1>8. ASSUME NEW c \in Clients, H!RedisStep(c) PROVE HealthFacts'
  <2>1. ClientFacts' BY <1>8, <1>a, ClientFactsRedis DEF H!RedisStep
  <2>2. UNCHANGED <<probe, call>> /\ hurt \subseteq hurt' /\ executed \subseteq executed'
    BY <1>8 DEF H!RedisStep, H!Hurt, H!Execute, H!Break
  <2>3. CASE H!Messages
    <3>1. ASSUME NEW h \in Probes PROVE CheckFact(h)'
      BY <1>a, <2>2, <2>3, MessageFacts, CheckFactStays
    <3> QED BY <1>b, <2>1, <3>1
  <2>4. CASE UNCHANGED answer
    BY <1>b, <1>v, <2>1, <2>2, <2>4
  <2> QED BY <1>8, <2>3, <2>4 DEF H!RedisStep
<1>9. CASE H!StrayStep
  <2>1. UNCHANGED <<probe, call, link, acked, hurt>> /\ executed \subseteq executed'
    BY <1>9 DEF H!StrayStep, H!ExecuteStray
  <2>2. ClientFacts'
    BY <1>a, <2>1 DEF ClientFacts, AckedIsExecuted, ReadIsExecuted, FailedIsHurt
  <2>3. ASSUME NEW h \in Probes PROVE CheckFact(h)'
    BY <1>9, <1>a, <2>1, MessageFacts, CheckFactStays DEF H!StrayStep
  <2> QED BY <1>b, <2>2, <2>3
<1> QED BY <1>1, <1>2, <1>3, <1>4, <1>5, <1>6, <1>7, <1>8, <1>9 DEF H!Next

\* The facts always hold.
LEMMA FactsAlways == ASSUME H!HealthCheckConstants PROVE H!Spec => []HealthFacts
<1>1. H!Init => HealthFacts
  <2>1. SUFFICES ASSUME H!Init PROVE HealthFacts OBVIOUS
  <2>2. HealthOrder BY <2>1, OrderStart
  <2>3. /\ \A g \in Goroutines : call[g].at = "idle" /\ call[g].read = <<>> /\ acked[g] = {}
        /\ \A c \in Clients : link[c].state = "none" /\ link[c].replies = <<>>
        /\ \A h \in Probes : probe[h] = "subscribe" /\ answer[h].queue = <<>>
    BY <2>1 DEF H!Init, H!ClientInit, H!Idle, H!NoLink, H!Unsubscribed
  <2>4. \A h \in Probes : h \in Clients /\ H!Check(h) \in Goroutines BY Sides
  <2>5. ClientFacts
    BY <2>3, <2>4 DEF ClientFacts, AckedIsExecuted, ReadIsExecuted, FailedIsHurt
  <2>6. \A h \in Probes : CheckFact(h) BY <2>3 DEF CheckFact
  <2> QED BY <2>2, <2>5, <2>6 DEF HealthFacts
<1>2. HealthFacts /\ [H!Next]_H!vars => HealthFacts' BY FactsStep
<1> QED BY <1>1, <1>2, PTL DEF H!Spec

\* A call that reports success was executed: Redis carried out every command of it.
THEOREM AckedIsAlwaysExecuted == ASSUME H!HealthCheckConstants PROVE H!Spec => []AckedIsExecuted
<1>1. HealthFacts => AckedIsExecuted BY DEF HealthFacts, ClientFacts
<1> QED BY <1>1, FactsAlways, PTL

\* A container is reported healthy only after Augur Canis answered this very request or Redis the
\* ping, and unhealthy only if its own Redis connections failed, whatever becomes of Augur Canis
\* and of the other checks (healthcheck/main.go).
THEOREM ExitsAreAlwaysFounded == ASSUME H!HealthCheckConstants PROVE H!Spec => []ExitIsFounded
<1>1. HealthFacts => ExitIsFounded BY DEF HealthFacts, CheckFact, ExitIsFounded, Cmd, H!Cmd
<1> QED BY <1>1, FactsAlways, PTL

\* A command that is in a call, on its way or executed.
Known(cmd) ==
  \/ cmd \in executed \cup stray
  \/ \E g \in Goroutines : \E i \in 1 .. Len(call[g].cmds) : call[g].cmds[i] = cmd

\* Nothing is known of a check's request before it is published, nor of its result before the
\* request was taken.
Causal(h) ==
  /\ Known(H!Cmd("request", h)) => probe[h] \notin {"subscribe", "publish"}
  /\ Known(H!Cmd("result", h)) => worker[h] # "none"

\* While nothing fails, a check listens from before its request on.
Listens(h) ==
  faults = 0 =>
    /\ probe[h] \in {"publish", "publishing", "wait"} => answer[h].up
    /\ probe[h] \in {"publishing", "wait"} /\ H!Cmd("result", h) \in executed => answer[h].queue # <<>>

\* The strengthening of AnswerIsHeard: the order, causality and listening.
HealthHeard == HealthOrder /\ \A h \in Probes : Causal(h) /\ Listens(h)

\* A command on a connection is one of the call that reads from it.
LEMMA OnTheWire ==
  ASSUME H!HealthCheckConstants, HealthOrder, NEW c \in Clients, NEW cmd \in H!Elements(link[c].requests)
  PROVE  Known(cmd)
<1>1. link[c].requests \in Seq(H!Commands) /\ link[c].replies \in Seq([cmd: H!Commands, ok: BOOLEAN])
  BY Types DEF HealthOrder
<1>2. PICK i \in 1 .. Len(link[c].requests) : cmd = link[c].requests[i]
  BY <1>1 DEF H!Elements
<1>3. Len(link[c].requests) \in Nat /\ Len(link[c].replies) \in Nat BY <1>1, LenProperties
<1>4. link[c].requests # <<>> BY <1>2, <1>3
<1> DEFINE g == holder[c]
<1>5. /\ Reading(c) /\ g \in Goroutines
      /\ Pipeline(call[g].read, link[c].replies, link[c].requests, call[g].cmds)
  BY <1>4 DEF HealthOrder, ClientInv, Wire, Reading, H!TypeOK, H!ClientTypeOK
<1>6. Len(call[g].read) \in Nat /\ Len(call[g].cmds) \in Nat
  BY <1>5, Types, LenProperties DEF HealthOrder
<1> HIDE DEF g
<1> DEFINE j == Len(call[g].read) + Len(link[c].replies) + i
<1>7. cmd = call[g].cmds[j] BY <1>2, <1>5 DEF Pipeline
<1>8. j \in 1 .. Len(call[g].cmds)
  <2>1. Len(call[g].read) + Len(link[c].replies) + Len(link[c].requests) = Len(call[g].cmds)
    BY <1>5 DEF Pipeline
  <2> DEFINE a == Len(call[g].read)
             r == Len(link[c].replies)
             q == Len(link[c].requests)
             n == Len(call[g].cmds)
  <2>2. a \in Nat /\ r \in Nat /\ q \in Nat /\ n \in Nat /\ a + r + q = n /\ i \in 1 .. q
    BY <1>2, <1>3, <1>6, <2>1
  <2>3. j = a + r + i OBVIOUS
  <2> HIDE DEF a, r, q, n, j
  <2>4. j \in 1 .. n BY <2>2, <2>3
  <2> QED BY <2>4 DEF n
<1> HIDE DEF j
<1> QED BY <1>5, <1>7, <1>8 DEF Known

\* Commands become known by a call alone.
LEMMA KnownOnly ==
  ASSUME H!HealthCheckConstants, HealthOrder, NEW cmd, Known(cmd)',
         executed' \subseteq executed \cup stray \cup UNION {H!Elements(link[c].requests) : c \in Clients},
         stray' \subseteq stray \cup UNION {H!Elements(link[c].requests) : c \in Clients},
         \A g \in Goroutines : call'[g].cmds = call[g].cmds \/ call'[g].cmds = <<>>
  PROVE  Known(cmd)
<1>1. CASE cmd \in executed' \cup stray'
  <2>1. CASE cmd \in executed \cup stray BY <2>1 DEF Known
  <2>2. CASE \E c \in Clients : cmd \in H!Elements(link[c].requests) BY <2>2, OnTheWire
  <2> QED BY <1>1, <2>1, <2>2
<1>2. CASE \E g \in Goroutines : \E i \in 1 .. Len(call'[g].cmds) : call'[g].cmds[i] = cmd
  <2>1. PICK g \in Goroutines : \E i \in 1 .. Len(call'[g].cmds) : call'[g].cmds[i] = cmd BY <1>2
  <2>2. PICK i \in 1 .. Len(call'[g].cmds) : call'[g].cmds[i] = cmd BY <2>1
  <2>3. call'[g].cmds = call[g].cmds BY <2>2
  <2> QED BY <2>2, <2>3 DEF Known
<1> QED BY <1>1, <1>2 DEF Known

\* Beginning a call makes its commands known and no others.
LEMMA KnownByCall ==
  ASSUME H!HealthCheckConstants, H!TypeOK, NEW g \in Goroutines, NEW cmds \in Seq(H!Commands), NEW deadline,
         H!Calls(g, cmds, deadline), NEW cmd, Known(cmd)', \A i \in 1 .. Len(cmds) : cmds[i] # cmd
  PROVE  Known(cmd)
<1>1. /\ call'[g].cmds = cmds /\ \A k \in Goroutines \ {g} : call'[k] = call[k]
      /\ UNCHANGED <<executed, stray>>
  BY OneBegin DEF H!Calls
<1> QED BY <1>1 DEF Known

\* No other step makes a command known.
LEMMA StepKnows ==
  ASSUME H!HealthCheckConstants, HealthOrder, NEW cmd, Known(cmd)',
         \/ \E g \in Goroutines : H!ClientStep(g)
         \/ \E c \in Clients : H!Execute(c) \/ H!Break(c)
         \/ \E s \in stray : H!ExecuteStray(s)
         \/ H!Crash
         \/ UNCHANGED <<call, executed, stray>>
  PROVE  Known(cmd)
<1> DEFINE Wires == UNION {H!Elements(link[c].requests) : c \in Clients}
<1>a. H!TypeOK BY DEF HealthOrder
<1>1. ASSUME NEW g \in Goroutines, H!ClientStep(g) PROVE Known(cmd)
  <2>1. Owner[g] \in Clients BY Sides
  <2>2. executed' = executed
    BY <1>1 DEF H!ClientStep, H!Lock, H!Send, H!ReadReply, H!ReadFails
  <2>3. stray' \subseteq stray \cup Wires
    BY <1>1, <2>1 DEF H!ClientStep, H!Lock, H!Send, H!ReadReply, H!ReadFails, H!Reset
  <2>4. \A k \in Goroutines : call'[k].cmds = call[k].cmds
    <3>1. \A k \in Goroutines \ {g} : call'[k] = call[k] BY <1>a, <1>1, OneCall
    <3>2. call'[g].cmds = call[g].cmds
      <4>1. call \in [Goroutines -> H!CallsOf(H!Commands)] BY <1>a DEF H!TypeOK, H!ClientTypeOK
      <4>2. H!Lock(g) => call'[g].cmds = call[g].cmds BY <4>1 DEF H!Lock, H!CallsOf
      <4>3. H!Send(g) => call'[g].cmds = call[g].cmds BY <4>1 DEF H!Send, H!Return, H!CallsOf
      <4>4. H!ReadReply(g) => call'[g].cmds = call[g].cmds
        BY <4>1 DEF H!ReadReply, H!Return, H!Failing, H!CallsOf
      <4>5. H!ReadFails(g) => call'[g].cmds = call[g].cmds
        BY <4>1 DEF H!ReadFails, H!Return, H!Failing, H!CallsOf
      <4> QED BY <1>1, <4>2, <4>3, <4>4, <4>5 DEF H!ClientStep
    <3> QED BY <3>1, <3>2
  <2> QED BY <2>2, <2>3, <2>4, KnownOnly
<1>2. ASSUME NEW c \in Clients, H!Execute(c) PROVE Known(cmd)
  <2>1. Head(link[c].requests) \in H!Elements(link[c].requests)
    <3>1. link[c].requests \in Seq(H!Commands) /\ link[c].requests # <<>>
      BY <1>a, <1>2, Types DEF H!Execute
    <3>2. Len(link[c].requests) \in Nat \ {0} BY <3>1, LenProperties, EmptySeq
    <3>3. Head(link[c].requests) = link[c].requests[1] BY <3>1, <3>2
    <3>4. 1 \in DOMAIN link[c].requests BY <3>1, <3>2
    <3> QED BY <3>3, <3>4 DEF H!Elements
  <2>2. executed' \subseteq executed \cup stray \cup Wires BY <1>2, <2>1 DEF H!Execute
  <2> QED BY <1>2, <2>2, KnownOnly DEF H!Execute
<1>3. ASSUME NEW c \in Clients, H!Break(c) PROVE Known(cmd)
  <2>1. stray' \subseteq stray \cup Wires BY <1>3 DEF H!Break
  <2> QED BY <1>3, <2>1, KnownOnly DEF H!Break
<1>4. ASSUME NEW s \in stray, H!ExecuteStray(s) PROVE Known(cmd)
  BY <1>4, KnownOnly DEF H!ExecuteStray
<1>5. CASE H!Crash
  <2>1. AugurCanis \in Clients BY Sides
  <2>2. stray' \subseteq stray \cup Wires BY <1>5, <2>1 DEF H!Crash, H!Reset
  <2>3. \A g \in Goroutines : call'[g].cmds = call[g].cmds \/ call'[g].cmds = <<>>
    BY <1>5 DEF H!Crash, H!Idle
  <2> QED BY <1>5, <2>2, <2>3, KnownOnly DEF H!Crash
<1>6. CASE UNCHANGED <<call, executed, stray>> BY <1>6, KnownOnly
<1> QED BY <1>1, <1>2, <1>3, <1>4, <1>5, <1>6

\* Which commands are requests and results.
LEMMA Commanded ==
  ASSUME NEW h \in Probes, NEW k
  PROVE  /\ \A i \in 1 .. Len(<<H!Cmd("ping", k)>>) :
              <<H!Cmd("ping", k)>>[i] \notin {H!Cmd("request", h), H!Cmd("result", h)}
         /\ \A i \in 1 .. Len(<<H!Cmd("seen", k)>>) :
              <<H!Cmd("seen", k)>>[i] \notin {H!Cmd("request", h), H!Cmd("result", h)}
         /\ \A i \in 1 .. Len(<<H!Cmd("feed", k)>>) :
              <<H!Cmd("feed", k)>>[i] \notin {H!Cmd("request", h), H!Cmd("result", h)}
         /\ \A i \in 1 .. Len(<<H!Cmd("get", k)>>) :
              <<H!Cmd("get", k)>>[i] \notin {H!Cmd("request", h), H!Cmd("result", h)}
         /\ \A i \in 1 .. Len(<<H!Cmd("request", k)>>) :
              /\ <<H!Cmd("request", k)>>[i] # H!Cmd("result", h)
              /\ k # h => <<H!Cmd("request", k)>>[i] # H!Cmd("request", h)
         /\ \A i \in 1 .. Len(<<H!Cmd("copy", k), H!Cmd("result", k)>>) :
              /\ <<H!Cmd("copy", k), H!Cmd("result", k)>>[i] # H!Cmd("request", h)
              /\ k # h => <<H!Cmd("copy", k), H!Cmd("result", k)>>[i] # H!Cmd("result", h)
<1>1. \A i \in 1 .. 1 : i = 1 OBVIOUS
<1>2. \A i \in 1 .. 2 : i = 1 \/ i = 2 OBVIOUS
<1> QED BY <1>1, <1>2 DEF H!Cmd

\* A step that makes nothing known keeps what is known in order.
LEMMA CausalStays ==
  ASSUME NEW h \in Probes, Causal(h),
         Known(H!Cmd("request", h))' => Known(H!Cmd("request", h)),
         Known(H!Cmd("result", h))' => Known(H!Cmd("result", h)),
         probe'[h] \in {"subscribe", "publish"} => probe[h] \in {"subscribe", "publish"},
         worker'[h] = "none" => worker[h] = "none"
  PROVE  Causal(h)'
BY DEF Causal

\* Every step keeps the order of cause and effect.
LEMMA CausalStep ==
  ASSUME H!HealthCheckConstants, HealthOrder, [H!Next]_H!vars, NEW h \in Probes, Causal(h)
  PROVE  Causal(h)'
<1>a. H!TypeOK BY DEF HealthOrder
<1>b. DOMAIN probe = Probes /\ DOMAIN worker = Probes BY <1>a DEF H!TypeOK
<1>c. \A k \in Probes : H!Check(k) \in Goroutines /\ H!Worker(k) \in Goroutines BY Sides
<1>s. ASSUME \/ \E g \in Goroutines : H!ClientStep(g)
             \/ \E c \in Clients : H!Execute(c) \/ H!Break(c)
             \/ \E s \in stray : H!ExecuteStray(s)
             \/ H!Crash
             \/ UNCHANGED <<call, executed, stray>>,
             probe'[h] \in {"subscribe", "publish"} => probe[h] \in {"subscribe", "publish"},
             worker'[h] = "none" => worker[h] = "none"
      PROVE  Causal(h)'
  BY <1>s, StepKnows, CausalStays
<1>1. ASSUME NEW k \in Probes, H!CheckStep(k) PROVE Causal(h)'
  <2>0. worker' = worker
    BY <1>1 DEF H!CheckStep, H!SubscribeFirst, H!PublishRequest, H!Published, H!Answered, H!TimesOut,
                H!PingRedis, H!Pinged
  <2>1. probe'[h] \in {"subscribe", "publish"} => probe[h] \in {"subscribe", "publish"}
    BY <1>1, <1>b DEF H!CheckStep, H!SubscribeFirst, H!PublishRequest, H!Published, H!Answered, H!TimesOut,
                      H!PingRedis, H!Pinged, H!Goto
  <2>2. CASE H!PublishRequest(k)
    <3>1. H!Calls(H!Check(k), <<H!Cmd("request", k)>>, TRUE) /\ probe'[k] = "publishing"
      BY <2>2, <1>b DEF H!PublishRequest, H!Goto
    <3>2. <<H!Cmd("request", k)>> \in Seq(H!Commands) BY CommandTypes
    <3>3. Known(H!Cmd("result", h))' => Known(H!Cmd("result", h))
      BY <1>a, <1>c, <3>1, <3>2, Commanded, KnownByCall
    <3>4. CASE k = h BY <2>0, <3>1, <3>3, <3>4 DEF Causal
    <3>5. CASE k # h
      <4>1. Known(H!Cmd("request", h))' => Known(H!Cmd("request", h))
        BY <1>a, <1>c, <3>1, <3>2, <3>5, Commanded, KnownByCall
      <4> QED BY <2>0, <2>1, <3>3, <4>1, CausalStays
    <3> QED BY <3>4, <3>5
  <2>3. CASE H!PingRedis(k)
    <3>1. H!Calls(H!Check(k), <<H!Cmd("ping", k)>>, TRUE) BY <2>3 DEF H!PingRedis
    <3>2. <<H!Cmd("ping", k)>> \in Seq(H!Commands) BY CommandTypes
    <3>3. Known(H!Cmd("result", h))' => Known(H!Cmd("result", h))
      BY <1>a, <1>c, <3>1, <3>2, Commanded, KnownByCall
    <3>4. Known(H!Cmd("request", h))' => Known(H!Cmd("request", h))
      BY <1>a, <1>c, <3>1, <3>2, Commanded, KnownByCall
    <3> QED BY <2>0, <2>1, <3>3, <3>4, CausalStays
  <2>4. CASE H!SubscribeFirst(k) \/ H!Published(k) \/ H!Answered(k) \/ H!TimesOut(k) \/ H!Pinged(k)
    <3>1. UNCHANGED <<call, executed, stray>>
      BY <2>4 DEF H!SubscribeFirst, H!Published, H!Answered, H!TimesOut, H!Pinged, H!redis
    <3> QED BY <1>s, <2>0, <2>1, <3>1
  <2> QED BY <1>1, <2>2, <2>3, <2>4 DEF H!CheckStep
<1>2. ASSUME NEW k \in Probes, H!WorkerStep(k) PROVE Causal(h)'
  <2>1. /\ UNCHANGED probe /\ (worker'[h] = "none" => worker[h] = "none")
        /\ worker[k] # "none" /\ worker'[k] # "none"
    BY <1>2, <1>b DEF H!WorkerStep, H!RecordState, H!SendAnswer, H!SendFeedEvent, H!WorkerEnds,
                      H!WorkerCalls, H!GotoWorker
  <2>2. ASSUME NEW cmds \in Seq(H!Commands), H!Calls(H!Worker(k), cmds, FALSE),
               \A i \in 1 .. Len(cmds) : cmds[i] # H!Cmd("request", h)
                                         /\ (k # h => cmds[i] # H!Cmd("result", h))
        PROVE  Causal(h)'
    <3>1. Known(H!Cmd("request", h))' => Known(H!Cmd("request", h))
      BY <1>a, <1>c, <2>2, KnownByCall
    <3>2. CASE k = h BY <2>1, <3>1, <3>2 DEF Causal
    <3>3. CASE k # h
      <4>1. Known(H!Cmd("result", h))' => Known(H!Cmd("result", h))
        BY <1>a, <1>c, <2>2, <3>3, KnownByCall
      <4> QED BY <2>1, <3>1, <4>1, CausalStays
    <3> QED BY <3>2, <3>3
  <2>3. UNCHANGED H!redis => Causal(h)'
    BY <1>s, <2>1 DEF H!redis
  <2>4. CASE H!RecordState(k)
    BY <2>2, <2>4, Commanded, CommandTypes DEF H!RecordState, H!WorkerCalls
  <2>5. CASE H!SendAnswer(k)
    BY <2>2, <2>5, Commanded, CommandTypes DEF H!SendAnswer, H!WorkerCalls
  <2>6. CASE H!SendFeedEvent(k)
    BY <2>2, <2>3, <2>6, Commanded, CommandTypes DEF H!SendFeedEvent, H!WorkerCalls
  <2>7. CASE H!WorkerEnds(k) BY <2>3, <2>7 DEF H!WorkerEnds
  <2> QED BY <1>2, <2>4, <2>5, <2>6, <2>7 DEF H!WorkerStep
<1>3. CASE H!Listen \/ H!TakeRequest \/ H!ListenerDrops \/ UNCHANGED H!vars \/ \E k \in Probes : H!AnswerDrops(k)
  <2>1. UNCHANGED <<call, executed, stray, probe>>
    BY <1>3 DEF H!Listen, H!TakeRequest, H!ListenerDrops, H!AnswerDrops, H!vars, H!redis
  <2>2. worker'[h] = "none" => worker[h] = "none"
    BY <1>3, <1>b DEF H!Listen, H!TakeRequest, H!ListenerDrops, H!AnswerDrops, H!vars, H!GotoWorker
  <2> QED BY <1>s, <2>1, <2>2
<1>4. CASE H!CycleReads
  <2>1. H!Calls(H!Cycle, <<H!Cmd("get", AugurCanis)>>, FALSE) /\ UNCHANGED <<probe, worker>>
    BY <1>4 DEF H!CycleReads
  <2>2. <<H!Cmd("get", AugurCanis)>> \in Seq(H!Commands) /\ H!Cycle \in Goroutines
    BY CommandTypes, Sides
  <2>3. Known(H!Cmd("result", h))' => Known(H!Cmd("result", h))
    BY <1>a, <2>1, <2>2, Commanded, KnownByCall
  <2>4. Known(H!Cmd("request", h))' => Known(H!Cmd("request", h))
    BY <1>a, <2>1, <2>2, Commanded, KnownByCall
  <2> QED BY <2>1, <2>3, <2>4, CausalStays
<1>5. CASE H!Crash
  <2>1. UNCHANGED probe /\ (worker'[h] = "none" => worker[h] = "none") BY <1>5 DEF H!Crash
  <2> QED BY <1>s, <1>5, <2>1
<1>6. ASSUME NEW g \in Goroutines, H!Step(g) PROVE Causal(h)'
  BY <1>6, <1>s DEF H!Step
<1>7. ASSUME NEW c \in Clients, H!RedisStep(c) PROVE Causal(h)'
  <2>1. UNCHANGED <<probe, worker>> BY <1>7 DEF H!RedisStep
  <2> QED BY <1>7, <1>s, <2>1 DEF H!RedisStep
<1>8. CASE H!StrayStep
  <2>1. UNCHANGED <<probe, worker>> BY <1>8 DEF H!StrayStep
  <2> QED BY <1>8, <1>s, <2>1 DEF H!StrayStep
<1> QED BY <1>1, <1>2, <1>3, <1>4, <1>5, <1>6, <1>7, <1>8 DEF H!Next

\* A result is known only when the request has left the check.
LEMMA ResultIsLater ==
  ASSUME HealthOrder, NEW h \in Probes, Causal(h), Known(H!Cmd("result", h))
  PROVE  probe[h] \notin {"subscribe", "publish"}
<1>1. H!Cmd("request", h) \in executed BY DEF Causal, HealthOrder, Queued
<1> QED BY <1>1 DEF Known, Causal

\* Every step keeps a check listening that nothing has failed for.
LEMMA ListensStep ==
  ASSUME H!HealthCheckConstants, HealthOrder, [H!Next]_H!vars, NEW h \in Probes, Causal(h), Listens(h)
  PROVE  Listens(h)'
<1>a. H!TypeOK BY DEF HealthOrder
<1>b. /\ DOMAIN probe = Probes /\ answer \in [Probes -> H!Subscription({"healthy"})]
      /\ answer[h] \in H!Subscription({"healthy"}) /\ faults \in Nat
  <2>1. faults \in 0 .. MaxFaults BY <1>a DEF H!TypeOK, H!ClientTypeOK
  <2>2. faults \in Nat BY <2>1, Sides
  <2> QED BY <1>a, <2>2 DEF H!TypeOK
<1>c. H!Cmd("result", h) \in executed => probe[h] \notin {"subscribe", "publish"}
  BY ResultIsLater DEF Known
<1>f. H!Fault => faults' # 0 BY <1>b DEF H!Fault
<1>s. ASSUME UNCHANGED <<faults, probe, answer, executed>> PROVE Listens(h)'
  BY <1>s DEF Listens
<1>m. ASSUME H!Messages, UNCHANGED probe, faults' = faults, executed \subseteq executed',
             H!Cmd("result", h) \in executed' => Known(H!Cmd("result", h))
      PROVE  Listens(h)'
  <2>1. answer'[h] = IF H!Cmd("result", h) \in executed' \ executed
                     THEN H!Deliver(answer[h], "healthy") ELSE answer[h]
    BY <1>m DEF H!Messages
  <2>2. H!Deliver(answer[h], "healthy").up = answer[h].up
        /\ (answer[h].up => H!Deliver(answer[h], "healthy").queue = Append(answer[h].queue, "healthy"))
    BY <1>b DEF H!Deliver, H!Subscription
  <2>3. Append(answer[h].queue, "healthy") # <<>>
    <3>1. answer[h].queue \in Seq({"healthy"}) BY <1>b DEF H!Subscription
    <3>2. Len(Append(answer[h].queue, "healthy")) = Len(answer[h].queue) + 1 /\ Len(answer[h].queue) \in Nat
      BY <3>1, AppendProperties, LenProperties
    <3> QED BY <3>2
  <2> QED BY <1>m, <2>1, <2>2, <2>3 DEF Listens
<1>1. ASSUME NEW k \in Probes, H!CheckStep(k) PROVE Listens(h)'
  <2>1. CASE k # h
    <3>1. probe'[h] = probe[h] /\ answer'[h] = answer[h]
      BY <1>1, <1>b, <2>1 DEF H!CheckStep, H!SubscribeFirst, H!PublishRequest, H!Published, H!Answered,
                        H!TimesOut, H!PingRedis, H!Pinged, H!Goto
    <3>2. executed' = executed /\ (faults' = 0 => faults = 0)
      BY <1>1, <1>f DEF H!CheckStep, H!SubscribeFirst, H!PublishRequest, H!Published, H!Answered,
                        H!TimesOut, H!PingRedis, H!Pinged, H!Calls, H!redis
    <3> QED BY <3>1, <3>2 DEF Listens
  <2>2. CASE k = h
    <3>1. CASE H!SubscribeFirst(h)
      <4>1. CASE answer' = [answer EXCEPT ![h] = H!Subscribed] /\ H!Goto(h, "publish")
        <5>1. answer'[h].up /\ probe'[h] = "publish" BY <1>b, <4>1 DEF H!Goto, H!Subscribed
        <5> QED BY <5>1 DEF Listens
      <4>2. CASE H!Fault BY <1>f, <4>2 DEF Listens
      <4> QED BY <3>1, <4>1, <4>2 DEF H!SubscribeFirst
    <3>2. CASE H!PublishRequest(h)
      <4>1. /\ probe[h] = "publish" /\ probe'[h] = "publishing"
            /\ UNCHANGED <<answer, executed, faults>>
        BY <1>b, <3>2 DEF H!PublishRequest, H!Goto, H!Calls
      <4> QED BY <1>c, <4>1 DEF Listens
    <3>3. CASE H!Published(h)
      <4>1. /\ probe[h] = "publishing" /\ probe'[h] \in {"wait", "ping"}
            /\ UNCHANGED <<answer, executed, faults>>
        BY <1>b, <3>3 DEF H!Published, H!Goto, H!redis
      <4> QED BY <4>1 DEF Listens
    <3>4. CASE H!Answered(h) \/ H!TimesOut(h) \/ H!PingRedis(h) \/ H!Pinged(h)
      <4>1. probe'[h] \in {"healthy", "unhealthy", "ping", "pinging"}
        BY <1>b, <3>4 DEF H!Answered, H!TimesOut, H!PingRedis, H!Pinged, H!Goto
      <4> QED BY <4>1 DEF Listens
    <3> QED BY <1>1, <2>2, <3>1, <3>2, <3>3, <3>4 DEF H!CheckStep
  <2> QED BY <2>1, <2>2
<1>2. ASSUME NEW k \in Probes, H!AnswerDrops(k) PROVE Listens(h)'
  BY <1>2, <1>f DEF H!AnswerDrops, Listens
<1>3. ASSUME NEW k \in Probes, H!WorkerStep(k) PROVE Listens(h)'
  <2>1. UNCHANGED <<faults, probe, answer, executed>>
    BY <1>3 DEF H!WorkerStep, H!RecordState, H!SendAnswer, H!SendFeedEvent, H!WorkerEnds,
                H!WorkerCalls, H!Calls, H!redis
  <2> QED BY <1>s, <2>1
<1>4. CASE H!Listen \/ H!TakeRequest \/ H!ListenerDrops \/ UNCHANGED H!vars \/ H!CycleReads \/ H!Crash
  <2>1. UNCHANGED <<probe, answer, executed>> /\ (faults' = faults \/ H!Fault)
    BY <1>4 DEF H!Listen, H!TakeRequest, H!ListenerDrops, H!CycleReads, H!Crash, H!Calls, H!vars, H!redis
  <2> QED BY <1>f, <1>s, <2>1 DEF Listens
<1>5. ASSUME NEW g \in Goroutines, H!Step(g) PROVE Listens(h)'
  <2>1. UNCHANGED <<probe, answer, executed>> /\ (faults' = faults \/ H!Fault)
    BY <1>5 DEF H!Step, H!ClientStep, H!Lock, H!Send, H!ReadReply, H!ReadFails
  <2> QED BY <1>f, <1>s, <2>1 DEF Listens
<1>6. ASSUME NEW c \in Clients, H!RedisStep(c) PROVE Listens(h)'
  <2>1. CASE H!Fault BY <1>f, <2>1 DEF Listens
  <2>2. CASE H!Execute(c) /\ H!Messages /\ UNCHANGED faults
    <3>1. H!Cmd("result", h) \in executed' => Known(H!Cmd("result", h))
      <4>1. SUFFICES ASSUME H!Cmd("result", h) \in executed' PROVE Known(H!Cmd("result", h))
        OBVIOUS
      <4>2. Known(H!Cmd("result", h))' BY <4>1 DEF Known
      <4> QED BY <2>2, <4>2, StepKnows
    <3>2. UNCHANGED probe /\ executed \subseteq executed' BY <1>6, <2>2 DEF H!RedisStep, H!Execute
    <3> QED BY <1>m, <2>2, <3>1, <3>2
  <2> QED BY <1>6, <2>1, <2>2 DEF H!RedisStep, H!Execute, H!Break
<1>7. CASE H!StrayStep
  <2>1. PICK s \in stray : H!ExecuteStray(s) BY <1>7 DEF H!StrayStep
  <2>2. UNCHANGED <<probe, faults>> /\ executed \subseteq executed' /\ H!Messages
    BY <1>7, <2>1 DEF H!StrayStep, H!ExecuteStray
  <2>3. H!Cmd("result", h) \in executed' => Known(H!Cmd("result", h))
    <3>1. SUFFICES ASSUME H!Cmd("result", h) \in executed' PROVE Known(H!Cmd("result", h))
      OBVIOUS
    <3>2. Known(H!Cmd("result", h))' BY <3>1 DEF Known
    <3> QED BY <2>1, <3>2, StepKnows
  <2> QED BY <1>m, <2>2, <2>3
<1> QED BY <1>1, <1>2, <1>3, <1>4, <1>5, <1>6, <1>7 DEF H!Next

\* As long as nothing fails, a check that waits and was answered has the answer before it: it
\* subscribes before it publishes its request, so that no answer comes too early to be heard.
THEOREM AnswersAreAlwaysHeard == ASSUME H!HealthCheckConstants PROVE H!Spec => []H!AnswerIsHeard
<1>1. H!Init => HealthHeard
  <2>1. SUFFICES ASSUME H!Init PROVE HealthHeard OBVIOUS
  <2>2. HealthOrder BY <2>1, OrderStart
  <2>3. /\ executed = {} /\ stray = {} /\ \A g \in Goroutines : call[g].cmds = <<>>
        /\ \A h \in Probes : probe[h] = "subscribe"
    BY <2>1 DEF H!Init, H!ClientInit, H!Idle
  <2>4. \A h \in Probes : Causal(h) /\ Listens(h)
    BY <2>3 DEF Causal, Listens, Known
  <2> QED BY <2>2, <2>4 DEF HealthHeard
<1>2. HealthHeard /\ [H!Next]_H!vars => HealthHeard'
  BY OrderStep, CausalStep, ListensStep DEF HealthHeard
<1>3. HealthHeard => H!AnswerIsHeard BY DEF HealthHeard, Listens, H!AnswerIsHeard
<1> QED BY <1>1, <1>2, <1>3, PTL DEF H!Spec
=============================================================================
