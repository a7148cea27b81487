--------------------------- MODULE AlertLifecycle ---------------------------
(***************************************************************************)
(* The alert lifecycle of Augur Canis (augur-canis/main.go): the silence   *)
(* detector's ticker goroutine, the goroutines that process health checks  *)
(* and the admin handlers that acknowledge alerts, interleaved at the      *)
(* granularity of Redis commands.  RedisClient.do and Pipeliner.Exec hold  *)
(* the client's mutex for a whole command or batch, so one step of this    *)
(* module is one command or one pipeline; everything an actor has read     *)
(* from Redis may be stale by its next step.  A pipeline is no transaction *)
(* ("No MULTI/EXEC"): when one fails, any part of it may have taken effect.*)
(*                                                                         *)
(* The check itself is a stub in the code (healthy = 1, latency = 1ms), so *)
(* the drift and failure-rate detectors never fire and every alert is a    *)
(* silence alert.                                                          *)
(***************************************************************************)
EXTENDS Integers, FiniteSets, Sequences

CONSTANTS
  Services,        \* service names that send health checks
  Containers,      \* container IDs (HOSTNAME) the checks come from
  Checks,          \* slots for concurrent processCheckRequest goroutines
  Acks,            \* slots for concurrent acknowledge requests
  Detector,        \* the silence detector's goroutine
  Nil,             \* Redis nil: the key does not exist
  Acknowledged,    \* the non-numeric value acknowledgeAlert puts in bark_count
  MaxInitialBarks, \* MAX_INITIAL_BARKS
  SlowHandlers,    \* may a handler outlast the silence threshold?
  MaxSilences, MaxFaults, MaxCrashes  \* bounds on the environment

\* checkSilence recovers a service's name from the key ac:state:<name>:last_seen by
\* cutting 9 characters off its end, and ":last_seen" has 10: the colon stays.
AlertName(s) == <<s, ":">>

\* The names that occur in alert keys: the detector's and the checks'.
Names == Services \cup {AlertName(s) : s \in Services}

ASSUME ConstantsAssumption ==
  /\ Checks \cap Acks = {}
  /\ Detector \notin Checks \cup Acks
  /\ Nil \notin Names \cup Containers \cup Nat
  /\ \A s \in Services : AlertName(s) \notin Services
  /\ Acknowledged \notin Nat \cup {Nil}
  /\ MaxInitialBarks \in Nat \ {0}
  /\ SlowHandlers \in BOOLEAN
  /\ MaxSilences \in Nat /\ MaxFaults \in Nat /\ MaxCrashes \in Nat

Procs == {Detector} \cup Checks \cup Acks
Resolvers == {Detector} \cup Checks

VARIABLES
  lastSeen, prev, \* Redis, per service: last_seen and last_container_id:prev
  \* Redis, per name: the alert's keys
  alertActive, alertId, alertType, barkCount, lastBark,
  alertById,      \* ac:alert:<id>, as a set of [id, service] records
  feed,           \* every message published on tca:augur-canis:alerts
  \* the goroutines: where each one is and the service and alert it holds
  pc, svc, aid,
  \* locals of the detector's goroutine
  todo, seen, count, last, kind,
  container,      \* the check request's container, per check slot
  nextId,         \* UnixNano is only ever used as a fresh alert ID
  silences, faults, crashes,  \* what the environment has done so far
  half            \* history: names whose last pipeline to change the record was cut

keys == <<lastSeen, prev, alertById>>
alert == <<alertActive, alertId, alertType, barkCount, lastBark>>
locals == <<todo, seen, count, last, kind, container>>
env == <<silences, crashes, half>>
vars == <<keys, alert, feed, pc, svc, aid, locals, nextId, env, faults>>

Steps == {"idle", "scan", "active", "fire", "count", "last", "id", "setCount",
          "setLast", "type", "resolve", "clear", "resolved", "bark",
          "prev", "replaced", "setPrev",
          "verify", "mark", "acked"}
Kinds == {"fired", "ongoing", "reminder", "ack", "resolved"}
Message == [kind: Kinds, service: Names, id: Nat]

TypeOK ==
  /\ lastSeen \in [Services -> {"never", "fresh", "stale"}]
  /\ prev \in [Services -> Containers \cup {Nil}]
  /\ alertActive \in [Names -> {0, 1}]         \* 0: no key
  /\ alertId \in [Names -> Nat]              \* 0: the key does not exist
  /\ alertType \in [Names -> {"silence", "none"}]
  /\ barkCount \in [Names -> Nat \cup {Nil, Acknowledged}]
  /\ lastBark \in [Names -> {"none", "recent", "due"}]
  /\ alertById \in SUBSET [id: Nat, service: Names]
  /\ feed \in SUBSET Message
  /\ pc \in [Procs -> Steps]
  /\ svc \in [Procs -> Names \cup {Nil}]
  /\ aid \in [Procs -> Nat]
  /\ todo \in SUBSET Services
  /\ seen \in {"never", "fresh", "stale"}
  /\ count \in Nat \cup {-1}
  /\ last \in {"none", "recent", "due"}
  /\ kind \in Kinds
  /\ container \in [Checks -> Containers \cup {Nil}]
  /\ nextId \in Nat \ {0}
  /\ silences \in Nat /\ faults \in Nat /\ crashes \in Nat
  /\ half \in SUBSET Names

Init ==
  /\ lastSeen = [s \in Services |-> "never"]
  /\ prev = [s \in Services |-> Nil]
  /\ alertActive = [n \in Names |-> 0]
  /\ alertId = [n \in Names |-> 0]
  /\ alertType = [n \in Names |-> "none"]
  /\ barkCount = [n \in Names |-> Nil]
  /\ lastBark = [n \in Names |-> "none"]
  /\ alertById = {} /\ feed = {}
  /\ pc = [p \in Procs |-> "idle"]
  /\ svc = [p \in Procs |-> Nil]
  /\ aid = [p \in Procs |-> 0]
  /\ todo = {} /\ seen = "never" /\ count = 0 /\ last = "none"
  /\ kind = "fired"
  /\ container = [c \in Checks |-> Nil]
  /\ nextId = 1
  /\ silences = 0 /\ faults = 0 /\ crashes = 0 /\ half = {}

-----------------------------------------------------------------------------
(* A Redis command can fail.  Every caller here drops the error: a GET that *)
(* fails looks like a missing key, a SET or a pipeline that fails like one  *)
(* that worked.                                                             *)
Fault == faults < MaxFaults /\ faults' = faults + 1

Reply(r, value) == IF r = value THEN UNCHANGED faults ELSE Fault

Publish(m) == \/ feed' = feed \cup {m} /\ UNCHANGED faults
              \/ Fault /\ UNCHANGED feed

At(p, step) == pc[p] = step
Goto(p, step) == pc' = [pc EXCEPT ![p] = step]

\* The goroutine's function returns and its locals die with it.
Return(p, step) ==
  /\ Goto(p, step)
  /\ svc' = [svc EXCEPT ![p] = Nil]
  /\ aid' = [aid EXCEPT ![p] = 0]

\* strconv.Atoi with its error dropped.
Atoi(b) == IF b \in Nat THEN b ELSE 0

\* The pipelines of resolveAlert and fireAlert: the keys of the record in the order of the
\* commands (alert_first_at, which nothing but messages shows, is left out), and the entry
\* by ID.
ClearCommands == <<"active", "id", "type", "count", "last">>
FireCommands == Append(ClearCommands, "byId")

\* What Redis executes of a pipeline: all of it, or, when Exec fails, the commands before
\* the one at which the connection broke or the process died, or all but one that Redis
\* refused (an error reply ends the reading of replies, not the execution).
All(commands) == {commands[i] : i \in DOMAIN commands}
Parts(commands) ==
  {{commands[i] : i \in 1 .. k - 1} : k \in DOMAIN commands} \cup
  {All(commands) \ {commands[k]} : k \in DOMAIN commands}

\* Pipeliner.Exec on the record of n, which executes `done`; the caller drops the results.
Executes(n, commands, done) ==
  \/ done = All(commands) /\ half' = half \ {n} /\ UNCHANGED faults
  \/ /\ done \in Parts(commands) /\ Fault
     /\ half' = IF done = {} THEN half ELSE half \cup {n}

\* One command of a pipeline, if it is among those executed.
Put(f, n, value, executed) == IF executed THEN [f EXCEPT ![n] = value] ELSE f

\* Mutants of Del: one key is left out of the pipeline.
DelKeepingActive(n, done) ==
  /\ alertId' = Put(alertId, n, 0, "id" \in done)
  /\ alertType' = Put(alertType, n, "none", "type" \in done)
  /\ barkCount' = Put(barkCount, n, Nil, "count" \in done)
  /\ lastBark' = Put(lastBark, n, "none", "last" \in done)
  /\ UNCHANGED alertActive

DelKeepingType(n, done) ==
  /\ alertActive' = Put(alertActive, n, 0, "active" \in done)
  /\ alertId' = Put(alertId, n, 0, "id" \in done)
  /\ barkCount' = Put(barkCount, n, Nil, "count" \in done)
  /\ lastBark' = Put(lastBark, n, "none", "last" \in done)
  /\ UNCHANGED alertType

\* The DELs of resolveAlert's pipeline.
Del(n, done) ==
  /\ alertActive' = Put(alertActive, n, 0, "active" \in done)
  /\ alertId' = Put(alertId, n, 0, "id" \in done)
  /\ alertType' = Put(alertType, n, "none", "type" \in done)
  /\ barkCount' = Put(barkCount, n, Nil, "count" \in done)
  /\ lastBark' = Put(lastBark, n, "none", "last" \in done)

-----------------------------------------------------------------------------
(* checkSilence: one cycle of the silence detector.                         *)

\* Mutant of Tracked: only the services seen in time are scanned.
TrackedFresh == {s \in Services : lastSeen[s] = "fresh"}

\* KEYS ac:state:*:last_seen
Tracked == {s \in Services : lastSeen[s] # "never"}

StartScan ==
  /\ At(Detector, "idle")
  /\ \/ /\ Goto(Detector, "scan")
        /\ todo' = Tracked
        /\ UNCHANGED faults
     \/ Fault /\ UNCHANGED <<pc, todo>>
  /\ UNCHANGED <<keys, alert, feed, svc, aid, seen, count, last, kind,
                 container, nextId, env>>

EndScan ==
  /\ At(Detector, "scan") /\ todo = {}
  /\ Goto(Detector, "idle")
  /\ UNCHANGED <<keys, alert, feed, svc, aid, locals, nextId, env, faults>>

ReadLastSeen(s) ==
  /\ At(Detector, "scan") /\ s \in todo
  /\ todo' = todo \ {s}
  /\ \/ /\ seen' = lastSeen[s]
        /\ Goto(Detector, "active")
        /\ svc' = [svc EXCEPT ![Detector] = AlertName(s)]
        /\ UNCHANGED faults
     \/ Fault /\ UNCHANGED <<seen, pc, svc>>
  /\ UNCHANGED <<keys, alert, feed, aid, count, last, kind, container,
                 nextId, env>>

\* Mutant of ReadActive: a silent service's alert_active is not tested.
ReadActiveUntested ==
  /\ At(Detector, "active")
  /\ \E r \in {alertActive[svc[Detector]], 0} :
       /\ Reply(r, alertActive[svc[Detector]])
       /\ \/ seen = "stale" /\ Goto(Detector, "fire") /\ UNCHANGED <<svc, aid>>
          \/ seen # "stale" /\ r = 1 /\ Goto(Detector, "type") /\ UNCHANGED <<svc, aid>>
          \/ seen # "stale" /\ r # 1 /\ Return(Detector, "scan")
  /\ seen' = "never"
  /\ UNCHANGED <<keys, alert, feed, todo, count, last, kind, container, nextId,
                 env>>

ReadActive ==
  LET value == alertActive[svc[Detector]]
      silent == seen = "stale" IN
  /\ At(Detector, "active")
  /\ \E r \in {value, 0} :
       /\ Reply(r, value)
       /\ \/ silent /\ r # 1 /\ Goto(Detector, "fire") /\ UNCHANGED <<svc, aid>>
          \/ silent /\ r = 1 /\ Goto(Detector, "count") /\ UNCHANGED <<svc, aid>>
          \/ ~silent /\ r = 1 /\ Goto(Detector, "type") /\ UNCHANGED <<svc, aid>>
          \/ ~silent /\ r # 1 /\ Return(Detector, "scan")
  /\ seen' = "never"
  /\ UNCHANGED <<keys, alert, feed, todo, count, last, kind, container, nextId,
                 env>>

\* Mutant of NextTick: two alerts fire within one tick of the clock.
SameTick == nextId

\* The nanosecond clock moves between two alerts.
NextTick == nextId + 1

\* fireAlert: the pipeline that creates the alert, then the first bark.
Fire ==
  LET n == svc[Detector] IN
  /\ At(Detector, "fire")
  /\ nextId' = NextTick
  /\ \E done \in SUBSET All(FireCommands) :
       /\ Executes(n, FireCommands, done)
       /\ alertActive' = Put(alertActive, n, 1, "active" \in done)
       /\ alertId' = Put(alertId, n, nextId, "id" \in done)
       /\ alertType' = Put(alertType, n, "silence", "type" \in done)
       /\ barkCount' = Put(barkCount, n, 1, "count" \in done)
       /\ lastBark' = Put(lastBark, n, "recent", "last" \in done)
       /\ alertById' = alertById \cup
            (IF "byId" \in done THEN {[id |-> nextId, service |-> n]} ELSE {})
  /\ Goto(Detector, "bark")
  /\ aid' = [aid EXCEPT ![Detector] = nextId]
  /\ count' = 1 /\ kind' = "fired"
  /\ UNCHANGED <<lastSeen, prev, feed, svc, todo, seen, last, container, silences,
                 crashes>>

\* handleOngoingAlert: GET bark_count, last_bark_at, alert_id ...
ReadCount ==
  LET value == barkCount[svc[Detector]] IN
  /\ At(Detector, "count")
  /\ \E r \in {value, Nil} : Reply(r, value) /\ count' = Atoi(r)
  /\ Goto(Detector, "last")
  /\ UNCHANGED <<keys, alert, feed, svc, aid, todo, seen, last, kind,
                 container, nextId, env>>

ReadLast ==
  LET value == lastBark[svc[Detector]] IN
  /\ At(Detector, "last")
  /\ \E r \in {value, "none"} : Reply(r, value) /\ last' = r
  /\ Goto(Detector, "id")
  /\ UNCHANGED <<keys, alert, feed, svc, aid, todo, seen, count, kind,
                 container, nextId, env>>

\* ... and the choice between the initial barks, a reminder and nothing.
ReadId ==
  LET value == alertId[svc[Detector]] IN
  /\ At(Detector, "id")
  /\ \E r \in {value, 0} :
       /\ Reply(r, value)
       /\ \/ /\ count < MaxInitialBarks
             /\ Goto(Detector, "setCount")
             /\ aid' = [aid EXCEPT ![Detector] = r]
             /\ count' = count + 1 /\ kind' = "ongoing"
             /\ UNCHANGED svc
          \/ /\ count >= MaxInitialBarks /\ last = "due"
             /\ Goto(Detector, "setLast")
             /\ aid' = [aid EXCEPT ![Detector] = r]
             /\ count' = -1 /\ kind' = "reminder"
             /\ UNCHANGED svc
          \/ /\ count >= MaxInitialBarks /\ last # "due"
             /\ Return(Detector, "scan")
             /\ count' = 0 /\ UNCHANGED kind
  /\ last' = "none"
  /\ UNCHANGED <<keys, alert, feed, todo, seen, container, nextId, env>>

SetCount ==
  /\ At(Detector, "setCount")
  /\ \/ barkCount' = [barkCount EXCEPT ![svc[Detector]] = count] /\ UNCHANGED faults
     \/ Fault /\ UNCHANGED barkCount
  /\ Goto(Detector, "setLast")
  /\ UNCHANGED <<keys, alertActive, alertId, alertType, lastBark, feed, svc, aid,
                 locals, nextId, env>>

SetLast ==
  /\ At(Detector, "setLast")
  /\ \/ lastBark' = [lastBark EXCEPT ![svc[Detector]] = "recent"] /\ UNCHANGED faults
     \/ Fault /\ UNCHANGED lastBark
  /\ Goto(Detector, "bark")
  /\ UNCHANGED <<keys, alertActive, alertId, alertType, barkCount, feed, svc, aid,
                 locals, nextId, env>>

\* The bark that ends fireAlert or handleOngoingAlert.
Bark ==
  /\ At(Detector, "bark")
  /\ Publish([kind |-> kind, service |-> svc[Detector], id |-> aid[Detector]])
  /\ Return(Detector, "scan")
  /\ count' = 0 /\ kind' = "fired"
  /\ UNCHANGED <<keys, alert, todo, seen, last, container, nextId, env>>

\* The service is back: resolve, if the alert is a silence alert.
ReadType ==
  LET value == alertType[svc[Detector]] IN
  /\ At(Detector, "type")
  /\ \E r \in {value, "none"} :
       /\ Reply(r, value)
       /\ \/ r = "silence" /\ Goto(Detector, "resolve") /\ UNCHANGED <<svc, aid>>
          \/ r # "silence" /\ Return(Detector, "scan")
  /\ UNCHANGED <<keys, alert, feed, locals, nextId, env>>

-----------------------------------------------------------------------------
(* resolveAlert, called by the detector and by the check goroutines: read   *)
(* the ID, delete the alert's keys in one pipeline, publish "resolved".     *)

\* Mutant of ResolveReadId: the ID is read when its key is already deleted.
ResolveReadIdLate(p) ==
  /\ At(p, "resolve")
  /\ aid' = [aid EXCEPT ![p] = 0]
  /\ Goto(p, "clear")
  /\ UNCHANGED <<keys, alert, feed, svc, locals, nextId, env, faults>>

ResolveReadId(p) ==
  /\ At(p, "resolve")
  /\ \E r \in {alertId[svc[p]], 0} :
       /\ Reply(r, alertId[svc[p]])
       /\ aid' = [aid EXCEPT ![p] = r]
  /\ Goto(p, "clear")
  /\ UNCHANGED <<keys, alert, feed, svc, locals, nextId, env>>

Clear(p) ==
  /\ At(p, "clear")
  /\ \E done \in SUBSET All(ClearCommands) :
       Executes(svc[p], ClearCommands, done) /\ Del(svc[p], done)
  /\ Goto(p, "resolved")
  /\ UNCHANGED <<keys, feed, svc, aid, locals, nextId, silences, crashes>>

BarkResolved(p) ==
  /\ At(p, "resolved")
  /\ Publish([kind |-> "resolved", service |-> svc[p], id |-> aid[p]])
  /\ IF p = Detector
       THEN Return(p, "scan")
       ELSE Goto(p, "setPrev") /\ aid' = [aid EXCEPT ![p] = 0] /\ UNCHANGED svc
  /\ UNCHANGED <<keys, alert, locals, nextId, env>>

-----------------------------------------------------------------------------
(* processCheckRequest: recordHealthState and checkContainerReplacement.    *)

\* recordHealthState: one pipeline, whose error is dropped.
RecordHealthState(s) ==
  \/ lastSeen' = [lastSeen EXCEPT ![s] = "fresh"] /\ UNCHANGED faults
  \/ Fault /\ UNCHANGED lastSeen

\* A message on tca:check-requests starts a goroutine that first records the
\* service's health.  A check that names no container (Nil) ends there.
Receive(c, s, k) ==
  /\ At(c, "idle")
  /\ RecordHealthState(s)
  /\ IF k = Nil
       THEN UNCHANGED <<pc, svc, container>>
       ELSE /\ Goto(c, "prev")
            /\ svc' = [svc EXCEPT ![c] = s]
            /\ container' = [container EXCEPT ![c] = k]
  /\ UNCHANGED <<prev, alertById, alert, feed, aid, todo, seen, count, last,
                 kind, nextId, env>>

EndCheck(c) ==
  /\ Return(c, "idle")
  /\ container' = [container EXCEPT ![c] = Nil]

\* GET ...:prev tests "not ok" before the error, so a failed GET is taken for
\* the service's first check.
ReadPrev(c) ==
  /\ At(c, "prev")
  /\ \E r \in {prev[svc[c]], Nil} :
       /\ Reply(r, prev[svc[c]])
       /\ \/ r = Nil /\ Goto(c, "setPrev") /\ UNCHANGED <<svc, aid, container>>
          \/ r = container[c] /\ EndCheck(c)
          \/ /\ r \notin {Nil, container[c]}
             /\ Goto(c, "replaced") /\ UNCHANGED <<svc, aid, container>>
  /\ UNCHANGED <<keys, alert, feed, todo, seen, count, last, kind, nextId, env>>

ReadActiveOnReplace(c) ==
  /\ At(c, "replaced")
  /\ \E r \in {alertActive[svc[c]], 0} :
       /\ Reply(r, alertActive[svc[c]])
       /\ Goto(c, IF r = 1 THEN "resolve" ELSE "setPrev")
  /\ UNCHANGED <<keys, alert, feed, svc, aid, locals, nextId, env>>

SetPrev(c) ==
  /\ At(c, "setPrev")
  /\ \/ prev' = [prev EXCEPT ![svc[c]] = container[c]] /\ UNCHANGED faults
     \/ Fault /\ UNCHANGED prev
  /\ EndCheck(c)
  /\ UNCHANGED <<lastSeen, alertById, alert, feed, todo, seen, count, last, kind,
                 nextId, env>>

-----------------------------------------------------------------------------
(* acknowledgeAlert, in an admin API handler.                               *)

\* A request for alert e.id whose lookup key is found; when it is not (its TTL of
\* 24h is never refreshed) or the GET fails, the handler answers 404 and changes
\* nothing.  Expiry is that choice: alertById itself keeps every entry.
RequestAck(k, e) ==
  /\ At(k, "idle")
  /\ Goto(k, "verify")
  /\ svc' = [svc EXCEPT ![k] = e.service]
  /\ aid' = [aid EXCEPT ![k] = e.id]
  /\ UNCHANGED <<keys, alert, feed, locals, nextId, env, faults>>

Verify(k) ==
  /\ At(k, "verify")
  /\ \E r \in {alertId[svc[k]], 0} :
       /\ Reply(r, alertId[svc[k]])
       /\ \/ r = aid[k] /\ Goto(k, "mark") /\ UNCHANGED <<svc, aid>>
          \/ r # aid[k] /\ Return(k, "idle")
  /\ UNCHANGED <<keys, alert, feed, locals, nextId, env>>

Mark(k) ==
  /\ At(k, "mark")
  /\ \/ barkCount' = [barkCount EXCEPT ![svc[k]] = Acknowledged] /\ UNCHANGED faults
     \/ Fault /\ UNCHANGED barkCount
  /\ Goto(k, "acked")
  /\ UNCHANGED <<keys, alertActive, alertId, alertType, lastBark, feed, svc, aid,
                 locals, nextId, env>>

BarkAck(k) ==
  /\ At(k, "acked")
  /\ Publish([kind |-> "ack", service |-> svc[k], id |-> aid[k]])
  /\ Return(k, "idle")
  /\ UNCHANGED <<keys, alert, locals, nextId, env>>

-----------------------------------------------------------------------------
(* Time, and the crash of the process (also its os.Exit on SIGTERM).        *)

\* The thresholds (90s and 30s) are much longer than a handler: unless
\* SlowHandlers, they do not run out while one is under way.
Unhurried == SlowHandlers \/ \A p \in Procs : At(p, "idle")

FallSilent(s) ==
  /\ lastSeen[s] = "fresh" /\ silences < MaxSilences /\ Unhurried
  /\ lastSeen' = [lastSeen EXCEPT ![s] = "stale"]
  /\ silences' = silences + 1
  /\ UNCHANGED <<prev, alertById, alert, feed, pc, svc, aid, locals, nextId,
                 crashes, half, faults>>

ReminderDue(n) ==
  /\ lastBark[n] = "recent" /\ Unhurried
  /\ lastBark' = [lastBark EXCEPT ![n] = "due"]
  /\ UNCHANGED <<keys, alertActive, alertId, alertType, barkCount, feed, pc, svc,
                 aid, locals, nextId, env, faults>>

Crash ==
  /\ crashes < MaxCrashes
  /\ crashes' = crashes + 1
  /\ pc' = [p \in Procs |-> "idle"]
  /\ svc' = [p \in Procs |-> Nil]
  /\ aid' = [p \in Procs |-> 0]
  /\ todo' = {} /\ seen' = "never" /\ count' = 0 /\ last' = "none"
  /\ kind' = "fired"
  /\ container' = [c \in Checks |-> Nil]
  /\ UNCHANGED <<keys, alert, feed, nextId, silences, half, faults>>

-----------------------------------------------------------------------------
DetectorStep ==
  \/ StartScan \/ EndScan \/ (\E s \in Services : ReadLastSeen(s))
  \/ ReadActive \/ Fire \/ ReadCount \/ ReadLast \/ ReadId \/ SetCount
  \/ SetLast \/ Bark \/ ReadType

CheckStep(c) == ReadPrev(c) \/ ReadActiveOnReplace(c) \/ SetPrev(c)

Resolve(p) == ResolveReadId(p) \/ Clear(p) \/ BarkResolved(p)

AckStep(k) == Verify(k) \/ Mark(k) \/ BarkAck(k)

Environment ==
  \/ \E c \in Checks, s \in Services, k \in Containers \cup {Nil} : Receive(c, s, k)
  \/ \E k \in Acks, e \in alertById : RequestAck(k, e)
  \/ \E s \in Services : FallSilent(s)
  \/ \E n \in Names : ReminderDue(n)
  \/ Crash

Next ==
  \/ DetectorStep
  \/ \E c \in Checks : CheckStep(c)
  \/ \E p \in Resolvers : Resolve(p)
  \/ \E k \in Acks : AckStep(k)
  \/ Environment

Spec == Init /\ [][Next]_vars

\* The ticker keeps firing, the Go scheduler runs every goroutine and the clock
\* advances between two cycles; checks, requests, silences, faults and crashes are
\* the environment's and never owed.
FairSpec ==
  /\ Spec
  /\ WF_vars(DetectorStep \/ Resolve(Detector))
  /\ \A c \in Checks : WF_vars(CheckStep(c) \/ Resolve(c))
  /\ \A k \in Acks : WF_vars(AckStep(k))
  /\ \A n \in Names : SF_vars(ReminderDue(n))

-----------------------------------------------------------------------------
(* Properties.                                                              *)

Resolved(a) == \E m \in feed : m.kind = "resolved" /\ m.id = a

\* The record of a name is half an alert only as long as the last pipeline that changed
\* it was cut.  Whatever handlers interleave or crash and whatever commands fail, every
\* other name with an active alert has its ID, its type, a bark count, a time of the last
\* bark and the entry that leads an acknowledgment back to it, and every other name
\* without one has no ID and no type: the next complete pipeline, of a new alert or of a
\* resolution that a late handler runs, leaves nothing of a half behind, and the single
\* SETs of handleOngoingAlert and acknowledgeAlert make none.
RecordConsistent ==
  \A n \in Names \ half :
    /\ alertActive[n] = 1 <=> alertId[n] # 0
    /\ alertActive[n] = 1 <=> alertType[n] = "silence"
    /\ alertActive[n] = 1 => barkCount[n] # Nil /\ lastBark[n] # "none"
    /\ alertActive[n] = 1 => [id |-> alertId[n], service |-> n] \in alertById

\* An alert ID never crosses services: every message on the alerts channel that
\* names an alert names the service it was fired for, and so does the service's
\* record, although the actors carry the ID and the service across many steps.
AlertsDoNotMix ==
  /\ \A m1, m2 \in feed : m1.id = m2.id /\ m1.id # 0 => m1.service = m2.service
  /\ \A n \in Names, m \in feed :
       m.id = alertId[n] /\ m.id # 0 => m.service = n
  /\ \A n, t \in Names : alertId[n] = alertId[t] /\ alertId[n] # 0 => n = t

\* While no Redis command has failed, an alert whose resolution was announced is
\* gone: no record holds it again (resolveAlert deletes first, then barks, and an
\* acknowledgment or a crash in between does not bring it back).
ResolvedMeansGone ==
  faults = 0 => \A n \in Names : alertId[n] # 0 => ~Resolved(alertId[n])

\* While no Redis command fails (MaxFaults = 0), the lifecycle implements the alert
\* board: a silence raises an alert only where there is none and an active alert is
\* never overwritten, though checkSilence tests alert_active a round-trip before
\* fireAlert writes it, may die between any two commands and starts over from Redis.
Board == INSTANCE AlertBoard WITH Services <- Names, current <- alertId,
                                  issued <- nextId - 1
ImplementsBoard == Board!Spec

\* A service that stays silent gets an active alert, whatever crashes and failed
\* commands (finitely many) intervene.
SilenceIsReported ==
  \A s \in Services :
    [](lastSeen[s] = "stale" =>
         <>(alertActive[AlertName(s)] = 1 \/ lastSeen[s] # "stale"))

\* An alert that stays active is announced under its own ID, even when the
\* process died between writing the record and the first bark.
ActiveIsAnnounced ==
  \A n \in Names :
    [](alertActive[n] = 1 =>
         <>(alertActive[n] = 0 \/ \E m \in feed :
              m.kind # "ack" /\ m.id = alertId[n]))

\* A service that is seen again and stays so loses its alert.
ReturnClearsAlert ==
  \A s \in Services :
    [](lastSeen[s] = "fresh" =>
         <>(alertActive[AlertName(s)] = 0 \/ lastSeen[s] # "fresh"))

\* An alert that was announced ends once its service is back for good.  Whatever fails or
\* crashes, even in the middle of a pipeline, its record goes, unless what a pipeline left
\* of it has lost the flag or the type by which checkSilence finds an alert to resolve;
\* and unless a command failed or the process died, it is announced as resolved.
AnnouncedIsResolved ==
  \A s \in Services, a \in 1 .. MaxSilences + MaxFaults :
    LET n == AlertName(s) IN
    <>[](lastSeen[s] = "fresh") =>
      ([kind |-> "fired", service |-> n, id |-> a] \in feed
         ~> /\ alertId[n] # a \/ alertActive[n] = 0 \/ alertType[n] = "none"
            /\ Resolved(a) \/ faults > 0 \/ crashes > 0)

-----------------------------------------------------------------------------
(* What comments and docs say and augur-canis/main.go does not do.          *)

\* "Acknowledgment -> stop barking": the sequence of barks does not start over at
\* bark 1 once the acknowledgment of the alert has been announced (a bark already
\* under way when the administrator acknowledges is allowed).
AckStopsBarking ==
  [][\A m \in feed' \ feed :
       m.kind = "ongoing" /\ count = 1 =>
         ~\E a \in feed : a.kind = "ack" /\ a.id = m.id]_vars
=============================================================================
