----------------------------- MODULE HealthCheck -----------------------------
(***************************************************************************)
(* The health check of a container (healthcheck/main.go) and the goroutines *)
(* of Augur Canis that answer it (augur-canis/main.go), each over its Redis  *)
(* client: one process per check with a client of its own; in Augur Canis a  *)
(* goroutine per request and the cycles of its alerts, all on one client.    *)
(* Augur Canis answers healthy to every request; what can go wrong is the    *)
(* way there and back.                                                       *)
(***************************************************************************)
EXTENDS RedisClient, RedisFeed, HealthPromise

CONSTANTS
  AugurCanis,
  MaxCrashes

HealthCheckConstants ==
  /\ RedisClientConstants
  /\ AugurCanis \notin Probes
  /\ Goroutines = {"check", "worker"} \X Probes \cup {<<"cycle", AugurCanis>>}
  /\ Clients = Probes \cup {AugurCanis}
  /\ Owner = [g \in Goroutines |-> IF g[1] = "check" THEN g[2] ELSE AugurCanis]
  /\ MaxCrashes \in Nat

ASSUME HealthCheckAssumption == HealthCheckConstants

VARIABLES
  answer,   \* each check's subscription to its result channel
  listener, \* handleCheckRequests: where it is, its subscription
  worker,   \* where processCheckRequest is, per request
  crashes

vars == <<redis, probe, answer, listener, worker, hurt, crashes>>

Check(h) == <<"check", h>>
Worker(h) == <<"worker", h>>
Cycle == <<"cycle", AugurCanis>>
Ended == {"healthy", "unhealthy"}

Commands ==
  {"request", "result", "ping", "seen", "copy", "feed", "get"} \X (Probes \cup {AugurCanis})

TypeOK ==
  /\ ClientTypeOK(Commands)
  /\ probe \in [Probes -> Ended \cup {"subscribe", "publish", "publishing", "wait", "ping", "pinging"}]
  /\ answer \in [Probes -> Subscription({"healthy"})]
  /\ listener \in [at: {"connect", "read", "sleep"}, sub: Subscription(Probes)]
  /\ worker \in [Probes -> {"none", "record", "recording", "answering", "feeding", "done", "gone"}]
  /\ hurt \subseteq Probes /\ crashes \in 0 .. MaxCrashes

Init ==
  /\ ClientInit
  /\ probe = [h \in Probes |-> "subscribe"]
  /\ answer = [h \in Probes |-> Unsubscribed]
  /\ listener = [at |-> "connect", sub |-> Unsubscribed]
  /\ worker = [h \in Probes |-> "none"]
  /\ hurt = {} /\ crashes = 0

Goto(h, step) == probe' = [probe EXCEPT ![h] = step]
GotoWorker(h, step) == worker' = [worker EXCEPT ![h] = step]
Calling(g) == call[g].at \in {"lock", "send", "read"}

\* The step starts a call; what the calls leave alone.
Calls(g, cmds, deadline) ==
  Begin(g, cmds, deadline) /\ UNCHANGED <<holder, link, acked, stray, executed, faults>>

-----------------------------------------------------------------------------
(* healthcheck                                                              *)

\* The result channel is subscribed to on a connection of its own, before the request.
SubscribeFirst(h) ==
  /\ probe[h] = "subscribe"
  /\ \/ /\ answer' = [answer EXCEPT ![h] = Subscribed]
        /\ Goto(h, "publish") /\ UNCHANGED <<faults, hurt>>
     \/ /\ Fault /\ hurt' = hurt \cup {h}
        /\ Goto(h, "ping") /\ UNCHANGED answer
  /\ UNCHANGED <<holder, link, call, acked, stray, executed, listener, worker, crashes>>

PublishRequest(h) ==
  /\ probe[h] = "publish"
  /\ Calls(Check(h), <<Cmd("request", h)>>, TRUE)
  /\ Goto(h, "publishing")
  /\ UNCHANGED <<answer, listener, worker, hurt, crashes>>

Published(h) ==
  /\ probe[h] = "publishing"
  /\ \/ At(Check(h), "ok") /\ Goto(h, "wait")
     \/ At(Check(h), "failed") /\ Goto(h, "ping")
  /\ UNCHANGED <<redis, answer, listener, worker, hurt, crashes>>

\* The select: an answer, or a closed result channel.
Answered(h) ==
  /\ probe[h] = "wait"
  /\ \/ answer[h].queue # <<>> /\ Goto(h, "healthy")
     \/ Drained(answer[h]) /\ Goto(h, "unhealthy")
  /\ answer' = [answer EXCEPT ![h] = Unsubscribed]
  /\ UNCHANGED <<redis, listener, worker, hurt, crashes>>

\* Mutant of TimesOut: the answer is waited for without end.
TimesOutNever(h) == probe[h] = "wait" /\ FALSE /\ UNCHANGED vars

\* The 8 seconds have passed: Augur Canis is down, slow, or has lost the request.
TimesOut(h) ==
  /\ probe[h] = "wait" /\ Goto(h, "ping")
  /\ UNCHANGED <<redis, answer, listener, worker, hurt, crashes>>

\* The way out of every failure: is Redis there at least?
PingRedis(h) ==
  /\ probe[h] = "ping"
  /\ Calls(Check(h), <<Cmd("ping", h)>>, TRUE)
  /\ Goto(h, "pinging")
  /\ UNCHANGED <<answer, listener, worker, hurt, crashes>>

\* Mutant of Pinged: that the ping returned is enough, its error is not looked at.
PingedAnyhow(h) ==
  /\ probe[h] = "pinging" /\ call[Check(h)].at \in {"ok", "failed"} /\ Goto(h, "healthy")
  /\ UNCHANGED <<redis, answer, listener, worker, hurt, crashes>>

Pinged(h) ==
  /\ probe[h] = "pinging"
  /\ \/ At(Check(h), "ok") /\ Goto(h, "healthy")
     \/ At(Check(h), "failed") /\ Goto(h, "unhealthy")
  /\ UNCHANGED <<redis, answer, listener, worker, hurt, crashes>>

AnswerDrops(h) ==
  /\ probe[h] \in {"publish", "publishing", "wait"} /\ Fault
  /\ \/ \E s \in Torn(answer[h]) : answer' = [answer EXCEPT ![h] = s] /\ UNCHANGED hurt
     \/ /\ \E s \in Broken(answer[h]) : answer' = [answer EXCEPT ![h] = s]
        /\ hurt' = hurt \cup {h}
  /\ UNCHANGED <<holder, link, call, acked, stray, executed, probe, listener, worker, crashes>>

CheckStep(h) ==
  SubscribeFirst(h) \/ PublishRequest(h) \/ Published(h) \/ Answered(h) \/ TimesOut(h)
    \/ PingRedis(h) \/ Pinged(h)

-----------------------------------------------------------------------------
(* Augur Canis                                                              *)

Listen ==
  /\ listener.at # "read"
  /\ \/ listener' = [at |-> "read", sub |-> Subscribed] /\ UNCHANGED faults
     \/ listener.at = "connect" /\ Fault /\ listener' = [listener EXCEPT !.at = "sleep"]
  /\ UNCHANGED <<holder, link, call, acked, stray, executed, probe, answer, worker, hurt, crashes>>

\* handleCheckRequests: a goroutine per request.
TakeRequest ==
  /\ listener.at = "read" /\ listener.sub.queue # <<>>
  /\ GotoWorker(Head(listener.sub.queue), "record")
  /\ listener' = [listener EXCEPT !.sub = Taken(@)]
  /\ UNCHANGED <<redis, probe, answer, hurt, crashes>>

ListenerDrops ==
  /\ listener.at = "read"
  /\ \/ /\ Fault
        /\ \E s \in Torn(listener.sub) \cup Broken(listener.sub) :
             listener' = [listener EXCEPT !.sub = s]
     \/ Drained(listener.sub) /\ listener' = [listener EXCEPT !.at = "sleep"]
        /\ UNCHANGED faults
  /\ UNCHANGED <<holder, link, call, acked, stray, executed, probe, answer, worker, hurt, crashes>>

WorkerCalls(h, here, cmds, next) ==
  /\ worker[h] = here
  /\ Calls(Worker(h), cmds, FALSE)
  /\ GotoWorker(h, next)
  /\ UNCHANGED <<probe, answer, listener, hurt, crashes>>

\* recordHealthState: four writes in one pipeline (one command here) whose result
\* nobody looks at.  What follows on the container is in AlertLifecycle.
RecordState(h) == WorkerCalls(h, "record", <<Cmd("seen", h)>>, "recording")

\* The answer: a copy with a time to live, and the message.
SendAnswer(h) ==
  /\ worker[h] = "recording" /\ ~Calling(Worker(h))
  /\ WorkerCalls(h, "recording", <<Cmd("copy", h), Cmd("result", h)>>, "answering")

\* Exec fails only when it could not send: a reply that failed is no error of Exec.
\* publishSignedFeedEvent: the health feed.
SendFeedEvent(h) ==
  /\ worker[h] = "answering" /\ ~Calling(Worker(h))
  /\ \/ WorkerCalls(h, "answering", <<Cmd("feed", h)>>, "feeding")
     \/ At(Worker(h), "failed") /\ call[Worker(h)].read = <<>> /\ GotoWorker(h, "done")
        /\ UNCHANGED <<redis, probe, answer, listener, hurt, crashes>>

WorkerEnds(h) ==
  /\ worker[h] = "feeding" /\ ~Calling(Worker(h)) /\ GotoWorker(h, "done")
  /\ UNCHANGED <<redis, probe, answer, listener, hurt, crashes>>

\* checkSilence and the detectors read Redis meanwhile; what they do with it is not here.
CycleReads ==
  /\ ~Calling(Cycle)
  /\ Calls(Cycle, <<Cmd("get", AugurCanis)>>, FALSE)
  /\ UNCHANGED <<probe, answer, listener, worker, hurt, crashes>>

WorkerStep(h) == RecordState(h) \/ SendAnswer(h) \/ SendFeedEvent(h) \/ WorkerEnds(h)

\* Augur Canis dies and is started again: its goroutines, its connections and the requests it
\* had not read are gone.
Crash ==
  /\ crashes < MaxCrashes /\ crashes' = crashes + 1
  /\ holder' = [holder EXCEPT ![AugurCanis] = Free]
  /\ Reset(AugurCanis)
  /\ call' = [g \in Goroutines |-> IF g[1] = "check" THEN call[g] ELSE Idle]
  /\ worker' = [h \in Probes |-> IF worker[h] = "none" THEN "none" ELSE "gone"]
  /\ listener' = [at |-> "connect", sub |-> Unsubscribed]
  /\ UNCHANGED <<acked, executed, faults, probe, answer, hurt>>

-----------------------------------------------------------------------------
(* Redis delivers the messages that are published                           *)

Messages ==
  LET new == executed' \ executed IN
  /\ listener' = IF \E h \in Probes : Cmd("request", h) \in new
                 THEN [listener EXCEPT !.sub =
                         Deliver(@, CHOOSE h \in Probes : Cmd("request", h) \in new)]
                 ELSE listener
  /\ answer' = [h \in Probes |-> IF Cmd("result", h) \in new
                                 THEN Deliver(answer[h], "healthy") ELSE answer[h]]

\* A fault on the connection of a check.
Hurt(owner) == hurt' = IF faults' # faults THEN hurt \cup (Probes \cap {owner}) ELSE hurt

RedisStep(c) ==
  /\ \/ Execute(c) /\ Messages
     \/ Break(c) /\ UNCHANGED <<listener, answer>>
  /\ Hurt(c)
  /\ UNCHANGED <<probe, worker, crashes>>

StrayStep ==
  /\ \E cmd \in stray : ExecuteStray(cmd)
  /\ Messages
  /\ UNCHANGED <<probe, worker, hurt, crashes>>

Step(g) == ClientStep(g) /\ Hurt(Owner[g]) /\ UNCHANGED <<probe, answer, listener, worker, crashes>>

Next ==
  \/ \E h \in Probes : CheckStep(h) \/ AnswerDrops(h) \/ WorkerStep(h)
  \/ Listen \/ TakeRequest \/ ListenerDrops \/ CycleReads \/ Crash
  \/ \E g \in Goroutines : Step(g)
  \/ \E c \in Clients : RedisStep(c)
  \/ StrayStep

Spec == Init /\ [][Next]_vars

\* Processes and goroutines run, a free mutex is given to each that waits, and Redis answers
\* or the connection fails.
FairSpec ==
  /\ Spec
  /\ WF_vars(Listen) /\ WF_vars(TakeRequest)
  /\ \A h \in Probes : WF_vars(CheckStep(h)) /\ WF_vars(WorkerStep(h))
  /\ \A g \in Goroutines :
       SF_vars(Lock(g) /\ Step(g)) /\ WF_vars(Step(g))
  /\ \A c \in Clients : WF_vars(RedisStep(c))

-----------------------------------------------------------------------------
(* Properties                                                               *)

\* No answer is lost between the request and the select: as long as nothing fails, a check
\* that waits and was answered has the answer before it.
AnswerIsHeard ==
  faults = 0 => \A h \in Probes :
    (probe[h] = "wait" /\ Cmd("result", h) \in executed) => answer[h].queue # <<>>

\* Every check exits, whatever Redis and Augur Canis do: its calls have deadlines, a lost
\* answer times out, and the ping after it comes back.
CheckEnds == <>(\A h \in Probes : probe[h] \in Ended)
=============================================================================
