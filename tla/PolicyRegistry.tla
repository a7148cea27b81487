--------------------------- MODULE PolicyRegistry ---------------------------
(***************************************************************************)
(* The application registry of Policy (policy/main.go): applications that  *)
(* are registered by name, and the available applications of               *)
(* remote-apps.json that are activated by tag, together with the           *)
(* federation subscriptions that Signal Aggregator keeps for them.  The    *)
(* registry is in memory.  Handlers run concurrently; each takes a mutex   *)
(* for one map access at a time and calls other services in between.       *)
(***************************************************************************)
EXTENDS Integers, FiniteSets

CONSTANTS
  Names,     \* IDs that POST /applications/register derives from display names
  Tags,      \* tags in remote-apps.json
  Requests,  \* slots for concurrent register and deregister handlers
  Schedules, \* test schedules: [interval: minutes, enabled: BOOLEAN]
  Default,   \* the schedule of an activated application, and of SETI itself
  Self,      \* SETI's own application
  Nil,
  MaxCalls,  \* bound on the API calls that change the registry
  MaxFaults, MaxRestarts  \* bounds on the environment

\* The ID an activated application gets, and the name of a service account.
AppId(t) == <<"app", t>>
Account(x) == <<"svc", x>>

AppIds == Names \cup {AppId(t) : t \in Tags}

ASSUME RegistryAssumption ==
  /\ Default \in Schedules /\ Self \in Names
  /\ MaxCalls \in Nat /\ MaxFaults \in Nat /\ MaxRestarts \in Nat

VARIABLES
  apps,       \* applications: per ID, a record or Nil
  accounts,   \* service accounts: set of [id, app]
  monitoring, \* per tag: MonitoringStatus
  ingested,   \* tags whose plots Plot Store was made to ingest
  subs,       \* Signal Aggregator: keys of fedApps
  pc, tag,    \* per request: where its handler is, and its tag
  calls,      \* API calls received, of those that change the registry
  faults, restarts

registry == <<apps, accounts>>
handlers == <<pc, tag, calls>>
policyVars == <<registry, monitoring, ingested, subs, handlers, faults, restarts>>

App == [status: {"active", "suspended"}, schedule: Schedules]
AccountName == {Account(x) : x \in Names \cup Tags \cup AppIds}

TypeOK ==
  /\ apps \in [AppIds -> App \cup {Nil}]
  /\ accounts \subseteq [id: AccountName, app: AppIds]
  /\ monitoring \in [Tags -> {"active", "inactive"}]
  /\ ingested \subseteq Tags
  /\ subs \subseteq Tags \cup AppIds
  /\ pc \in [Requests -> {"idle", "store", "federate", "ingest", "activate",
                          "unfederate", "suspend", "deactivate"}]
  /\ tag \in [Requests -> Tags \cup {Nil}]
  /\ \A q \in Requests : pc[q] # "idle" => tag[q] \in Tags
  /\ calls \in Nat /\ faults \in Nat /\ restarts \in Nat

\* registerSelfApplication: what the registry holds when Policy starts.
StartApps == [a \in AppIds |-> IF a = Self THEN [status |-> "active", schedule |-> Default]
                               ELSE Nil]
StartAccounts == {[id |-> Account(Self), app |-> Self]}

PolicyInit ==
  /\ apps = StartApps
  /\ accounts = StartAccounts
  /\ monitoring = [t \in Tags |-> "inactive"]
  /\ ingested = {} /\ subs = {}
  /\ pc = [q \in Requests |-> "idle"]
  /\ tag = [q \in Requests |-> Nil]
  /\ calls = 0 /\ faults = 0 /\ restarts = 0

Call == calls < MaxCalls /\ calls' = calls + 1

Fault == faults < MaxFaults /\ faults' = faults + 1

At(q, step) == pc[q] = step
Goto(q, step) == pc' = [pc EXCEPT ![q] = step]

\* The handler of request q takes up tag t, and answers at last.
Take(q, t, step) == Goto(q, step) /\ tag' = [tag EXCEPT ![q] = t]
Respond(q) == Goto(q, "idle") /\ tag' = [tag EXCEPT ![q] = Nil]

\* accounts[account] = ...: whoever had that name loses it.
PutAccount(id, a) == {c \in accounts : c.id # id} \cup {[id |-> id, app |-> a]}

-----------------------------------------------------------------------------
(* Applications by name                                                     *)

\* POST /applications/register: one critical section.
RegisterApplication(n) ==
  /\ n \in Names /\ apps[n] = Nil
  /\ \E s \in Schedules :
       apps' = [apps EXCEPT ![n] = [status |-> "active", schedule |-> s]]
  /\ accounts' = PutAccount(Account(n), n)
  /\ Call
  /\ UNCHANGED <<monitoring, ingested, subs, pc, tag, faults, restarts>>

\* Mutant of DeleteApplication: a deleted application is only suspended.
DeleteApplicationSoftly(a) ==
  /\ apps[a] # Nil
  /\ apps' = [apps EXCEPT ![a].status = "suspended"]
  /\ accounts' = {c \in accounts : c.id # Account(a)}
  /\ Call
  /\ UNCHANGED <<monitoring, ingested, subs, pc, tag, faults, restarts>>

\* DELETE /applications/{id}, for either kind of application.  The lookup before it,
\* under a lock of its own, only lets a deletion find nothing left to delete.
DeleteApplication(a) ==
  /\ apps[a] # Nil
  /\ apps' = [apps EXCEPT ![a] = Nil]
  /\ accounts' = {c \in accounts : c.id # Account(a)}
  /\ Call
  /\ UNCHANGED <<monitoring, ingested, subs, pc, tag, faults, restarts>>

-----------------------------------------------------------------------------
(* POST /available-applications/{tag}/register, from an administrator or    *)
(* from connie-agent.                                                       *)

\* An active tag is answered at once.
BeginRegister(q, t) ==
  /\ At(q, "idle") /\ monitoring[t] # "active"
  /\ Take(q, t, "store")
  /\ Call
  /\ UNCHANGED <<registry, monitoring, ingested, subs, faults, restarts>>

\* The application is created unless the ID is taken, be it by a suspended one.
Store(q) ==
  LET t == tag[q]
      a == AppId(t) IN
  /\ At(q, "store")
  /\ IF apps[a] = Nil
     THEN /\ apps' = [apps EXCEPT ![a] = [status |-> "active", schedule |-> Default]]
          /\ accounts' = PutAccount(Account(t), a)
     ELSE UNCHANGED registry
  /\ Goto(q, "federate")
  /\ UNCHANGED <<monitoring, ingested, subs, tag, calls, faults, restarts>>

\* POST /federation/subscriptions without certificates: Signal Aggregator refuses
\* it (400), and the status is only reported as an event.
RequestFederation(q) ==
  /\ At(q, "federate")
  /\ Goto(q, "ingest")
  /\ UNCHANGED <<registry, monitoring, ingested, subs, tag, calls, faults, restarts>>

RequestIngest(q) ==
  /\ At(q, "ingest")
  /\ Goto(q, "activate")
  /\ \/ ingested' = ingested \cup {tag[q]} /\ UNCHANGED faults
     \/ Fault /\ UNCHANGED ingested
  /\ UNCHANGED <<registry, monitoring, subs, tag, calls, restarts>>

Activate(q) ==
  /\ At(q, "activate")
  /\ monitoring' = [monitoring EXCEPT ![tag[q]] = "active"]
  /\ Respond(q)
  /\ UNCHANGED <<registry, ingested, subs, calls, faults, restarts>>

-----------------------------------------------------------------------------
(* POST /available-applications/{tag}/deregister                            *)

\* An inactive tag is answered 409 at once.
BeginDeregister(q, t) ==
  /\ At(q, "idle") /\ monitoring[t] # "inactive"
  /\ Take(q, t, "unfederate")
  /\ Call
  /\ UNCHANGED <<registry, monitoring, ingested, subs, faults, restarts>>

\* DELETE /federation/subscriptions?application_id=app-<tag>; the subscriptions are
\* kept under what connie-agent calls them, the tag.
RequestDisconnect(q) ==
  /\ At(q, "unfederate")
  /\ Goto(q, "suspend")
  /\ \/ subs' = subs \ {AppId(tag[q])} /\ UNCHANGED faults
     \/ Fault /\ UNCHANGED subs
  /\ UNCHANGED <<registry, monitoring, ingested, tag, calls, restarts>>

Suspend(q) ==
  LET a == AppId(tag[q]) IN
  /\ At(q, "suspend")
  /\ IF apps[a] # Nil
     THEN apps' = [apps EXCEPT ![a].status = "suspended"]
     ELSE UNCHANGED apps
  /\ Goto(q, "deactivate")
  /\ UNCHANGED <<accounts, monitoring, ingested, subs, tag, calls, faults, restarts>>

Deactivate(q) ==
  /\ At(q, "deactivate")
  /\ monitoring' = [monitoring EXCEPT ![tag[q]] = "inactive"]
  /\ Respond(q)
  /\ UNCHANGED <<registry, ingested, subs, calls, faults, restarts>>

-----------------------------------------------------------------------------
(* The environment                                                          *)

\* connie-agent: notifySignalAggregator, after a handshake of its own.
Federate(t) ==
  /\ t \notin subs
  /\ subs' = subs \cup {t}
  /\ UNCHANGED <<registry, monitoring, ingested, handlers, faults, restarts>>

\* Policy restarts: the registry and the handlers are gone, the subscriptions and
\* the plots, kept elsewhere, are not.
Restart ==
  /\ restarts < MaxRestarts
  /\ restarts' = restarts + 1
  /\ apps' = StartApps
  /\ accounts' = StartAccounts
  /\ monitoring' = [t \in Tags |-> "inactive"]
  /\ pc' = [q \in Requests |-> "idle"]
  /\ tag' = [q \in Requests |-> Nil]
  /\ UNCHANGED <<ingested, subs, calls, faults>>

Handle(q) ==
  \/ Store(q) \/ RequestFederation(q) \/ RequestIngest(q) \/ Activate(q)
  \/ RequestDisconnect(q) \/ Suspend(q) \/ Deactivate(q)

PolicyNext ==
  \/ \E n \in Names : RegisterApplication(n)
  \/ \E a \in AppIds : DeleteApplication(a)
  \/ \E q \in Requests, t \in Tags : BeginRegister(q, t) \/ BeginDeregister(q, t)
  \/ \E q \in Requests : Handle(q)
  \/ \E t \in Tags : Federate(t)
  \/ Restart

PolicySpec == PolicyInit /\ [][PolicyNext]_policyVars

-----------------------------------------------------------------------------
(* Properties                                                               *)

\* handleIssueToken answers for service accounts: every application has one, under
\* either of the names it may have, as long as no tag is an application's ID.
EveryAppHasAccount ==
  Tags \cap AppIds = {} =>
    \A a \in AppIds : apps[a] # Nil => \E c \in accounts : c.app = a

\* contracts/openapi/policy.yaml:1663-1664 "Marks the application inactive - stops contract and plot
\* test scheduling": a tag that is inactive, with no handler at work on it, has no
\* active application.
InactiveIsNotTested ==
  \A t \in Tags :
    (monitoring[t] = "inactive" /\ \A q \in Requests : tag[q] # t) =>
      (apps[AppId(t)] = Nil \/ apps[AppId(t)].status = "suspended")

\* contracts/openapi/policy.yaml:1622-1623 "Re-register by calling deregister first": an application
\* that is activated is active in the registry too, so that it is tested.
ActivatedIsTested ==
  [][\A t \in Tags :
       (monitoring[t] = "inactive" /\ monitoring'[t] = "active"
          /\ apps[AppId(t)] # Nil) => apps[AppId(t)].status = "active"]_policyVars
=============================================================================
