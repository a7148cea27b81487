----------------------------- MODULE Federation -----------------------------
(***************************************************************************)
(* How SETI follows the health feed of one remote constellation.           *)
(* connie-agent shakes hands with the constellation's Augur Canis and      *)
(* hands the session to Signal Aggregator (connie-agent/main.go,           *)
(* federation.go); Signal Aggregator keeps one feed goroutine on the       *)
(* event stream, verifies what it reads against the session it holds and   *)
(* republishes it (signal-aggregator/federation.go); connie-agent listens  *)
(* to that channel and shakes hands again when it falls silent.  Nothing   *)
(* tells connie-agent that a session is dead: silence is the only signal.  *)
(* The remote Augur Canis is external (contracts/FEDERATION-PROTOCOL.md).  *)
(***************************************************************************)
EXTENDS Integers, FiniteSets

CONSTANTS
  Nil,
  PromptHandlers, \* does a POST end before connie-agent is back from a pause or restart?
  MaxFaults,      \* failed calls, lost answers, dropped connections
  MaxQuiets,      \* times a live feed carries nothing for 30 seconds
  MaxRestarts     \* restarts, of connie-agent, Signal Aggregator or the remote

ASSUME FederationAssumption ==
  /\ PromptHandlers \in BOOLEAN
  /\ MaxFaults \in Nat /\ MaxQuiets \in Nat /\ MaxRestarts \in Nat
  /\ Nil \notin [sess: Nat, cert: Nat, status: {"active", "degraded", "reconnecting"}]

VARIABLES
  connie,     \* the monitor goroutine: where it is, its session, its instance cert
  configured, \* does remote-apps.json list the constellation?
  remote,     \* Augur Canis: session offered, session in use, certs it trusts
  next,       \* number of the next session
  acked,      \* sessions whose handshake was completed
  entry,      \* fedApps: Nil, or session, cert and status
  feeds,      \* runFederatedFeed goroutines, by session
  posts,      \* POST /federation/subscriptions handlers
  faults, quiets, restarts

agent == <<connie, configured>>
aggregator == <<entry, feeds, posts>>
bounds == <<faults, quiets, restarts>>
vars == <<agent, remote, next, acked, aggregator, bounds>>

Status == {"active", "degraded", "reconnecting"}
Feed == [sess: Nat, cert: Nat, state: {"connect", "stream", "lost", "backoff"},
         cancelled: BOOLEAN]

TypeOK ==
  /\ connie \in [at: {"cleanup", "register", "acknowledge", "notify", "await",
                      "watch", "pause", "off"}, sess: Nat, cert: Nat]
  /\ configured \in BOOLEAN
  /\ remote \in [pending: Nat, session: Nat, trusts: SUBSET Nat]
  /\ next \in Nat \ {0} /\ acked \subseteq Nat
  /\ entry \in [sess: Nat, cert: Nat, status: Status] \cup {Nil}
  /\ feeds \subseteq Feed
  /\ posts \subseteq [sess: Nat, cert: Nat, step: {"check", "wait"}, old: Nat]
  /\ faults \in Nat /\ quiets \in Nat /\ restarts \in Nat

Init ==
  /\ connie = [at |-> "cleanup", sess |-> 0, cert |-> 1]
  /\ configured = TRUE
  /\ remote = [pending |-> 0, session |-> 0, trusts |-> {}]
  /\ next = 1 /\ acked = {}
  /\ entry = Nil /\ feeds = {} /\ posts = {}
  /\ faults = 0 /\ quiets = 0 /\ restarts = 0

Fault == faults < MaxFaults /\ faults' = faults + 1

At(step) == connie.at = step
Goto(step) == connie' = [connie EXCEPT !.at = step]

\* A pause or a restart of connie-agent (30 s, certificates) outlasts a handler's wait (5 s).
Patient == PromptHandlers => posts = {}

\* The entry, if it is still there, gets this status, whoever asks for it.
Mark(status) == entry' = IF entry = Nil THEN Nil ELSE [entry EXCEPT !.status = status]

\* Mutant of Cancel: the context of the replaced or removed entry is not cancelled.
CancelNone(s) == feeds

\* cancelMonitor of session s, if its goroutine still runs.
Cancel(s) == {IF f.sess = s THEN [f EXCEPT !.cancelled = TRUE] ELSE f : f \in feeds}

-----------------------------------------------------------------------------
(* connie-agent                                                             *)

\* Mutant of Cleanup: only monitors of this process are cleaned up, so none at startup.
CleanupNothing ==
  /\ At("cleanup") /\ Patient
  /\ Goto(IF configured THEN "register" ELSE "off")
  /\ UNCHANGED <<configured, remote, next, acked, aggregator, bounds>>

\* cleanupStaleFederations at startup: DELETE the subscription if the constellation is
\* no longer configured; failures are dropped.  Then the monitor, if there is one, starts.
Cleanup ==
  /\ At("cleanup") /\ Patient
  /\ \/ /\ ~configured /\ entry # Nil
        /\ \/ entry' = Nil /\ feeds' = Cancel(entry.sess) /\ UNCHANGED faults
           \/ Fault /\ UNCHANGED <<entry, feeds>>
     \/ (configured \/ entry = Nil) /\ UNCHANGED <<entry, feeds, faults>>
  /\ Goto(IF configured THEN "register" ELSE "off")
  /\ UNCHANGED <<configured, remote, next, acked, posts, quiets, restarts>>

\* performHandshake, messages 1 and 2: the remote offers a new session.
Register ==
  /\ At("register")
  /\ \/ /\ remote' = [remote EXCEPT !.pending = next]
        /\ next' = next + 1
        /\ \/ /\ connie' = [connie EXCEPT !.at = "acknowledge", !.sess = next]
              /\ UNCHANGED faults
           \/ Fault /\ Goto("pause")
     \/ Fault /\ Goto("pause") /\ UNCHANGED <<remote, next>>
  /\ UNCHANGED <<configured, acked, aggregator, quiets, restarts>>

\* Message 3: the remote takes the session into use and trusts connie-agent's cert.
Acknowledge ==
  /\ At("acknowledge")
  /\ \/ /\ remote.pending = connie.sess
        /\ remote' = [pending |-> 0, session |-> connie.sess,
                      trusts |-> remote.trusts \cup {connie.cert}]
        /\ acked' = acked \cup {connie.sess}
        /\ \/ Goto("notify") /\ UNCHANGED faults
           \/ Fault /\ Goto("pause")
     \/ /\ remote.pending # connie.sess
        /\ Goto("pause")
        /\ UNCHANGED <<remote, acked, faults>>
     \/ Fault /\ Goto("pause") /\ UNCHANGED <<remote, acked>>
  /\ UNCHANGED <<configured, next, aggregator, quiets, restarts>>

\* notifySignalAggregator: the session and connie-agent's own cert and key.
Post == posts' = posts \cup
  {[sess |-> connie.sess, cert |-> connie.cert, step |-> "check", old |-> 0]}

Notify ==
  /\ At("notify")
  /\ \/ Post /\ Goto("await") /\ UNCHANGED faults
     \/ Fault /\ Goto("pause") /\ UNCHANGED posts
  /\ UNCHANGED <<configured, remote, next, acked, entry, feeds, quiets, restarts>>

\* The call fails because Signal Aggregator died under it.
NotifyFails ==
  /\ At("await") /\ \A p \in posts : p.sess # connie.sess
  /\ Goto("pause")
  /\ UNCHANGED <<configured, remote, next, acked, aggregator, bounds>>

\* startFederationMonitor tries again after 30 seconds.
Retry ==
  /\ At("pause") /\ Patient
  /\ Goto("register")
  /\ UNCHANGED <<configured, remote, next, acked, aggregator, bounds>>

\* verifyFeedEvent: the remote signs with the session in use, and the entry holds it.
Accepted == entry # Nil /\ entry.sess = remote.session

\* Events reach the channel federation:<tag>:events.
Flowing == Accepted /\ \E f \in feeds : f.state = "stream" /\ ~f.cancelled

\* A feed that will reconnect by itself does so before 30 seconds are over.
Recovering ==
  \E f \in feeds : ~f.cancelled /\ f.state # "stream" /\ f.cert \in remote.trusts

\* Mutant of Silence: the session in hand is sent again instead of a new handshake.
SilenceResends ==
  /\ At("watch") /\ ~Flowing /\ ~Recovering
  /\ Goto("notify")
  /\ UNCHANGED <<configured, remote, next, acked, aggregator, bounds>>

\* watchForSilence: no event for 30 seconds, and back to the handshake.
Silence ==
  /\ At("watch") /\ ~Flowing /\ ~Recovering
  /\ Goto("register")
  /\ UNCHANGED <<configured, remote, next, acked, aggregator, bounds>>

\* The same on a feed that is only quiet, or when the Redis subscription is lost.
Quiet ==
  /\ At("watch") /\ quiets < MaxQuiets
  /\ quiets' = quiets + 1
  /\ Goto("register")
  /\ UNCHANGED <<configured, remote, next, acked, aggregator, faults, restarts>>

-----------------------------------------------------------------------------
(* Signal Aggregator: POST /federation/subscriptions                        *)

\* connectFederatedApp, second critical section, and the answer.  The caller may have
\* died or miss the answer.
Install(p) ==
  /\ entry' = [sess |-> p.sess, cert |-> p.cert, status |-> "active"]
  /\ posts' = posts \ {p}
  /\ IF At("await") /\ connie.sess = p.sess
     THEN \/ Goto("watch") /\ UNCHANGED faults
          \/ Fault /\ Goto("pause")
     ELSE UNCHANGED <<connie, faults>>

NewFeed(p) == [sess |-> p.sess, cert |-> p.cert, state |-> "connect", cancelled |-> FALSE]

\* First critical section: the entry's goroutines are cancelled; without an entry there
\* is nothing to wait for.  A session is never sent twice, so the early answer "already
\* federated with this session" does not arise.
Begin(p) ==
  /\ p.step = "check"
  /\ \/ /\ entry = Nil
        /\ Install(p)
        /\ feeds' = feeds \cup {NewFeed(p)}
     \/ /\ entry # Nil
        /\ feeds' = Cancel(entry.sess)
        /\ posts' = (posts \ {p}) \cup {[p EXCEPT !.step = "wait", !.old = entry.sess]}
        /\ UNCHANGED <<connie, entry, faults>>
  /\ UNCHANGED <<configured, remote, next, acked, quiets, restarts>>

\* The old goroutines have exited, or sleep in their 10 seconds of backoff for longer than
\* the handler waits.
Replace(p) ==
  /\ p.step = "wait"
  /\ \A f \in feeds : f.sess = p.old => f.state = "backoff"
  /\ Install(p)
  /\ feeds' = feeds \cup {NewFeed(p)}
  /\ UNCHANGED <<configured, remote, next, acked, quiets, restarts>>

-----------------------------------------------------------------------------
(* Signal Aggregator: feed goroutines                                       *)

Become(f, g) == feeds' = (feeds \ {f}) \cup {g}

\* connectSSEStream: the remote accepts the certs it was told in message 3.
Connect(f) ==
  /\ f.state = "connect" /\ ~f.cancelled
  /\ \/ /\ f.cert \in remote.trusts
        /\ Become(f, [f EXCEPT !.state = "stream"])
        /\ Mark("active") /\ UNCHANGED faults
     \/ /\ f.cert \notin remote.trusts
        /\ Become(f, [f EXCEPT !.state = "backoff"])
        /\ Mark("degraded") /\ UNCHANGED faults
     \/ /\ Fault
        /\ Become(f, [f EXCEPT !.state = "backoff"])
        /\ Mark("degraded")
  /\ UNCHANGED <<agent, remote, next, acked, posts, quiets, restarts>>

\* runFederatedFeed notices that the stream has ended.
Lose(f) ==
  /\ f.state = "lost" /\ ~f.cancelled
  /\ Become(f, [f EXCEPT !.state = "backoff"])
  /\ Mark("degraded")
  /\ UNCHANGED <<agent, remote, next, acked, posts, bounds>>

Wake(f) ==
  /\ f.state = "backoff"
  /\ Become(f, [f EXCEPT !.state = "connect"])
  /\ UNCHANGED <<agent, remote, next, acked, entry, posts, bounds>>

Exit(f) ==
  /\ f.cancelled /\ f.state # "backoff"
  /\ feeds' = feeds \ {f}
  /\ UNCHANGED <<agent, remote, next, acked, entry, posts, bounds>>

\* runSilenceMonitor, one per feed: 90 seconds without an accepted event.
MarkSilent(f) ==
  /\ ~f.cancelled /\ entry # Nil /\ ~Flowing
  /\ Mark("degraded")
  /\ UNCHANGED <<agent, remote, next, acked, feeds, posts, bounds>>

\* POST /federation/subscriptions/{id}/reconnect.
Reconnect ==
  /\ entry # Nil
  /\ Mark("reconnecting")
  /\ UNCHANGED <<agent, remote, next, acked, feeds, posts, bounds>>

-----------------------------------------------------------------------------
(* The environment                                                          *)

StreamDrops(f) ==
  /\ f.state = "stream" /\ Fault
  /\ Become(f, [f EXCEPT !.state = "lost"])
  /\ UNCHANGED <<agent, remote, next, acked, entry, posts, quiets, restarts>>

\* The remote drops an offer that was not acknowledged within 30 seconds.
OfferExpires ==
  /\ remote.pending # 0 /\ Fault
  /\ remote' = [remote EXCEPT !.pending = 0]
  /\ UNCHANGED <<agent, next, acked, aggregator, quiets, restarts>>

MayRestart ==
  /\ restarts < MaxRestarts
  /\ restarts' = restarts + 1
  /\ UNCHANGED <<next, acked, faults, quiets>>

\* Sessions are in memory only, on both sides.
RemoteRestart ==
  /\ MayRestart
  /\ remote' = [pending |-> 0, session |-> 0, trusts |-> {}]
  /\ feeds' = {IF f.state = "stream" THEN [f EXCEPT !.state = "lost"] ELSE f : f \in feeds}
  /\ UNCHANGED <<agent, entry, posts>>

AggregatorRestart ==
  /\ MayRestart
  /\ entry' = Nil /\ feeds' = {} /\ posts' = {}
  /\ UNCHANGED <<agent, remote>>

\* connie-agent comes back with a new cert and, maybe, a new configuration; a handler it
\* has called goes on.
ConnieRestart ==
  /\ MayRestart
  /\ connie' = [at |-> "cleanup", sess |-> 0, cert |-> connie.cert + 1]
  /\ configured' \in BOOLEAN
  /\ UNCHANGED <<remote, aggregator>>

-----------------------------------------------------------------------------
ConnieStep ==
  \/ Cleanup \/ Register \/ Acknowledge \/ Notify \/ NotifyFails \/ Retry \/ Silence

HandlerStep == \E p \in posts : Begin(p) \/ Replace(p)

FeedStep(f) == Connect(f) \/ Lose(f) \/ Wake(f) \/ Exit(f)

Next ==
  \/ ConnieStep \/ Quiet
  \/ HandlerStep
  \/ \E f \in feeds : FeedStep(f) \/ MarkSilent(f) \/ StreamDrops(f)
  \/ Reconnect
  \/ OfferExpires \/ RemoteRestart \/ AggregatorRestart \/ ConnieRestart

Spec == Init /\ [][Next]_vars

\* Calls return, timers fire and goroutines are scheduled.
FairSpec ==
  /\ Spec
  /\ WF_vars(ConnieStep) /\ WF_vars(HandlerStep)
  /\ WF_vars(\E f \in feeds : FeedStep(f))

-----------------------------------------------------------------------------
(* Properties                                                               *)

\* FEDERATION-PROTOCOL.md "No cert material is written to any store until Message 3 is
\* successfully verified": what Signal Aggregator holds, or is about to hold, belongs to
\* a completed handshake, whatever died or got lost on the way.
NothingStoredEarly ==
  /\ entry # Nil => entry.sess \in acked
  /\ \A x \in feeds \cup posts : x.sess \in acked

\* A feed that has not been cancelled is the entry's own, so that the stream is
\* republished once and DELETE can still stop it.  Two handlers that overlap
\* (PromptHandlers = FALSE) both install a feed, and the first one is lost track of.
OneFeed ==
  \A f \in feeds : ~f.cancelled => (entry # Nil /\ entry.sess = f.sess)

\* signal-aggregator/federation.go:135 "Wait for old goroutines to fully exit before
\* starting new ones": the feeds of two sessions never run side by side.  The code gives
\* up after 5 seconds, and a feed in its 10 seconds of backoff does not look up.
OldFeedsExit == \A f, g \in feeds : f.sess = g.sess

\* A session is never replaced by an older one, so a late handler does not bring back
\* a session that the remote no longer signs with.
SessionsAdvance ==
  [][(entry # Nil /\ entry' # Nil) => entry'.sess >= entry.sess]_vars

\* Once restarts, faults and quiet spells are over, a constellation that stays configured
\* is followed for good: Signal Aggregator holds the session the remote signs with, and
\* a feed of its own is on the stream.
Refederated ==
  <>[]configured => <>[](/\ entry # Nil /\ entry.sess = remote.session
                         /\ \E f \in feeds : /\ f.state = "stream" /\ ~f.cancelled
                                            /\ f.sess = entry.sess)

\* A constellation taken out of remote-apps.json ends up without subscription and feed,
\* unless the one call that removes it failed.
Released ==
  (<>[](~configured) /\ [](faults = 0)) => <>[](entry = Nil /\ feeds = {})
=============================================================================
