----------------------------- MODULE EventWindow -----------------------------
(***************************************************************************)
(* Signal Aggregator's own event windows (signal-aggregator/main.go,        *)
(* shutdown.go), for one application: POST /subscriptions starts a feed      *)
(* goroutine that appends what its Redis subscription receives to the        *)
(* application's window, DELETE cancels it, POST /verify/call-chain counts   *)
(* calls in the window.  Applications share nothing but the locks.  Signal   *)
(* Aggregator subscribes to its own constellation when it starts; it keeps   *)
(* everything in memory.                                                    *)
(*                                                                         *)
(* Times are in half seconds, to tell a time with a fraction from one        *)
(* without: the code compares their texts.                                  *)
(***************************************************************************)
EXTENDS RedisFeed, FiniteSets, CallChain

CONSTANTS
  Nil,
  MaxSubs,     \* subscriptions ever made
  MaxEvents, MaxFaults

EventWindowConstants ==
  /\ Nil \notin Nat
  /\ WindowSize \in Nat \ {0} /\ MaxSubs \in Nat \ {0}
  /\ MaxEvents \in Nat /\ MaxFaults \in Nat /\ MaxTime \in Nat

ASSUME EventWindowAssumption == EventWindowConstants

Ids == 1 .. MaxSubs
Event == [number: 1 .. MaxEvents, time: 0 .. MaxTime, by: Ids]
FeedState == [at: {"none", "connect", "read", "sleep", "ended"}, cancellable: BOOLEAN,
              cancelled: BOOLEAN, orphan: BOOLEAN, sub: Subscription(1 .. MaxEvents)]

VARIABLES
  entry,   \* subscriptions[app]: Nil or the ID of the subscription
  subs,    \* subscriptions made
  posts,   \* POST handlers past the check: the subscription and the next step
  feeds,   \* the feed of each subscription: where it is, whether it has a cancel function and
           \* was cancelled, its Redis subscription; history: was it started after its DELETE?
  clock, published, faults,
  got,     \* history: what the feed of `entry` received
  overlap  \* history: a feed was alive when a later subscription was made

history == <<got, overlap, deleted>>
vars == <<entry, subs, posts, feeds, window, clock, published, faults, history>>

NoFeed == [at |-> "none", cancellable |-> FALSE, cancelled |-> FALSE, orphan |-> FALSE,
           sub |-> Unsubscribed]
NewFeed == [NoFeed EXCEPT !.at = "connect", !.cancellable = TRUE]

TypeOK ==
  /\ entry \in Ids \cup {Nil} /\ subs \in Ids
  /\ posts \subseteq [id: Ids, step: {"reset", "start"}]
  /\ feeds \in [Ids -> FeedState]
  /\ window \in Seq(Event) /\ Len(window) <= WindowSize
  /\ got \in Seq(Event) /\ overlap \in BOOLEAN /\ deleted \subseteq Ids
  /\ clock \in 0 .. MaxTime /\ published \in 0 .. MaxEvents /\ faults \in 0 .. MaxFaults

\* selfSubscribe, before the server listens.
Init ==
  /\ entry = 1 /\ subs = 1 /\ posts = {}
  /\ feeds = [n \in Ids |-> IF n = 1 THEN NewFeed ELSE NoFeed]
  /\ window = <<>> /\ clock = 0 /\ published = 0 /\ faults = 0
  /\ got = <<>> /\ overlap = FALSE /\ deleted = {}

Alive(n) == feeds[n].at \in {"connect", "read", "sleep"}
Feed(n, at, sub) == feeds' = [feeds EXCEPT ![n].at = at, ![n].sub = sub]
Fault == faults < MaxFaults /\ faults' = faults + 1

-----------------------------------------------------------------------------
(* The environment                                                          *)

Tick ==
  /\ clock < MaxTime /\ clock' = clock + 1
  /\ UNCHANGED <<entry, subs, posts, feeds, window, published, faults, history>>

\* A Job of the application publishes an event.
Happen ==
  /\ published < MaxEvents /\ published' = published + 1
  /\ feeds' = [n \in Ids |-> [feeds[n] EXCEPT !.sub = Deliver(@, published')]]
  /\ UNCHANGED <<entry, subs, posts, window, clock, faults, history>>

-----------------------------------------------------------------------------
(* Handlers                                                                 *)

\* A subscription is entered: the check and the entry are one critical section.
Enter ==
  /\ subs < MaxSubs /\ subs' = subs + 1
  /\ entry' = subs' /\ got' = <<>>
  /\ posts' = posts \cup {[id |-> subs', step |-> "reset"]}
  /\ overlap' = (overlap \/ \E n \in Ids : Alive(n) \/ \E p \in posts : p.id = n)
  /\ UNCHANGED <<feeds, window, clock, published, faults, deleted>>

\* Mutant of PostSubscription: no conflict with a subscription that exists.
PostAgain == Enter

\* handleSubscriptions, POST: 409 if the application has one.
PostSubscription == entry = Nil /\ Enter

\* Then its window is made anew,
ResetWindow(p) ==
  /\ p.step = "reset"
  /\ window' = <<>>
  /\ posts' = (posts \ {p}) \cup {[p EXCEPT !.step = "start"]}
  /\ UNCHANGED <<entry, subs, feeds, clock, published, faults, history>>

\* and startSubscription gives it a cancel function and a goroutine.
StartFeed(p) ==
  /\ p.step = "start"
  /\ feeds' = [feeds EXCEPT ![p.id] = [NewFeed EXCEPT !.orphan = p.id # entry]]
  /\ posts' = posts \ {p}
  /\ UNCHANGED <<entry, subs, window, clock, published, faults, history>>

\* The cancel function, if startSubscription has set it yet.
Cancelled(n) == [feeds[n] EXCEPT !.cancelled = feeds[n].cancellable]

\* handleSubscriptionDelete.
DeleteSubscription ==
  /\ entry # Nil
  /\ feeds' = [feeds EXCEPT ![entry] = Cancelled(entry)]
  /\ entry' = Nil /\ got' = <<>> /\ deleted' = deleted \cup {entry}
  /\ UNCHANGED <<subs, posts, window, clock, published, faults, overlap>>

-----------------------------------------------------------------------------
(* The feed goroutine of startSubscription                                  *)

\* The subscription, at once or 2 s after a failure; a cancelled feed returns instead.
Connect(n) ==
  /\ feeds[n].at \in {"connect", "sleep"}
  /\ \/ feeds[n].cancelled /\ Feed(n, "ended", Unsubscribed) /\ UNCHANGED faults
     \/ ~feeds[n].cancelled /\ Feed(n, "read", Subscribed) /\ UNCHANGED faults
     \/ ~feeds[n].cancelled /\ feeds[n].at = "connect" /\ Fault
        /\ Feed(n, "sleep", Unsubscribed)
  /\ UNCHANGED <<entry, subs, posts, window, clock, published, history>>

\* appendEvent: the last WindowSize events are kept.
Appended(event) ==
  LET w == Append(window, event) IN
  IF Len(w) > WindowSize THEN SubSeq(w, Len(w) - WindowSize + 1, Len(w)) ELSE w

\* processEvent.  Between a message and the cancellation, select takes either.
Receive(n) ==
  /\ feeds[n].at = "read" /\ feeds[n].sub.queue # <<>>
  /\ LET event == [number |-> Head(feeds[n].sub.queue), time |-> clock, by |-> n] IN
       /\ window' = Appended(event)
       /\ got' = IF n = entry THEN Append(got, event) ELSE got
  /\ Feed(n, "read", Taken(feeds[n].sub))
  /\ UNCHANGED <<entry, subs, posts, clock, published, faults, overlap, deleted>>

\* Mutant of ReceiveCancel: only the inner context is cancelled, and the loop reconnects.
ReceiveInnerCancel(n) ==
  /\ feeds[n].at = "read" /\ feeds[n].cancelled
  /\ feeds' = [feeds EXCEPT ![n].at = "connect", ![n].cancelled = FALSE, ![n].sub = Unsubscribed]
  /\ UNCHANGED <<entry, subs, posts, window, clock, published, faults, history>>

ReceiveCancel(n) ==
  /\ feeds[n].at = "read" /\ feeds[n].cancelled
  /\ Feed(n, "ended", Unsubscribed)
  /\ UNCHANGED <<entry, subs, posts, window, clock, published, faults, history>>

Drop(n) ==
  /\ feeds[n].at = "read"
  /\ \/ /\ Fault
        /\ \E s \in Torn(feeds[n].sub) \cup Broken(feeds[n].sub) : Feed(n, "read", s)
     \/ Drained(feeds[n].sub) /\ Feed(n, "sleep", Unsubscribed) /\ UNCHANGED faults
  /\ UNCHANGED <<entry, subs, posts, window, clock, published, history>>

\* awaitShutdown cancels what it finds in the registry and exits; or the process is killed.
Restart ==
  /\ subs < MaxSubs /\ subs' = subs + 1 /\ entry' = subs'
  /\ posts' = {}
  /\ feeds' = [n \in Ids |-> IF n = subs' THEN NewFeed
                             ELSE [feeds[n] EXCEPT !.at = "ended", !.sub = Unsubscribed]]
  /\ window' = <<>> /\ got' = <<>> /\ overlap' = FALSE /\ deleted' = {}
  /\ UNCHANGED <<clock, published, faults>>

-----------------------------------------------------------------------------
FeedStep(n) == Connect(n) \/ Receive(n) \/ ReceiveCancel(n) \/ Drop(n)

Next ==
  \/ Tick \/ Happen
  \/ PostSubscription \/ DeleteSubscription
  \/ \E p \in posts : ResetWindow(p) \/ StartFeed(p)
  \/ \E n \in Ids : FeedStep(n)
  \/ Restart

Spec == Init /\ [][Next]_vars

\* The feeds run; a select that finds the cancellation ready again and again takes it.
FairSpec == Spec /\ \A n \in Ids : WF_vars(Connect(n)) /\ WF_vars(Drop(n))
                                   /\ WF_vars(Receive(n)) /\ WF_vars(ReceiveCancel(n))

-----------------------------------------------------------------------------
(* Properties                                                               *)

\* What the current feed has received is in the window until as many newer events are,
\* in the order received, unless the feed of an earlier subscription was still at work.
ReceivedIsKept ==
  overlap \/ entry = Nil \/ [id |-> entry, step |-> "reset"] \in posts \/
    window = SubSeq(got, IF Len(got) > WindowSize THEN Len(got) - WindowSize + 1 ELSE 1, Len(got))

\* The feed of a removed subscription ends, whatever it still has to read, unless the DELETE
\* came before it was started: that one nobody can end.
RemovedEnds == []<>(\A n \in Ids : (Alive(n) /\ n # entry) => feeds[n].orphan)
=============================================================================
