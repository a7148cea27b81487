------------------------------ MODULE EventFeed ------------------------------
(***************************************************************************)
(* The dashboard's live feed.  seti-observability publishes what the Jobs   *)
(* report on seti:events (seti-observability/main.go); Signal Aggregator    *)
(* publishes a remote constellation's events on a channel of their own and  *)
(* announces that channel; the gateway reads every channel it knows of and  *)
(* sends each message to the browsers that hold /events open                *)
(* (gateway/main.go, shutdown.go).  What gateway has not heard of, or heard *)
(* while no browser had room, is gone.                                      *)
(***************************************************************************)
EXTENDS RedisFeed, FiniteSets, LiveFeed

CONSTANTS
  Stuck,         \* browsers that keep the connection open and read nothing
  Room,          \* messages a browser's channel holds: 64 in the code
  MaxEvents,     \* over all channels
  MaxFaults,     \* failed calls and dropped connections
  MaxStarts      \* starts of the gateway

EventFeedConstants ==
  /\ IsFiniteSet(Constellations) /\ Seti \notin Constellations
  /\ Stuck \subseteq Browsers
  /\ Room \in Nat \ {0}
  /\ MaxEvents \in Nat /\ MaxFaults \in Nat /\ MaxStarts \in Nat \ {0}

ASSUME EventFeedAssumption == EventFeedConstants

Message == Channels \X Nat
ReaderState == [channel: Channels, at: {"connect", "read", "sleep"}, sub: Subscription(Message)]

VARIABLES
  asked,      \* has subscribeActiveConstellations run?
  announcer,  \* startFederationAnnounceSubscriber: where it is, its subscription
  readers,    \* startChannelSubscriber goroutines: channel, where, subscription
  clients,    \* sseClients
  closed,     \* browsers' channels that shutdown has closed
  room,       \* what each browser's channel holds
  told,       \* channels this gateway process was told of
  active,     \* constellations whose monitoring_status in Policy is active
  faults, starts

feeds == <<asked, announcer, readers, told>>
sse == <<clients, closed, room, shown, blank>>
vars == <<gateway, feeds, sse, active, published, faults, starts>>

Start == [at |-> "connect", sub |-> Unsubscribed]
Reader(c) == [channel |-> c, at |-> "connect", sub |-> Unsubscribed]

TypeOK ==
  /\ gateway \in {"up", "draining", "closed", "stopped"}
  /\ asked \in BOOLEAN
  /\ announcer \in [at: {"connect", "read", "sleep"}, sub: Subscription(Constellations)]
  /\ readers \in Seq(ReaderState)
  /\ clients \subseteq Browsers /\ closed \subseteq Browsers /\ blank \subseteq Browsers
  /\ told \subseteq Channels /\ active \subseteq Constellations
  /\ room \in [Browsers -> Seq(Message)] /\ \A b \in Browsers : Len(room[b]) <= Room
  /\ published \in [Channels -> Nat] /\ shown \in [Browsers -> [Channels -> Seq(Nat)]]
  /\ faults \in 0 .. MaxFaults /\ starts \in 1 .. MaxStarts

\* main: the goroutine of seti:events is started, the others wait for news of channels.
Init ==
  /\ gateway = "up" /\ asked = FALSE
  /\ announcer = Start /\ readers = <<Reader(Seti)>> /\ told = {Seti}
  /\ clients = {} /\ closed = {} /\ blank = {} /\ room = [b \in Browsers |-> <<>>]
  /\ active = {}
  /\ published = [c \in Channels |-> 0]
  /\ shown = [b \in Browsers |-> [c \in Channels |-> <<>>]]
  /\ faults = 0 /\ starts = 1

Running == gateway # "stopped"
Fault == faults < MaxFaults /\ faults' = faults + 1

-----------------------------------------------------------------------------
(* Publishers                                                               *)

\* Messages published so far, over all channels.
Total == MapThenSumSet(LAMBDA c : published[c], Channels)

Publish(c) ==
  LET message == <<c, published[c] + 1>> IN
  /\ Total < MaxEvents
  /\ published' = [published EXCEPT ![c] = @ + 1]
  /\ readers' = [i \in DOMAIN readers |->
       IF readers[i].channel = c
       THEN [readers[i] EXCEPT !.sub = Deliver(@, message)] ELSE readers[i]]

\* seti-observability, handleEvent: an event whose caller is unknown, that does not parse
\* or cannot be published is dropped and counted, and changes nothing here; the reporter
\* was answered 202 before.
Report ==
  /\ Publish(Seti)
  /\ UNCHANGED <<gateway, asked, announcer, told, sse, active, faults, starts>>

\* processFederatedEvent republishes what it verified.
Republish(c) ==
  /\ c \in Constellations /\ Publish(c)
  /\ UNCHANGED <<gateway, asked, announcer, told, sse, active, faults, starts>>

\* announceFederation, after each handshake of connie-agent: heard only by a subscriber.
Announce(c) ==
  /\ announcer.sub.up /\ Len(announcer.sub.queue) < 2
  /\ announcer' = [announcer EXCEPT !.sub = Deliver(@, c)]
  /\ UNCHANGED <<gateway, asked, readers, told, sse, active, published, faults, starts>>

\* Wr4nglers activate and deactivate constellations in Policy, which keeps it in memory.
SetActive(c) ==
  /\ active' = IF c \in active THEN active \ {c} ELSE active \cup {c}
  /\ UNCHANGED <<gateway, feeds, sse, published, faults, starts>>

-----------------------------------------------------------------------------
(* The gateway's subscriptions                                              *)

\* Mutant of Subscribing: startChannelSubscriber does not look into activeChannels.
SubscribingAgain(known, new) ==
  known \o SetToSeq({Reader(c) : c \in new})

\* startChannelSubscriber for each of these channels: activeChannels lets one goroutine
\* per channel through.
Subscribing(known, new) ==
  known \o SetToSeq({Reader(c) : c \in
                       {d \in new : \A i \in 1 .. Len(known) : known[i].channel # d}})

\* The first subscription and each new one, 2 s after a failure.
AnnouncerConnects ==
  /\ Running /\ announcer.at # "read"
  /\ \/ announcer' = [at |-> "read", sub |-> Subscribed] /\ UNCHANGED faults
     \/ announcer.at = "connect" /\ Fault /\ announcer' = [Start EXCEPT !.at = "sleep"]
  /\ UNCHANGED <<gateway, asked, readers, told, sse, active, published, starts>>

\* An announcement starts a goroutine for its channel.
HearAnnouncement ==
  /\ Running /\ announcer.at = "read" /\ announcer.sub.queue # <<>>
  /\ LET c == Head(announcer.sub.queue) IN
       readers' = Subscribing(readers, {c}) /\ told' = told \cup {c}
  /\ announcer' = [announcer EXCEPT !.sub = Taken(@)]
  /\ UNCHANGED <<gateway, asked, sse, active, published, faults, starts>>

AnnouncerDrops ==
  /\ Running /\ announcer.at = "read"
  /\ \/ /\ Fault
        /\ \E s \in Torn(announcer.sub) \cup Broken(announcer.sub) :
             announcer' = [announcer EXCEPT !.sub = s]
     \/ Drained(announcer.sub) /\ announcer' = [Start EXCEPT !.at = "sleep"]
        /\ UNCHANGED faults
  /\ UNCHANGED <<gateway, asked, readers, told, sse, active, published, starts>>

\* subscribeActiveConstellations, once, 3 s after the start; a failed query is not repeated.
AskPolicy ==
  /\ Running /\ ~asked /\ asked' = TRUE
  /\ \/ readers' = Subscribing(readers, active) /\ told' = told \cup active
        /\ UNCHANGED faults
     \/ Fault /\ UNCHANGED <<readers, told>>
  /\ UNCHANGED <<gateway, announcer, sse, active, published, starts>>

SetReader(i, at, sub) == readers' = [readers EXCEPT ![i].at = at, ![i].sub = sub]

\* Mutant of ReaderConnects: the goroutine gives up after its first failure.
ReaderConnectsOnce(i) ==
  /\ Running /\ readers[i].at = "connect"
  /\ \/ SetReader(i, "read", Subscribed) /\ UNCHANGED faults
     \/ Fault /\ SetReader(i, "sleep", Unsubscribed)
  /\ UNCHANGED <<gateway, asked, announcer, told, sse, active, published, starts>>

ReaderConnects(i) ==
  /\ Running /\ readers[i].at # "read"
  /\ \/ SetReader(i, "read", Subscribed) /\ UNCHANGED faults
     \/ readers[i].at = "connect" /\ Fault /\ SetReader(i, "sleep", Unsubscribed)
  /\ UNCHANGED <<gateway, asked, announcer, told, sse, active, published, starts>>

ReaderDrops(i) ==
  /\ Running /\ readers[i].at = "read"
  /\ \/ /\ Fault
        /\ \E s \in Torn(readers[i].sub) \cup Broken(readers[i].sub) : SetReader(i, "read", s)
     \/ Drained(readers[i].sub) /\ SetReader(i, "sleep", Unsubscribed) /\ UNCHANGED faults
  /\ UNCHANGED <<gateway, asked, announcer, told, sse, active, published, starts>>

\* Mutant of Offered: the send to a browser's channel waits for room.
OfferedBlocking(message) ==
  /\ \A b \in clients : Len(room[b]) < Room
  /\ room' = [b \in Browsers |-> IF b \in clients THEN Append(room[b], message) ELSE room[b]]

\* The body of broadcastSSE: a browser whose channel is full misses the message.
Offered(message) ==
  room' = [b \in Browsers |->
    IF b \in clients /\ Len(room[b]) < Room THEN Append(room[b], message) ELSE room[b]]

\* One message is read and sent to all, under a read lock of the map.
Broadcast(i) ==
  /\ Running /\ readers[i].at = "read" /\ readers[i].sub.queue # <<>>
  /\ Offered(Head(readers[i].sub.queue))
  /\ SetReader(i, "read", Taken(readers[i].sub))
  /\ UNCHANGED <<gateway, asked, announcer, told, clients, closed, shown, blank,
                 active, published, faults, starts>>

-----------------------------------------------------------------------------
(* The browsers and the gateway's end                                       *)

\* handleSSE: the token is checked once, when the browser connects.
Open(b) ==
  /\ gateway = "up" /\ b \notin clients
  /\ clients' = clients \cup {b}
  /\ room' = [room EXCEPT ![b] = <<>>]
  /\ UNCHANGED <<gateway, feeds, closed, shown, blank, active, published, faults, starts>>

\* One turn of its loop; a closed channel gives what it still holds first.
Show(b) ==
  /\ Running /\ b \notin Stuck /\ b \in clients \cup closed /\ room[b] # <<>>
  /\ LET m == Head(room[b]) IN shown' = [shown EXCEPT ![b][m[1]] = Append(@, m[2])]
  /\ room' = [room EXCEPT ![b] = Tail(@)]
  /\ UNCHANGED <<gateway, feeds, clients, closed, blank, active, published, faults, starts>>

\* Then it gives the empty text at once, turn after turn: the receive does not ask whether
\* the channel is closed, and an empty frame is written.
ShowBlank(b) ==
  /\ b \in closed \ Stuck /\ room[b] = <<>>
  /\ blank' = blank \cup {b}
  /\ UNCHANGED <<gateway, feeds, clients, closed, room, shown, active, published, faults, starts>>

\* The request's context ends; EventSource comes back with a new one.
Leave(b) ==
  /\ Running /\ b \in clients \cup closed
  /\ clients' = clients \ {b} /\ closed' = closed \ {b}
  /\ room' = [room EXCEPT ![b] = <<>>]
  /\ UNCHANGED <<gateway, feeds, shown, blank, active, published, faults, starts>>

\* awaitShutdown: no new requests; Shutdown waits 15 s for the browsers, in vain while one
\* holds its feed open.
Terminate ==
  /\ gateway = "up" /\ gateway' = "draining"
  /\ UNCHANGED <<feeds, sse, active, published, faults, starts>>

\* Their channels are closed and the map is emptied, in one critical section.
CloseClients ==
  /\ gateway = "draining" /\ gateway' = "closed"
  /\ closed' = clients /\ clients' = {}
  /\ UNCHANGED <<feeds, room, shown, blank, active, published, faults, starts>>

\* The process exits, or is killed at any time: its state is gone.
Stop ==
  /\ gateway = "closed" \/ (gateway \in {"up", "draining"} /\ starts < MaxStarts)
  /\ gateway' = "stopped"
  /\ asked' = FALSE /\ announcer' = Start /\ readers' = <<>> /\ told' = {}
  /\ clients' = {} /\ closed' = {} /\ blank' = {} /\ room' = [b \in Browsers |-> <<>>]
  /\ UNCHANGED <<shown, active, published, faults, starts>>

Restart ==
  /\ gateway = "stopped" /\ starts < MaxStarts
  /\ gateway' = "up" /\ starts' = starts + 1
  /\ readers' = <<Reader(Seti)>> /\ told' = {Seti}
  /\ UNCHANGED <<asked, announcer, sse, active, published, faults>>

-----------------------------------------------------------------------------
Readers == 1 .. Cardinality(Channels)
ReaderStep(i) ==
  i \in 1 .. Len(readers) /\ (ReaderConnects(i) \/ ReaderDrops(i) \/ Broadcast(i))

Next ==
  \/ Report
  \/ \E c \in Constellations : Republish(c) \/ Announce(c) \/ SetActive(c)
  \/ AnnouncerConnects \/ HearAnnouncement \/ AnnouncerDrops \/ AskPolicy
  \/ \E i \in 1 .. Len(readers) : ReaderStep(i)
  \/ \E b \in Browsers : Open(b) \/ Show(b) \/ ShowBlank(b) \/ Leave(b)
  \/ Terminate \/ CloseClients \/ Stop \/ Restart

Spec == Init /\ [][Next]_vars

\* The goroutines run; nothing obliges a publisher, a user or a browser to do anything.
FairSpec ==
  /\ Spec
  /\ WF_vars(AnnouncerConnects) /\ WF_vars(HearAnnouncement) /\ WF_vars(AskPolicy)
  /\ \A i \in Readers : WF_vars(ReaderStep(i))

-----------------------------------------------------------------------------
(* Properties                                                               *)

\* Each channel the gateway was told of is read, again after every failure: subscriptions,
\* announcements and the startup query may fail or overlap, and none is forgotten.
ToldIsRead ==
  []<>(\A c \in told : \E i \in 1 .. Len(readers) :
         readers[i].channel = c /\ readers[i].at = "read")

\* A browser that reads nothing holds up neither the subscriptions nor the other browsers:
\* what reached the gateway is taken off every subscription.
StuckBlocksNobody == []<>(\A i \in 1 .. Len(readers) : readers[i].sub.queue = <<>>)

\* A send to a closed channel would end the gateway: between closing the browsers' channels
\* and the exit, broadcasts go on and find none of them.
NoSendOnClosed == clients \cap closed = {}
=============================================================================
