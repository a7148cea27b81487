---------------------------- MODULE Feeds_proofs ----------------------------
(* Theorems about the feeds:                                                 *)
(*   - the federation with one constellation (Federation, extended here),    *)
(*   - the window of an application's events (EventWindow),                  *)
(*   - the dashboard's live feed (EventFeed).                                *)
(* Each is a specification of its own and each theorem is about one of them. *)
(* A name that several of them declare (entry, feeds, posts, faults; Nil,    *)
(* MaxFaults) stands, in a theorem, for the one of its specification.        *)
EXTENDS Federation, CallChain, LiveFeed, TLAPS, SequenceTheorems, FiniteSetTheorems

CONSTANTS MaxSubs, MaxEvents, Stuck, Room, MaxStarts

VARIABLES
  subs, clock, got, overlap,
  asked, announcer, readers, clients, closed, room, told, active, starts

W == INSTANCE EventWindow
G == INSTANCE EventFeed

-----------------------------------------------------------------------------
(* The federation: any number of faults, quiet spells and restarts          *)

\* Signal Aggregator is told of completed handshakes only, because connie-agent reaches
\* the call only with a session that the remote has confirmed.
ConfirmedFirst == connie.at \in {"notify", "await", "watch"} => connie.sess \in acked

IInv == TypeOK /\ ConfirmedFirst /\ NothingStoredEarly

\* Cancelling changes no feed's session, and keeps feeds feeds.
LEMMA CancelKeeps ==
  ASSUME TypeOK, NEW s
  PROVE  /\ Cancel(s) \subseteq Feed
         /\ \A f \in Cancel(s) : \E g \in feeds : f.sess = g.sess
<1> DEFINE C(f) == IF f.sess = s THEN [f EXCEPT !.cancelled = TRUE] ELSE f
<1>1. \A f \in feeds : C(f) \in Feed /\ C(f).sess = f.sess
  <2>1. SUFFICES ASSUME NEW f \in feeds PROVE C(f) \in Feed /\ C(f).sess = f.sess
    OBVIOUS
  <2>2. f \in Feed BY DEF TypeOK
  <2>3. /\ [f EXCEPT !.cancelled = TRUE] \in Feed
        /\ [f EXCEPT !.cancelled = TRUE].sess = f.sess
    BY <2>2 DEF Feed
  <2> QED BY <2>2, <2>3
<1>2. Cancel(s) = {C(f) : f \in feeds} BY DEF Cancel
<1> QED BY <1>1, <1>2

\* Type correctness: every step of any process keeps the state in its types.
LEMMA TypeStep == ASSUME TypeOK, [Next]_vars PROVE TypeOK'
<1> USE FederationAssumption
<1> USE DEF TypeOK, Status, agent, aggregator, bounds, vars, At, Goto, Fault, Patient, Mark
<1>1. CASE ConnieStep
  <2>1. CASE Cleanup
    <3>1. entry # Nil => Cancel(entry.sess) \subseteq Feed BY CancelKeeps
    <3> QED BY <2>1, <3>1 DEF Cleanup
  <2>2. CASE Register
    <3>1. [connie EXCEPT !.at = "acknowledge", !.sess = next] \in
            [at: {"cleanup", "register", "acknowledge", "notify", "await",
                  "watch", "pause", "off"}, sess: Nat, cert: Nat]
      OBVIOUS
    <3>2. [remote EXCEPT !.pending = next] \in [pending: Nat, session: Nat, trusts: SUBSET Nat]
      OBVIOUS
    <3>3. next + 1 \in Nat \ {0} OBVIOUS
    <3>4. connie' \in [at: {"cleanup", "register", "acknowledge", "notify", "await",
                            "watch", "pause", "off"}, sess: Nat, cert: Nat]
      BY <2>2, <3>1 DEF Register
    <3>5. remote' \in [pending: Nat, session: Nat, trusts: SUBSET Nat] /\ next' \in Nat \ {0}
      BY <2>2, <3>2, <3>3 DEF Register
    <3>6. faults' \in Nat /\ UNCHANGED <<configured, acked, aggregator, quiets, restarts>>
      BY <2>2 DEF Register
    <3> QED BY <3>4, <3>5, <3>6
  <2>3. CASE Acknowledge BY <2>3 DEF Acknowledge
  <2>4. CASE Notify BY <2>4 DEF Notify, Post
  <2>5. CASE NotifyFails BY <2>5 DEF NotifyFails
  <2>6. CASE Retry BY <2>6 DEF Retry
  <2>7. CASE Silence BY <2>7 DEF Silence
  <2> QED BY <1>1, <2>1, <2>2, <2>3, <2>4, <2>5, <2>6, <2>7 DEF ConnieStep
<1>2. CASE Quiet BY <1>2 DEF Quiet
<1>3. CASE HandlerStep
  <2>1. PICK p \in posts : Begin(p) \/ Replace(p) BY <1>3 DEF HandlerStep
  <2>2. NewFeed(p) \in Feed BY DEF NewFeed, Feed
  <2>3. Install(p) => entry' \in [sess: Nat, cert: Nat, status: Status] /\ connie' \in
          [at: {"cleanup", "register", "acknowledge", "notify", "await",
                "watch", "pause", "off"}, sess: Nat, cert: Nat] /\ faults' \in Nat
                /\ posts' \subseteq posts
    BY DEF Install
  <2>4. CASE Begin(p)
    <3>1. CASE entry = Nil BY <2>2, <2>3, <2>4, <3>1 DEF Begin
    <3>2. CASE entry # Nil
      <4>1. Cancel(entry.sess) \subseteq Feed BY CancelKeeps
      <4>2. [p EXCEPT !.step = "wait", !.old = entry.sess] \in
              [sess: Nat, cert: Nat, step: {"check", "wait"}, old: Nat]
        BY <3>2, ZenonT(30)
      <4> QED BY <2>4, <3>2, <4>1, <4>2, ZenonT(30) DEF Begin
    <3> QED BY <3>1, <3>2
  <2>5. CASE Replace(p) BY <2>2, <2>3, <2>5 DEF Replace
  <2> QED BY <2>1, <2>4, <2>5
<1>4. ASSUME NEW f \in feeds, FeedStep(f) \/ MarkSilent(f) \/ StreamDrops(f) PROVE TypeOK'
  <2> f \in Feed OBVIOUS
  <2>0. \A s \in {"connect", "stream", "lost", "backoff"} : [f EXCEPT !.state = s] \in Feed
    BY DEF Feed
  <2>1. \A s \in Status : entry # Nil => [entry EXCEPT !.status = s] \in
                                          [sess: Nat, cert: Nat, status: Status]
    OBVIOUS
  <2>2. CASE Connect(f) BY <2>0, <2>1, <2>2 DEF Connect, Become
  <2>3. CASE Lose(f) BY <2>0, <2>1, <2>3 DEF Lose, Become
  <2>4. CASE Wake(f) BY <2>0, <2>4 DEF Wake, Become
  <2>5. CASE Exit(f) BY <2>5 DEF Exit
  <2>6. CASE MarkSilent(f) BY <2>1, <2>6 DEF MarkSilent
  <2>7. CASE StreamDrops(f) BY <2>0, <2>7 DEF StreamDrops, Become
  <2> QED BY <1>4, <2>2, <2>3, <2>4, <2>5, <2>6, <2>7 DEF FeedStep
<1>5. CASE Reconnect BY <1>5 DEF Reconnect
<1>6. CASE OfferExpires BY <1>6 DEF OfferExpires
<1>7. CASE RemoteRestart
  <2> DEFINE L(f) == IF f.state = "stream" THEN [f EXCEPT !.state = "lost"] ELSE f
  <2>1. \A f \in feeds : L(f) \in Feed BY DEF Feed
  <2>2. feeds' = {L(f) : f \in feeds} BY <1>7 DEF RemoteRestart
  <2> HIDE DEF L
  <2>3. feeds' \subseteq Feed BY <2>1, <2>2
  <2> QED BY <1>7, <2>3 DEF RemoteRestart, MayRestart
<1>8. CASE AggregatorRestart BY <1>8 DEF AggregatorRestart, MayRestart
<1>9. CASE ConnieRestart BY <1>9 DEF ConnieRestart, MayRestart
<1>10. CASE UNCHANGED vars BY <1>10
<1> QED BY <1>1, <1>2, <1>3, <1>4, <1>5, <1>6, <1>7, <1>8, <1>9, <1>10 DEF Next

\* Every step keeps what Signal Aggregator holds within the completed handshakes.
LEMMA EarlyStep ==
  ASSUME IInv, [Next]_vars PROVE ConfirmedFirst' /\ NothingStoredEarly'
<1> USE DEF agent, aggregator, bounds, vars, At, Goto, Mark, ConfirmedFirst, NothingStoredEarly
<1> TypeOK BY DEF IInv
<1>a. /\ connie \in [at: {"cleanup", "register", "acknowledge", "notify", "await",
                          "watch", "pause", "off"}, sess: Nat, cert: Nat]
      /\ entry # Nil => entry \in [sess: Nat, cert: Nat, status: Status]
      /\ feeds \subseteq Feed
  BY DEF TypeOK
<1>b. entry # Nil => \A s \in Status : [entry EXCEPT !.status = s].sess = entry.sess
  BY <1>a
<1>c. ConfirmedFirst /\ NothingStoredEarly BY DEF IInv
<1>1. CASE ConnieStep
  <2>1. CASE Cleanup
    <3>1. entry # Nil => \A f \in Cancel(entry.sess) : f.sess \in acked
      BY <1>c, CancelKeeps
    <3> QED BY <1>a, <1>c, <2>1, <3>1 DEF Cleanup
  <2>2. CASE Register BY <1>a, <1>c, <2>2 DEF Register
  <2>3. CASE Acknowledge BY <1>a, <1>c, <2>3 DEF Acknowledge
  <2>4. CASE Notify BY <1>a, <1>c, <2>4 DEF Notify, Post
  <2>5. CASE NotifyFails BY <1>a, <1>c, <2>5 DEF NotifyFails
  <2>6. CASE Retry BY <1>a, <1>c, <2>6 DEF Retry
  <2>7. CASE Silence BY <1>a, <1>c, <2>7 DEF Silence
  <2> QED BY <1>1, <2>1, <2>2, <2>3, <2>4, <2>5, <2>6, <2>7 DEF ConnieStep
<1>2. CASE Quiet BY <1>a, <1>c, <1>2 DEF Quiet
<1>3. CASE HandlerStep
  <2>1. PICK p \in posts : Begin(p) \/ Replace(p) BY <1>3 DEF HandlerStep
  <2>2. NewFeed(p).sess = p.sess /\ p.sess \in acked BY <1>c DEF NewFeed
  <2>3. Install(p) => /\ entry'.sess = p.sess
                      /\ posts' \subseteq posts
                      /\ connie' = connie \/ (connie.sess = p.sess /\ connie'.sess = p.sess)
    BY <1>a DEF Install
  <2>4. CASE Begin(p)
    <3>1. CASE entry = Nil BY <1>c, <2>2, <2>3, <2>4, <3>1 DEF Begin
    <3>2. CASE entry # Nil
      <4>1. \A f \in Cancel(entry.sess) : f.sess \in acked BY <1>c, CancelKeeps
      <4>2. [p EXCEPT !.step = "wait", !.old = entry.sess].sess = p.sess
        BY DEF TypeOK
      <4> QED BY <1>c, <2>2, <2>4, <3>2, <4>1, <4>2 DEF Begin
    <3> QED BY <3>1, <3>2
  <2>5. CASE Replace(p) BY <1>c, <2>2, <2>3, <2>5 DEF Replace
  <2> QED BY <2>1, <2>4, <2>5
<1>4. ASSUME NEW f \in feeds, FeedStep(f) \/ MarkSilent(f) \/ StreamDrops(f)
      PROVE  ConfirmedFirst' /\ NothingStoredEarly'
  <2>0. \A s : [f EXCEPT !.state = s].sess = f.sess BY <1>a DEF Feed
  <2>1. CASE Connect(f) BY <1>b, <1>c, <2>0, <2>1 DEF Connect, Become, Status
  <2>2. CASE Lose(f)
    <3>1. entry' # Nil => entry # Nil /\ entry'.sess = entry.sess
      BY <1>b, <2>2 DEF Lose, Status
    <3>2. \A g \in feeds' : g.sess \in acked BY <1>c, <2>0, <2>2 DEF Lose, Become
    <3>3. UNCHANGED <<connie, acked, posts>> BY <2>2 DEF Lose
    <3> QED BY <1>c, <3>1, <3>2, <3>3
  <2>3. CASE Wake(f) BY <1>c, <2>0, <2>3 DEF Wake, Become
  <2>4. CASE Exit(f) BY <1>c, <2>4 DEF Exit
  <2>5. CASE MarkSilent(f) BY <1>b, <1>c, <2>5 DEF MarkSilent, Status
  <2>6. CASE StreamDrops(f) BY <1>c, <2>0, <2>6 DEF StreamDrops, Become
  <2> QED BY <1>4, <2>1, <2>2, <2>3, <2>4, <2>5, <2>6 DEF FeedStep
<1>5. CASE Reconnect BY <1>b, <1>c, <1>5 DEF Reconnect, Status
<1>6. CASE OfferExpires BY <1>c, <1>6 DEF OfferExpires
<1>7. CASE RemoteRestart
  <2> DEFINE L(f) == IF f.state = "stream" THEN [f EXCEPT !.state = "lost"] ELSE f
  <2>1. \A f \in feeds : L(f).sess = f.sess BY <1>a DEF Feed
  <2>2. feeds' = {L(f) : f \in feeds} BY <1>7 DEF RemoteRestart
  <2> HIDE DEF L
  <2>3. \A f \in feeds' : f.sess \in acked BY <1>c, <2>1, <2>2
  <2> QED BY <1>c, <1>7, <2>3 DEF RemoteRestart, MayRestart
<1>8. CASE AggregatorRestart BY <1>c, <1>8 DEF AggregatorRestart, MayRestart
<1>9. CASE ConnieRestart BY <1>a, <1>c, <1>9 DEF ConnieRestart, MayRestart
<1>10. CASE UNCHANGED vars BY <1>c, <1>10
<1> QED BY <1>1, <1>2, <1>3, <1>4, <1>5, <1>6, <1>7, <1>8, <1>9, <1>10 DEF Next

LEMMA InitHolds == Init => IInv
BY FederationAssumption DEF Init, IInv, TypeOK, ConfirmedFirst, NothingStoredEarly, Status

LEMMA Inductive == IInv /\ [Next]_vars => IInv'
BY TypeStep, EarlyStep DEF IInv

\* The variables of both programs and of the remote stay in their types.
THEOREM FederationTypeCorrect == Spec => []TypeOK
<1>1. IInv => TypeOK BY DEF IInv
<1> QED BY InitHolds, Inductive, <1>1, PTL DEF Spec

\* Whatever is lost, fails or restarts, and however handlers overlap, no subscription, feed
\* or handler of Signal Aggregator holds a session whose handshake was not completed.
THEOREM OnlyCompletedHandshakes == Spec => []NothingStoredEarly
<1>1. IInv => NothingStoredEarly BY DEF IInv
<1> QED BY InitHolds, Inductive, <1>1, PTL DEF Spec

-----------------------------------------------------------------------------
(* When a handler is done before connie-agent is back (PromptHandlers).     *)

\* At most one handler, and connie-agent waits for it unless it has just been restarted.
OneHandler ==
  /\ \A p, q \in posts : p = q
  /\ posts # {} => connie.at \in {"await", "cleanup"}
  /\ connie.at = "await" => \A p \in posts : p.sess = connie.sess

\* A handler that waits has cancelled every feed.
Quietened == \A p \in posts : p.step = "wait" => \A f \in feeds : f.cancelled

\* Sessions are handed on in the order in which they were offered.
Numbered ==
  /\ connie.sess < next
  /\ entry # Nil => entry.sess < next
  /\ entry # Nil /\ connie.at \in {"acknowledge", "notify", "await", "watch"} =>
       entry.sess <= connie.sess
  /\ \A p \in posts : p.sess < next /\ (entry # Nil => entry.sess <= p.sess)

FInv == TypeOK /\ OneHandler /\ Quietened /\ OneFeed /\ Numbered

\* What is left uncancelled belonged to another session.
LEMMA CancelStops ==
  ASSUME TypeOK, NEW s
  PROVE  \A f \in Cancel(s) : ~f.cancelled => f \in feeds /\ f.sess # s
<1> DEFINE C(f) == IF f.sess = s THEN [f EXCEPT !.cancelled = TRUE] ELSE f
<1>1. \A f \in feeds : ~C(f).cancelled => C(f) = f /\ f.sess # s
  <2>1. SUFFICES ASSUME NEW f \in feeds PROVE ~C(f).cancelled => C(f) = f /\ f.sess # s
    OBVIOUS
  <2>2. f \in Feed BY DEF TypeOK
  <2>3. [f EXCEPT !.cancelled = TRUE].cancelled BY <2>2 DEF Feed
  <2> QED BY <2>3
<1>2. Cancel(s) = {C(f) : f \in feeds} BY DEF Cancel
<1> HIDE DEF C
<1> QED BY <1>1, <1>2

\* A change of one feed's state is no change of what it may do.
LEMMA FeedMoves ==
  ASSUME FInv, NEW f \in feeds, FeedStep(f) \/ MarkSilent(f) \/ StreamDrops(f)
  PROVE  /\ UNCHANGED <<connie, next, posts>>
         /\ (entry = Nil) = (entry' = Nil) /\ (entry # Nil => entry'.sess = entry.sess)
         /\ \A g \in feeds' : \E h \in feeds : g.sess = h.sess /\ g.cancelled = h.cancelled
<1> USE DEF agent, aggregator, bounds, vars, Status
<1>1. /\ f \in Feed
      /\ entry # Nil => entry \in [sess: Nat, cert: Nat, status: Status]
  BY DEF FInv, TypeOK
<1>2. \A s : [f EXCEPT !.state = s].sess = f.sess /\ [f EXCEPT !.state = s].cancelled = f.cancelled
  BY <1>1 DEF Feed
<1>3. ASSUME NEW s \in Status, Mark(s)
      PROVE  (entry = Nil) = (entry' = Nil) /\ (entry # Nil => entry'.sess = entry.sess)
  <2>1. CASE entry = Nil BY <1>3, <2>1 DEF Mark
  <2>2. CASE entry # Nil
    <3> DEFINE e == [entry EXCEPT !.status = s]
    <3>1. e.sess = entry.sess /\ e \in [sess: Nat, cert: Nat, status: Status] BY <1>1, <2>2
    <3>2. e # Nil BY <3>1, FederationAssumption
    <3> QED BY <1>3, <2>2, <3>1, <3>2 DEF Mark
  <2> QED BY <2>1, <2>2
<1>4. CASE Connect(f)
  <2>1. (entry = Nil) = (entry' = Nil) /\ (entry # Nil => entry'.sess = entry.sess)
    BY <1>3, <1>4 DEF Connect
  <2>2. PICK step \in {"stream", "backoff"} : Become(f, [f EXCEPT !.state = step])
    BY <1>4 DEF Connect
  <2>3. \A g \in feeds' : \E h \in feeds : g.sess = h.sess /\ g.cancelled = h.cancelled
    BY <1>2, <2>2 DEF Become
  <2> QED BY <1>4, <2>1, <2>3 DEF Connect
<1>5. CASE Lose(f)
  <2>1. (entry = Nil) = (entry' = Nil) /\ (entry # Nil => entry'.sess = entry.sess)
    BY <1>3, <1>5 DEF Lose
  <2>2. \A g \in feeds' : \E h \in feeds : g.sess = h.sess /\ g.cancelled = h.cancelled
    BY <1>2, <1>5 DEF Lose, Become
  <2> QED BY <1>5, <2>1, <2>2 DEF Lose
<1>6. CASE Wake(f) BY <1>2, <1>6 DEF Wake, Become
<1>7. CASE Exit(f) BY <1>7 DEF Exit
<1>8. CASE MarkSilent(f) BY <1>3, <1>8 DEF MarkSilent
<1>9. CASE StreamDrops(f) BY <1>2, <1>9 DEF StreamDrops, Become
<1> QED BY <1>4, <1>5, <1>6, <1>7, <1>8, <1>9 DEF FeedStep

\* The end of a handler: the session in hand is installed, with the only live feed.
LEMMA Installing ==
  ASSUME FInv, NEW p \in posts, Install(p), \A f \in feeds : f.cancelled,
         feeds' = feeds \cup {NewFeed(p)}, next' = next
  PROVE  OneHandler' /\ Quietened' /\ OneFeed' /\ Numbered' /\ entry'.sess = p.sess
<1> USE DEF FInv, At, Goto
<1>1. posts' = {} BY DEF Install, OneHandler
<1>2. entry' # Nil /\ entry'.sess = p.sess
  <2>1. p.sess \in Nat /\ p.cert \in Nat BY DEF TypeOK
  <2>2. entry' = [sess |-> p.sess, cert |-> p.cert, status |-> "active"] BY DEF Install
  <2>3. entry' \in [sess: Nat, cert: Nat, status: Status] BY <2>1, <2>2 DEF Status
  <2> QED BY <2>2, <2>3, FederationAssumption DEF Status
<1>3. NewFeed(p).sess = p.sess BY DEF NewFeed
<1>4. connie'.sess = connie.sess
  BY DEF Install, TypeOK
<1>5. connie.at = "await" => connie.sess = p.sess BY DEF OneHandler
<1>6. connie.at # "await" => connie' = connie /\ connie.at = "cleanup"
  BY DEF Install, OneHandler
<1>7. OneFeed' BY <1>2, <1>3 DEF OneFeed
<1>8. Numbered'
  <2>1. p.sess < next /\ connie.sess < next BY DEF Numbered
  <2>2. p.sess \in Nat BY DEF TypeOK
  <2>3. connie'.at \in {"acknowledge", "notify", "await", "watch"} => connie.sess = p.sess
    BY <1>5, <1>6
  <2> QED BY <1>1, <1>2, <1>4, <2>1, <2>2, <2>3 DEF Numbered
<1>9. OneHandler' /\ Quietened' BY <1>1 DEF OneHandler, Quietened
<1> QED BY <1>2, <1>7, <1>8, <1>9

\* The handlers' steps, for both of their critical sections.
LEMMA HandlerKeeps ==
  ASSUME FInv, HandlerStep
  PROVE  /\ OneHandler' /\ Quietened' /\ OneFeed' /\ Numbered'
         /\ (entry # Nil /\ entry' # Nil) => entry'.sess >= entry.sess
<1> USE DEF FInv
<1>1. PICK p \in posts : Begin(p) \/ Replace(p) BY DEF HandlerStep
<1>2. p.sess \in Nat /\ (entry # Nil => entry.sess \in Nat /\ entry.sess <= p.sess)
  BY DEF TypeOK, Numbered
<1>3. CASE Begin(p) /\ entry = Nil
  <2>1. \A f \in feeds : f.cancelled BY <1>3 DEF OneFeed
  <2>2. Install(p) /\ feeds' = feeds \cup {NewFeed(p)} /\ next' = next BY <1>3 DEF Begin
  <2> QED BY <1>3, <2>1, <2>2, Installing
<1>4. CASE Begin(p) /\ entry # Nil
  <2> DEFINE w == [p EXCEPT !.step = "wait", !.old = entry.sess]
  <2>1. w.sess = p.sess BY DEF TypeOK
  <2>2. posts' = {w} BY <1>4 DEF Begin, OneHandler
  <2>3. UNCHANGED <<connie, entry, next>> /\ feeds' = Cancel(entry.sess) BY <1>4 DEF Begin
  <2>4. \A f \in feeds' : f.cancelled BY <2>3, CancelStops DEF OneFeed
  <2> HIDE DEF w
  <2>5. OneHandler' BY <2>1, <2>2, <2>3 DEF OneHandler
  <2>6. Quietened' /\ OneFeed' BY <2>4 DEF Quietened, OneFeed
  <2>7. Numbered' BY <2>1, <2>2, <2>3 DEF Numbered
  <2> QED BY <1>2, <2>3, <2>5, <2>6, <2>7
<1>5. CASE Replace(p)
  <2>1. \A f \in feeds : f.cancelled BY <1>5 DEF Replace, Quietened
  <2>2. Install(p) /\ feeds' = feeds \cup {NewFeed(p)} /\ next' = next BY <1>5 DEF Replace
  <2> QED BY <1>2, <2>1, <2>2, Installing
<1> QED BY <1>1, <1>3, <1>4, <1>5

\* Every other step, one program at a time.
LEMMA PromptStep ==
  ASSUME PromptHandlers, FInv, [Next]_vars
  PROVE  /\ OneHandler' /\ Quietened' /\ OneFeed' /\ Numbered'
         /\ (entry # Nil /\ entry' # Nil) => entry'.sess >= entry.sess
<1> DEFINE Keeps == /\ OneHandler' /\ Quietened' /\ OneFeed' /\ Numbered'
                    /\ (entry # Nil /\ entry' # Nil) => entry'.sess >= entry.sess
<1> USE DEF agent, aggregator, bounds, vars, At, Goto
<1>a. /\ connie \in [at: {"cleanup", "register", "acknowledge", "notify", "await",
                          "watch", "pause", "off"}, sess: Nat, cert: Nat]
      /\ entry # Nil => entry.sess \in Nat
      /\ next \in Nat
  BY DEF FInv, TypeOK
<1>b. OneHandler /\ Quietened /\ OneFeed /\ Numbered BY DEF FInv
<1>1. CASE ConnieStep
  <2>1. CASE Cleanup
    <3>1. posts = {} /\ posts' = {} /\ next' = next BY <2>1 DEF Cleanup, Patient
    <3>2. connie'.sess = connie.sess /\ connie'.at \in {"register", "off"}
      BY <1>a, <2>1 DEF Cleanup
    <3>3. UNCHANGED <<entry, feeds>> \/ (entry # Nil /\ entry' = Nil /\ feeds' = Cancel(entry.sess))
      BY <2>1 DEF Cleanup
    <3>4. OneFeed'
      <4>1. CASE UNCHANGED <<entry, feeds>> BY <1>b, <4>1 DEF OneFeed
      <4>2. CASE entry # Nil /\ feeds' = Cancel(entry.sess)
        <5>1. TypeOK BY DEF FInv
        <5>2. \A f \in feeds' : f.cancelled BY <1>b, <4>2, <5>1, CancelStops DEF OneFeed
        <5> QED BY <5>2 DEF OneFeed
      <4> QED BY <3>3, <4>1, <4>2
    <3>5. OneHandler' /\ Quietened' BY <3>1, <3>2 DEF OneHandler, Quietened
    <3>6. Numbered' BY <1>b, <3>1, <3>2, <3>3 DEF Numbered
    <3> QED BY <1>a, <3>3, <3>4, <3>5, <3>6
  <2>2. CASE Register
    <3>1. posts = {} BY <1>b, <2>2 DEF Register, OneHandler
    <3>2. UNCHANGED <<entry, feeds, posts>> BY <2>2 DEF Register
    <3>3. \/ next' = next + 1 /\ connie'.sess = next /\ connie'.at = "acknowledge"
          \/ next' \in {next, next + 1} /\ connie'.sess = connie.sess /\ connie'.at = "pause"
      BY <1>a, <2>2 DEF Register, Fault
    <3>4. OneHandler' /\ Quietened' /\ OneFeed' BY <1>b, <3>1, <3>2 DEF OneHandler, Quietened, OneFeed
    <3>5. Numbered' BY <1>a, <1>b, <3>1, <3>2, <3>3 DEF Numbered
    <3> QED BY <1>a, <3>2, <3>4, <3>5
  <2>3. CASE Acknowledge
    <3>1. posts = {} BY <1>b, <2>3 DEF Acknowledge, OneHandler
    <3>2. UNCHANGED <<entry, feeds, posts, next>> BY <2>3 DEF Acknowledge
    <3>3. connie'.sess = connie.sess /\ connie'.at \in {"notify", "pause"}
      BY <1>a, <2>3 DEF Acknowledge
    <3>4. OneHandler' /\ Quietened' /\ OneFeed' BY <1>b, <3>1, <3>2 DEF OneHandler, Quietened, OneFeed
    <3>5. Numbered' BY <1>b, <2>3, <3>1, <3>2, <3>3 DEF Numbered, Acknowledge
    <3> QED BY <1>a, <3>2, <3>4, <3>5
  <2>4. CASE Notify
    <3> DEFINE p == [sess |-> connie.sess, cert |-> connie.cert, step |-> "check", old |-> 0]
    <3>1. posts = {} BY <1>b, <2>4 DEF Notify, OneHandler
    <3>2. UNCHANGED <<entry, feeds, next>> BY <2>4 DEF Notify
    <3>3. connie'.sess = connie.sess BY <1>a, <2>4 DEF Notify
    <3>4. (posts' = {p} /\ connie'.at = "await") \/ (posts' = {} /\ connie'.at = "pause")
      BY <1>a, <2>4, <3>1 DEF Notify, Post
    <3>5. entry # Nil => entry.sess <= connie.sess BY <1>b, <2>4 DEF Notify, Numbered
    <3>6. OneHandler' /\ Quietened' BY <3>3, <3>4 DEF OneHandler, Quietened
    <3>7. OneFeed' BY <1>b, <3>2 DEF OneFeed
    <3>8. Numbered' BY <1>b, <3>2, <3>3, <3>4, <3>5 DEF Numbered
    <3> QED BY <1>a, <3>2, <3>6, <3>7, <3>8
  <2>5. CASE NotifyFails \/ Retry \/ Silence
    <3>1. posts = {}
      BY <1>b, <2>5 DEF NotifyFails, Retry, Silence, Patient, OneHandler
    <3>2. UNCHANGED <<entry, feeds, posts, next>> BY <2>5 DEF NotifyFails, Retry, Silence
    <3>3. connie'.sess = connie.sess /\ connie'.at \in {"register", "pause"}
      BY <1>a, <2>5 DEF NotifyFails, Retry, Silence
    <3>4. OneHandler' /\ Quietened' /\ OneFeed' BY <1>b, <3>1, <3>2 DEF OneHandler, Quietened, OneFeed
    <3>5. Numbered' BY <1>b, <3>1, <3>2, <3>3 DEF Numbered
    <3> QED BY <1>a, <3>2, <3>4, <3>5
  <2> QED BY <1>1, <2>1, <2>2, <2>3, <2>4, <2>5 DEF ConnieStep
<1>2. CASE Quiet
  <2>1. posts = {} BY <1>b, <1>2 DEF Quiet, OneHandler
  <2>2. UNCHANGED <<entry, feeds, posts, next>> BY <1>2 DEF Quiet
  <2>3. connie'.sess = connie.sess /\ connie'.at = "register" BY <1>a, <1>2 DEF Quiet
  <2>4. OneHandler' /\ Quietened' /\ OneFeed' BY <1>b, <2>1, <2>2 DEF OneHandler, Quietened, OneFeed
  <2>5. Numbered' BY <1>b, <2>1, <2>2, <2>3 DEF Numbered
  <2> QED BY <1>a, <2>2, <2>4, <2>5
<1>3. CASE HandlerStep BY <1>3, HandlerKeeps
<1>4. ASSUME NEW f \in feeds, FeedStep(f) \/ MarkSilent(f) \/ StreamDrops(f) PROVE Keeps
  <2>1. /\ UNCHANGED <<connie, next, posts>>
        /\ (entry = Nil) = (entry' = Nil) /\ (entry # Nil => entry'.sess = entry.sess)
        /\ \A g \in feeds' : \E h \in feeds : g.sess = h.sess /\ g.cancelled = h.cancelled
    BY <1>4, FeedMoves
  <2>2. OneHandler' BY <1>b, <2>1 DEF OneHandler
  <2>3. Quietened' BY <1>b, <2>1 DEF Quietened
  <2>4. OneFeed' BY <1>b, <2>1 DEF OneFeed
  <2>5. Numbered' BY <1>b, <2>1 DEF Numbered
  <2> QED BY <1>a, <2>1, <2>2, <2>3, <2>4, <2>5
<1>5. CASE Reconnect
  <2>1. UNCHANGED <<connie, next, posts, feeds>> /\ entry # Nil /\ Mark("reconnecting")
    BY <1>5 DEF Reconnect
  <2>2. entry \in [sess: Nat, cert: Nat, status: Status] BY <2>1 DEF FInv, TypeOK
  <2>3. [entry EXCEPT !.status = "reconnecting"] \in [sess: Nat, cert: Nat, status: Status]
        /\ [entry EXCEPT !.status = "reconnecting"].sess = entry.sess
    BY <2>2 DEF Status
  <2>4. entry' # Nil /\ entry'.sess = entry.sess
    BY <2>1, <2>3, FederationAssumption DEF Mark, Status
  <2>5. OneHandler' /\ Quietened' BY <1>b, <2>1 DEF OneHandler, Quietened
  <2>6. OneFeed' BY <1>b, <2>1, <2>4 DEF OneFeed
  <2>7. Numbered' BY <1>b, <2>1, <2>4 DEF Numbered
  <2> QED BY <1>a, <2>4, <2>5, <2>6, <2>7
<1>6. CASE OfferExpires \/ UNCHANGED vars
  <2>1. UNCHANGED <<connie, next, posts, feeds, entry>> BY <1>6 DEF OfferExpires
  <2>2. OneHandler' /\ Quietened' /\ OneFeed' BY <1>b, <2>1 DEF OneHandler, Quietened, OneFeed
  <2>3. Numbered' BY <1>b, <2>1 DEF Numbered
  <2> QED BY <1>a, <2>1, <2>2, <2>3
<1>7. CASE RemoteRestart
  <2> DEFINE L(f) == IF f.state = "stream" THEN [f EXCEPT !.state = "lost"] ELSE f
  <2>1. \A f \in feeds : L(f).sess = f.sess /\ L(f).cancelled = f.cancelled
    BY DEF FInv, TypeOK, Feed
  <2>2. feeds' = {L(f) : f \in feeds} BY <1>7 DEF RemoteRestart
  <2>3. UNCHANGED <<connie, next, posts, entry>> BY <1>7 DEF RemoteRestart, MayRestart
  <2> HIDE DEF L
  <2>4. OneHandler' BY <1>b, <2>3 DEF OneHandler
  <2>5. Quietened' BY <1>b, <2>1, <2>2, <2>3 DEF Quietened
  <2>6. OneFeed' BY <1>b, <2>1, <2>2, <2>3 DEF OneFeed
  <2>7. Numbered' BY <1>b, <2>3 DEF Numbered
  <2> QED BY <1>a, <2>3, <2>4, <2>5, <2>6, <2>7
<1>8. CASE AggregatorRestart
  <2>1. UNCHANGED <<connie, next>> /\ posts' = {} /\ feeds' = {} /\ entry' = Nil
    BY <1>8 DEF AggregatorRestart, MayRestart
  <2> QED BY <1>b, <2>1 DEF OneHandler, Quietened, OneFeed, Numbered
<1>9. CASE ConnieRestart
  <2>1. UNCHANGED <<next, posts, feeds, entry>> /\ connie'.at = "cleanup" /\ connie'.sess = 0
    BY <1>9 DEF ConnieRestart, MayRestart
  <2>2. OneHandler' BY <1>b, <2>1 DEF OneHandler
  <2>3. Quietened' /\ OneFeed' BY <1>b, <2>1 DEF Quietened, OneFeed
  <2>4. Numbered' BY <1>a, <1>b, <2>1 DEF Numbered
  <2> QED BY <1>a, <2>1, <2>2, <2>3, <2>4
<1> QED BY <1>1, <1>2, <1>3, <1>4, <1>5, <1>6, <1>7, <1>8, <1>9 DEF Next

LEMMA PromptInit == Init => FInv
BY InitHolds DEF Init, IInv, FInv, OneHandler, Quietened, OneFeed, Numbered

\* If handlers are prompt, every feed that still runs for good belongs to the entry: it
\* is the only one to republish and DELETE can stop it.
THEOREM OneFeedOnly == ASSUME PromptHandlers PROVE Spec => []OneFeed
<1>1. FInv /\ [Next]_vars => FInv' BY TypeStep, PromptStep DEF FInv
<1>2. FInv => OneFeed BY DEF FInv
<1> QED BY PromptInit, <1>1, <1>2, PTL DEF Spec

\* If handlers are prompt, a session is only ever replaced by a newer one.
THEOREM SessionsOnlyAdvance == ASSUME PromptHandlers PROVE Spec => SessionsAdvance
<1>1. FInv /\ [Next]_vars => FInv' BY TypeStep, PromptStep DEF FInv
<1>2. FInv /\ [Next]_vars => [(entry # Nil /\ entry' # Nil) => entry'.sess >= entry.sess]_vars
  BY PromptStep
<1> QED BY PromptInit, <1>1, <1>2, PTL DEF Spec, SessionsAdvance

-----------------------------------------------------------------------------
(* Queues of a subscription                                                 *)

\* t is what is left of q after some messages were lost or taken: the others keep their order.
Thinned(t, q) ==
  \E f \in [1 .. Len(t) -> 1 .. Len(q)] :
    /\ \A i \in 1 .. Len(t) : t[i] = q[f[i]]
    /\ \A i, j \in 1 .. Len(t) : i < j => f[i] < f[j]

\* The queue without its k-th message (RemoveAt of the community modules, as Torn uses it).
Removed(q, k) == SubSeq(q, 1, k - 1) \o SubSeq(q, k + 1, Len(q))

\* A message lost from the middle of a queue (Torn) thins it.
LEMMA RemovedThins ==
  ASSUME NEW M, NEW q \in Seq(M), NEW k \in 1 .. Len(q)
  PROVE  Removed(q, k) \in Seq(M) /\ Thinned(Removed(q, k), q)
<1> DEFINE a == SubSeq(q, 1, k - 1)
           b == SubSeq(q, k + 1, Len(q))
           r == Removed(q, k)
           f == [i \in 1 .. Len(r) |-> IF i < k THEN i ELSE i + 1]
<1>1. Len(q) \in Nat BY LenProperties
<1>2. /\ a \in Seq(M) /\ Len(a) = k - 1 /\ \A i \in 1 .. k - 1 : a[i] = q[i]
      /\ b \in Seq(M) /\ Len(b) = Len(q) - k /\ \A i \in 1 .. Len(q) - k : b[i] = q[k + i]
  <2>1. a \in Seq(M) /\ Len(a) = k - 1 /\ \A i \in 1 .. k - 1 : a[i] = q[i]
    BY <1>1, SubSeqProperties
  <2>2. b \in Seq(M) /\ Len(b) = Len(q) - k /\ \A i \in 1 .. Len(q) - k : b[i] = q[k + i]
    BY <1>1, SubSeqProperties
  <2> QED BY <2>1, <2>2
<1>3. /\ r \in Seq(M) /\ Len(r) = Len(q) - 1
      /\ \A i \in 1 .. Len(r) : r[i] = IF i < k THEN q[i] ELSE q[i + 1]
  <2>1. r = a \o b BY DEF Removed
  <2>2. r \in Seq(M) /\ Len(r) = Len(a) + Len(b)
        /\ \A i \in 1 .. Len(a) + Len(b) : r[i] = IF i <= Len(a) THEN a[i] ELSE b[i - Len(a)]
    <3>1. a \in Seq(M) /\ b \in Seq(M) BY <1>2
    <3> HIDE DEF a, b
    <3> QED BY <2>1, <3>1, ConcatProperties
  <2> HIDE DEF a, b, r
  <2>3. Len(r) = Len(q) - 1 BY <1>1, <1>2, <2>2
  <2>4. ASSUME NEW i \in 1 .. Len(r) PROVE r[i] = IF i < k THEN q[i] ELSE q[i + 1]
    <3>1. CASE i < k BY <1>1, <1>2, <2>2, <2>3, <3>1
    <3>2. CASE i >= k
      <4>1. r[i] = b[i - (k - 1)] BY <1>1, <1>2, <2>2, <2>3, <3>2
      <4>2. PICK j \in 1 .. Len(q) - k : j = i - (k - 1) BY <1>1, <2>3, <3>2
      <4>3. k + j = i + 1 BY <1>1, <2>3, <4>2
      <4>4. b[j] = q[i + 1] BY <1>2, <4>3
      <4> QED BY <3>2, <4>1, <4>2, <4>4
    <3> QED BY <2>3, <1>1, <3>1, <3>2
  <2> QED BY <2>2, <2>3, <2>4
<1> HIDE DEF a, b, r
<1>4. /\ f \in [1 .. Len(r) -> 1 .. Len(q)]
      /\ \A i \in 1 .. Len(r) : r[i] = q[f[i]]
      /\ \A i, j \in 1 .. Len(r) : i < j => f[i] < f[j]
  BY <1>1, <1>3
<1>5. Thinned(r, q)
  <2> HIDE DEF f
  <2> QED BY <1>4 DEF Thinned
<1> QED BY <1>3, <1>5 DEF r

\* The end of a queue lost with its connection (Broken) thins it.
LEMMA CutThins ==
  ASSUME NEW M, NEW q \in Seq(M), NEW k \in 0 .. Len(q)
  PROVE  SubSeq(q, 1, k) \in Seq(M) /\ Thinned(SubSeq(q, 1, k), q)
<1> DEFINE r == SubSeq(q, 1, k)
           f == [i \in 1 .. Len(r) |-> i]
<1>1. Len(q) \in Nat BY LenProperties
<1>2. r \in Seq(M) /\ Len(r) = k /\ \A i \in 1 .. k : r[i] = q[i]
  BY <1>1, SubSeqProperties
<1> HIDE DEF r
<1>3. /\ f \in [1 .. Len(r) -> 1 .. Len(q)]
      /\ \A i \in 1 .. Len(r) : r[i] = q[f[i]]
      /\ \A i, j \in 1 .. Len(r) : i < j => f[i] < f[j]
  BY <1>1, <1>2
<1> HIDE DEF f
<1>4. Thinned(r, q) BY <1>3 DEF Thinned
<1> QED BY <1>2, <1>4 DEF r

-----------------------------------------------------------------------------
(* Queues of numbered messages                                              *)

\* The messages of q are numbered upwards, from above low to high at most.
Ascends(q, number, low, high) ==
  \A i \in 1 .. Len(q) :
    number[q[i]] \in low + 1 .. high /\ \A j \in 1 .. i - 1 : number[q[j]] < number[q[i]]

\* An empty queue is in order.
LEMMA EmptyAscends == \A number, low, high : Ascends(<<>>, number, low, high)
BY DEF Ascends

\* Losing messages leaves the rest in order, and later messages may be expected.
LEMMA ThinnedAscends ==
  ASSUME NEW M, NEW number \in [M -> Nat], NEW low \in Nat, NEW high \in Nat,
         NEW q \in Seq(M), Ascends(q, number, low, high), NEW t \in Seq(M), Thinned(t, q),
         NEW top \in Nat, high <= top
  PROVE  Ascends(t, number, low, top)
<1>1. PICK f \in [1 .. Len(t) -> 1 .. Len(q)] :
        /\ \A i \in 1 .. Len(t) : t[i] = q[f[i]]
        /\ \A i, j \in 1 .. Len(t) : i < j => f[i] < f[j]
  BY DEF Thinned
<1>2. Len(q) \in Nat /\ Len(t) \in Nat BY LenProperties
<1>3. SUFFICES ASSUME NEW i \in 1 .. Len(t)
               PROVE  /\ number[t[i]] \in low + 1 .. top
                      /\ \A j \in 1 .. i - 1 : number[t[j]] < number[t[i]]
  BY DEF Ascends
<1>4. f[i] \in 1 .. Len(q) /\ t[i] = q[f[i]] BY <1>1
<1>5. number[q[f[i]]] \in low + 1 .. high BY <1>4 DEF Ascends
<1>6. ASSUME NEW j \in 1 .. i - 1 PROVE number[t[j]] < number[t[i]]
  <2>1. j \in 1 .. Len(t) /\ j < i BY <1>2
  <2>2. f[j] < f[i] /\ f[j] \in 1 .. Len(q) /\ t[j] = q[f[j]] BY <1>1, <2>1
  <2>3. f[j] \in 1 .. f[i] - 1 BY <1>2, <1>4, <2>2, SMTT(30)
  <2>4. number[q[f[j]]] < number[q[f[i]]] BY <1>4, <2>3 DEF Ascends
  <2> QED BY <1>4, <2>2, <2>4
<1> QED BY <1>4, <1>5, <1>6, SMTT(30)

\* A message with a later number keeps the order.
LEMMA AppendAscends ==
  ASSUME NEW M, NEW number \in [M -> Nat], NEW low \in Nat, NEW high \in Nat,
         NEW q \in Seq(M), Ascends(q, number, low, high),
         NEW m \in M, NEW top \in Nat, high < number[m], low < number[m], number[m] <= top
  PROVE  Append(q, m) \in Seq(M) /\ Ascends(Append(q, m), number, low, top)
<1>1. /\ Append(q, m) \in Seq(M) /\ Len(Append(q, m)) = Len(q) + 1 /\ Len(q) \in Nat
      /\ \A i \in 1 .. Len(q) : Append(q, m)[i] = q[i]
      /\ Append(q, m)[Len(q) + 1] = m
  BY AppendProperties, LenProperties
<1> DEFINE r == Append(q, m)
<1>2. \A i \in 1 .. Len(r) : i \in 1 .. Len(q) \/ i = Len(q) + 1 BY <1>1
<1>3. \A i \in 1 .. Len(q) : number[q[i]] \in low + 1 .. high BY DEF Ascends
<1>4. \A i \in 1 .. Len(q) : r[i] = q[i] BY <1>1
<1>5. r[Len(q) + 1] = m /\ Len(r) = Len(q) + 1 /\ number[m] \in Nat BY <1>1
<1> HIDE DEF r
<1>6. ASSUME NEW i \in 1 .. Len(q)
      PROVE  number[r[i]] \in low + 1 .. top /\ \A j \in 1 .. i - 1 : number[r[j]] < number[r[i]]
  <2>1. number[r[i]] \in low + 1 .. top BY <1>3, <1>4, <1>5
  <2>2. ASSUME NEW j \in 1 .. i - 1 PROVE number[r[j]] < number[r[i]]
    <3>1. j \in 1 .. Len(q) BY <1>1
    <3>2. number[q[j]] < number[q[i]] BY DEF Ascends
    <3> QED BY <1>4, <3>1, <3>2
  <2> QED BY <2>1, <2>2
<1>7. /\ number[r[Len(q) + 1]] \in low + 1 .. top
      /\ \A j \in 1 .. Len(q) : number[r[j]] < number[r[Len(q) + 1]]
  BY <1>3, <1>4, <1>5, SMTT(30)
<1>8. Ascends(r, number, low, top)
  <2>1. SUFFICES ASSUME NEW i \in 1 .. Len(r)
                 PROVE  /\ number[r[i]] \in low + 1 .. top
                        /\ \A j \in 1 .. i - 1 : number[r[j]] < number[r[i]]
    BY DEF Ascends
  <2>2. CASE i \in 1 .. Len(q) BY <1>6, <2>2
  <2>3. CASE i = Len(q) + 1
    <3>1. i - 1 = Len(q) BY <1>1, <2>3
    <3> QED BY <1>7, <2>3, <3>1
  <2> QED BY <1>2, <2>2, <2>3
<1> QED BY <1>1, <1>8 DEF r

\* The messages behind the first one have later numbers.
LEMMA TailAscends ==
  ASSUME NEW M, NEW number \in [M -> Nat], NEW low \in Nat, NEW high \in Nat,
         NEW q \in Seq(M), q # <<>>, Ascends(q, number, low, high)
  PROVE  /\ Head(q) \in M /\ number[Head(q)] \in low + 1 .. high
         /\ Tail(q) \in Seq(M) /\ Ascends(Tail(q), number, number[Head(q)], high)
<1>1. Len(q) \in Nat \ {0} BY LenProperties, EmptySeq
<1>2. /\ Tail(q) \in Seq(M) /\ Len(Tail(q)) = Len(q) - 1
      /\ \A i \in 1 .. Len(q) - 1 : Tail(q)[i] = q[i + 1]
      /\ Head(q) \in M
  BY HeadTailProperties
<1>3. Head(q) = q[1] OBVIOUS
<1>4. number[q[1]] \in low + 1 .. high
  <2>1. 1 \in 1 .. Len(q) BY <1>1
  <2> QED BY <2>1 DEF Ascends
<1> DEFINE r == Tail(q)
<1>5. Len(r) = Len(q) - 1 /\ \A i \in 1 .. Len(q) - 1 : r[i] = q[i + 1] BY <1>2
<1> HIDE DEF r
<1>6. ASSUME NEW i \in 1 .. Len(r)
      PROVE  /\ number[r[i]] \in number[q[1]] + 1 .. high
             /\ \A j \in 1 .. i - 1 : number[r[j]] < number[r[i]]
  <2>1. i \in 1 .. Len(q) - 1 /\ i + 1 \in 1 .. Len(q) /\ r[i] = q[i + 1] BY <1>1, <1>5
  <2>2. /\ number[q[i + 1]] \in low + 1 .. high
        /\ \A j \in 1 .. (i + 1) - 1 : number[q[j]] < number[q[i + 1]]
    BY <2>1 DEF Ascends
  <2>3. number[q[1]] < number[q[i + 1]]
    <3>1. 1 \in 1 .. (i + 1) - 1 BY <2>1
    <3> QED BY <2>2, <3>1
  <2>4. ASSUME NEW j \in 1 .. i - 1 PROVE number[r[j]] < number[r[i]]
    <3>1. j \in 1 .. Len(q) - 1 /\ j + 1 \in 1 .. (i + 1) - 1 BY <1>1, <2>1
    <3>2. number[q[j + 1]] < number[q[i + 1]] BY <2>2, <3>1
    <3> QED BY <1>5, <2>1, <3>1, <3>2
  <2> QED BY <1>4, <2>1, <2>2, <2>3, <2>4
<1>7. Ascends(r, number, number[q[1]], high) BY <1>6 DEF Ascends
<1> QED BY <1>2, <1>3, <1>4, <1>7 DEF r

\* The end of a queue from its k-th message on.
LEMMA EndThins ==
  ASSUME NEW M, NEW q \in Seq(M), NEW k \in 1 .. Len(q) + 1
  PROVE  /\ SubSeq(q, k, Len(q)) \in Seq(M) /\ Len(SubSeq(q, k, Len(q))) = Len(q) - k + 1
         /\ Thinned(SubSeq(q, k, Len(q)), q)
<1> DEFINE r == SubSeq(q, k, Len(q))
           f == [i \in 1 .. Len(r) |-> i + k - 1]
<1>1. Len(q) \in Nat BY LenProperties
<1>2. r \in Seq(M) /\ Len(r) = Len(q) - k + 1 /\ \A i \in 1 .. Len(r) : r[i] = q[i + k - 1]
  BY <1>1, SubSeqProperties
<1> HIDE DEF r
<1>3. /\ f \in [1 .. Len(r) -> 1 .. Len(q)]
      /\ \A i \in 1 .. Len(r) : r[i] = q[f[i]]
      /\ \A i, j \in 1 .. Len(r) : i < j => f[i] < f[j]
  BY <1>1, <1>2
<1> HIDE DEF f
<1>4. Thinned(r, q) BY <1>3 DEF Thinned
<1> QED BY <1>2, <1>4 DEF r

\* Nothing need be lost.
LEMMA SameThins == \A q : Thinned(q, q)
<1> TAKE q
<1>1. [i \in 1 .. Len(q) |-> i] \in [1 .. Len(q) -> 1 .. Len(q)] OBVIOUS
<1> QED BY <1>1 DEF Thinned

-----------------------------------------------------------------------------
(* The window of an application's events                                    *)

\* The constants' values.
LEMMA WindowSides ==
  ASSUME W!EventWindowConstants
  PROVE  /\ Nil \notin Nat /\ Nil \notin W!Ids /\ W!Ids \subseteq Nat \ {0} /\ 1 \in W!Ids
         /\ WindowSize \in Nat \ {0} /\ MaxSubs \in Nat \ {0}
         /\ MaxEvents \in Nat /\ MaxFaults \in Nat /\ MaxTime \in Nat
BY DEF W!EventWindowConstants, W!Ids

\* A subscription holds messages of its kind, whatever is delivered, taken or lost, and what
\* is taken or lost leaves the others in order.
LEMMA WindowQueues ==
  ASSUME NEW M, NEW s \in W!Subscription(M)
  PROVE  /\ s.queue \in Seq(M)
         /\ \A m \in M : W!Deliver(s, m) \in W!Subscription(M)
         /\ s.queue # <<>> => /\ W!Taken(s) \in W!Subscription(M)
                              /\ W!Taken(s).queue = Tail(s.queue) /\ Head(s.queue) \in M
         /\ \A t \in W!Torn(s) \cup W!Broken(s) :
              t \in W!Subscription(M) /\ Thinned(t.queue, s.queue)
         /\ W!Subscribed \in W!Subscription(M) /\ W!Unsubscribed \in W!Subscription(M)
         /\ W!Subscribed.queue = <<>> /\ W!Unsubscribed.queue = <<>>
<1>1. s = [up |-> s.up, queue |-> s.queue] /\ s.up \in BOOLEAN /\ s.queue \in Seq(M)
  BY DEF W!Subscription
<1>2. \A m \in M : W!Deliver(s, m) \in W!Subscription(M)
  BY <1>1 DEF W!Subscription, W!Deliver
<1>3. s.queue # <<>> => /\ W!Taken(s) \in W!Subscription(M)
                        /\ W!Taken(s).queue = Tail(s.queue) /\ Head(s.queue) \in M
  BY <1>1, SMTT(30) DEF W!Subscription, W!Taken
<1>4. ASSUME NEW t \in W!Torn(s) PROVE t \in W!Subscription(M) /\ Thinned(t.queue, s.queue)
  <2>1. s.up BY DEF W!Torn
  <2>2. PICK k \in 1 .. Len(s.queue) : t = [s EXCEPT !.queue = W!RemoveAt(@, k)]
    BY <2>1 DEF W!Torn
  <2>3. W!RemoveAt(s.queue, k) = Removed(s.queue, k) BY DEF W!RemoveAt, Removed
  <2>4. Removed(s.queue, k) \in Seq(M) /\ Thinned(Removed(s.queue, k), s.queue)
    BY <1>1, RemovedThins
  <2>5. t = [up |-> s.up, queue |-> Removed(s.queue, k)] BY <1>1, <2>2, <2>3
  <2> QED BY <1>1, <2>4, <2>5 DEF W!Subscription
<1>5. ASSUME NEW t \in W!Broken(s) PROVE t \in W!Subscription(M) /\ Thinned(t.queue, s.queue)
  <2>1. s.up BY DEF W!Broken
  <2>2. PICK k \in 0 .. Len(s.queue) : t = [up |-> FALSE, queue |-> SubSeq(s.queue, 1, k)]
    BY <2>1 DEF W!Broken
  <2>3. SubSeq(s.queue, 1, k) \in Seq(M) /\ Thinned(SubSeq(s.queue, 1, k), s.queue)
    BY <1>1, CutThins
  <2> QED BY <2>2, <2>3 DEF W!Subscription
<1> QED BY <1>1, <1>2, <1>3, <1>4, <1>5 DEF W!Subscription, W!Subscribed, W!Unsubscribed

\* appendEvent keeps the newest events, in order, and no more than fit.
LEMMA AppendedKeeps ==
  ASSUME W!EventWindowConstants, W!TypeOK, NEW event \in W!Event
  PROVE  /\ W!Appended(event) \in Seq(W!Event) /\ Len(W!Appended(event)) <= WindowSize
         /\ Append(window, event) \in Seq(W!Event) /\ Thinned(W!Appended(event), Append(window, event))
<1> DEFINE w == Append(window, event)
<1>1. window \in Seq(W!Event) /\ Len(window) <= WindowSize /\ Len(window) \in Nat
  BY LenProperties DEF W!TypeOK
<1>2. w \in Seq(W!Event) /\ Len(w) = Len(window) + 1 BY <1>1, AppendProperties
<1>3. WindowSize \in Nat \ {0} BY WindowSides
<1>4. W!Appended(event) = IF Len(w) > WindowSize THEN SubSeq(w, Len(w) - WindowSize + 1, Len(w)) ELSE w
  BY DEF W!Appended
<1> HIDE DEF w
<1>5. CASE Len(w) > WindowSize
  <2>1. Len(w) - WindowSize + 1 \in 1 .. Len(w) + 1 BY <1>1, <1>2, <1>3, <1>5
  <2>2. PICK k \in 1 .. Len(w) + 1 : k = Len(w) - WindowSize + 1 BY <2>1
  <2>3. /\ SubSeq(w, k, Len(w)) \in Seq(W!Event) /\ Len(SubSeq(w, k, Len(w))) = Len(w) - k + 1
        /\ Thinned(SubSeq(w, k, Len(w)), w)
    BY <1>2, EndThins
  <2>4. W!Appended(event) = SubSeq(w, k, Len(w)) BY <1>4, <1>5, <2>2
  <2>5. Len(w) - k + 1 <= WindowSize BY <1>1, <1>2, <1>3, <2>2
  <2> QED BY <1>2, <2>3, <2>4, <2>5 DEF w
<1>6. CASE ~(Len(w) > WindowSize)
  <2>1. W!Appended(event) = w BY <1>4, <1>6
  <2>2. Thinned(w, w)
    <3>1. [i \in 1 .. Len(w) |-> i] \in [1 .. Len(w) -> 1 .. Len(w)] OBVIOUS
    <3> QED BY <3>1 DEF Thinned
  <2>3. Len(w) <= WindowSize BY <1>1, <1>2, <1>3, <1>6
  <2> QED BY <1>2, <2>1, <2>2, <2>3 DEF w
<1> QED BY <1>5, <1>6

\* The parts of a state that is type correct.
LEMMA WindowNumbers ==
  ASSUME W!EventWindowConstants, W!TypeOK
  PROVE  /\ subs \in Nat /\ clock \in Nat /\ published \in Nat /\ faults \in Nat
         /\ \A n \in W!Ids : /\ feeds[n] \in W!FeedState
                             /\ feeds[n].sub \in W!Subscription(1 .. MaxEvents)
                             /\ feeds[n].sub.queue \in Seq(1 .. MaxEvents)
<1>1. subs \in Nat /\ clock \in Nat /\ published \in Nat /\ faults \in Nat
  BY WindowSides DEF W!TypeOK
<1>2. \A n \in W!Ids : /\ feeds[n] \in W!FeedState
                      /\ feeds[n].sub \in W!Subscription(1 .. MaxEvents)
  BY DEF W!TypeOK, W!FeedState
<1>3. \A n \in W!Ids : feeds[n].sub.queue \in Seq(1 .. MaxEvents)
  BY <1>2, WindowQueues
<1> QED BY <1>1, <1>2, <1>3

\* What a step of a feed does to the feeds.
LEMMA OneFeedMoves ==
  ASSUME W!EventWindowConstants, W!TypeOK, NEW n \in W!Ids,
         NEW at \in {"none", "connect", "read", "sleep", "ended"},
         NEW sub \in W!Subscription(1 .. MaxEvents), W!Feed(n, at, sub)
  PROVE  /\ feeds' \in [W!Ids -> W!FeedState]
         /\ feeds'[n].at = at /\ feeds'[n].sub = sub
         /\ \A m \in W!Ids \ {n} : feeds'[m] = feeds[m]
<1>1. feeds \in [W!Ids -> W!FeedState] BY DEF W!TypeOK
<1>2. feeds[n] \in W!FeedState BY <1>1
<1>3. feeds' = [feeds EXCEPT ![n] = [feeds[n] EXCEPT !.at = at, !.sub = sub]]
  BY <1>1 DEF W!Feed
<1> DEFINE r == [feeds[n] EXCEPT !.at = at, !.sub = sub]
<1>4. r \in W!FeedState /\ r.at = at /\ r.sub = sub BY <1>2 DEF W!FeedState
<1> HIDE DEF r
<1> QED BY <1>1, <1>3, <1>4 DEF r

\* A feed begins with no subscription.
LEMMA NewFeeds ==
  /\ W!NoFeed \in W!FeedState /\ W!NewFeed \in W!FeedState
  /\ W!NewFeed.at = "connect" /\ W!NewFeed.sub = W!Unsubscribed
  /\ \A b \in BOOLEAN : /\ [W!NewFeed EXCEPT !.orphan = b] \in W!FeedState
                        /\ [W!NewFeed EXCEPT !.orphan = b].at = "connect"
                        /\ [W!NewFeed EXCEPT !.orphan = b].sub = W!Unsubscribed
<1>1. W!Unsubscribed \in W!Subscription(1 .. MaxEvents)
  <2>1. [up |-> FALSE, queue |-> <<>>] \in W!Subscription(1 .. MaxEvents)
    BY EmptySeq DEF W!Subscription
  <2> QED BY <2>1 DEF W!Unsubscribed
<1> QED BY <1>1 DEF W!NoFeed, W!NewFeed, W!FeedState

\* Type correctness: every step keeps the state in its types.
LEMMA WindowTypeStep ==
  ASSUME W!EventWindowConstants, W!TypeOK, [W!Next]_W!vars
  PROVE  W!TypeOK'
<1> USE DEF W!TypeOK
<1> USE DEF W!history
<1>a. feeds \in [W!Ids -> W!FeedState] OBVIOUS
<1>1. CASE W!Tick BY <1>1, WindowSides DEF W!Tick
<1>2. CASE W!Happen
  <2>1. published' \in 1 .. MaxEvents /\ published' \in 0 .. MaxEvents
    BY <1>2, WindowSides DEF W!Happen
  <2>2. ASSUME NEW n \in W!Ids PROVE [feeds[n] EXCEPT !.sub = W!Deliver(@, published')] \in W!FeedState
    <3>1. feeds[n] \in W!FeedState /\ feeds[n].sub \in W!Subscription(1 .. MaxEvents)
      BY WindowNumbers
    <3>2. W!Deliver(feeds[n].sub, published') \in W!Subscription(1 .. MaxEvents)
      BY <2>1, <3>1, WindowQueues
    <3> QED BY <3>1, <3>2 DEF W!FeedState
  <2>3. feeds' \in [W!Ids -> W!FeedState] BY <1>2, <2>2 DEF W!Happen
  <2> QED BY <1>2, <2>1, <2>3 DEF W!Happen
<1>3. CASE W!PostSubscription
  <2>1. subs' \in W!Ids /\ overlap' \in BOOLEAN
    BY <1>3, WindowSides DEF W!PostSubscription, W!Enter, W!Ids
  <2>2. posts' \subseteq [id: W!Ids, step: {"reset", "start"}]
    BY <1>3, <2>1 DEF W!PostSubscription, W!Enter
  <2>3. <<>> \in Seq(W!Event) BY EmptySeq
  <2> QED BY <1>3, <2>1, <2>2, <2>3 DEF W!PostSubscription, W!Enter
<1>4. ASSUME NEW p \in posts, W!ResetWindow(p) PROVE W!TypeOK'
  <2>1. <<>> \in Seq(W!Event) /\ Len(<<>>) <= WindowSize BY EmptySeq, WindowSides
  <2>2. posts' \subseteq [id: W!Ids, step: {"reset", "start"}] BY <1>4 DEF W!ResetWindow
  <2> QED BY <1>4, <2>1, <2>2 DEF W!ResetWindow
<1>5. ASSUME NEW p \in posts, W!StartFeed(p) PROVE W!TypeOK'
  <2>1. feeds' \in [W!Ids -> W!FeedState]
    <3>1. p.id \in W!Ids /\ (p.id # entry) \in BOOLEAN OBVIOUS
    <3>2. [W!NewFeed EXCEPT !.orphan = p.id # entry] \in W!FeedState BY NewFeeds
    <3> QED BY <1>5, <3>1, <3>2 DEF W!StartFeed
  <2> QED BY <1>5, <2>1 DEF W!StartFeed
<1>6. CASE W!DeleteSubscription
  <2>1. entry \in W!Ids BY <1>6 DEF W!DeleteSubscription
  <2>2. W!Cancelled(entry) \in W!FeedState BY <2>1 DEF W!Cancelled, W!FeedState
  <2>3. feeds' \in [W!Ids -> W!FeedState] BY <1>6, <2>1, <2>2 DEF W!DeleteSubscription
  <2>4. <<>> \in Seq(W!Event) BY EmptySeq
  <2> QED BY <1>6, <2>3, <2>4 DEF W!DeleteSubscription
<1>7. ASSUME NEW n \in W!Ids, W!FeedStep(n) PROVE W!TypeOK'
  <2>1. /\ feeds[n].sub \in W!Subscription(1 .. MaxEvents)
        /\ feeds[n].sub.queue \in Seq(1 .. MaxEvents)
        /\ W!Subscribed \in W!Subscription(1 .. MaxEvents)
        /\ W!Unsubscribed \in W!Subscription(1 .. MaxEvents)
    BY WindowNumbers, WindowQueues
  <2>2. CASE W!Connect(n)
    <3>1. feeds' \in [W!Ids -> W!FeedState]
      BY <2>1, <2>2, OneFeedMoves DEF W!Connect
    <3>2. faults' = faults \/ (faults < MaxFaults /\ faults' = faults + 1)
      BY <2>2 DEF W!Connect, W!Fault
    <3>3. faults' \in 0 .. MaxFaults BY <3>2, WindowSides
    <3> QED BY <2>2, <3>1, <3>3 DEF W!Connect
  <2>3. CASE W!Receive(n)
    <3>1. /\ W!Taken(feeds[n].sub) \in W!Subscription(1 .. MaxEvents)
          /\ Head(feeds[n].sub.queue) \in 1 .. MaxEvents
      BY <2>1, <2>3, WindowQueues DEF W!Receive
    <3>2. feeds' \in [W!Ids -> W!FeedState] BY <2>3, <3>1, OneFeedMoves DEF W!Receive
    <3> DEFINE event == [number |-> Head(feeds[n].sub.queue), time |-> clock, by |-> n]
    <3>3. event \in W!Event BY <3>1 DEF W!Event
    <3>4. W!Appended(event) \in Seq(W!Event) /\ Len(W!Appended(event)) <= WindowSize
      BY <3>3, AppendedKeeps
    <3>5. Append(got, event) \in Seq(W!Event) BY <3>3, AppendProperties
    <3>6. window' = W!Appended(event) /\ got' \in {got, Append(got, event)} BY <2>3 DEF W!Receive
    <3> HIDE DEF event
    <3> QED BY <2>3, <3>2, <3>4, <3>5, <3>6 DEF W!Receive
  <2>4. CASE W!ReceiveCancel(n)
    <3>1. feeds' \in [W!Ids -> W!FeedState] BY <2>1, <2>4, OneFeedMoves DEF W!ReceiveCancel
    <3> QED BY <2>4, <3>1 DEF W!ReceiveCancel
  <2>5. CASE W!Drop(n)
    <3>1. W!Torn(feeds[n].sub) \cup W!Broken(feeds[n].sub) \subseteq W!Subscription(1 .. MaxEvents)
      BY <2>1, WindowQueues
    <3>2. feeds' \in [W!Ids -> W!FeedState] BY <2>1, <2>5, <3>1, OneFeedMoves DEF W!Drop
    <3>3. faults' \in 0 .. MaxFaults BY <2>5, WindowSides DEF W!Drop, W!Fault
    <3> QED BY <2>5, <3>2, <3>3 DEF W!Drop
  <2> QED BY <1>7, <2>2, <2>3, <2>4, <2>5 DEF W!FeedStep
<1>8. CASE W!Restart
  <2>1. subs' \in W!Ids
    <3>1. subs < MaxSubs /\ subs' = subs + 1 BY <1>8 DEF W!Restart
    <3> QED BY <3>1, WindowSides DEF W!Ids
  <2>2. ASSUME NEW n \in W!Ids
        PROVE  [feeds[n] EXCEPT !.at = "ended", !.sub = W!Unsubscribed] \in W!FeedState
    <3>1. W!Unsubscribed \in W!Subscription(1 .. MaxEvents) BY WindowNumbers, WindowQueues
    <3> QED BY <3>1 DEF W!FeedState
  <2>3. feeds' \in [W!Ids -> W!FeedState] BY <1>8, <2>2, NewFeeds DEF W!Restart
  <2>4. <<>> \in Seq(W!Event) /\ Len(<<>>) <= WindowSize BY EmptySeq, WindowSides
  <2> QED BY <1>8, <2>1, <2>3, <2>4 DEF W!Restart
<1>9. CASE UNCHANGED W!vars BY <1>9 DEF W!vars
<1> QED BY <1>1, <1>2, <1>3, <1>4, <1>5, <1>6, <1>7, <1>8, <1>9 DEF W!Next

\* While no earlier feed is at work, the one of the last subscription is the only one, and it
\* has not been started as long as its POST is under way.
LastFeedOnly ==
  /\ \A n \in W!Ids : W!Alive(n) => n = subs
  /\ \A p, q \in posts : p = q
  /\ \A p \in posts : p.id = subs /\ ~W!Alive(p.id)

\* The window holds events of a feed up to number h, the feed later ones.
Number == [n \in 1 .. MaxEvents |-> n]
FeedUpTo(n, h) ==
  /\ \A i \in 1 .. Len(window) : window[i].by = n => window[i].number <= h
  /\ W!Alive(n) => Ascends(feeds[n].sub.queue, Number, h, published)

\* The events of one feed are in the order published, each once.
EachOnce(events) ==
  \A i \in 1 .. Len(events) : \A j \in 1 .. i - 1 :
    events[j].by = events[i].by => events[j].number < events[i].number

\* Only the present subscription has not been deleted, of those that have a feed, a POST under
\* way or events in the window.
OneUndeleted ==
  /\ \A n \in W!Ids : W!Alive(n) => n \in deleted \cup {entry}
  /\ \A p \in posts : p.id \in deleted \cup {entry}
  /\ \A i \in 1 .. Len(window) : window[i].by \in deleted \cup {entry}

\* The window is the end of what the feed received, once the POST has made it anew.
Newest(events) ==
  SubSeq(events, IF Len(events) > WindowSize THEN Len(events) - WindowSize + 1 ELSE 1, Len(events))
WindowKept ==
  entry = Nil \/ IF [id |-> entry, step |-> "reset"] \in posts THEN got = <<>>
                 ELSE window = Newest(got)

\* The inductive invariant: each feed adds an event once and one feed only is not of a deleted
\* subscription; unless feeds have overlapped, there is one, and the window the newest of what
\* it received.
WindowInv ==
  /\ W!TypeOK /\ entry \in {subs, Nil}
  /\ overlap \/ (LastFeedOnly /\ WindowKept)
  /\ OneUndeleted /\ EachOnce(window)
  /\ \A n \in W!Ids : \E h \in 0 .. published : FeedUpTo(n, h)

\* The numbers of messages.
LEMMA NumberTypes ==
  Number \in [1 .. MaxEvents -> Nat] /\ \A n \in 1 .. MaxEvents : Number[n] = n
BY DEF Number

\* An overlap ends with a restart alone.
LEMMA OverlapEnds ==
  ASSUME [W!Next]_W!vars, ~overlap'
  PROVE  ~overlap \/ W!Restart
BY DEF W!Next, W!vars, W!Tick, W!Happen, W!PostSubscription, W!Enter, W!ResetWindow, W!StartFeed,
       W!DeleteSubscription, W!FeedStep, W!Connect, W!Receive, W!ReceiveCancel, W!Drop,
       W!history

\* Where the feeds are and what they hold after each kind of step.
LEMMA FeedStepMoves ==
  ASSUME W!EventWindowConstants, W!TypeOK, NEW n \in W!Ids, W!FeedStep(n)
  PROVE  /\ W!Alive(n) /\ \A m \in W!Ids \ {n} : feeds'[m] = feeds[m]
         /\ UNCHANGED <<entry, subs, posts, published, overlap, deleted>>
         /\ \/ /\ UNCHANGED <<window, got>>
               /\ \/ feeds'[n].sub.queue = <<>>
                  \/ Thinned(feeds'[n].sub.queue, feeds[n].sub.queue)
            \/ W!Receive(n) /\ feeds'[n].sub = W!Taken(feeds[n].sub)
<1>1. /\ feeds[n].sub \in W!Subscription(1 .. MaxEvents)
      /\ W!Subscribed \in W!Subscription(1 .. MaxEvents)
      /\ W!Unsubscribed \in W!Subscription(1 .. MaxEvents)
      /\ W!Subscribed.queue = <<>> /\ W!Unsubscribed.queue = <<>>
      /\ \A t \in W!Torn(feeds[n].sub) \cup W!Broken(feeds[n].sub) :
           t \in W!Subscription(1 .. MaxEvents) /\ Thinned(t.queue, feeds[n].sub.queue)
  BY WindowNumbers, WindowQueues
<1>2. CASE W!Connect(n)
  <2>1. PICK at \in {"read", "sleep", "ended"}, sub \in {W!Subscribed, W!Unsubscribed} : W!Feed(n, at, sub)
    BY <1>2 DEF W!Connect
  <2>2. feeds'[n].sub = sub /\ \A m \in W!Ids \ {n} : feeds'[m] = feeds[m]
    BY <1>1, <2>1, OneFeedMoves
  <2> QED BY <1>1, <1>2, <2>2 DEF W!Connect, W!Alive, W!history
<1>3. CASE W!Receive(n)
  <2>1. W!Taken(feeds[n].sub) \in W!Subscription(1 .. MaxEvents)
    BY <1>1, <1>3, WindowQueues DEF W!Receive
  <2>2. feeds'[n].sub = W!Taken(feeds[n].sub) /\ \A m \in W!Ids \ {n} : feeds'[m] = feeds[m]
    BY <1>3, <2>1, OneFeedMoves DEF W!Receive
  <2> QED BY <1>3, <2>2 DEF W!Receive, W!Alive
<1>4. CASE W!ReceiveCancel(n)
  <2>1. feeds'[n].sub = W!Unsubscribed /\ \A m \in W!Ids \ {n} : feeds'[m] = feeds[m]
    BY <1>1, <1>4, OneFeedMoves DEF W!ReceiveCancel
  <2> QED BY <1>1, <1>4, <2>1 DEF W!ReceiveCancel, W!Alive, W!history
<1>5. CASE W!Drop(n)
  <2>1. PICK at \in {"read", "sleep"},
             sub \in W!Torn(feeds[n].sub) \cup W!Broken(feeds[n].sub) \cup {W!Unsubscribed} :
               W!Feed(n, at, sub)
    BY <1>5 DEF W!Drop
  <2>2. feeds'[n].sub = sub /\ \A m \in W!Ids \ {n} : feeds'[m] = feeds[m]
    BY <1>1, <2>1, OneFeedMoves
  <2>3. sub.queue = <<>> \/ Thinned(sub.queue, feeds[n].sub.queue) BY <1>1, <2>1
  <2> QED BY <1>5, <2>2, <2>3 DEF W!Drop, W!Alive, W!history
<1> QED BY <1>2, <1>3, <1>4, <1>5 DEF W!FeedStep

\* A DELETE cancels feeds and moves none.
LEMMA DeleteMoves ==
  ASSUME W!EventWindowConstants, W!TypeOK, W!DeleteSubscription
  PROVE  \A n \in W!Ids : feeds'[n].at = feeds[n].at /\ feeds'[n].sub = feeds[n].sub
<1>1. feeds \in [W!Ids -> W!FeedState] /\ entry \in W!Ids BY DEF W!TypeOK, W!DeleteSubscription
<1>2. feeds[entry] \in W!FeedState BY <1>1
<1>3. W!Cancelled(entry).at = feeds[entry].at /\ W!Cancelled(entry).sub = feeds[entry].sub
  BY <1>2 DEF W!Cancelled, W!FeedState
<1>4. feeds' = [feeds EXCEPT ![entry] = W!Cancelled(entry)] BY DEF W!DeleteSubscription
<1> QED BY <1>1, <1>3, <1>4

\* A POST that comes to its end starts its own feed.
LEMMA StartMoves ==
  ASSUME W!EventWindowConstants, W!TypeOK, NEW p \in posts, W!StartFeed(p)
  PROVE  /\ p.id \in W!Ids /\ feeds'[p.id].sub.queue = <<>>
         /\ \A n \in W!Ids \ {p.id} : feeds'[n] = feeds[n]
<1>1. feeds \in [W!Ids -> W!FeedState] /\ p.id \in W!Ids BY DEF W!TypeOK
<1>2. (p.id # entry) \in BOOLEAN OBVIOUS
<1>3. [W!NewFeed EXCEPT !.orphan = p.id # entry].sub = W!Unsubscribed BY <1>2, NewFeeds
<1>4. feeds' = [feeds EXCEPT ![p.id] = [W!NewFeed EXCEPT !.orphan = p.id # entry]] BY DEF W!StartFeed
<1> QED BY <1>1, <1>3, <1>4 DEF W!Unsubscribed

\* A restart leaves one subscription, the next one, and an empty window.
LEMMA RestartMoves ==
  ASSUME W!EventWindowConstants, W!TypeOK, W!Restart
  PROVE  /\ subs' \in W!Ids /\ entry' = subs' /\ posts' = {} /\ window' = <<>> /\ got' = <<>>
         /\ \A n \in W!Ids : W!Alive(n)' => n = subs' /\ feeds'[n].sub.queue = <<>>
<1>1. /\ subs' \in W!Ids /\ entry' = subs' /\ posts' = {} /\ window' = <<>> /\ got' = <<>>
  <2>1. subs < MaxSubs /\ subs' = subs + 1 BY DEF W!Restart
  <2>2. subs \in W!Ids BY DEF W!TypeOK
  <2>3. subs' \in W!Ids BY <2>1, <2>2, WindowSides DEF W!Ids
  <2> QED BY <2>3 DEF W!Restart
<1>2. ASSUME NEW n \in W!Ids, W!Alive(n)' PROVE n = subs' /\ feeds'[n].sub.queue = <<>>
  <2>1. feeds'[n] = IF n = subs' THEN W!NewFeed
                    ELSE [feeds[n] EXCEPT !.at = "ended", !.sub = W!Unsubscribed]
    BY DEF W!Restart
  <2>2. [feeds[n] EXCEPT !.at = "ended", !.sub = W!Unsubscribed].at = "ended"
    BY WindowNumbers DEF W!FeedState
  <2>3. n = subs' BY <1>2, <2>1, <2>2 DEF W!Alive
  <2> QED BY <2>1, <2>3, NewFeeds DEF W!Unsubscribed
<1> QED BY <1>1, <1>2

\* Every step that begins no overlap keeps the last feed the only one.
LEMMA LastFeedStep ==
  ASSUME W!EventWindowConstants, WindowInv, [W!Next]_W!vars, ~overlap'
  PROVE  LastFeedOnly'
<1>a. W!TypeOK BY DEF WindowInv
<1>1. CASE W!Restart
  <2>1. /\ posts' = {} /\ \A n \in W!Ids : W!Alive(n)' => n = subs' BY <1>a, <1>1, RestartMoves
  <2> QED BY <2>1 DEF LastFeedOnly
<1>2. CASE ~overlap
  <2>a. LastFeedOnly BY <1>2 DEF WindowInv
  <2>b. ASSUME UNCHANGED <<subs, posts>>, \A n \in W!Ids : feeds'[n].at = feeds[n].at
        PROVE  LastFeedOnly'
    <3>1. \A n \in W!Ids : W!Alive(n)' <=> W!Alive(n) BY <2>b DEF W!Alive
    <3>2. \A p \in posts : p.id \in W!Ids BY <1>a DEF W!TypeOK
    <3> QED BY <2>a, <2>b, <3>1, <3>2 DEF LastFeedOnly
  <2>1. CASE W!Tick \/ UNCHANGED W!vars BY <2>b, <2>1 DEF W!Tick, W!vars
  <2>2. CASE W!Happen
    <3>1. ASSUME NEW n \in W!Ids PROVE feeds'[n].at = feeds[n].at
      <4>1. feeds'[n] = [feeds[n] EXCEPT !.sub = W!Deliver(@, published')] BY <2>2 DEF W!Happen
      <4> QED BY <4>1
    <3> QED BY <2>b, <2>2, <3>1 DEF W!Happen
  <2>3. CASE W!PostSubscription
    <3>1. /\ subs' = subs + 1 /\ posts' = posts \cup {[id |-> subs', step |-> "reset"]}
          /\ overlap' = (overlap \/ \E n \in W!Ids : W!Alive(n) \/ \E p \in posts : p.id = n)
          /\ feeds' = feeds
      BY <2>3 DEF W!PostSubscription, W!Enter
    <3>2. \A n \in W!Ids : ~W!Alive(n)' BY <3>1 DEF W!Alive
    <3>3. posts = {}
      <4>1. \A p \in posts : p.id \in W!Ids BY <1>a DEF W!TypeOK
      <4> QED BY <3>1, <4>1
    <3>4. posts' = {[id |-> subs', step |-> "reset"]} BY <3>1, <3>3
    <3>5. subs' \in W!Ids
      <4>1. subs < MaxSubs BY <2>3 DEF W!PostSubscription, W!Enter
      <4>2. subs \in W!Ids BY <1>a DEF W!TypeOK
      <4> QED BY <3>1, <4>1, <4>2, WindowSides DEF W!Ids
    <3> QED BY <3>2, <3>4, <3>5 DEF LastFeedOnly
  <2>4. CASE W!DeleteSubscription
    <3>1. \A n \in W!Ids : feeds'[n].at = feeds[n].at BY <1>a, <2>4, DeleteMoves
    <3> QED BY <2>b, <2>4, <3>1 DEF W!DeleteSubscription
  <2>5. ASSUME NEW p \in posts, W!ResetWindow(p) PROVE LastFeedOnly'
    <3>1. /\ subs' = subs /\ feeds' = feeds
          /\ posts' = (posts \ {p}) \cup {[p EXCEPT !.step = "start"]}
      BY <2>5 DEF W!ResetWindow
    <3>2. posts = {p} BY <2>a DEF LastFeedOnly
    <3>3. p \in [id: W!Ids, step: {"reset", "start"}] BY <1>a DEF W!TypeOK
    <3>4. [p EXCEPT !.step = "start"].id = p.id BY <3>3
    <3>5. posts' = {[p EXCEPT !.step = "start"]} BY <3>1, <3>2
    <3>6. \A n \in W!Ids : W!Alive(n)' <=> W!Alive(n) BY <3>1 DEF W!Alive
    <3> QED BY <2>a, <3>1, <3>3, <3>4, <3>5, <3>6 DEF LastFeedOnly
  <2>6. ASSUME NEW p \in posts, W!StartFeed(p) PROVE LastFeedOnly'
    <3>1. subs' = subs /\ posts' = posts \ {p} BY <2>6 DEF W!StartFeed
    <3>2. posts' = {} /\ p.id = subs BY <2>a, <3>1 DEF LastFeedOnly
    <3>3. \A n \in W!Ids \ {p.id} : feeds'[n] = feeds[n] BY <1>a, <2>6, StartMoves
    <3>4. \A n \in W!Ids : W!Alive(n)' => n = subs'
      BY <2>a, <3>1, <3>2, <3>3 DEF LastFeedOnly, W!Alive
    <3> QED BY <3>2, <3>4 DEF LastFeedOnly
  <2>7. ASSUME NEW n \in W!Ids, W!FeedStep(n) PROVE LastFeedOnly'
    <3>1. /\ W!Alive(n) /\ \A m \in W!Ids \ {n} : feeds'[m] = feeds[m]
          /\ UNCHANGED <<subs, posts>>
      BY <1>a, <2>7, FeedStepMoves
    <3>2. n = subs BY <2>a, <3>1 DEF LastFeedOnly
    <3>3. \A m \in W!Ids : W!Alive(m)' => m = subs' BY <2>a, <3>1, <3>2 DEF LastFeedOnly, W!Alive
    <3>4. posts = {} BY <2>a, <3>1, <3>2 DEF LastFeedOnly
    <3> QED BY <3>1, <3>3, <3>4 DEF LastFeedOnly
  <2> QED BY <1>1, <2>1, <2>2, <2>3, <2>4, <2>5, <2>6, <2>7 DEF W!Next
<1> QED BY <1>1, <1>2, OverlapEnds

\* What Receive(n) adds to the window.
Arrived(n) == [number |-> Head(feeds[n].sub.queue), time |-> clock, by |-> n]

\* The first message of a feed goes to the end of the window.
LEMMA ReceiveMoves ==
  ASSUME W!EventWindowConstants, W!TypeOK, NEW n \in W!Ids, W!Receive(n)
  PROVE  /\ feeds[n].sub.queue # <<>> /\ Head(feeds[n].sub.queue) \in 1 .. MaxEvents
         /\ Arrived(n) \in W!Event /\ Arrived(n).by = n
         /\ Arrived(n).number = Head(feeds[n].sub.queue)
         /\ feeds'[n].sub.queue = Tail(feeds[n].sub.queue)
         /\ window' \in Seq(W!Event) /\ Append(window, Arrived(n)) \in Seq(W!Event)
         /\ Thinned(window', Append(window, Arrived(n)))
<1>1. feeds[n].sub.queue # <<>> /\ feeds[n].sub \in W!Subscription(1 .. MaxEvents)
  BY WindowNumbers DEF W!Receive
<1>2. /\ Head(feeds[n].sub.queue) \in 1 .. MaxEvents
      /\ W!Taken(feeds[n].sub).queue = Tail(feeds[n].sub.queue)
  BY <1>1, WindowQueues
<1>3. feeds'[n].sub = W!Taken(feeds[n].sub)
  <2>1. W!Taken(feeds[n].sub) \in W!Subscription(1 .. MaxEvents) BY <1>1, WindowQueues
  <2> QED BY <2>1, OneFeedMoves DEF W!Receive
<1>4. /\ Arrived(n) \in W!Event /\ Arrived(n).by = n
      /\ Arrived(n).number = Head(feeds[n].sub.queue)
  <2>1. clock \in 0 .. MaxTime BY DEF W!TypeOK
  <2> QED BY <1>2, <2>1 DEF Arrived, W!Event
<1>5. window' = W!Appended(Arrived(n)) BY DEF W!Receive, Arrived
<1>6. /\ W!Appended(Arrived(n)) \in Seq(W!Event) /\ Append(window, Arrived(n)) \in Seq(W!Event)
      /\ Thinned(W!Appended(Arrived(n)), Append(window, Arrived(n)))
  BY <1>4, AppendedKeeps
<1> QED BY <1>1, <1>2, <1>3, <1>4, <1>5, <1>6

\* Nothing else adds to it.
LEMMA WindowMoves ==
  ASSUME W!EventWindowConstants, W!TypeOK, [W!Next]_W!vars
  PROVE  window' \in {window, <<>>} \/ \E n \in W!Ids : W!Receive(n)
BY DEF W!Next, W!vars, W!Tick, W!Happen, W!PostSubscription, W!Enter, W!ResetWindow, W!StartFeed,
       W!DeleteSubscription, W!FeedStep, W!Connect, W!ReceiveCancel, W!Drop, W!Restart

\* What is appended to a sequence is at its end.
LEMMA AppendedElements ==
  ASSUME NEW M, NEW q \in Seq(M), NEW m \in M, NEW i \in 1 .. Len(Append(q, m))
  PROVE  (i \in 1 .. Len(q) /\ Append(q, m)[i] = q[i]) \/ (i = Len(q) + 1 /\ Append(q, m)[i] = m)
<1>1. /\ Len(Append(q, m)) = Len(q) + 1 /\ Len(q) \in Nat /\ Append(q, m)[Len(q) + 1] = m
      /\ \A j \in 1 .. Len(q) : Append(q, m)[j] = q[j]
  BY AppendProperties, LenProperties
<1>2. i \in 1 .. Len(q) \/ i = Len(q) + 1 BY <1>1
<1> QED BY <1>1, <1>2

\* What is left of a sequence after an element was appended was in it or is that element.
LEMMA ThinnedElements ==
  ASSUME NEW M, NEW q \in Seq(M), NEW m \in M, NEW t, Thinned(t, Append(q, m)),
         NEW i \in 1 .. Len(t)
  PROVE  t[i] = m \/ \E j \in 1 .. Len(q) : t[i] = q[j]
<1>1. PICK p : p = Append(q, m) OBVIOUS
<1>2. PICK f \in [1 .. Len(t) -> 1 .. Len(p)] : \A k \in 1 .. Len(t) : t[k] = p[f[k]]
  BY <1>1 DEF Thinned
<1>3. f[i] \in 1 .. Len(Append(q, m)) /\ t[i] = Append(q, m)[f[i]] BY <1>1, <1>2
<1> QED BY <1>3, AppendedElements

\* Losing events leaves each once.
LEMMA ThinnedEachOnce ==
  ASSUME NEW q \in Seq(W!Event), NEW t \in Seq(W!Event), Thinned(t, q), EachOnce(q)
  PROVE  EachOnce(t)
<1>1. PICK f \in [1 .. Len(t) -> 1 .. Len(q)] :
        /\ \A i \in 1 .. Len(t) : t[i] = q[f[i]]
        /\ \A i, j \in 1 .. Len(t) : i < j => f[i] < f[j]
  BY DEF Thinned
<1>2. Len(q) \in Nat /\ Len(t) \in Nat BY LenProperties
<1>3. SUFFICES ASSUME NEW i \in 1 .. Len(t), NEW j \in 1 .. i - 1, t[j].by = t[i].by
               PROVE  t[j].number < t[i].number
  BY DEF EachOnce
<1>4. j \in 1 .. Len(t) /\ j < i BY <1>2
<1>5. /\ f[i] \in 1 .. Len(q) /\ f[j] \in 1 .. Len(q) /\ f[j] < f[i]
      /\ t[i] = q[f[i]] /\ t[j] = q[f[j]]
  BY <1>1, <1>4
<1>6. f[j] \in 1 .. f[i] - 1 BY <1>2, <1>5, SMTT(30)
<1> QED BY <1>3, <1>5, <1>6 DEF EachOnce

\* An event later than those of its feed leaves each once.
LEMMA AppendEachOnce ==
  ASSUME NEW q \in Seq(W!Event), NEW e \in W!Event, EachOnce(q),
         \A i \in 1 .. Len(q) : q[i].by = e.by => q[i].number < e.number
  PROVE  EachOnce(Append(q, e))
<1>1. Len(Append(q, e)) = Len(q) + 1 /\ Len(q) \in Nat BY AppendProperties, LenProperties
<1>2. SUFFICES ASSUME NEW i \in 1 .. Len(Append(q, e)), NEW j \in 1 .. i - 1,
                      Append(q, e)[j].by = Append(q, e)[i].by
               PROVE  Append(q, e)[j].number < Append(q, e)[i].number
  BY DEF EachOnce
<1>3. j \in 1 .. Len(q) /\ j \in 1 .. Len(Append(q, e)) BY <1>1
<1>4. j # Len(q) + 1 BY <1>1, <1>3
<1>5. Append(q, e)[j] = q[j] BY <1>3, <1>4, AppendedElements
<1>6. CASE i \in 1 .. Len(q) /\ Append(q, e)[i] = q[i] BY <1>2, <1>5, <1>6 DEF EachOnce
<1>7. CASE i = Len(q) + 1 /\ Append(q, e)[i] = e BY <1>2, <1>3, <1>5, <1>7
<1> QED BY <1>6, <1>7, AppendedElements

\* No step adds an event of a feed twice.
LEMMA EachOnceStep ==
  ASSUME W!EventWindowConstants, WindowInv, [W!Next]_W!vars
  PROVE  EachOnce(window')
<1>a. W!TypeOK /\ EachOnce(window) /\ window \in Seq(W!Event) BY DEF WindowInv, W!TypeOK
<1>1. CASE window' = window BY <1>a, <1>1
<1>2. CASE window' = <<>> BY <1>2 DEF EachOnce
<1>3. ASSUME NEW n \in W!Ids, W!Receive(n) PROVE EachOnce(window')
  <2>1. /\ feeds[n].sub.queue # <<>>
        /\ Arrived(n) \in W!Event /\ Arrived(n).by = n
        /\ Arrived(n).number = Head(feeds[n].sub.queue)
        /\ window' \in Seq(W!Event) /\ Append(window, Arrived(n)) \in Seq(W!Event)
        /\ Thinned(window', Append(window, Arrived(n)))
    BY <1>a, <1>3, ReceiveMoves
  <2>2. PICK h \in 0 .. published : FeedUpTo(n, h) BY DEF WindowInv
  <2>3. h \in Nat /\ published \in Nat /\ feeds[n].sub.queue \in Seq(1 .. MaxEvents)
    BY <1>a, <2>2, WindowNumbers
  <2>4. Ascends(feeds[n].sub.queue, Number, h, published)
    BY <1>3, <2>2 DEF FeedUpTo, W!Alive, W!Receive
  <2>5. h < Arrived(n).number
    <3>1. /\ Head(feeds[n].sub.queue) \in 1 .. MaxEvents
          /\ Number[Head(feeds[n].sub.queue)] \in h + 1 .. published
      BY <2>1, <2>3, <2>4, NumberTypes, TailAscends
    <3> QED BY <2>1, <2>3, <3>1, NumberTypes
  <2>6. \A i \in 1 .. Len(window) : window[i].by = n => window[i].number < Arrived(n).number
    <3>1. \A i \in 1 .. Len(window) : window[i] \in W!Event BY <1>a, ElementOfSeq
    <3>2. \A i \in 1 .. Len(window) : window[i].number \in Nat BY <3>1 DEF W!Event
    <3>3. Arrived(n).number \in Nat BY <2>1 DEF W!Event
    <3> QED BY <2>2, <2>3, <2>5, <3>2, <3>3 DEF FeedUpTo
  <2>7. EachOnce(Append(window, Arrived(n))) BY <1>a, <2>1, <2>6, AppendEachOnce
  <2> QED BY <2>1, <2>7, ThinnedEachOnce
<1> QED BY <1>a, <1>1, <1>2, <1>3, WindowMoves

\* What any step does to the feeds: they lose messages, are cancelled or made anew, take their
\* first message, or are given the event that happens.
LEMMA QueuesMove ==
  ASSUME W!EventWindowConstants, W!TypeOK, [W!Next]_W!vars, NEW n \in W!Ids, W!Alive(n)'
  PROVE  \/ feeds'[n].sub.queue = <<>> /\ published' = published
         \/ /\ W!Alive(n) /\ published' = published
            /\ Thinned(feeds'[n].sub.queue, feeds[n].sub.queue)
         \/ W!Alive(n) /\ W!Receive(n) /\ published' = published
         \/ /\ W!Alive(n) /\ window' = window /\ published' = published + 1
            /\ published' \in 1 .. MaxEvents
            /\ feeds'[n].sub.queue \in {feeds[n].sub.queue, Append(feeds[n].sub.queue, published')}
<1> DEFINE Moves ==
             \/ feeds'[n].sub.queue = <<>> /\ published' = published
             \/ /\ W!Alive(n) /\ published' = published
                /\ Thinned(feeds'[n].sub.queue, feeds[n].sub.queue)
<1>b. /\ feeds \in [W!Ids -> W!FeedState] /\ feeds[n] \in W!FeedState
      /\ feeds[n].sub \in W!Subscription(1 .. MaxEvents) /\ published \in Nat
  BY WindowNumbers DEF W!TypeOK
<1>s. ASSUME published' = published, feeds'[n].at = feeds[n].at, feeds'[n].sub = feeds[n].sub
      PROVE  Moves
  BY <1>s, SameThins DEF W!Alive
<1>1. CASE W!Tick \/ W!PostSubscription \/ UNCHANGED W!vars \/ \E p \in posts : W!ResetWindow(p)
  BY <1>1, <1>s DEF W!Tick, W!PostSubscription, W!Enter, W!ResetWindow, W!vars
<1>2. CASE W!Happen
  <2>1. published' = published + 1 /\ published' \in 1 .. MaxEvents /\ window' = window
    BY <1>b, <1>2, WindowSides DEF W!Happen
  <2>2. feeds'[n] = [feeds[n] EXCEPT !.sub = W!Deliver(feeds[n].sub, published')]
    BY <1>2 DEF W!Happen
  <2>3. feeds'[n].at = feeds[n].at /\ feeds'[n].sub = W!Deliver(feeds[n].sub, published')
    BY <1>b, <2>2 DEF W!FeedState
  <2>4. feeds'[n].sub.queue \in {feeds[n].sub.queue, Append(feeds[n].sub.queue, published')}
    BY <1>b, <2>3 DEF W!Deliver, W!Subscription
  <2> QED BY <2>1, <2>3, <2>4 DEF W!Alive
<1>3. CASE W!DeleteSubscription
  BY <1>3, <1>s, DeleteMoves DEF W!DeleteSubscription
<1>4. ASSUME NEW p \in posts, W!StartFeed(p) PROVE Moves
  <2>1. /\ p.id \in W!Ids /\ feeds'[p.id].sub.queue = <<>>
        /\ \A m \in W!Ids \ {p.id} : feeds'[m] = feeds[m]
    BY <1>4, StartMoves
  <2>2. published' = published BY <1>4 DEF W!StartFeed
  <2> QED BY <1>s, <2>1, <2>2
<1>5. ASSUME NEW m \in W!Ids, W!FeedStep(m) PROVE Moves \/ (W!Alive(n) /\ W!Receive(n))
  <2>1. /\ W!Alive(m) /\ \A k \in W!Ids \ {m} : feeds'[k] = feeds[k]
        /\ published' = published
        /\ \/ feeds'[m].sub.queue = <<>>
           \/ Thinned(feeds'[m].sub.queue, feeds[m].sub.queue)
           \/ W!Receive(m)
    BY <1>5, FeedStepMoves
  <2>2. CASE m = n BY <2>1, <2>2
  <2>3. CASE m # n BY <1>s, <2>1, <2>3
  <2> QED BY <2>2, <2>3
<1>6. CASE W!Restart
  <2>1. feeds'[n].sub.queue = <<>> BY <1>6, RestartMoves
  <2> QED BY <1>6, <2>1 DEF W!Restart
<1>7. \A m \in W!Ids : W!FeedStep(m) => published' = published BY FeedStepMoves
<1>8. W!Receive(n) => published' = published BY DEF W!Receive
<1> QED BY <1>1, <1>2, <1>3, <1>4, <1>5, <1>6, <1>7, <1>8 DEF W!Next

\* Every step keeps the messages of a feed behind its events in the window.
LEMMA FeedUpToStep ==
  ASSUME W!EventWindowConstants, WindowInv, [W!Next]_W!vars, NEW n \in W!Ids
  PROVE  \E h \in 0 .. published' : FeedUpTo(n, h)'
<1>a. W!TypeOK /\ W!TypeOK' BY WindowTypeStep DEF WindowInv
<1>b. /\ published \in Nat /\ published' \in Nat
      /\ feeds[n].sub.queue \in Seq(1 .. MaxEvents) /\ feeds'[n].sub.queue \in Seq(1 .. MaxEvents)
  <2>1. feeds' \in [W!Ids -> W!FeedState] /\ published' \in 0 .. MaxEvents
    BY <1>a DEF W!TypeOK
  <2>2. feeds'[n].sub \in W!Subscription(1 .. MaxEvents) BY <2>1 DEF W!FeedState
  <2>3. feeds'[n].sub.queue \in Seq(1 .. MaxEvents) BY <2>2, WindowQueues
  <2> QED BY <1>a, <2>1, <2>3, WindowNumbers, WindowSides
<1>c. PICK h \in 0 .. published : FeedUpTo(n, h) BY DEF WindowInv
<1>h. h \in Nat /\ h <= published BY <1>b, <1>c
<1>p. published' = published \/ published' = published + 1
  BY <1>b DEF W!Next, W!vars, W!Tick, W!Happen, W!PostSubscription, W!Enter, W!ResetWindow,
         W!StartFeed, W!DeleteSubscription, W!FeedStep, W!Connect, W!Receive, W!ReceiveCancel,
         W!Drop, W!Restart
<1>n. \A i \in 1 .. Len(window) : window[i].number \in Nat /\ (window[i].by = n => window[i].number <= h)
  <2>1. \A i \in 1 .. Len(window) : window[i] \in W!Event BY <1>a, ElementOfSeq DEF W!TypeOK
  <2> QED BY <1>c, <2>1 DEF FeedUpTo, W!Event
<1>1. CASE W!Receive(n)
  <2>1. /\ feeds[n].sub.queue # <<>> /\ Head(feeds[n].sub.queue) \in 1 .. MaxEvents
        /\ Arrived(n).number = Head(feeds[n].sub.queue) /\ Arrived(n) \in W!Event
        /\ feeds'[n].sub.queue = Tail(feeds[n].sub.queue)
        /\ Thinned(window', Append(window, Arrived(n)))
    BY <1>a, <1>1, ReceiveMoves
  <2>2. Ascends(feeds[n].sub.queue, Number, h, published)
    BY <1>1, <1>c DEF FeedUpTo, W!Alive, W!Receive
  <2>k. PICK k \in 1 .. MaxEvents : k = Head(feeds[n].sub.queue) BY <2>1
  <2>3. Number[k] \in h + 1 .. published /\ Ascends(Tail(feeds[n].sub.queue), Number, Number[k], published)
    BY <1>b, <1>h, <2>1, <2>2, <2>k, NumberTypes, TailAscends
  <2>4. k \in h + 1 .. published /\ k \in 0 .. published /\ published' = published
    BY <1>1, <1>h, <1>b, <2>3, NumberTypes DEF W!Receive
  <2>5. ASSUME NEW i \in 1 .. Len(window'), window'[i].by = n PROVE window'[i].number <= k
    <3>1. window \in Seq(W!Event) BY <1>a DEF W!TypeOK
    <3>2. window'[i] = Arrived(n) \/ \E j \in 1 .. Len(window) : window'[i] = window[j]
      BY <2>1, <3>1, ThinnedElements
    <3>3. CASE window'[i] = Arrived(n) BY <2>1, <2>k, <3>3
    <3>4. ASSUME NEW j \in 1 .. Len(window), window'[i] = window[j] PROVE window'[i].number <= k
      BY <1>h, <1>n, <2>4, <2>5, <3>4
    <3> QED BY <3>2, <3>3, <3>4
  <2>6. Ascends(feeds'[n].sub.queue, Number, k, published') BY <2>1, <2>3, <2>4, NumberTypes
  <2>7. FeedUpTo(n, k)' BY <2>5, <2>6 DEF FeedUpTo
  <2> QED BY <2>4, <2>7
<1>2. CASE ~W!Receive(n)
  <2>1. ASSUME NEW i \in 1 .. Len(window'), window'[i].by = n PROVE window'[i].number <= h
    <3>1. CASE window' \in {window, <<>>} BY <1>n, <2>1, <3>1
    <3>2. ASSUME NEW m \in W!Ids, W!Receive(m) PROVE window'[i].number <= h
      <4>1. /\ Arrived(m) \in W!Event /\ Arrived(m).by = m
            /\ Thinned(window', Append(window, Arrived(m)))
        BY <1>a, <3>2, ReceiveMoves
      <4>2. window \in Seq(W!Event) BY <1>a DEF W!TypeOK
      <4>3. m # n BY <1>2, <3>2
      <4>4. window'[i] # Arrived(m) BY <2>1, <4>1, <4>3
      <4>5. PICK j \in 1 .. Len(window) : window'[i] = window[j]
        BY <4>1, <4>2, <4>4, ThinnedElements
      <4> QED BY <1>n, <2>1, <4>5
    <3> QED BY <1>a, <3>1, <3>2, WindowMoves
  <2>2. ASSUME W!Alive(n)' PROVE Ascends(feeds'[n].sub.queue, Number, h, published')
    <3>1. CASE feeds'[n].sub.queue = <<>> BY <3>1, EmptyAscends
    <3>a. ASSUME W!Alive(n) PROVE Ascends(feeds[n].sub.queue, Number, h, published)
      BY <1>c, <3>a DEF FeedUpTo
    <3>2. CASE W!Alive(n) /\ published' = published /\ Thinned(feeds'[n].sub.queue, feeds[n].sub.queue)
      <4>1. published <= published BY <1>b
      <4> QED BY <1>b, <1>h, <3>2, <3>a, <4>1, NumberTypes, ThinnedAscends
    <3>3. CASE /\ W!Alive(n) /\ published' = published + 1 /\ published' \in 1 .. MaxEvents
               /\ feeds'[n].sub.queue \in {feeds[n].sub.queue, Append(feeds[n].sub.queue, published')}
      <4>1. Ascends(feeds[n].sub.queue, Number, h, published')
        <5>1. published <= published' BY <1>b, <3>3
        <5> QED BY <1>b, <1>h, <3>3, <3>a, <5>1, NumberTypes, SameThins, ThinnedAscends
      <4>2. Ascends(Append(feeds[n].sub.queue, published'), Number, h, published')
        <5>1. PICK m \in 1 .. MaxEvents : m = published' BY <3>3
        <5>2. PICK q \in Seq(1 .. MaxEvents) : q = feeds[n].sub.queue BY <1>b
        <5>3. /\ Number[m] = m /\ m \in Nat /\ published < Number[m] /\ h < Number[m]
              /\ Number[m] <= m
          BY <1>b, <1>h, <3>3, <5>1, NumberTypes
        <5>4. Ascends(q, Number, h, published) BY <3>3, <3>a, <5>2
        <5>5. Ascends(Append(q, m), Number, h, m)
          BY <1>b, <1>h, <5>3, <5>4, NumberTypes, AppendAscends
        <5> QED BY <5>1, <5>2, <5>5
      <4> QED BY <3>3, <4>1, <4>2
    <3> QED BY <1>2, <1>a, <2>2, <3>1, <3>2, <3>3, QueuesMove
  <2>3. FeedUpTo(n, h)' BY <2>1, <2>2 DEF FeedUpTo
  <2>4. h \in 0 .. published' BY <1>b, <1>h, <1>p
  <2> QED BY <2>3, <2>4
<1> QED BY <1>1, <1>2

\* Only a DELETE makes room for another subscription.
LEMMA OneUndeletedStep ==
  ASSUME W!EventWindowConstants, WindowInv, [W!Next]_W!vars
  PROVE  OneUndeleted'
<1>a. W!TypeOK /\ OneUndeleted BY DEF WindowInv
<1>e. ASSUME NEW i \in 1 .. Len(window) PROVE window[i] \in W!Event /\ window[i].by \in W!Ids
  <2>1. window[i] \in W!Event BY <1>a, ElementOfSeq DEF W!TypeOK
  <2> QED BY <2>1 DEF W!Event
<1>s. ASSUME UNCHANGED <<entry, deleted>>, window' \in {window, <<>>}, posts' \subseteq posts,
             \A n \in W!Ids : W!Alive(n)' => W!Alive(n)
      PROVE  OneUndeleted'
  BY <1>a, <1>s DEF OneUndeleted
<1>1. CASE W!Tick \/ UNCHANGED W!vars
  BY <1>1, <1>s DEF W!Tick, W!vars, W!history, W!Alive
<1>2. CASE W!Happen
  <2>1. \A n \in W!Ids : feeds'[n].at = feeds[n].at
    <3>1. SUFFICES ASSUME NEW n \in W!Ids PROVE feeds'[n].at = feeds[n].at OBVIOUS
    <3>2. feeds'[n] = [feeds[n] EXCEPT !.sub = W!Deliver(@, published')] BY <1>2 DEF W!Happen
    <3> QED BY <3>2
  <2> QED BY <1>2, <1>s, <2>1 DEF W!Happen, W!history, W!Alive
<1>3. CASE W!PostSubscription
  <2>1. /\ entry = Nil /\ entry' = subs' /\ UNCHANGED <<deleted, feeds, window>>
        /\ posts' = posts \cup {[id |-> subs', step |-> "reset"]}
    BY <1>3 DEF W!PostSubscription, W!Enter
  <2>2. Nil \notin W!Ids BY WindowSides
  <2>3. \A p \in posts : p.id \in W!Ids BY <1>a DEF W!TypeOK
  <2>4. /\ \A n \in W!Ids : W!Alive(n)' => n \in deleted'
        /\ \A p \in posts : p.id \in deleted'
        /\ \A i \in 1 .. Len(window') : window'[i].by \in deleted'
    BY <1>a, <1>e, <2>1, <2>2, <2>3 DEF OneUndeleted, W!Alive
  <2> QED BY <2>1, <2>4 DEF OneUndeleted
<1>4. ASSUME NEW p \in posts, W!ResetWindow(p) PROVE OneUndeleted'
  <2>1. /\ UNCHANGED <<entry, deleted, feeds>> /\ window' = <<>>
        /\ posts' = (posts \ {p}) \cup {[p EXCEPT !.step = "start"]}
    BY <1>4 DEF W!ResetWindow, W!history
  <2>2. p \in [id: W!Ids, step: {"reset", "start"}] BY <1>a DEF W!TypeOK
  <2>3. [p EXCEPT !.step = "start"].id = p.id BY <2>2
  <2>4. \A q \in posts' : q.id \in deleted' \cup {entry'} BY <1>a, <2>1, <2>3 DEF OneUndeleted
  <2> QED BY <1>a, <2>1, <2>4 DEF OneUndeleted, W!Alive
<1>5. ASSUME NEW p \in posts, W!StartFeed(p) PROVE OneUndeleted'
  <2>1. UNCHANGED <<entry, deleted, window>> /\ posts' = posts \ {p}
    BY <1>5 DEF W!StartFeed, W!history
  <2>2. \A n \in W!Ids \ {p.id} : feeds'[n] = feeds[n] BY <1>a, <1>5, StartMoves
  <2>3. \A n \in W!Ids : W!Alive(n)' => n = p.id \/ W!Alive(n) BY <2>2 DEF W!Alive
  <2> QED BY <1>a, <2>1, <2>3 DEF OneUndeleted
<1>6. CASE W!DeleteSubscription
  <2>1. /\ deleted' = deleted \cup {entry} /\ UNCHANGED <<posts, window>>
    BY <1>6 DEF W!DeleteSubscription
  <2>2. \A n \in W!Ids : feeds'[n].at = feeds[n].at BY <1>a, <1>6, DeleteMoves
  <2> QED BY <1>a, <2>1, <2>2 DEF OneUndeleted, W!Alive
<1>7. ASSUME NEW n \in W!Ids, W!FeedStep(n) PROVE OneUndeleted'
  <2>1. /\ W!Alive(n) /\ \A m \in W!Ids \ {n} : feeds'[m] = feeds[m]
        /\ UNCHANGED <<entry, posts, deleted>>
        /\ window' = window \/ W!Receive(n)
    BY <1>a, <1>7, FeedStepMoves
  <2>2. \A m \in W!Ids : W!Alive(m)' => W!Alive(m) BY <2>1 DEF W!Alive
  <2>3. n \in deleted \cup {entry} BY <1>a, <2>1 DEF OneUndeleted
  <2>4. CASE W!Receive(n)
    <3>1. /\ Arrived(n) \in W!Event /\ Arrived(n).by = n
          /\ Thinned(window', Append(window, Arrived(n)))
      BY <1>a, <2>4, ReceiveMoves
    <3>2. ASSUME NEW i \in 1 .. Len(window') PROVE window'[i].by \in deleted \cup {entry}
      <4>2. window \in Seq(W!Event) BY <1>a DEF W!TypeOK
      <4>3. window'[i] = Arrived(n) \/ \E k \in 1 .. Len(window) : window'[i] = window[k]
        BY <3>1, <4>2, ThinnedElements
      <4> QED BY <1>a, <2>3, <3>1, <4>3 DEF OneUndeleted
    <3> QED BY <1>a, <2>1, <2>2, <3>2 DEF OneUndeleted
  <2> QED BY <1>s, <2>1, <2>2, <2>4
<1>8. CASE W!Restart
  <2>1. /\ entry' = subs' /\ posts' = {} /\ window' = <<>>
        /\ \A n \in W!Ids : W!Alive(n)' => n = subs'
    BY <1>a, <1>8, RestartMoves
  <2>2. Len(window') = 0 BY <2>1
  <2> QED BY <2>1, <2>2 DEF OneUndeleted
<1> QED BY <1>1, <1>2, <1>3, <1>4, <1>5, <1>6, <1>7, <1>8 DEF W!Next

\* The newest events are the last ones, as many as fit.
LEMMA NewestProperties ==
  ASSUME W!EventWindowConstants, NEW E, NEW s \in Seq(E)
  PROVE  /\ Newest(s) \in Seq(E)
         /\ Len(Newest(s)) = IF Len(s) > WindowSize THEN WindowSize ELSE Len(s)
         /\ \A i \in 1 .. Len(Newest(s)) :
              Newest(s)[i] = s[i + IF Len(s) > WindowSize THEN Len(s) - WindowSize ELSE 0]
<1>1. WindowSize \in Nat \ {0} /\ Len(s) \in Nat BY WindowSides, LenProperties
<1> DEFINE d == IF Len(s) > WindowSize THEN Len(s) - WindowSize ELSE 0
<1>2. PICK k \in 0 .. Len(s) : k = d BY <1>1
<1>3. Newest(s) = SubSeq(s, k + 1, Len(s))
  BY <1>1, <1>2 DEF Newest
<1>4. k + 1 \in 1 .. Len(s) + 1 BY <1>1, <1>2
<1>5. /\ SubSeq(s, k + 1, Len(s)) \in Seq(E)
      /\ Len(SubSeq(s, k + 1, Len(s))) = Len(s) - k
      /\ \A i \in 1 .. Len(s) - k : SubSeq(s, k + 1, Len(s))[i] = s[i + k]
  BY <1>1, <1>4, SubSeqProperties
<1>6. Len(s) - k = IF Len(s) > WindowSize THEN WindowSize ELSE Len(s) BY <1>1, <1>2
<1> QED BY <1>2, <1>3, <1>5, <1>6

\* To append to the newest events is to append to all of them.
LEMMA NewestAppended ==
  ASSUME W!EventWindowConstants, W!TypeOK, NEW event \in W!Event, window = Newest(got)
  PROVE  W!Appended(event) = Newest(Append(got, event))
<1>1. /\ WindowSize \in Nat \ {0} /\ window \in Seq(W!Event) /\ got \in Seq(W!Event)
      /\ Len(window) \in Nat /\ Len(got) \in Nat
  BY WindowSides, LenProperties DEF W!TypeOK
<1> DEFINE w == Append(window, event)
           g == Append(got, event)
           a == Newest(w)
           b == Newest(g)
<1>2. /\ w \in Seq(W!Event) /\ Len(w) = Len(window) + 1
      /\ \A i \in 1 .. Len(w) : w[i] = IF i <= Len(window) THEN window[i] ELSE event
      /\ g \in Seq(W!Event) /\ Len(g) = Len(got) + 1
      /\ \A i \in 1 .. Len(g) : g[i] = IF i <= Len(got) THEN got[i] ELSE event
  <2>1. ASSUME NEW s \in Seq(W!Event)
        PROVE  /\ Append(s, event) \in Seq(W!Event) /\ Len(Append(s, event)) = Len(s) + 1
               /\ \A i \in 1 .. Len(s) + 1 :
                    Append(s, event)[i] = IF i <= Len(s) THEN s[i] ELSE event
    <3>1. /\ Append(s, event) \in Seq(W!Event) /\ Len(Append(s, event)) = Len(s) + 1
          /\ \A i \in 1 .. Len(s) : Append(s, event)[i] = s[i]
          /\ Append(s, event)[Len(s) + 1] = event /\ Len(s) \in Nat
      BY AppendProperties, LenProperties
    <3> QED BY <3>1
  <2> QED BY <1>1, <2>1
<1>3. W!Appended(event) = Newest(w)
  <2>1. W!Appended(event) = IF Len(w) > WindowSize THEN SubSeq(w, Len(w) - WindowSize + 1, Len(w)) ELSE w
    BY DEF W!Appended
  <2>2. SubSeq(w, 1, Len(w)) = w BY <1>2, SubSeqFull
  <2> QED BY <2>1, <2>2 DEF Newest
<1>4. /\ Len(window) = IF Len(got) > WindowSize THEN WindowSize ELSE Len(got)
      /\ \A i \in 1 .. Len(window) :
           window[i] = got[i + IF Len(got) > WindowSize THEN Len(got) - WindowSize ELSE 0]
  BY <1>1, NewestProperties
<1>w. w \in Seq(W!Event) /\ g \in Seq(W!Event) BY <1>2
<1>5. /\ a \in Seq(W!Event) /\ Len(a) = IF Len(w) > WindowSize THEN WindowSize ELSE Len(w)
      /\ \A i \in 1 .. Len(a) :
           a[i] = w[i + IF Len(w) > WindowSize THEN Len(w) - WindowSize ELSE 0]
  <2> HIDE DEF w, g
  <2> QED BY <1>w, NewestProperties
<1>6. /\ b \in Seq(W!Event) /\ Len(b) = IF Len(g) > WindowSize THEN WindowSize ELSE Len(g)
      /\ \A i \in 1 .. Len(b) :
           b[i] = g[i + IF Len(g) > WindowSize THEN Len(g) - WindowSize ELSE 0]
  <2> HIDE DEF w, g
  <2> QED BY <1>w, NewestProperties
<1>7. a = b
  <2> HIDE DEF a, b, w, g
  <2>1. Len(a) = Len(b) BY <1>1, <1>2, <1>4, <1>5, <1>6
  <2>2. ASSUME NEW i \in 1 .. Len(a) PROVE a[i] = b[i]
    <3>1. CASE Len(got) < WindowSize
      <4>1. Len(window) = Len(got) /\ a[i] = w[i] /\ b[i] = g[i] /\ i \in 1 .. Len(got) + 1
        <5>1. Len(window) = Len(got) /\ Len(w) = Len(got) + 1 /\ Len(g) = Len(got) + 1
          BY <1>1, <1>2, <1>4, <3>1
        <5>2. ~(Len(w) > WindowSize) /\ ~(Len(g) > WindowSize) BY <1>1, <3>1, <5>1
        <5>3. Len(a) = Len(w) /\ a[i] = w[i + 0] BY <1>5, <5>2
        <5>4. b[i] = g[i + 0] BY <1>6, <2>1, <5>2
        <5>5. i \in 1 .. Len(got) + 1 /\ i + 0 = i BY <5>1, <5>3
        <5> QED BY <5>1, <5>3, <5>4, <5>5
      <4>2. i <= Len(got) => window[i] = got[i] BY <1>1, <1>4, <3>1, <4>1
      <4> QED BY <1>1, <1>2, <4>1, <4>2
    <3>2. CASE Len(got) >= WindowSize
      <4>1. /\ Len(window) = WindowSize /\ Len(a) = WindowSize
            /\ a[i] = w[i + 1] /\ b[i] = g[i + (Len(got) + 1 - WindowSize)]
        <5>1. Len(window) = WindowSize /\ Len(w) = WindowSize + 1 /\ Len(g) = Len(got) + 1
          BY <1>1, <1>2, <1>4, <3>2
        <5>2. Len(w) > WindowSize /\ Len(g) > WindowSize BY <1>1, <3>2, <5>1
        <5>3. Len(a) = WindowSize /\ a[i] = w[i + (Len(w) - WindowSize)] BY <1>5, <5>2
        <5>4. b[i] = g[i + (Len(g) - WindowSize)] BY <1>6, <2>1, <5>2
        <5>5. Len(w) - WindowSize = 1 BY <1>1, <5>1
        <5> QED BY <5>1, <5>3, <5>4, <5>5, SMTT(30)
      <4>2. CASE i = WindowSize BY <1>1, <1>2, <3>2, <4>1, <4>2
      <4>3. CASE i < WindowSize
        <5>1. i + 1 \in 1 .. Len(window) BY <1>1, <4>1, <4>3
        <5>2. w[i + 1] = window[i + 1] BY <1>1, <1>2, <5>1
        <5>3. window[i + 1] = got[(i + 1) + (Len(got) - WindowSize)] BY <1>1, <1>4, <3>2, <5>1
        <5>4. PICK j \in 1 .. Len(got) : j = i + (Len(got) + 1 - WindowSize)
          BY <1>1, <3>2, <4>1, <4>3
        <5>5. g[j] = got[j] BY <1>1, <1>2, <5>4
        <5>6. (i + 1) + (Len(got) - WindowSize) = j BY <1>1, <4>1, <5>4
        <5> QED BY <4>1, <5>2, <5>3, <5>4, <5>5, <5>6
      <4> QED BY <1>1, <4>1, <4>2, <4>3
    <3> QED BY <1>1, <3>1, <3>2
  <2>3. a \in Seq(W!Event) /\ b \in Seq(W!Event) BY <1>5, <1>6
  <2> QED BY <2>1, <2>2, <2>3, SeqEqual
<1> QED BY <1>3, <1>7

\* Every step that begins no overlap keeps the window the newest of what was received.
LEMMA WindowKeptStep ==
  ASSUME W!EventWindowConstants, WindowInv, [W!Next]_W!vars, ~overlap'
  PROVE  WindowKept'
<1>a. W!TypeOK /\ entry \in {subs, Nil} BY DEF WindowInv
<1>0. <<>> = Newest(<<>>)
  <2>1. <<>> \in Seq({}) /\ Len(<<>>) = 0 BY EmptySeq
  <2>2. ~(Len(<<>>) > WindowSize) BY <2>1, WindowSides
  <2> QED BY <2>1, <2>2, SubSeqFull DEF Newest
<1>1. CASE W!Restart
  <2>1. window' = <<>> /\ got' = <<>> /\ posts' = {} BY <1>a, <1>1, RestartMoves
  <2> QED BY <1>0, <2>1 DEF WindowKept, Newest
<1>2. CASE ~overlap
  <2>a. LastFeedOnly /\ WindowKept BY <1>2 DEF WindowInv
  <2>s. ASSUME UNCHANGED <<entry, posts, window, got>> PROVE WindowKept'
    BY <2>a, <2>s DEF WindowKept, Newest
  <2>1. CASE W!Tick \/ W!Happen \/ UNCHANGED W!vars
    BY <2>1, <2>s DEF W!Tick, W!Happen, W!vars, W!history
  <2>2. CASE W!PostSubscription
    <3>1. got' = <<>> /\ [id |-> entry', step |-> "reset"] \in posts'
      BY <2>2 DEF W!PostSubscription, W!Enter
    <3> QED BY <3>1 DEF WindowKept
  <2>3. CASE W!DeleteSubscription BY <2>3 DEF W!DeleteSubscription, WindowKept
  <2>4. ASSUME NEW p \in posts, W!ResetWindow(p) PROVE WindowKept'
    <3>1. /\ p.step = "reset" /\ window' = <<>> /\ entry' = entry /\ got' = got
          /\ posts' = (posts \ {p}) \cup {[p EXCEPT !.step = "start"]}
      BY <2>4 DEF W!ResetWindow, W!history
    <3>2. p \in [id: W!Ids, step: {"reset", "start"}] BY <1>a DEF W!TypeOK
    <3>3. posts = {p} /\ p.id = subs BY <2>a DEF LastFeedOnly
    <3>4. entry # Nil => p = [id |-> entry, step |-> "reset"] BY <1>a, <3>1, <3>2, <3>3
    <3>5. entry # Nil => got = <<>> BY <2>a, <3>4 DEF WindowKept
    <3>6. [id |-> entry, step |-> "reset"] \notin posts'
      <4>1. [p EXCEPT !.step = "start"].step = "start" BY <3>2
      <4>2. posts' = {[p EXCEPT !.step = "start"]} BY <3>1, <3>3
      <4>3. [id |-> entry, step |-> "reset"].step = "reset" OBVIOUS
      <4> QED BY <4>1, <4>2, <4>3
    <3> QED BY <1>0, <3>1, <3>5, <3>6 DEF WindowKept, Newest
  <2>5. ASSUME NEW p \in posts, W!StartFeed(p) PROVE WindowKept'
    <3>1. p.step = "start" /\ posts' = posts \ {p} /\ UNCHANGED <<entry, window, got>>
      BY <2>5 DEF W!StartFeed, W!history
    <3>2. [id |-> entry, step |-> "reset"] # p
      <4>1. [id |-> entry, step |-> "reset"].step = "reset" OBVIOUS
      <4> QED BY <3>1, <4>1
    <3>3. [id |-> entry, step |-> "reset"] \in posts' <=> [id |-> entry, step |-> "reset"] \in posts
      BY <3>1, <3>2
    <3> QED BY <2>a, <3>1, <3>3 DEF WindowKept, Newest
  <2>6. ASSUME NEW n \in W!Ids, W!FeedStep(n) PROVE WindowKept'
    <3>1. /\ W!Alive(n) /\ UNCHANGED <<entry, posts>>
          /\ UNCHANGED <<window, got>> \/ W!Receive(n)
      BY <1>a, <2>6, FeedStepMoves
    <3>2. n = subs /\ posts = {} BY <2>a, <3>1 DEF LastFeedOnly
    <3>3. CASE W!Receive(n) /\ entry # Nil
      <4>1. entry = n BY <1>a, <3>2, <3>3
      <4> DEFINE event == [number |-> Head(feeds[n].sub.queue), time |-> clock, by |-> n]
      <4>2. window' = W!Appended(event) /\ got' = Append(got, event)
        BY <3>3, <4>1 DEF W!Receive
      <4>3. event \in W!Event
        <5>1. feeds[n].sub.queue # <<>> BY <3>3 DEF W!Receive
        <5>2. feeds[n].sub \in W!Subscription(1 .. MaxEvents) BY <1>a, WindowNumbers
        <5>3. Head(feeds[n].sub.queue) \in 1 .. MaxEvents BY <5>1, <5>2, WindowQueues
        <5>4. clock \in 0 .. MaxTime BY <1>a DEF W!TypeOK
        <5> QED BY <5>3, <5>4 DEF W!Event
      <4>4. window = Newest(got) BY <2>a, <3>2, <3>3 DEF WindowKept
      <4> HIDE DEF event
      <4>5. W!Appended(event) = Newest(Append(got, event)) BY <1>a, <4>3, <4>4, NewestAppended
      <4>6. window' = Newest(got') BY <4>2, <4>5
      <4> QED BY <3>1, <3>2, <4>6 DEF WindowKept, Newest
    <3>4. CASE entry = Nil BY <3>1, <3>4 DEF WindowKept
    <3> QED BY <2>s, <3>1, <3>3, <3>4
  <2> QED BY <1>1, <2>1, <2>2, <2>3, <2>4, <2>5, <2>6 DEF W!Next
<1> QED BY <1>1, <1>2, OverlapEnds

\* It begins so.
LEMMA WindowStart == ASSUME W!EventWindowConstants, W!Init PROVE WindowInv
<1>a. /\ entry = 1 /\ subs = 1 /\ posts = {} /\ window = <<>> /\ got = <<>> /\ overlap = FALSE
      /\ deleted = {} /\ clock = 0 /\ published = 0 /\ faults = 0
      /\ feeds = [n \in W!Ids |-> IF n = 1 THEN W!NewFeed ELSE W!NoFeed]
  BY DEF W!Init
<1>1. W!TypeOK
  <2>1. feeds \in [W!Ids -> W!FeedState] BY <1>a, NewFeeds
  <2>2. <<>> \in Seq(W!Event) /\ Len(<<>>) <= WindowSize BY EmptySeq, WindowSides
  <2>3. entry \in W!Ids \cup {Nil} /\ subs \in W!Ids BY <1>a, WindowSides
  <2>4. posts \subseteq [id: W!Ids, step: {"reset", "start"}] /\ overlap \in BOOLEAN BY <1>a
  <2>5. clock \in 0 .. MaxTime /\ published \in 0 .. MaxEvents /\ faults \in 0 .. MaxFaults
    BY <1>a, WindowSides
  <2> QED BY <1>a, <2>1, <2>2, <2>3, <2>4, <2>5 DEF W!TypeOK
<1>2. LastFeedOnly
  <2>1. \A n \in W!Ids : W!Alive(n) => n = 1 BY <1>a DEF W!Alive, W!NoFeed
  <2> QED BY <1>a, <2>1 DEF LastFeedOnly
<1>3. OneUndeleted /\ EachOnce(window) /\ \A n \in W!Ids : FeedUpTo(n, 0)
  <2>1. \A n \in W!Ids : W!Alive(n) => n = 1 /\ feeds[n].sub.queue = <<>>
    BY <1>a, NewFeeds DEF W!Alive, W!NoFeed, W!Unsubscribed
  <2>2. Len(window) = 0 BY <1>a
  <2> QED BY <1>a, <2>1, <2>2, EmptyAscends DEF FeedUpTo, EachOnce, OneUndeleted
<1>4. WindowKept
  <2>1. <<>> \in Seq({}) /\ Len(<<>>) = 0 BY EmptySeq
  <2>2. Newest(<<>>) = <<>> BY <2>1, WindowSides, SubSeqFull DEF Newest
  <2> QED BY <1>a, <2>2 DEF WindowKept
<1>5. 0 \in 0 .. published BY <1>a
<1> QED BY <1>a, <1>1, <1>2, <1>3, <1>4, <1>5 DEF WindowInv

\* Every step keeps it so.
LEMMA WindowStep ==
  ASSUME W!EventWindowConstants, WindowInv, [W!Next]_W!vars
  PROVE  WindowInv'
<1>1. W!TypeOK' BY WindowTypeStep DEF WindowInv
<1>2. entry' \in {subs', Nil}
  BY DEF WindowInv, W!Next, W!vars, W!Tick, W!Happen, W!PostSubscription, W!Enter, W!ResetWindow,
         W!StartFeed, W!DeleteSubscription, W!FeedStep, W!Connect, W!Receive, W!ReceiveCancel,
         W!Drop, W!Restart
<1>3. ASSUME ~overlap' PROVE LastFeedOnly' /\ WindowKept'
  BY <1>3, LastFeedStep, WindowKeptStep
<1>4. OneUndeleted' /\ EachOnce(window') BY OneUndeletedStep, EachOnceStep
<1>5. \A n \in W!Ids : \E h \in 0 .. published' : FeedUpTo(n, h)' BY FeedUpToStep
<1> QED BY <1>1, <1>2, <1>3, <1>4, <1>5 DEF WindowInv

\* To the texts of times: a later text is the text of a later time, or of a time without fraction
\* in the second of one with a fraction.
LEMMA LaterText ==
  ASSUME NEW t \in Nat, NEW after \in Nat, Text(t) > Text(after)
  PROVE  Later(t, after)
BY DEF Text, Later

\* As many calls as the texts show have been received, and no two of one source are the same.
LEMMA VerdictFollows ==
  ASSUME W!EventWindowConstants, WindowInv
  PROVE  VerdictIsEarned
<1>a. W!TypeOK /\ MaxTime \in Nat BY WindowSides DEF WindowInv
<1>b. window \in Seq(W!Event) /\ Len(window) \in Nat BY <1>a, LenProperties DEF W!TypeOK
<1>c. \A i \in 1 .. Len(window) : /\ window[i].time \in Nat /\ window[i].number \in Nat
                                  /\ window[i].by \in Nat \ {0}
  <2>1. \A i \in 1 .. Len(window) : window[i] \in W!Event BY <1>b, ElementOfSeq
  <2>2. W!Ids \subseteq Nat \ {0} BY WindowSides
  <2> QED BY <2>1, <2>2 DEF W!Event
<1>1. SUFFICES ASSUME NEW after \in 0 .. MaxTime, NEW n \in 1 .. WindowSize, Verified(after, n)
               PROVE  Cardinality({<<window[i].number, Source(window[i])>> : i \in
                         {j \in 1 .. Len(window) : Later(window[j].time, after)}}) >= n
  BY DEF VerdictIsEarned
<1>2. ASSUME NEW i \in 1 .. Len(window), NEW j \in 1 .. Len(window), j < i,
             window[j].by = window[i].by
      PROVE  window[j].number < window[i].number
  <2>1. j \in 1 .. i - 1 BY <1>b, <1>2
  <2> QED BY <1>2, <2>1 DEF WindowInv, EachOnce
<1>3. ASSUME NEW i \in 1 .. Len(window), NEW j \in 1 .. Len(window),
             Source(window[i]) = Source(window[j])
      PROVE  window[i].by = window[j].by
  <2>1. /\ window[i].by \in deleted \cup {entry} /\ window[j].by \in deleted \cup {entry}
        /\ window[i].by # 0 /\ window[j].by # 0
    BY <1>c DEF WindowInv, OneUndeleted
  <2> QED BY <1>3, <2>1 DEF Source
<1> DEFINE Late == {j \in 1 .. Len(window) : Later(window[j].time, after)}
           Calls == {<<window[i].number, Source(window[i])>> : i \in Late}
           f == [i \in Late |-> <<window[i].number, Source(window[i])>>]
<1>4. IsFiniteSet(1 .. Len(window)) BY <1>b, FS_Interval
<1>5. IsFiniteSet(Late)
  <2>1. Late \in SUBSET (1 .. Len(window)) OBVIOUS
  <2> QED BY <1>4, <2>1, FS_Subset
<1>6. Cardinality(Found(after)) <= Cardinality(Late)
  <2>1. Found(after) \subseteq Late
    <3>1. SUFFICES ASSUME NEW i \in Found(after) PROVE i \in Late OBVIOUS
    <3>2. i \in 1 .. Len(window) /\ Text(window[i].time) > Text(after) BY DEF Found
    <3>3. window[i].time \in Nat /\ after \in Nat BY <1>a, <1>c, <3>2
    <3> QED BY <3>2, <3>3, LaterText
  <2>2. Found(after) \in SUBSET Late BY <2>1
  <2> HIDE DEF Late
  <2> QED BY <1>5, <2>2, FS_Subset
<1>7. Cardinality(Calls) = Cardinality(Late)
  <2>1. f \in [Late -> Calls] OBVIOUS
  <2>2. ASSUME NEW i \in Late, NEW j \in Late, f[i] = f[j] PROVE i = j
    <3>1. /\ i \in 1 .. Len(window) /\ j \in 1 .. Len(window)
          /\ window[i].number = window[j].number /\ Source(window[i]) = Source(window[j])
      BY <2>2
    <3>2. window[i].by = window[j].by BY <1>3, <3>1
    <3>3. window[i].number \in Nat /\ window[j].number \in Nat BY <1>c, <3>1
    <3>4. ~(i < j) BY <1>2, <3>1, <3>2, <3>3
    <3>5. ~(j < i) BY <1>2, <3>1, <3>2, <3>3
    <3> QED BY <1>b, <3>1, <3>4, <3>5
  <2>3. \A c \in Calls : \E i \in Late : f[i] = c OBVIOUS
  <2>4. f \in Bijection(Late, Calls)
    <3> HIDE DEF f, Late, Calls
    <3>1. DOMAIN f = Late BY <2>1
    <3> QED BY <2>1, <2>2, <2>3, <3>1 DEF Bijection, Injection, Surjection, IsInjective
  <2>5. ExistsBijection(Late, Calls) BY <2>4 DEF ExistsBijection
  <2> HIDE DEF Late, Calls
  <2> QED BY <1>5, <2>5, FS_Bijection
<1>8. Cardinality(Found(after)) >= n BY <1>1 DEF Verified
<1>9. Cardinality(Calls) >= n
  <2>1. Cardinality(Late) \in Nat /\ n \in Nat BY <1>5, FS_CardinalityType
  <2>2. Found(after) \in SUBSET (1 .. Len(window)) BY DEF Found
  <2>3. Cardinality(Found(after)) \in Nat
    <3>1. IsFiniteSet(Found(after)) BY <1>4, <2>2, FS_Subset
    <3> QED BY <3>1, FS_CardinalityType
  <2> HIDE DEF Late, Calls
  <2> QED BY <1>6, <1>7, <1>8, <2>1, <2>3
<1> QED BY <1>9

\* The variables of an application's window stay in their types, for any sizes and bounds.
THEOREM WindowTypeCorrect == ASSUME W!EventWindowConstants PROVE W!Spec => []W!TypeOK
<1>1. W!Init => WindowInv BY WindowStart
<1>2. WindowInv /\ [W!Next]_W!vars => WindowInv' BY WindowStep
<1>3. WindowInv => W!TypeOK BY DEF WindowInv
<1> QED BY <1>1, <1>2, <1>3, PTL DEF W!Spec

\* A call chain passes only if that many different calls of the application were received
\* after the time it asks about (verifyCallChain, queryEvents), as far as texts of times tell,
\* a call counting once more only if the feed of a deleted subscription received it too: two
\* feeds of one application need a DELETE between them (handleSubscriptions).
THEOREM VerdictsAreEarned == ASSUME W!EventWindowConstants PROVE W!Spec => []VerdictIsEarned
<1>1. W!Init => WindowInv BY WindowStart
<1>2. WindowInv /\ [W!Next]_W!vars => WindowInv' BY WindowStep
<1>3. WindowInv => VerdictIsEarned BY VerdictFollows
<1> QED BY <1>1, <1>2, <1>3, PTL DEF W!Spec

\* appendEvent throws away nothing but the oldest events: the window is what the feed of the
\* present subscription received last, in the order it received it, whatever subscriptions
\* and cancellations there were before, unless an earlier feed was still at work.
THEOREM ReceivedIsAlwaysKept == ASSUME W!EventWindowConstants PROVE W!Spec => []W!ReceivedIsKept
<1>1. W!Init => WindowInv BY WindowStart
<1>2. WindowInv /\ [W!Next]_W!vars => WindowInv' BY WindowStep
<1>3. WindowInv => W!ReceivedIsKept
  BY DEF WindowInv, WindowKept, Newest, W!ReceivedIsKept
<1> QED BY <1>1, <1>2, <1>3, PTL DEF W!Spec

-----------------------------------------------------------------------------
(* The dashboard's live feed                                                *)

\* The channels of the promise are those of the gateway.
LEMMA SameChannels == Channels = G!Channels
BY DEF Channels, G!Channels

\* The gateway reads the same kind of subscriptions.
LEMMA FeedQueues ==
  ASSUME NEW M, NEW s \in G!Subscription(M)
  PROVE  /\ s.queue \in Seq(M)
         /\ \A m \in M : G!Deliver(s, m) \in G!Subscription(M)
         /\ s.queue # <<>> => /\ G!Taken(s) \in G!Subscription(M)
                              /\ G!Taken(s).queue = Tail(s.queue) /\ Head(s.queue) \in M
         /\ \A t \in G!Torn(s) \cup G!Broken(s) :
              t \in G!Subscription(M) /\ Thinned(t.queue, s.queue)
         /\ G!Subscribed \in G!Subscription(M) /\ G!Unsubscribed \in G!Subscription(M)
         /\ G!Subscribed.queue = <<>> /\ G!Unsubscribed.queue = <<>>
<1>1. G!Subscription(M) = W!Subscription(M) BY DEF G!Subscription, W!Subscription
<1>2. \A m : G!Deliver(s, m) = W!Deliver(s, m) BY DEF G!Deliver, W!Deliver
<1>3. G!Taken(s) = W!Taken(s) BY DEF G!Taken, W!Taken
<1>4. G!Torn(s) = W!Torn(s) BY DEF G!Torn, W!Torn, G!RemoveAt, W!RemoveAt
<1>5. G!Broken(s) = W!Broken(s) BY DEF G!Broken, W!Broken
<1>6. G!Subscribed = W!Subscribed /\ G!Unsubscribed = W!Unsubscribed
  BY DEF G!Subscribed, W!Subscribed, G!Unsubscribed, W!Unsubscribed
<1> QED BY <1>1, <1>2, <1>3, <1>4, <1>5, <1>6, WindowQueues

\* Messages of several channels: on each, the numbers go up, from above low to high at most.
InOrder(q, low, high) ==
  \A k \in 1 .. Len(q) :
    /\ q[k][2] \in low[q[k][1]] + 1 .. high[q[k][1]]
    /\ \A j \in 1 .. k - 1 : q[j][1] = q[k][1] => q[j][2] < q[k][2]

\* An empty channel is in order.
LEMMA EmptyInOrder == \A low, high : InOrder(<<>>, low, high)
BY DEF InOrder

\* A message with a later number than its channel had keeps the order.
LEMMA AppendInOrder ==
  ASSUME NEW low \in [G!Channels -> Nat], NEW high \in [G!Channels -> Nat],
         NEW q \in Seq(G!Message), InOrder(q, low, high),
         NEW c \in G!Channels, NEW n \in Nat, high[c] < n, low[c] <= high[c]
  PROVE  InOrder(Append(q, <<c, n>>), low, [high EXCEPT ![c] = n])
<1> DEFINE r == Append(q, <<c, n>>)
           top == [high EXCEPT ![c] = n]
<1>1. <<c, n>> \in G!Message BY DEF G!Message
<1>2. /\ Len(r) = Len(q) + 1 /\ Len(q) \in Nat /\ r[Len(q) + 1] = <<c, n>>
      /\ \A k \in 1 .. Len(q) : r[k] = q[k]
  BY <1>1, AppendProperties, LenProperties
<1>3. ASSUME NEW k \in 1 .. Len(q)
      PROVE  q[k] \in G!Message /\ q[k][1] \in G!Channels /\ q[k][2] \in Nat
  <2>1. q[k] \in G!Message BY ElementOfSeq
  <2> QED BY <2>1 DEF G!Message
<1>4. \A d \in G!Channels : top[d] \in Nat /\ high[d] <= top[d] /\ low[d] \in Nat /\ high[d] \in Nat
  OBVIOUS
<1>5. top[c] = n OBVIOUS
<1> HIDE DEF r, top
<1>6. ASSUME NEW k \in 1 .. Len(q)
      PROVE  /\ r[k][2] \in low[r[k][1]] + 1 .. top[r[k][1]]
             /\ \A j \in 1 .. k - 1 : r[j][1] = r[k][1] => r[j][2] < r[k][2]
  <2>1. /\ q[k][2] \in low[q[k][1]] + 1 .. high[q[k][1]]
        /\ \A j \in 1 .. k - 1 : q[j][1] = q[k][1] => q[j][2] < q[k][2]
    BY DEF InOrder
  <2>2. r[k] = q[k] /\ \A j \in 1 .. k - 1 : r[j] = q[j]
    <3>1. \A j \in 1 .. k - 1 : j \in 1 .. Len(q) BY <1>2
    <3> QED BY <1>2, <3>1
  <2>3. q[k][2] \in low[q[k][1]] + 1 .. top[q[k][1]] BY <1>3, <1>4, <2>1
  <2> QED BY <2>1, <2>2, <2>3
<1>7. /\ n \in low[c] + 1 .. top[c]
      /\ \A j \in 1 .. Len(q) : r[j][1] = c => r[j][2] < n
  <2>1. n \in low[c] + 1 .. top[c] BY <1>4, <1>5
  <2>2. ASSUME NEW j \in 1 .. Len(q), r[j][1] = c PROVE r[j][2] < n
    <3>1. q[j][2] \in low[q[j][1]] + 1 .. high[q[j][1]] /\ q[j][1] = c BY <1>2, <2>2 DEF InOrder
    <3> QED BY <1>2, <1>3, <1>4, <3>1
  <2> QED BY <2>1, <2>2
<1>8. ASSUME NEW k \in 1 .. Len(r)
      PROVE  /\ r[k][2] \in low[r[k][1]] + 1 .. top[r[k][1]]
             /\ \A j \in 1 .. k - 1 : r[j][1] = r[k][1] => r[j][2] < r[k][2]
  <2>1. CASE k \in 1 .. Len(q) BY <1>6, <2>1
  <2>2. CASE k = Len(q) + 1
    <3>1. r[k][1] = c /\ r[k][2] = n /\ k - 1 = Len(q) BY <1>2, <2>2
    <3> QED BY <1>7, <3>1
  <2> QED BY <1>2, <2>1, <2>2
<1> QED BY <1>8 DEF InOrder, r, top

\* Messages behind the first one come after it on its channel.
LEMMA TailInOrder ==
  ASSUME NEW low \in [G!Channels -> Nat], NEW high \in [G!Channels -> Nat],
         NEW q \in Seq(G!Message), q # <<>>, InOrder(q, low, high),
         NEW c \in G!Channels, NEW n \in Nat, Head(q) = <<c, n>>
  PROVE  /\ n \in low[c] + 1 .. high[c] /\ Tail(q) \in Seq(G!Message)
         /\ InOrder(Tail(q), [low EXCEPT ![c] = n], high)
<1> DEFINE r == Tail(q)
           last == [low EXCEPT ![c] = n]
<1>1. /\ Len(q) \in Nat \ {0} /\ r \in Seq(G!Message) /\ Len(r) = Len(q) - 1
      /\ \A k \in 1 .. Len(q) - 1 : r[k] = q[k + 1]
  BY LenProperties, EmptySeq, HeadTailProperties
<1>2. q[1] = <<c, n>> /\ q[1][1] = c /\ q[1][2] = n OBVIOUS
<1>3. n \in low[c] + 1 .. high[c]
  <2>1. 1 \in 1 .. Len(q) BY <1>1
  <2>2. q[1][2] \in low[q[1][1]] + 1 .. high[q[1][1]] BY <2>1 DEF InOrder
  <2> QED BY <1>2, <2>2
<1>4. \A d \in G!Channels : last[d] = IF d = c THEN n ELSE low[d] OBVIOUS
<1>5. ASSUME NEW k \in 1 .. Len(q)
      PROVE  q[k] \in G!Message /\ q[k][1] \in G!Channels /\ q[k][2] \in Nat
  <2>1. q[k] \in G!Message BY ElementOfSeq
  <2> QED BY <2>1 DEF G!Message
<1>r. \A k \in 1 .. Len(r) : k + 1 \in 1 .. Len(q) /\ r[k] = q[k + 1] BY <1>1
<1> HIDE DEF r, last
<1>6. ASSUME NEW k \in 1 .. Len(r)
      PROVE  /\ r[k][2] \in last[r[k][1]] + 1 .. high[r[k][1]]
             /\ \A j \in 1 .. k - 1 : r[j][1] = r[k][1] => r[j][2] < r[k][2]
  <2>1. k + 1 \in 1 .. Len(q) /\ r[k] = q[k + 1] BY <1>r
  <2>2. /\ q[k + 1][2] \in low[q[k + 1][1]] + 1 .. high[q[k + 1][1]]
        /\ \A j \in 1 .. (k + 1) - 1 : q[j][1] = q[k + 1][1] => q[j][2] < q[k + 1][2]
    BY <2>1 DEF InOrder
  <2>3. q[k + 1][1] = c => n < q[k + 1][2]
    <3>1. 1 \in 1 .. (k + 1) - 1 BY <2>1
    <3> QED BY <1>2, <2>2, <3>1
  <2>4. r[k][2] \in last[r[k][1]] + 1 .. high[r[k][1]]
    <3>1. CASE q[k + 1][1] = c BY <1>4, <1>5, <2>1, <2>2, <2>3, <3>1
    <3>2. CASE q[k + 1][1] # c BY <1>4, <1>5, <2>1, <2>2, <3>2
    <3> QED BY <3>1, <3>2
  <2>5. ASSUME NEW j \in 1 .. k - 1, r[j][1] = r[k][1] PROVE r[j][2] < r[k][2]
    <3>1. j \in 1 .. Len(r) /\ j + 1 \in 1 .. (k + 1) - 1 BY <1>1
    <3>2. r[j] = q[j + 1] BY <1>r, <3>1
    <3> QED BY <2>1, <2>2, <2>5, <3>1, <3>2
  <2> QED BY <2>4, <2>5
<1>7. InOrder(r, last, high) BY <1>6 DEF InOrder
<1> QED BY <1>1, <1>3, <1>7 DEF r, last

\* The constants' values.
LEMMA FeedSides ==
  ASSUME G!EventFeedConstants
  PROVE  /\ Seti \in G!Channels /\ Constellations \subseteq G!Channels /\ IsFiniteSet(G!Channels)
         /\ Stuck \subseteq Browsers /\ Room \in Nat \ {0}
         /\ MaxEvents \in Nat /\ MaxFaults \in Nat /\ MaxStarts \in Nat \ {0}
<1>1. G!IsFiniteSet(Constellations) => IsFiniteSet(Constellations)
  BY DEF G!IsFiniteSet, IsFiniteSet
<1>2. IsFiniteSet({Seti} \cup Constellations)
  <2>1. IsFiniteSet(Constellations) BY <1>1 DEF G!EventFeedConstants
  <2>2. IsFiniteSet(Constellations \cup {Seti}) BY <2>1, FS_AddElement
  <2>3. Constellations \cup {Seti} = {Seti} \cup Constellations OBVIOUS
  <2> QED BY <2>2, <2>3
<1> QED BY <1>2 DEF G!EventFeedConstants, G!Channels

\* The sequence made of a finite set holds its elements, each once.
LEMMA SequenceOfSet ==
  ASSUME NEW S, IsFiniteSet(S)
  PROVE  /\ G!SetToSeq(S) \in Seq(S)
         /\ \A i, j \in 1 .. Len(G!SetToSeq(S)) : G!SetToSeq(S)[i] = G!SetToSeq(S)[j] => i = j
<1> DEFINE n == Cardinality(S)
           Good(f) == f \in [1 .. n -> S] /\ \A a, b \in DOMAIN f : f[a] = f[b] => a = b
<1>1. n \in Nat /\ ExistsBijection(1 .. n, S) BY FS_CardinalityType
<1>2. PICK f : f \in Bijection(1 .. n, S) BY <1>1 DEF ExistsBijection
<1>3. f \in [1 .. n -> S] /\ \A a, b \in DOMAIN f : f[a] = f[b] => a = b
  BY <1>2 DEF Bijection, Injection, IsInjective
<1>4. G!SetToSeq(S) = CHOOSE g \in [1 .. n -> S] : \A a, b \in DOMAIN g : g[a] = g[b] => a = b
  BY DEF G!SetToSeq, G!Cardinality, Cardinality, G!IsInjective
<1> HIDE DEF n
<1>5. /\ G!SetToSeq(S) \in [1 .. n -> S]
      /\ \A a, b \in DOMAIN G!SetToSeq(S) : G!SetToSeq(S)[a] = G!SetToSeq(S)[b] => a = b
  BY <1>3, <1>4
<1>6. G!SetToSeq(S) \in Seq(S) BY <1>1, <1>5, SeqDef
<1>7. Len(G!SetToSeq(S)) = n /\ DOMAIN G!SetToSeq(S) = 1 .. n BY <1>1, <1>5, <1>6, LenProperties
<1> QED BY <1>5, <1>6, <1>7

\* One reader per channel: activeChannels.
OneReader == \A i, j \in 1 .. Len(readers) : readers[i].channel = readers[j].channel => i = j

\* A reader begins with no subscription.
LEMMA ReaderTypes ==
  ASSUME NEW c \in G!Channels
  PROVE  /\ G!Reader(c) \in G!ReaderState /\ G!Reader(c).channel = c
         /\ G!Reader(c).sub = [up |-> FALSE, queue |-> <<>>] /\ G!Reader(c).at = "connect"
<1>1. G!Unsubscribed \in G!Subscription(G!Message)
  BY EmptySeq DEF G!Unsubscribed, G!Subscription
<1> QED BY <1>1 DEF G!Reader, G!ReaderState, G!Unsubscribed

\* startChannelSubscriber leaves the readers alone and adds one for each channel without.
LEMMA SubscribingAdds ==
  ASSUME G!EventFeedConstants, readers \in Seq(G!ReaderState), OneReader,
         NEW new \in SUBSET G!Channels
  PROVE  LET r == G!Subscribing(readers, new) IN
         /\ r \in Seq(G!ReaderState) /\ Len(r) \in Nat /\ Len(readers) <= Len(r)
         /\ \A i \in 1 .. Len(r) : IF i <= Len(readers) THEN r[i] = readers[i]
                                   ELSE \E c \in G!Channels : r[i] = G!Reader(c)
         /\ \A i, j \in 1 .. Len(r) : r[i].channel = r[j].channel => i = j
<1> DEFINE D == {d \in new : \A i \in 1 .. Len(readers) : readers[i].channel # d}
           S == {G!Reader(c) : c \in D}
           t == G!SetToSeq(S)
           r == readers \o t
           n == Len(readers)
<1>1. G!Subscribing(readers, new) = r BY DEF G!Subscribing
<1>2. D \subseteq G!Channels /\ S \subseteq G!ReaderState BY ReaderTypes
<1>3. IsFiniteSet(S)
  <2>1. IsFiniteSet(D)
    <3>1. D \in SUBSET G!Channels BY <1>2
    <3> HIDE DEF D
    <3> QED BY <3>1, FeedSides, FS_Subset
  <2>2. ExistsBijection(D, S)
    <3> DEFINE f == [c \in D |-> G!Reader(c)]
    <3>1. f \in [D -> S] /\ \A s \in S : \E c \in D : f[c] = s OBVIOUS
    <3>2. \A a, b \in D : f[a] = f[b] => a = b BY <1>2, ReaderTypes
    <3>3. f \in Bijection(D, S)
      <4>1. DOMAIN f = D OBVIOUS
      <4> HIDE DEF f, S, D
      <4> QED BY <3>1, <3>2, <4>1 DEF Bijection, Injection, Surjection, IsInjective
    <3> QED BY <3>3 DEF ExistsBijection
  <2> HIDE DEF S, D
  <2> QED BY <2>1, <2>2, FS_Bijection
<1>4. t \in Seq(S) /\ \A i, j \in 1 .. Len(t) : t[i] = t[j] => i = j BY <1>3, SequenceOfSet
<1>5. t \in Seq(G!ReaderState) BY <1>2, <1>4, SeqMonotonic
<1>6. \A i \in 1 .. Len(t) : t[i] \in S BY <1>4, ElementOfSeq
<1>7. n \in Nat /\ Len(t) \in Nat BY <1>5, LenProperties
<1>8. \A s \in S : s.channel \in D /\ s = G!Reader(s.channel) BY <1>2, ReaderTypes
<1>9. \A d \in D : \A i \in 1 .. n : readers[i].channel # d OBVIOUS
<1>10. /\ r \in Seq(G!ReaderState) /\ Len(r) = n + Len(t)
       /\ \A i \in 1 .. n + Len(t) : r[i] = IF i <= n THEN readers[i] ELSE t[i - n]
  <2> HIDE DEF t
  <2> QED BY <1>5, ConcatProperties
<1> HIDE DEF D, S, t, r, n
<1>11. \A i \in 1 .. Len(r) : i > n => i - n \in 1 .. Len(t) /\ r[i] = t[i - n] BY <1>7, <1>10
<1>12. \A i \in 1 .. Len(r) : i <= n => i \in 1 .. n /\ r[i] = readers[i] BY <1>7, <1>10
<1>13. ASSUME NEW i \in 1 .. Len(r)
       PROVE  IF i <= n THEN r[i] = readers[i] ELSE \E c \in G!Channels : r[i] = G!Reader(c)
  <2>1. CASE i <= n BY <1>12, <2>1
  <2>2. CASE i > n
    <3>1. r[i] \in S BY <1>6, <1>11, <2>2
    <3> QED BY <1>2, <1>7, <1>8, <2>2, <3>1
  <2> QED BY <1>7, <1>10, <2>1, <2>2
<1>14. ASSUME NEW i \in 1 .. Len(r), NEW j \in 1 .. Len(r), r[i].channel = r[j].channel
       PROVE  i = j
  <2>1. CASE i <= n /\ j <= n BY <1>12, <1>14, <2>1 DEF OneReader, n
  <2>2. CASE i > n /\ j > n
    <3>1. t[i - n] \in S /\ t[j - n] \in S /\ i - n \in 1 .. Len(t) /\ j - n \in 1 .. Len(t)
      BY <1>6, <1>11, <2>2
    <3>2. t[i - n] = t[j - n] BY <1>8, <1>11, <1>14, <2>2, <3>1
    <3>3. i - n = j - n BY <1>4, <3>1, <3>2
    <3> QED BY <1>7, <3>3
  <2>3. ASSUME NEW a \in 1 .. Len(r), NEW b \in 1 .. Len(r), a <= n, b > n
        PROVE  r[a].channel # r[b].channel
    <3>1. r[b] \in S BY <1>6, <1>11, <2>3
    <3>2. r[b].channel \in D BY <1>8, <3>1
    <3>3. r[a] = readers[a] /\ a \in 1 .. n BY <1>12, <2>3
    <3> QED BY <1>9, <3>2, <3>3
  <2>4. i \in Int /\ j \in Int /\ n \in Int BY <1>7
  <2> QED BY <1>14, <2>1, <2>2, <2>3, <2>4
<1> QED BY <1>1, <1>7, <1>10, <1>13, <1>14 DEF n

\* What a step of a reader does to the readers.
LEMMA OneReaderMoves ==
  ASSUME readers \in Seq(G!ReaderState), NEW i \in 1 .. Len(readers),
         NEW at \in {"connect", "read", "sleep"}, NEW sub, sub \in G!Subscription(G!Message),
         G!SetReader(i, at, sub)
  PROVE  /\ readers' \in Seq(G!ReaderState) /\ Len(readers') = Len(readers)
         /\ readers'[i].channel = readers[i].channel /\ readers'[i].sub = sub
         /\ \A j \in 1 .. Len(readers) \ {i} : readers'[j] = readers[j]
<1>1. readers[i] \in G!ReaderState BY ElementOfSeq
<1> DEFINE r == [readers[i] EXCEPT !.at = at, !.sub = sub]
<1>2. r \in G!ReaderState /\ r.channel = readers[i].channel /\ r.sub = sub BY <1>1 DEF G!ReaderState
<1>3. readers' = [readers EXCEPT ![i] = r] BY DEF G!SetReader
<1> HIDE DEF r
<1>4. /\ [readers EXCEPT ![i] = r] \in Seq(G!ReaderState)
      /\ Len([readers EXCEPT ![i] = r]) = Len(readers)
      /\ \A j \in 1 .. Len(readers) : [readers EXCEPT ![i] = r][j] = IF j = i THEN r ELSE readers[j]
  BY <1>2, ExceptSeq
<1> QED BY <1>2, <1>3, <1>4

\* An event published is delivered to the channel's readers.
LEMMA PublishMoves ==
  ASSUME G!EventFeedConstants, G!TypeOK, NEW c \in G!Channels, G!Publish(c)
  PROVE  /\ published' \in [G!Channels -> Nat] /\ published'[c] = published[c] + 1
         /\ \A d \in G!Channels \ {c} : published'[d] = published[d]
         /\ readers' \in Seq(G!ReaderState) /\ Len(readers') = Len(readers)
         /\ \A i \in 1 .. Len(readers) :
              /\ readers'[i].channel = readers[i].channel
              /\ readers'[i].sub = IF readers[i].channel = c
                                   THEN G!Deliver(readers[i].sub, <<c, published[c] + 1>>)
                                   ELSE readers[i].sub
<1>a. published \in [G!Channels -> Nat] /\ readers \in Seq(G!ReaderState) BY DEF G!TypeOK
<1>1. published' = [published EXCEPT ![c] = published[c] + 1] BY DEF G!Publish
<1> DEFINE m == <<c, published[c] + 1>>
           R(i) == IF readers[i].channel = c
                   THEN [readers[i] EXCEPT !.sub = G!Deliver(readers[i].sub, m)] ELSE readers[i]
           n == Len(readers)
<1>2. n \in Nat /\ DOMAIN readers = 1 .. n BY <1>a, LenProperties
<1>3. readers' = [i \in 1 .. n |-> R(i)] BY <1>2 DEF G!Publish
<1>4. ASSUME NEW i \in 1 .. n
      PROVE  /\ R(i) \in G!ReaderState /\ R(i).channel = readers[i].channel
             /\ R(i).sub = IF readers[i].channel = c THEN G!Deliver(readers[i].sub, m)
                           ELSE readers[i].sub
  <2>1. readers[i] \in G!ReaderState BY <1>a, ElementOfSeq
  <2>2. m \in G!Message BY <1>a DEF G!Message
  <2> HIDE DEF m
  <2>3. readers[i].sub \in G!Subscription(G!Message) BY <2>1 DEF G!ReaderState
  <2>4. G!Deliver(readers[i].sub, m) \in G!Subscription(G!Message) BY <2>2, <2>3, FeedQueues
  <2> QED BY <2>1, <2>4 DEF G!ReaderState
<1> HIDE DEF R, m
<1>5. readers' \in [1 .. n -> G!ReaderState] BY <1>3, <1>4
<1>6. readers' \in Seq(G!ReaderState) BY <1>2, <1>5, SeqDef
<1>7. Len(readers') = n BY <1>2, <1>5, <1>6, LenProperties
<1>8. \A i \in 1 .. n : readers'[i] = R(i) BY <1>3
<1> QED BY <1>1, <1>a, <1>4, <1>6, <1>7, <1>8 DEF m, n

\* A broadcast adds the message to a browser's channel or leaves that as it was, and no channel
\* holds more than Room messages.
LEMMA OfferedRooms ==
  ASSUME G!EventFeedConstants, G!TypeOK, NEW m \in G!Message, G!Offered(m)
  PROVE  /\ room' \in [Browsers -> Seq(G!Message)] /\ \A b \in Browsers : Len(room'[b]) <= Room
         /\ \A b \in Browsers : room'[b] \in {room[b], Append(room[b], m)}
<1>1. /\ room \in [Browsers -> Seq(G!Message)] /\ \A b \in Browsers : Len(room[b]) <= Room
      /\ \A b \in Browsers : Len(room[b]) \in Nat
  BY LenProperties DEF G!TypeOK
<1>2. room' = [b \in Browsers |->
        IF b \in clients /\ Len(room[b]) < Room THEN Append(room[b], m) ELSE room[b]]
  BY DEF G!Offered
<1>3. \A b \in Browsers : /\ Append(room[b], m) \in Seq(G!Message)
                          /\ Len(Append(room[b], m)) = Len(room[b]) + 1
  BY <1>1, AppendProperties
<1>4. \A b \in Browsers : Len(room[b]) < Room => Len(room[b]) + 1 <= Room BY <1>1, FeedSides
<1>5. ASSUME NEW b \in Browsers
      PROVE  /\ room'[b] \in Seq(G!Message) /\ Len(room'[b]) <= Room
             /\ room'[b] \in {room[b], Append(room[b], m)}
  <2>1. CASE b \in clients /\ Len(room[b]) < Room BY <1>1, <1>2, <1>3, <1>4, <2>1
  <2>2. CASE ~(b \in clients /\ Len(room[b]) < Room) BY <1>1, <1>2, <2>2
  <2> QED BY <2>1, <2>2
<1> QED BY <1>2, <1>5

\* Where the channel and the number of a message come from.
LEMMA MessageParts ==
  ASSUME NEW m \in G!Message
  PROVE  m[1] \in G!Channels /\ m[2] \in Nat /\ m = <<m[1], m[2]>>
BY DEF G!Message

\* A browser is shown the first message of its channel.
LEMMA ShowMoves ==
  ASSUME G!EventFeedConstants, G!TypeOK, NEW b \in Browsers, G!Show(b)
  PROVE  \E c \in G!Channels, n \in Nat :
           /\ room[b] # <<>> /\ Head(room[b]) = <<c, n>>
           /\ room' = [room EXCEPT ![b] = Tail(room[b])]
           /\ shown' = [shown EXCEPT ![b][c] = Append(shown[b][c], n)]
           /\ shown' \in [Browsers -> [G!Channels -> Seq(Nat)]]
           /\ room' \in [Browsers -> Seq(G!Message)]
           /\ \A a \in Browsers : Len(room'[a]) <= Room
<1>1. /\ room \in [Browsers -> Seq(G!Message)] /\ shown \in [Browsers -> [G!Channels -> Seq(Nat)]]
      /\ \A a \in Browsers : Len(room[a]) <= Room /\ Len(room[a]) \in Nat
  BY LenProperties DEF G!TypeOK
<1>2. room[b] # <<>> /\ room[b] \in Seq(G!Message) BY <1>1 DEF G!Show
<1>3. /\ Head(room[b]) \in G!Message /\ Tail(room[b]) \in Seq(G!Message)
      /\ Len(Tail(room[b])) = Len(room[b]) - 1
  BY <1>2, HeadTailProperties
<1>4. PICK c \in G!Channels, n \in Nat : Head(room[b]) = <<c, n>> BY <1>3, MessageParts
<1>5. /\ shown' = [shown EXCEPT ![b][c] = Append(shown[b][c], n)]
      /\ room' = [room EXCEPT ![b] = Tail(room[b])]
  <2>1. Head(room[b])[1] = c /\ Head(room[b])[2] = n BY <1>4
  <2>2. shown' = [shown EXCEPT ![b][Head(room[b])[1]] =
                    Append(shown[b][Head(room[b])[1]], Head(room[b])[2])]
    BY DEF G!Show
  <2>3. room' = [room EXCEPT ![b] = Tail(room[b])] BY DEF G!Show
  <2> QED BY <2>1, <2>2, <2>3
<1>6. Append(shown[b][c], n) \in Seq(Nat) BY <1>1, AppendProperties
<1>7. shown' \in [Browsers -> [G!Channels -> Seq(Nat)]] BY <1>1, <1>5, <1>6
<1>8. room' \in [Browsers -> Seq(G!Message)] /\ \A a \in Browsers : Len(room'[a]) <= Room
  <2>1. Len(room[b]) - 1 <= Room BY <1>1, FeedSides
  <2> QED BY <1>1, <1>3, <1>5, <2>1
<1> QED BY <1>2, <1>4, <1>5, <1>7, <1>8

\* Type correctness: every step keeps the state in its types.
LEMMA FeedTypeStep ==
  ASSUME G!EventFeedConstants, G!TypeOK, OneReader, [G!Next]_G!vars
  PROVE  G!TypeOK'
<1> USE DEF G!TypeOK
<1> USE DEF G!feeds, G!sse, G!vars
<1>a. /\ readers \in Seq(G!ReaderState) /\ announcer.sub \in G!Subscription(Constellations)
      /\ Len(readers) \in Nat
      /\ G!Subscribed \in G!Subscription(Constellations)
      /\ G!Unsubscribed \in G!Subscription(Constellations)
      /\ G!Subscribed \in G!Subscription(G!Message)
      /\ G!Unsubscribed \in G!Subscription(G!Message)
      /\ \A i \in 1 .. Len(readers) : readers[i].sub \in G!Subscription(G!Message)
  <2>1. \A M : <<>> \in Seq(M) BY EmptySeq
  <2>2. \A i \in 1 .. Len(readers) : readers[i] \in G!ReaderState BY ElementOfSeq
  <2> QED BY <2>1, <2>2, LenProperties DEF G!Subscription, G!Subscribed, G!Unsubscribed, G!ReaderState
<1>b. ASSUME NEW at \in {"connect", "read", "sleep"}, NEW sub \in G!Subscription(Constellations)
      PROVE  [at |-> at, sub |-> sub] \in
               [at: {"connect", "read", "sleep"}, sub: G!Subscription(Constellations)]
  OBVIOUS
<1>f. G!Fault => faults' \in 0 .. MaxFaults BY FeedSides DEF G!Fault
<1>r. G!Reader(Seti) \in G!ReaderState BY FeedSides, ReaderTypes
<1>1. ASSUME NEW c \in G!Channels, G!Publish(c),
             UNCHANGED <<gateway, asked, announcer, told, clients, closed, room, shown, blank, active,
                         faults, starts>>
      PROVE  G!TypeOK'
  BY <1>1, PublishMoves
<1>2. CASE G!Report BY <1>1, <1>2, FeedSides DEF G!Report
<1>3. ASSUME NEW c \in Constellations, G!Republish(c) PROVE G!TypeOK'
  BY <1>1, <1>3, FeedSides DEF G!Republish
<1>4. ASSUME NEW c \in Constellations, G!Announce(c) PROVE G!TypeOK'
  <2>1. G!Deliver(announcer.sub, c) \in G!Subscription(Constellations) BY <1>a, FeedQueues
  <2>2. announcer' = [announcer EXCEPT !.sub = G!Deliver(announcer.sub, c)] BY <1>4 DEF G!Announce
  <2>3. announcer' \in [at: {"connect", "read", "sleep"}, sub: G!Subscription(Constellations)]
    BY <2>1, <2>2
  <2> QED BY <1>4, <2>3 DEF G!Announce
<1>5. ASSUME NEW c \in Constellations, G!SetActive(c) PROVE G!TypeOK'
  BY <1>5 DEF G!SetActive
<1>6. CASE G!AnnouncerConnects
  <2>1. announcer' \in [at: {"connect", "read", "sleep"}, sub: G!Subscription(Constellations)]
    <3>1. announcer' \in {[at |-> "read", sub |-> G!Subscribed], [at |-> "sleep", sub |-> G!Unsubscribed]}
      BY <1>6 DEF G!AnnouncerConnects, G!Start
    <3> QED BY <1>a, <3>1
  <2>2. faults' \in 0 .. MaxFaults BY <1>6, <1>f DEF G!AnnouncerConnects
  <2> QED BY <1>6, <2>1, <2>2 DEF G!AnnouncerConnects
<1>7. CASE G!HearAnnouncement
  <2>1. /\ Head(announcer.sub.queue) \in Constellations
        /\ G!Taken(announcer.sub) \in G!Subscription(Constellations)
    BY <1>7, <1>a, FeedQueues DEF G!HearAnnouncement
  <2>2. {Head(announcer.sub.queue)} \in SUBSET G!Channels BY <2>1, FeedSides
  <2>3. readers' \in Seq(G!ReaderState) BY <1>7, <1>a, <2>2, SubscribingAdds DEF G!HearAnnouncement
  <2>4. announcer' = [announcer EXCEPT !.sub = G!Taken(announcer.sub)]
    BY <1>7 DEF G!HearAnnouncement
  <2>5. announcer' \in [at: {"connect", "read", "sleep"}, sub: G!Subscription(Constellations)]
    BY <2>1, <2>4
  <2> QED BY <1>7, <2>2, <2>3, <2>5 DEF G!HearAnnouncement
<1>8. CASE G!AnnouncerDrops
  <2>1. G!Torn(announcer.sub) \cup G!Broken(announcer.sub) \subseteq G!Subscription(Constellations)
    BY <1>a, FeedQueues
  <2>2. announcer' \in [at: {"connect", "read", "sleep"}, sub: G!Subscription(Constellations)]
    BY <1>8, <1>a, <2>1 DEF G!AnnouncerDrops, G!Start
  <2>3. faults' \in 0 .. MaxFaults BY <1>8, <1>f DEF G!AnnouncerDrops
  <2> QED BY <1>8, <2>2, <2>3 DEF G!AnnouncerDrops
<1>9. CASE G!AskPolicy
  <2>1. active \in SUBSET G!Channels BY FeedSides
  <2>2. G!Subscribing(readers, active) \in Seq(G!ReaderState) BY <1>a, <2>1, SubscribingAdds
  <2>3. readers' \in Seq(G!ReaderState) /\ told' \subseteq G!Channels
    BY <1>9, <1>a, <2>1, <2>2 DEF G!AskPolicy
  <2>4. faults' \in 0 .. MaxFaults BY <1>9, <1>f DEF G!AskPolicy
  <2> QED BY <1>9, <2>3, <2>4 DEF G!AskPolicy
<1>10. ASSUME NEW i \in 1 .. Len(readers), G!ReaderStep(i) PROVE G!TypeOK'
  <2>1. readers[i].sub \in G!Subscription(G!Message) BY <1>a
  <2>2. CASE G!ReaderConnects(i)
    <3>1. readers' \in Seq(G!ReaderState) BY <1>a, <2>2, OneReaderMoves DEF G!ReaderConnects
    <3>2. faults' \in 0 .. MaxFaults BY <2>2, <1>f DEF G!ReaderConnects
    <3> QED BY <2>2, <3>1, <3>2 DEF G!ReaderConnects
  <2>3. CASE G!ReaderDrops(i)
    <3>1. G!Torn(readers[i].sub) \cup G!Broken(readers[i].sub) \subseteq G!Subscription(G!Message)
      BY <2>1, FeedQueues
    <3>2. readers' \in Seq(G!ReaderState) BY <1>a, <2>3, <3>1, OneReaderMoves DEF G!ReaderDrops
    <3>3. faults' \in 0 .. MaxFaults BY <2>3, <1>f DEF G!ReaderDrops
    <3> QED BY <2>3, <3>2, <3>3 DEF G!ReaderDrops
  <2>4. CASE G!Broadcast(i)
    <3>1. /\ Head(readers[i].sub.queue) \in G!Message
          /\ G!Taken(readers[i].sub) \in G!Subscription(G!Message)
      BY <2>1, <2>4, FeedQueues DEF G!Broadcast
    <3>2. readers' \in Seq(G!ReaderState) BY <1>a, <2>4, <3>1, OneReaderMoves DEF G!Broadcast
    <3>3. room' \in [Browsers -> Seq(G!Message)] /\ \A b \in Browsers : Len(room'[b]) <= Room
      BY <2>4, <3>1, OfferedRooms DEF G!Broadcast
    <3> QED BY <2>4, <3>2, <3>3 DEF G!Broadcast
  <2> QED BY <1>10, <2>2, <2>3, <2>4 DEF G!ReaderStep
<1>e. <<>> \in Seq(G!Message) /\ Len(<<>>) <= Room BY EmptySeq, FeedSides
<1>11. ASSUME NEW b \in Browsers, G!Open(b) \/ G!Leave(b) PROVE G!TypeOK'
  <2>1. /\ room' = [room EXCEPT ![b] = <<>>] /\ clients' \subseteq Browsers /\ closed' \subseteq Browsers
        /\ UNCHANGED <<gateway, asked, announcer, readers, told, shown, blank, active, published, faults,
                       starts>>
    BY <1>11 DEF G!Open, G!Leave
  <2>2. room' \in [Browsers -> Seq(G!Message)] /\ \A a \in Browsers : Len(room'[a]) <= Room
    BY <1>e, <2>1
  <2> QED BY <2>1, <2>2
<1>12. ASSUME NEW b \in Browsers, G!Show(b) PROVE G!TypeOK'
  <2>1. /\ shown' \in [Browsers -> [G!Channels -> Seq(Nat)]]
        /\ room' \in [Browsers -> Seq(G!Message)] /\ \A a \in Browsers : Len(room'[a]) <= Room
    BY <1>12, ShowMoves
  <2>2. UNCHANGED <<gateway, asked, announcer, readers, told, clients, closed, blank, active, published,
                    faults, starts>>
    BY <1>12 DEF G!Show
  <2> QED BY <2>1, <2>2
<1>17. ASSUME NEW b \in Browsers, G!ShowBlank(b) PROVE G!TypeOK'
  BY <1>17 DEF G!ShowBlank
<1>13. CASE G!Terminate \/ G!CloseClients BY <1>13 DEF G!Terminate, G!CloseClients
<1>14. CASE G!Stop
  <2>1. room' \in [Browsers -> Seq(G!Message)] /\ \A a \in Browsers : Len(room'[a]) <= Room
    BY <1>14, <1>e DEF G!Stop
  <2>2. readers' \in Seq(G!ReaderState) BY <1>14, EmptySeq DEF G!Stop
  <2>3. announcer' \in [at: {"connect", "read", "sleep"}, sub: G!Subscription(Constellations)]
    BY <1>14, <1>a DEF G!Stop, G!Start
  <2> QED BY <1>14, <2>1, <2>2, <2>3 DEF G!Stop
<1>15. CASE G!Restart
  <2>1. readers' = <<G!Reader(Seti)>> /\ told' = {Seti} /\ starts' \in 1 .. MaxStarts
    BY <1>15, FeedSides DEF G!Restart
  <2>2. readers' \in Seq(G!ReaderState) /\ told' \subseteq G!Channels BY <1>r, <2>1, FeedSides
  <2> QED BY <1>15, <2>1, <2>2 DEF G!Restart
<1>16. CASE UNCHANGED G!vars BY <1>16
<1> QED BY <1>2, <1>3, <1>4, <1>5, <1>6, <1>7, <1>8, <1>9, <1>10, <1>11, <1>12, <1>13, <1>14,
           <1>15, <1>16, <1>17 DEF G!Next

\* Each reader holds messages of its channel, later than those broadcast (up to h), in order;
\* a browser's channel holds messages broadcast and later than those it was shown, in order.
NumberOn(c) == [m \in {c} \X Nat |-> m[2]]
ShownUpTo(b) == [c \in G!Channels |-> Lossy!LastShown(b, c)]
Carries(i, h) ==
  LET c == readers[i].channel IN
  /\ readers[i].sub \in G!Subscription({c} \X Nat)
  /\ Ascends(readers[i].sub.queue, NumberOn(c), h[c], published[c])
BroadcastUpTo(h) ==
  /\ \A c \in G!Channels : h[c] <= published[c]
  /\ \A i \in 1 .. Len(readers) : Carries(i, h)
  /\ \A b \in Browsers : /\ \A c \in G!Channels : ShownUpTo(b)[c] <= h[c]
                         /\ InOrder(room[b], ShownUpTo(b), h)

\* The inductive invariant: one reader per channel, and up to some number per channel, broadcast;
\* beyond it, still to be read.
FeedInv ==
  /\ G!TypeOK /\ OneReader
  /\ \E h \in [G!Channels -> Nat] : BroadcastUpTo(h)

\* The number of a message of a channel.
LEMMA NumberOnTypes ==
  ASSUME NEW c
  PROVE  NumberOn(c) \in [{c} \X Nat -> Nat] /\ \A n \in Nat : NumberOn(c)[<<c, n>>] = n
BY DEF NumberOn

\* The last number shown, by channel.
LEMMA ShownTypes ==
  ASSUME G!TypeOK, NEW b \in Browsers
  PROVE  ShownUpTo(b) \in [G!Channels -> Nat]
<1>1. SUFFICES ASSUME NEW c \in G!Channels PROVE Lossy!LastShown(b, c) \in Nat
  BY DEF ShownUpTo
<1>2. shown[b][c] \in Seq(Nat) BY DEF G!TypeOK
<1>3. CASE shown[b][c] = <<>> BY <1>3 DEF Lossy!LastShown
<1>4. CASE shown[b][c] # <<>>
  <2>1. Len(shown[b][c]) \in 1 .. Len(shown[b][c]) BY <1>2, <1>4, LenProperties, EmptySeq
  <2>2. shown[b][c][Len(shown[b][c])] \in Nat BY <1>2, <2>1, ElementOfSeq
  <2> QED BY <1>4, <2>2 DEF Lossy!LastShown, Lossy!Last
<1> QED BY <1>3, <1>4

\* Only a started goroutine, an announcement or an answer of Policy changes who reads.
LEMMA OneReaderStep ==
  ASSUME G!EventFeedConstants, G!TypeOK, OneReader, [G!Next]_G!vars
  PROVE  OneReader'
<1>a. /\ readers \in Seq(G!ReaderState) /\ Len(readers) \in Nat
      /\ \A i \in 1 .. Len(readers) : /\ readers[i] \in G!ReaderState
                                      /\ readers[i].sub \in G!Subscription(G!Message)
  <2>1. readers \in Seq(G!ReaderState) /\ Len(readers) \in Nat BY LenProperties DEF G!TypeOK
  <2>2. \A i \in 1 .. Len(readers) : readers[i] \in G!ReaderState BY <2>1, ElementOfSeq
  <2> QED BY <2>1, <2>2 DEF G!ReaderState
<1>b. G!Subscribed \in G!Subscription(G!Message) /\ G!Unsubscribed \in G!Subscription(G!Message)
  BY EmptySeq DEF G!Subscribed, G!Unsubscribed, G!Subscription
<1>s. ASSUME Len(readers') = Len(readers),
             \A i \in 1 .. Len(readers) : readers'[i].channel = readers[i].channel
      PROVE  OneReader'
  BY <1>s DEF OneReader
<1>1. ASSUME NEW c \in G!Channels, G!Publish(c) PROVE OneReader'
  BY <1>s, <1>1, PublishMoves
<1>2. ASSUME NEW new \in SUBSET G!Channels, readers' = G!Subscribing(readers, new) PROVE OneReader'
  BY <1>a, <1>2, SubscribingAdds DEF OneReader
<1>3. CASE G!Report \/ \E c \in Constellations : G!Republish(c)
  BY <1>1, <1>3, FeedSides DEF G!Report, G!Republish
<1>4. CASE G!HearAnnouncement
  <2>1. announcer.sub \in G!Subscription(Constellations) /\ announcer.sub.queue # <<>>
    BY <1>4 DEF G!TypeOK, G!HearAnnouncement
  <2>2. {Head(announcer.sub.queue)} \in SUBSET G!Channels BY <2>1, FeedQueues, FeedSides
  <2> QED BY <1>2, <1>4, <2>2 DEF G!HearAnnouncement
<1>5. CASE G!AskPolicy
  <2>1. active \in SUBSET G!Channels BY FeedSides DEF G!TypeOK
  <2>2. readers' = G!Subscribing(readers, active) \/ readers' = readers BY <1>5 DEF G!AskPolicy
  <2> QED BY <1>2, <1>s, <2>1, <2>2
<1>6. ASSUME NEW i \in 1 .. Len(readers), G!ReaderStep(i) PROVE OneReader'
  <2>1. \E at \in {"read", "sleep"} : \E sub \in G!Subscription(G!Message) : G!SetReader(i, at, sub)
    <3>1. /\ G!Torn(readers[i].sub) \cup G!Broken(readers[i].sub) \subseteq G!Subscription(G!Message)
          /\ readers[i].sub.queue # <<>> => G!Taken(readers[i].sub) \in G!Subscription(G!Message)
      BY <1>a, FeedQueues
    <3> QED BY <1>6, <1>b, <3>1 DEF G!ReaderStep, G!ReaderConnects, G!ReaderDrops, G!Broadcast
  <2>2. PICK at \in {"read", "sleep"}, sub \in G!Subscription(G!Message) : G!SetReader(i, at, sub)
    BY <2>1
  <2>3. /\ Len(readers') = Len(readers) /\ readers'[i].channel = readers[i].channel
        /\ \A j \in 1 .. Len(readers) \ {i} : readers'[j] = readers[j]
    BY <1>a, <2>2, OneReaderMoves
  <2> QED BY <1>s, <2>3
<1>7. CASE G!Stop BY <1>7 DEF G!Stop, OneReader
<1>8. CASE G!Restart BY <1>8 DEF G!Restart, OneReader
<1>9. CASE UNCHANGED readers BY <1>9 DEF OneReader
<1> QED BY <1>3, <1>4, <1>5, <1>6, <1>7, <1>8, <1>9
        DEF G!Next, G!vars, G!feeds, G!Announce, G!SetActive, G!AnnouncerConnects, G!AnnouncerDrops,
            G!Open, G!Show, G!ShowBlank, G!Leave, G!Terminate, G!CloseClients

\* Steps that publish, broadcast and show nothing: messages may be lost, readers may be new.
LEMMA BroadcastStays ==
  ASSUME G!EventFeedConstants, FeedInv, NEW h \in [G!Channels -> Nat], BroadcastUpTo(h),
         UNCHANGED <<published, shown>>,
         \A b \in Browsers : room'[b] \in {room[b], <<>>},
         \A i \in 1 .. Len(readers') :
           \/ \E c \in G!Channels : readers'[i] = G!Reader(c)
           \/ /\ i \in 1 .. Len(readers) /\ readers'[i].channel = readers[i].channel
              /\ readers'[i].sub \in G!Subscription({readers[i].channel} \X Nat)
              /\ \/ readers'[i].sub.queue = <<>>
                 \/ Thinned(readers'[i].sub.queue, readers[i].sub.queue)
  PROVE  BroadcastUpTo(h)'
<1>a. G!TypeOK BY DEF FeedInv
<1>1. ASSUME NEW i \in 1 .. Len(readers') PROVE Carries(i, h)'
  <2>1. CASE \E c \in G!Channels : readers'[i] = G!Reader(c)
    <3>1. PICK c \in G!Channels : readers'[i] = G!Reader(c) BY <2>1
    <3>2. readers'[i].channel = c /\ readers'[i].sub = [up |-> FALSE, queue |-> <<>>]
      BY <3>1, ReaderTypes
    <3>3. [up |-> FALSE, queue |-> <<>>] \in G!Subscription({c} \X Nat)
      BY EmptySeq DEF G!Subscription
    <3> QED BY <3>2, <3>3, EmptyAscends DEF Carries
  <2>2. CASE /\ i \in 1 .. Len(readers) /\ readers'[i].channel = readers[i].channel
             /\ readers'[i].sub \in G!Subscription({readers[i].channel} \X Nat)
             /\ \/ readers'[i].sub.queue = <<>>
                \/ Thinned(readers'[i].sub.queue, readers[i].sub.queue)
    <3>1. PICK c \in G!Channels : c = readers[i].channel
      <4>1. readers[i] \in G!ReaderState BY <1>a, <2>2, ElementOfSeq DEF G!TypeOK
      <4> QED BY <4>1 DEF G!ReaderState
    <3>2. /\ readers[i].sub \in G!Subscription({c} \X Nat)
          /\ Ascends(readers[i].sub.queue, NumberOn(c), h[c], published[c])
      BY <2>2, <3>1 DEF BroadcastUpTo, Carries
    <3>3. h[c] \in Nat /\ published[c] \in Nat /\ published[c] <= published[c]
      BY <1>a DEF G!TypeOK
    <3>4. Ascends(readers'[i].sub.queue, NumberOn(c), h[c], published[c])
      <4>1. CASE readers'[i].sub.queue = <<>> BY <4>1, EmptyAscends
      <4>2. CASE Thinned(readers'[i].sub.queue, readers[i].sub.queue)
        <5>1. /\ readers[i].sub.queue \in Seq({c} \X Nat)
              /\ readers'[i].sub.queue \in Seq({c} \X Nat)
          BY <2>2, <3>1, <3>2, FeedQueues
        <5> QED BY <3>2, <3>3, <4>2, <5>1, NumberOnTypes, ThinnedAscends
      <4> QED BY <2>2, <4>1, <4>2
    <3> QED BY <2>2, <3>1, <3>4 DEF Carries
  <2> QED BY <2>1, <2>2
<1>2. ASSUME NEW b \in Browsers
      PROVE  /\ \A c \in G!Channels : ShownUpTo(b)'[c] <= h[c]
             /\ InOrder(room'[b], ShownUpTo(b)', h)
  <2>1. ShownUpTo(b)' = ShownUpTo(b) BY DEF ShownUpTo, Lossy!LastShown
  <2> QED BY <2>1, EmptyInOrder DEF BroadcastUpTo
<1>3. \A c \in G!Channels : h[c] <= published'[c] BY DEF BroadcastUpTo
<1> QED BY <1>1, <1>2, <1>3 DEF BroadcastUpTo

\* Every step keeps broadcasts and readers in order.
LEMMA BroadcastStep ==
  ASSUME G!EventFeedConstants, FeedInv, [G!Next]_G!vars
  PROVE  \E h \in [G!Channels -> Nat] : BroadcastUpTo(h)'
<1>a. /\ G!TypeOK /\ readers \in Seq(G!ReaderState) /\ Len(readers) \in Nat
      /\ published \in [G!Channels -> Nat] /\ room \in [Browsers -> Seq(G!Message)]
      /\ shown \in [Browsers -> [G!Channels -> Seq(Nat)]]
  BY LenProperties DEF FeedInv, G!TypeOK
<1>h. PICK h \in [G!Channels -> Nat] : BroadcastUpTo(h) BY DEF FeedInv
<1>p. \A c \in G!Channels : h[c] \in Nat /\ published[c] \in Nat /\ h[c] <= published[c]
  BY <1>a, <1>h DEF BroadcastUpTo
<1>r. ASSUME NEW i \in 1 .. Len(readers)
      PROVE  LET c == readers[i].channel IN
             /\ c \in G!Channels /\ readers[i].sub \in G!Subscription({c} \X Nat)
             /\ readers[i].sub \in G!Subscription(G!Message)
             /\ readers[i].sub.queue \in Seq({c} \X Nat)
             /\ Ascends(readers[i].sub.queue, NumberOn(c), h[c], published[c])
  <2>1. readers[i] \in G!ReaderState BY <1>a, ElementOfSeq
  <2>2. Carries(i, h) BY <1>h DEF BroadcastUpTo
  <2>3. readers[i].sub \in G!Subscription({readers[i].channel} \X Nat) BY <2>2 DEF Carries
  <2>4. readers[i].sub.queue \in Seq({readers[i].channel} \X Nat) BY <2>3, FeedQueues
  <2> QED BY <2>1, <2>2, <2>4 DEF Carries, G!ReaderState
<1>s. ASSUME UNCHANGED <<readers, published, shown>>,
             \A b \in Browsers : room'[b] \in {room[b], <<>>}
      PROVE  BroadcastUpTo(h)'
  BY <1>h, <1>r, <1>s, SameThins, BroadcastStays
<1>1. ASSUME NEW c \in G!Channels, G!Publish(c), UNCHANGED <<room, shown>>
      PROVE  BroadcastUpTo(h)'
  <2>1. /\ published' \in [G!Channels -> Nat] /\ published'[c] = published[c] + 1
        /\ \A d \in G!Channels \ {c} : published'[d] = published[d]
        /\ Len(readers') = Len(readers)
        /\ \A i \in 1 .. Len(readers) :
             /\ readers'[i].channel = readers[i].channel
             /\ readers'[i].sub = IF readers[i].channel = c
                                  THEN G!Deliver(readers[i].sub, <<c, published[c] + 1>>)
                                  ELSE readers[i].sub
    BY <1>a, <1>1, PublishMoves
  <2>2. ASSUME NEW i \in 1 .. Len(readers) PROVE Carries(i, h)'
    <3>1. CASE readers[i].channel # c
      <4>1. published'[readers[i].channel] = published[readers[i].channel] BY <1>r, <2>1, <3>1
      <4>2. readers'[i].sub = readers[i].sub /\ readers'[i].channel = readers[i].channel
        BY <2>1, <3>1
      <4> QED BY <1>r, <4>1, <4>2 DEF Carries
    <3>2. CASE readers[i].channel = c
      <4>1. PICK n \in Nat : n = published[c] BY <1>p
      <4>2. PICK q \in Seq({c} \X Nat) : q = readers[i].sub.queue BY <1>r, <3>2
      <4>k. PICK k \in Nat : k = n + 1 OBVIOUS
      <4>3. <<c, k>> \in {c} \X Nat /\ NumberOn(c)[<<c, k>>] = k BY NumberOnTypes
      <4>4. Ascends(q, NumberOn(c), h[c], n) BY <1>r, <3>2, <4>1, <4>2
      <4>5. h[c] \in Nat /\ h[c] <= n /\ n <= k /\ n < k /\ h[c] < k /\ k <= k
        BY <1>p, <4>1, <4>k
      <4>6. Ascends(q, NumberOn(c), h[c], k)
        BY <4>2, <4>4, <4>5, NumberOnTypes, SameThins, ThinnedAscends
      <4>7. Ascends(Append(q, <<c, k>>), NumberOn(c), h[c], k)
        <5> DEFINE m == <<c, k>>
        <5>1. /\ m \in {c} \X Nat /\ n < NumberOn(c)[m] /\ h[c] < NumberOn(c)[m]
              /\ NumberOn(c)[m] <= k
          BY <4>3, <4>5
        <5> HIDE DEF m
        <5>2. Ascends(Append(q, m), NumberOn(c), h[c], k)
          BY <4>2, <4>4, <4>5, <5>1, NumberOnTypes, AppendAscends
        <5> QED BY <5>2 DEF m
      <4>8. /\ readers'[i].sub = G!Deliver(readers[i].sub, <<c, k>>)
            /\ readers'[i].channel = c /\ published'[c] = k
        BY <2>1, <3>2, <4>1, <4>k
      <4>s. readers[i].sub \in G!Subscription({c} \X Nat) BY <1>r, <3>2
      <4>9. readers'[i].sub \in G!Subscription({c} \X Nat)
        <5> DEFINE message == <<c, k>>
        <5>1. message \in {c} \X Nat BY <4>3
        <5>2. readers'[i].sub = G!Deliver(readers[i].sub, message) BY <4>8
        <5> HIDE DEF message
        <5>3. G!Deliver(readers[i].sub, message) \in G!Subscription({c} \X Nat)
          BY <4>s, <5>1, FeedQueues
        <5> QED BY <5>2, <5>3
      <4>10. readers'[i].sub.queue \in {q, Append(q, <<c, k>>)}
        BY <4>2, <4>8, <4>s DEF G!Deliver, G!Subscription
      <4> QED BY <4>6, <4>7, <4>8, <4>9, <4>10 DEF Carries
    <3> QED BY <3>1, <3>2
  <2>3. ASSUME NEW d \in G!Channels PROVE h[d] <= published'[d]
    <3>1. h[d] \in Nat /\ published[d] \in Nat /\ h[d] <= published[d] BY <1>p
    <3>2. published'[d] \in {published[d], published[d] + 1} BY <2>1
    <3> QED BY <3>1, <3>2
  <2>4. ASSUME NEW b \in Browsers
        PROVE  /\ \A d \in G!Channels : ShownUpTo(b)'[d] <= h[d]
               /\ InOrder(room'[b], ShownUpTo(b)', h)
    <3>1. ShownUpTo(b)' = ShownUpTo(b) BY <1>1 DEF ShownUpTo, Lossy!LastShown
    <3> QED BY <1>h, <1>1, <3>1 DEF BroadcastUpTo
  <2> QED BY <2>1, <2>2, <2>3, <2>4 DEF BroadcastUpTo
<1>2. CASE G!Report \/ \E c \in Constellations : G!Republish(c)
  <2>1. PICK c \in G!Channels : G!Publish(c) /\ UNCHANGED <<room, shown>>
    BY <1>2, FeedSides DEF G!Report, G!Republish, G!sse
  <2> QED BY <1>1, <2>1
<1>3. ASSUME NEW new \in SUBSET G!Channels, readers' = G!Subscribing(readers, new),
             UNCHANGED <<published, shown, room>>
      PROVE  BroadcastUpTo(h)'
  <2>1. OneReader BY DEF FeedInv
  <2>2. \A i \in 1 .. Len(readers') : IF i <= Len(readers) THEN readers'[i] = readers[i]
                                     ELSE \E c \in G!Channels : readers'[i] = G!Reader(c)
    BY <1>a, <1>3, <2>1, SubscribingAdds
  <2>3. ASSUME NEW i \in 1 .. Len(readers')
        PROVE  \/ \E c \in G!Channels : readers'[i] = G!Reader(c)
               \/ /\ i \in 1 .. Len(readers) /\ readers'[i].channel = readers[i].channel
                  /\ readers'[i].sub \in G!Subscription({readers[i].channel} \X Nat)
                  /\ \/ readers'[i].sub.queue = <<>>
                     \/ Thinned(readers'[i].sub.queue, readers[i].sub.queue)
    <3>1. CASE i <= Len(readers)
      <4>1. i \in 1 .. Len(readers) /\ readers'[i] = readers[i] BY <1>a, <2>2, <3>1
      <4> QED BY <1>r, <4>1, SameThins
    <3>2. CASE ~(i <= Len(readers)) BY <2>2, <3>2
    <3> QED BY <3>1, <3>2
  <2>4. \A b \in Browsers : room'[b] \in {room[b], <<>>} BY <1>3
  <2> QED BY <1>h, <1>3, <2>3, <2>4, BroadcastStays
<1>4. CASE G!HearAnnouncement
  <2>1. announcer.sub \in G!Subscription(Constellations) /\ announcer.sub.queue # <<>>
    BY <1>a, <1>4 DEF G!TypeOK, G!HearAnnouncement
  <2>2. {Head(announcer.sub.queue)} \in SUBSET G!Channels BY <2>1, FeedQueues, FeedSides
  <2> QED BY <1>3, <1>4, <2>2 DEF G!HearAnnouncement, G!sse
<1>5. CASE G!AskPolicy
  <2>1. active \in SUBSET G!Channels BY <1>a, FeedSides DEF G!TypeOK
  <2>2. /\ readers' = G!Subscribing(readers, active) \/ readers' = readers
        /\ UNCHANGED <<published, shown, room>>
    BY <1>5 DEF G!AskPolicy, G!sse
  <2> QED BY <1>3, <1>s, <2>1, <2>2
<1>6. ASSUME NEW i \in 1 .. Len(readers), G!ReaderConnects(i) \/ G!ReaderDrops(i)
      PROVE  BroadcastUpTo(h)'
  <2> DEFINE c == readers[i].channel
  <2>1. /\ G!Torn(readers[i].sub) \cup G!Broken(readers[i].sub) \subseteq
             {t \in G!Subscription({c} \X Nat) \cap G!Subscription(G!Message) :
                Thinned(t.queue, readers[i].sub.queue)}
        /\ \A M : G!Subscribed \in G!Subscription(M) /\ G!Unsubscribed \in G!Subscription(M)
        /\ G!Subscribed.queue = <<>> /\ G!Unsubscribed.queue = <<>>
    <3>1. \A t \in G!Torn(readers[i].sub) \cup G!Broken(readers[i].sub) :
            /\ t \in G!Subscription({c} \X Nat) /\ Thinned(t.queue, readers[i].sub.queue)
            /\ t \in G!Subscription(G!Message)
      BY <1>r, FeedQueues
    <3>2. \A M : G!Subscribed \in G!Subscription(M) /\ G!Unsubscribed \in G!Subscription(M)
      BY EmptySeq DEF G!Subscribed, G!Unsubscribed, G!Subscription
    <3> QED BY <3>1, <3>2 DEF G!Subscribed, G!Unsubscribed
  <2>2. \E at \in {"read", "sleep"} : \E sub \in G!Subscription({c} \X Nat) :
          /\ sub \in G!Subscription(G!Message) /\ G!SetReader(i, at, sub)
          /\ sub.queue = <<>> \/ Thinned(sub.queue, readers[i].sub.queue)
    BY <1>6, <2>1 DEF G!ReaderConnects, G!ReaderDrops
  <2>3. PICK at \in {"read", "sleep"}, sub \in G!Subscription({c} \X Nat) :
          /\ sub \in G!Subscription(G!Message) /\ G!SetReader(i, at, sub)
          /\ sub.queue = <<>> \/ Thinned(sub.queue, readers[i].sub.queue)
    BY <2>2
  <2>4. /\ Len(readers') = Len(readers) /\ readers'[i].channel = readers[i].channel
        /\ readers'[i].sub = sub /\ \A j \in 1 .. Len(readers) \ {i} : readers'[j] = readers[j]
    BY <1>a, <2>3, OneReaderMoves
  <2>5. UNCHANGED <<published, shown, room>> BY <1>6 DEF G!ReaderConnects, G!ReaderDrops, G!sse
  <2>6. ASSUME NEW j \in 1 .. Len(readers')
        PROVE  /\ j \in 1 .. Len(readers) /\ readers'[j].channel = readers[j].channel
               /\ readers'[j].sub \in G!Subscription({readers[j].channel} \X Nat)
               /\ \/ readers'[j].sub.queue = <<>>
                  \/ Thinned(readers'[j].sub.queue, readers[j].sub.queue)
    <3>1. CASE j = i BY <2>3, <2>4, <3>1
    <3>2. CASE j # i
      <4>1. j \in 1 .. Len(readers) /\ readers'[j] = readers[j] BY <2>4, <3>2
      <4> QED BY <1>r, <4>1, SameThins
    <3> QED BY <3>1, <3>2
  <2>7. \A b \in Browsers : room'[b] \in {room[b], <<>>} BY <2>5
  <2> QED BY <1>h, <2>5, <2>6, <2>7, BroadcastStays
<1>7. ASSUME NEW i \in 1 .. Len(readers), G!Broadcast(i)
      PROVE  \E k \in [G!Channels -> Nat] : BroadcastUpTo(k)'
  <2>c. PICK c \in G!Channels : c = readers[i].channel BY <1>r
  <2>q. PICK q \in Seq({c} \X Nat) : q = readers[i].sub.queue BY <1>r, <2>c
  <2>1. q # <<>> /\ Ascends(q, NumberOn(c), h[c], published[c])
    BY <1>r, <1>7, <2>c, <2>q DEF G!Broadcast
  <2>2. PICK n \in Nat : Head(q) = <<c, n>>
    <3>1. Head(q) \in {c} \X Nat BY <2>1, HeadTailProperties
    <3> QED BY <3>1
  <2>3. /\ n \in h[c] + 1 .. published[c] /\ Tail(q) \in Seq({c} \X Nat)
        /\ Ascends(Tail(q), NumberOn(c), n, published[c])
    <3>1. h[c] \in Nat /\ published[c] \in Nat BY <1>p
    <3>2. /\ NumberOn(c)[Head(q)] \in h[c] + 1 .. published[c] /\ Tail(q) \in Seq({c} \X Nat)
          /\ Ascends(Tail(q), NumberOn(c), NumberOn(c)[Head(q)], published[c])
      BY <2>1, <3>1, NumberOnTypes, TailAscends
    <3>3. NumberOn(c)[Head(q)] = n BY <2>2, NumberOnTypes
    <3> QED BY <3>2, <3>3
  <2>4. PICK k \in [G!Channels -> Nat] : k = [h EXCEPT ![c] = n] OBVIOUS
  <2>5. /\ Len(readers') = Len(readers) /\ readers'[i].channel = c
        /\ readers'[i].sub = G!Taken(readers[i].sub)
        /\ \A j \in 1 .. Len(readers) \ {i} : readers'[j] = readers[j]
    <3>1. G!SetReader(i, "read", G!Taken(readers[i].sub)) /\ readers[i].sub.queue # <<>>
      BY <1>7 DEF G!Broadcast
    <3>2. G!Taken(readers[i].sub) \in G!Subscription(G!Message) BY <1>r, <3>1, FeedQueues
    <3> QED BY <1>a, <2>c, <3>1, <3>2, OneReaderMoves
  <2>6. /\ readers'[i].sub \in G!Subscription({c} \X Nat)
        /\ readers'[i].sub.queue = Tail(q)
    BY <1>r, <2>c, <2>q, <2>1, <2>5, FeedQueues
  <2>7. UNCHANGED <<published, shown>> /\ G!Offered(<<c, n>>)
    BY <1>7, <2>q, <2>2 DEF G!Broadcast
  <2>8. k[c] = n /\ \A d \in G!Channels \ {c} : k[d] = h[d] BY <2>4
  <2>9. ASSUME NEW j \in 1 .. Len(readers') PROVE Carries(j, k)'
    <3>1. CASE j = i BY <2>3, <2>5, <2>6, <2>7, <2>8, <3>1 DEF Carries
    <3>2. CASE j # i
      <4>1. j \in 1 .. Len(readers) /\ readers'[j] = readers[j] BY <2>5, <3>2
      <4>2. readers[j].channel \in G!Channels \ {c}
        BY <1>r, <2>c, <3>2, <4>1 DEF FeedInv, OneReader
      <4>3. k[readers[j].channel] = h[readers[j].channel] BY <2>8, <4>2
      <4> QED BY <1>r, <2>7, <4>1, <4>3 DEF Carries
    <3> QED BY <3>1, <3>2
  <2>10. \A d \in G!Channels : k[d] <= published'[d] /\ h[d] <= k[d]
    <3>1. SUFFICES ASSUME NEW d \in G!Channels PROVE k[d] <= published[d] /\ h[d] <= k[d]
      BY <2>7
    <3>2. h[d] \in Nat /\ published[d] \in Nat /\ h[d] <= published[d] BY <1>p
    <3>3. CASE d = c BY <2>3, <2>8, <3>2, <3>3
    <3>4. CASE d # c BY <2>8, <3>2, <3>4
    <3> QED BY <3>3, <3>4
  <2>11. ASSUME NEW b \in Browsers
         PROVE  /\ \A d \in G!Channels : ShownUpTo(b)'[d] <= k[d]
                /\ InOrder(room'[b], ShownUpTo(b)', k)
    <3>1. ShownUpTo(b)' = ShownUpTo(b) BY <2>7 DEF ShownUpTo, Lossy!LastShown
    <3>2. /\ ShownUpTo(b) \in [G!Channels -> Nat]
          /\ \A d \in G!Channels : ShownUpTo(b)[d] <= h[d]
          /\ InOrder(room[b], ShownUpTo(b), h)
          /\ room[b] \in Seq(G!Message)
      BY <1>a, <1>h, ShownTypes DEF BroadcastUpTo
    <3>3. <<c, n>> \in G!Message BY DEF G!Message
    <3>4. room'[b] \in {room[b], Append(room[b], <<c, n>>)} BY <1>a, <2>7, <3>3, OfferedRooms
    <3>5. InOrder(room[b], ShownUpTo(b), k)
      <4>1. \A m \in 1 .. Len(room[b]) : room[b][m] \in G!Message BY <3>2, ElementOfSeq
      <4>2. \A m \in 1 .. Len(room[b]) : room[b][m][1] \in G!Channels /\ room[b][m][2] \in Nat
        BY <4>1, MessageParts
      <4>3. ASSUME NEW m \in 1 .. Len(room[b])
            PROVE  room[b][m][2] \in ShownUpTo(b)[room[b][m][1]] + 1 .. k[room[b][m][1]]
        <5>1. room[b][m][2] \in ShownUpTo(b)[room[b][m][1]] + 1 .. h[room[b][m][1]]
          BY <3>2 DEF InOrder
        <5>2. /\ ShownUpTo(b)[room[b][m][1]] \in Nat /\ h[room[b][m][1]] \in Nat
              /\ k[room[b][m][1]] \in Nat /\ h[room[b][m][1]] <= k[room[b][m][1]]
          BY <2>10, <3>2, <4>2
        <5> QED BY <5>1, <5>2, SMTT(30)
      <4> QED BY <3>2, <4>3 DEF InOrder
    <3>6. InOrder(Append(room[b], <<c, n>>), ShownUpTo(b), k)
      <4>1. h[c] < n /\ ShownUpTo(b)[c] <= h[c] BY <1>p, <2>3, <3>2
      <4> QED BY <2>4, <3>2, <4>1, AppendInOrder
    <3>7. \A d \in G!Channels : ShownUpTo(b)[d] <= k[d]
      <4>1. \A d \in G!Channels : ShownUpTo(b)[d] \in Nat /\ h[d] \in Nat /\ k[d] \in Nat BY <3>2
      <4> QED BY <2>10, <3>2, <4>1
    <3> QED BY <3>1, <3>4, <3>5, <3>6, <3>7
  <2>12. BroadcastUpTo(k)' BY <2>9, <2>10, <2>11 DEF BroadcastUpTo
  <2> QED BY <2>12
<1>8. ASSUME NEW b \in Browsers, G!Open(b) \/ G!Leave(b) PROVE BroadcastUpTo(h)'
  <2>1. room' = [room EXCEPT ![b] = <<>>] /\ UNCHANGED <<readers, published, shown>>
    BY <1>8 DEF G!Open, G!Leave, G!feeds
  <2> QED BY <1>a, <1>s, <2>1
<1>9. ASSUME NEW b \in Browsers, G!Show(b) PROVE BroadcastUpTo(h)'
  <2>1. PICK c \in G!Channels, n \in Nat :
           /\ room[b] # <<>> /\ Head(room[b]) = <<c, n>>
           /\ room' = [room EXCEPT ![b] = Tail(room[b])]
           /\ shown' = [shown EXCEPT ![b][c] = Append(shown[b][c], n)]
    <3>1. G!TypeOK BY <1>a
    <3>2. \E c \in G!Channels, n \in Nat :
           /\ room[b] # <<>> /\ Head(room[b]) = <<c, n>>
           /\ room' = [room EXCEPT ![b] = Tail(room[b])]
           /\ shown' = [shown EXCEPT ![b][c] = Append(shown[b][c], n)]
           /\ shown' \in [Browsers -> [G!Channels -> Seq(Nat)]]
           /\ room' \in [Browsers -> Seq(G!Message)]
           /\ \A a \in Browsers : Len(room'[a]) <= Room
      BY <1>9, <3>1, ShowMoves
    <3> QED BY <3>2
  <2>2. /\ ShownUpTo(b) \in [G!Channels -> Nat] /\ InOrder(room[b], ShownUpTo(b), h)
        /\ room[b] \in Seq(G!Message) /\ \A d \in G!Channels : ShownUpTo(b)[d] <= h[d]
    BY <1>a, <1>h, ShownTypes DEF BroadcastUpTo
  <2>3. /\ n \in ShownUpTo(b)[c] + 1 .. h[c]
        /\ InOrder(Tail(room[b]), [ShownUpTo(b) EXCEPT ![c] = n], h)
    BY <2>1, <2>2, TailInOrder
  <2>4. ShownUpTo(b)' = [ShownUpTo(b) EXCEPT ![c] = n]
    <3>1. /\ shown'[b][c] = Append(shown[b][c], n) /\ shown[b][c] \in Seq(Nat)
          /\ \A d \in G!Channels \ {c} : shown'[b][d] = shown[b][d]
      BY <1>a, <2>1
    <3>2. /\ Len(shown'[b][c]) = Len(shown[b][c]) + 1 /\ Len(shown[b][c]) \in Nat
          /\ shown'[b][c][Len(shown[b][c]) + 1] = n
      BY <3>1, AppendProperties, LenProperties
    <3>3. shown'[b][c] # <<>> BY <3>2
    <3>4. Lossy!LastShown(b, c)' = n BY <3>2, <3>3 DEF Lossy!LastShown, Lossy!Last
    <3>5. \A d \in G!Channels \ {c} : Lossy!LastShown(b, d)' = Lossy!LastShown(b, d)
      BY <3>1 DEF Lossy!LastShown
    <3> QED BY <3>4, <3>5 DEF ShownUpTo
  <2>5. UNCHANGED <<readers, published>> BY <1>9 DEF G!Show, G!feeds
  <2>6. ASSUME NEW a \in Browsers
        PROVE  /\ \A d \in G!Channels : ShownUpTo(a)'[d] <= h[d]
               /\ InOrder(room'[a], ShownUpTo(a)', h)
    <3>1. CASE a = b
      <4>1. room'[b] = Tail(room[b]) BY <1>a, <2>1
      <4>2. n <= h[c] BY <1>p, <2>2, <2>3
      <4>3. \A d \in G!Channels : [ShownUpTo(b) EXCEPT ![c] = n][d] <= h[d] BY <2>2, <4>2
      <4> QED BY <2>3, <2>4, <3>1, <4>1, <4>3
    <3>2. CASE a # b
      <4>1. shown'[a] = shown[a] /\ room'[a] = room[a] BY <1>a, <2>1, <3>2
      <4>2. ShownUpTo(a)' = ShownUpTo(a) BY <4>1 DEF ShownUpTo, Lossy!LastShown
      <4> QED BY <1>h, <4>1, <4>2 DEF BroadcastUpTo
    <3> QED BY <3>1, <3>2
  <2>7. \A i \in 1 .. Len(readers') : Carries(i, h)'
    BY <1>h, <2>5 DEF BroadcastUpTo, Carries
  <2>8. \A d \in G!Channels : h[d] <= published'[d] BY <1>p, <2>5
  <2> QED BY <2>6, <2>7, <2>8 DEF BroadcastUpTo
<1>10. CASE G!Stop \/ G!Restart
  <2>1. /\ UNCHANGED <<published, shown>> /\ \A b \in Browsers : room'[b] \in {room[b], <<>>}
        /\ \A i \in 1 .. Len(readers') : \E c \in G!Channels : readers'[i] = G!Reader(c)
    BY <1>10, FeedSides DEF G!Stop, G!Restart, G!sse
  <2> QED BY <1>h, <2>1, BroadcastStays
<1>11. CASE UNCHANGED <<readers, published, shown, room>> BY <1>s, <1>11
<1> QED BY <1>2, <1>4, <1>5, <1>6, <1>7, <1>8, <1>9, <1>10, <1>11
        DEF G!Next, G!vars, G!feeds, G!sse, G!ReaderStep, G!Announce, G!SetActive,
            G!AnnouncerConnects, G!AnnouncerDrops, G!ShowBlank, G!Terminate, G!CloseClients

\* It begins so.
LEMMA DashboardStart == ASSUME G!EventFeedConstants, G!Init PROVE FeedInv
<1>a. /\ readers = <<G!Reader(Seti)>> /\ published = [c \in G!Channels |-> 0]
      /\ room = [b \in Browsers |-> <<>>]
      /\ shown = [b \in Browsers |-> [c \in G!Channels |-> <<>>]]
  BY DEF G!Init
<1>1. G!TypeOK
  <2>1. announcer \in [at: {"connect", "read", "sleep"}, sub: G!Subscription(Constellations)]
    BY EmptySeq DEF G!Init, G!Start, G!Unsubscribed, G!Subscription
  <2>2. readers \in Seq(G!ReaderState)
    <3>1. G!Reader(Seti) \in G!ReaderState BY FeedSides, ReaderTypes
    <3> QED BY <1>a, <3>1
  <2>3. room \in [Browsers -> Seq(G!Message)] /\ \A b \in Browsers : Len(room[b]) <= Room
    <3>1. <<>> \in Seq(G!Message) /\ Len(<<>>) <= Room BY EmptySeq, FeedSides
    <3> QED BY <1>a, <3>1
  <2>4. shown \in [Browsers -> [G!Channels -> Seq(Nat)]]
    <3>1. <<>> \in Seq(Nat) BY EmptySeq
    <3> QED BY <1>a, <3>1
  <2>5. published \in [G!Channels -> Nat] BY <1>a
  <2>6. /\ gateway = "up" /\ asked = FALSE /\ clients = {} /\ closed = {} /\ active = {}
        /\ blank = {}
        /\ told \subseteq G!Channels /\ faults \in 0 .. MaxFaults /\ starts \in 1 .. MaxStarts
    BY FeedSides DEF G!Init
  <2> QED BY <2>1, <2>2, <2>3, <2>4, <2>5, <2>6 DEF G!TypeOK
<1>2. OneReader BY <1>a DEF OneReader
<1> DEFINE zero == [c \in G!Channels |-> 0]
<1>3. BroadcastUpTo(zero)
  <2>1. \A i \in 1 .. Len(readers) : Carries(i, zero)
    <3>1. SUFFICES ASSUME NEW i \in 1 .. Len(readers) PROVE Carries(i, zero) OBVIOUS
    <3>2. readers[i] = G!Reader(Seti) BY <1>a
    <3>3. readers[i].channel = Seti /\ readers[i].sub = [up |-> FALSE, queue |-> <<>>]
      BY <3>2, FeedSides, ReaderTypes
    <3>4. [up |-> FALSE, queue |-> <<>>] \in G!Subscription({Seti} \X Nat)
      BY EmptySeq DEF G!Subscription
    <3> QED BY <3>3, <3>4, EmptyAscends DEF Carries
  <2>2. ASSUME NEW b \in Browsers
        PROVE  /\ \A c \in G!Channels : ShownUpTo(b)[c] <= zero[c]
               /\ InOrder(room[b], ShownUpTo(b), zero)
    <3>1. \A c \in G!Channels : Lossy!LastShown(b, c) = 0 BY <1>a DEF Lossy!LastShown
    <3>2. \A c \in G!Channels : ShownUpTo(b)[c] <= zero[c] BY <3>1 DEF ShownUpTo
    <3> QED BY <1>a, <3>2, EmptyInOrder
  <2>3. \A c \in G!Channels : zero[c] <= published[c] BY <1>a
  <2> HIDE DEF zero
  <2> QED BY <2>1, <2>2, <2>3 DEF BroadcastUpTo
<1>4. zero \in [G!Channels -> Nat] OBVIOUS
<1> HIDE DEF zero
<1> QED BY <1>1, <1>2, <1>3, <1>4 DEF FeedInv

\* Every step keeps it so.
LEMMA DashboardStep == ASSUME G!EventFeedConstants, FeedInv, [G!Next]_G!vars PROVE FeedInv'
<1>1. G!TypeOK' /\ OneReader' BY FeedTypeStep, OneReaderStep DEF FeedInv
<1>2. \E h \in [G!Channels -> Nat] : BroadcastUpTo(h)' BY BroadcastStep
<1>3. G!Channels' = G!Channels BY DEF G!Channels
<1> QED BY <1>1, <1>2, <1>3 DEF FeedInv

\* Once shutdown has closed the browsers' channels, no browser is in sseClients any more: the
\* broadcasts that still go on send on no closed channel (gateway/shutdown.go).
ClosedLate == /\ closed # {} => gateway = "closed"
              /\ gateway = "closed" => clients = {}

\* It stays so.
LEMMA ClosedLateStep == ASSUME ClosedLate, [G!Next]_G!vars PROVE ClosedLate'
<1>1. CASE UNCHANGED <<gateway, clients, closed>> BY <1>1 DEF ClosedLate
<1>2. ASSUME NEW b \in Browsers, G!Open(b) \/ G!Leave(b) PROVE ClosedLate'
  BY <1>2 DEF G!Open, G!Leave, ClosedLate
<1>3. CASE G!Terminate \/ G!CloseClients \/ G!Stop \/ G!Restart
  BY <1>3 DEF G!Terminate, G!CloseClients, G!Stop, G!Restart, G!sse, ClosedLate
<1>4. ASSUME NEW i \in 1 .. Len(readers), G!ReaderStep(i)
      PROVE  UNCHANGED <<gateway, clients, closed>>
  BY <1>4 DEF G!ReaderStep, G!ReaderConnects, G!ReaderDrops, G!Broadcast, G!sse
<1> QED BY <1>1, <1>2, <1>3, <1>4
        DEF G!Next, G!vars, G!sse, G!Report, G!Republish, G!Announce, G!SetActive, G!Show,
            G!ShowBlank, G!AnnouncerConnects, G!HearAnnouncement, G!AnnouncerDrops, G!AskPolicy

\* A browser that gets empty frames has been given all that its channel held, and as no broadcast
\* finds it any more it gets nothing else (handleSSE after close).
BlankLast == blank # {} => /\ gateway = "closed"
                           /\ \A b \in blank : room[b] = <<>>

\* It stays so.
LEMMA BlankLastStep ==
  ASSUME G!TypeOK, ClosedLate, BlankLast, [G!Next]_G!vars PROVE BlankLast'
<1>a. blank \subseteq Browsers /\ room \in [Browsers -> Seq(G!Message)] BY DEF G!TypeOK
<1>1. CASE UNCHANGED <<gateway, blank, room>> BY <1>1 DEF BlankLast
<1>2. ASSUME NEW b \in Browsers, G!Open(b) \/ G!Show(b) \/ G!Leave(b) PROVE BlankLast'
  <2>1. gateway' = gateway /\ blank' = blank BY <1>2 DEF G!Open, G!Show, G!Leave
  <2>2. \A a \in Browsers : a # b => room'[a] = room[a]
    BY <1>a, <1>2 DEF G!Open, G!Show, G!Leave
  <2>3. CASE G!Open(b) \/ G!Leave(b)
    <3>1. room'[b] = <<>> BY <1>a, <2>3 DEF G!Open, G!Leave
    <3> QED BY <1>a, <2>1, <2>2, <3>1 DEF BlankLast
  <2>4. CASE G!Show(b)
    <3>1. b \notin blank BY <2>4 DEF G!Show, BlankLast
    <3> QED BY <1>a, <2>1, <2>2, <3>1 DEF BlankLast
  <2> QED BY <1>2, <2>3, <2>4
<1>3. ASSUME NEW b \in Browsers, G!ShowBlank(b) PROVE BlankLast'
  <2>1. closed # {} /\ room[b] = <<>> /\ blank' = blank \cup {b}
    BY <1>3 DEF G!ShowBlank
  <2>2. gateway' = gateway /\ room' = room BY <1>3 DEF G!ShowBlank
  <2> QED BY <2>1, <2>2 DEF BlankLast, ClosedLate
<1>4. CASE G!Terminate \/ G!CloseClients \/ G!Restart
  BY <1>4 DEF G!Terminate, G!CloseClients, G!Restart, G!sse, BlankLast
<1>5. CASE G!Stop BY <1>5 DEF G!Stop, BlankLast
<1>6. ASSUME NEW i \in 1 .. Len(readers), G!ReaderStep(i) PROVE BlankLast'
  <2>1. CASE G!ReaderConnects(i) \/ G!ReaderDrops(i)
    BY <1>1, <2>1 DEF G!ReaderConnects, G!ReaderDrops, G!sse
  <2>2. CASE G!Broadcast(i)
    <3>1. UNCHANGED <<gateway, blank>> BY <2>2 DEF G!Broadcast
    <3>2. ASSUME gateway = "closed", NEW b \in blank PROVE room'[b] = room[b]
      <4>1. clients = {} BY <3>2 DEF ClosedLate
      <4> QED BY <1>a, <2>2, <3>2, <4>1 DEF G!Broadcast, G!Offered
    <3> QED BY <3>1, <3>2 DEF BlankLast
  <2> QED BY <1>6, <2>1, <2>2 DEF G!ReaderStep
<1> QED BY <1>1, <1>2, <1>3, <1>4, <1>5, <1>6
        DEF G!Next, G!vars, G!sse, G!Report, G!Republish, G!Announce, G!SetActive,
            G!AnnouncerConnects, G!HearAnnouncement, G!AnnouncerDrops, G!AskPolicy

\* Steps of the end: the channels are closed, empty frames are written, the process ends.
LEMMA EndMaps ==
  ASSUME ClosedLate, BlankLast, [G!Next]_G!vars, UNCHANGED <<published, shown>>
  PROVE  [Lossy!Next]_Lossy!vars
<1>1. CASE UNCHANGED <<gateway, blank>> BY <1>1 DEF Lossy!vars
<1>2. CASE G!Terminate \/ G!Restart
  BY <1>2 DEF G!Terminate, G!Restart, G!sse, Lossy!vars
<1>3. CASE G!CloseClients
  <2>1. (gateway' = "closed") = TRUE /\ blank' = blank BY <1>3 DEF G!CloseClients
  <2> QED BY <2>1 DEF Lossy!Close, Lossy!Next
<1>4. CASE G!Stop
  <2>1. (gateway' = "closed") = FALSE /\ blank' = {} BY <1>4 DEF G!Stop
  <2> QED BY <2>1 DEF Lossy!Reopen, Lossy!Next
<1>5. ASSUME NEW b \in Browsers, G!ShowBlank(b) PROVE Lossy!Next
  <2>1. /\ gateway = "closed" /\ gateway' = gateway
        /\ blank' = blank \cup {b}
    BY <1>5 DEF G!ShowBlank, ClosedLate
  <2> QED BY <2>1 DEF Lossy!ShowBlank, Lossy!Next
<1>6. ASSUME NEW i \in 1 .. Len(readers), G!ReaderStep(i) PROVE UNCHANGED <<gateway, blank>>
  BY <1>6 DEF G!ReaderStep, G!ReaderConnects, G!ReaderDrops, G!Broadcast, G!sse
<1> QED BY <1>1, <1>2, <1>3, <1>4, <1>5, <1>6
        DEF G!Next, G!vars, G!sse, G!Report, G!Republish, G!Announce, G!SetActive, G!Open,
            G!Show, G!Leave, G!AnnouncerConnects, G!HearAnnouncement, G!AnnouncerDrops,
            G!AskPolicy

\* Publishing is publishing, a browser's turn shows a later message or an empty frame once the
\* feed is closing, and nothing else is seen.
LEMMA FeedStepMaps ==
  ASSUME G!EventFeedConstants, FeedInv, ClosedLate, BlankLast, [G!Next]_G!vars
  PROVE  [Lossy!Next]_Lossy!vars
<1>a. G!TypeOK BY DEF FeedInv
<1>1. ASSUME NEW c \in G!Channels, G!Publish(c), UNCHANGED <<shown, gateway, blank>>
      PROVE  Lossy!Next
  <2>1. published' = [published EXCEPT ![c] = published[c] + 1] BY <1>1 DEF G!Publish
  <2>2. Lossy!Publish(c) BY <1>1, <2>1 DEF Lossy!Publish
  <2> QED BY <2>2, SameChannels DEF Lossy!Next
<1>2. CASE G!Report \/ \E c \in Constellations : G!Republish(c)
  <2>1. PICK c \in G!Channels : G!Publish(c) /\ UNCHANGED <<shown, gateway, blank>>
    BY <1>2, FeedSides DEF G!Report, G!Republish, G!sse
  <2> QED BY <1>1, <2>1
<1>3. ASSUME NEW b \in Browsers, G!Show(b) PROVE Lossy!Next
  <2>1. \E c \in G!Channels, n \in Nat :
           /\ room[b] # <<>> /\ Head(room[b]) = <<c, n>>
           /\ room' = [room EXCEPT ![b] = Tail(room[b])]
           /\ shown' = [shown EXCEPT ![b][c] = Append(shown[b][c], n)]
           /\ shown' \in [Browsers -> [G!Channels -> Seq(Nat)]]
           /\ room' \in [Browsers -> Seq(G!Message)]
           /\ \A a \in Browsers : Len(room'[a]) <= Room
    BY <1>a, <1>3, ShowMoves
  <2>2. PICK c \in G!Channels, n \in Nat :
           /\ room[b] # <<>> /\ Head(room[b]) = <<c, n>>
           /\ shown' = [shown EXCEPT ![b][c] = Append(shown[b][c], n)]
    BY <2>1
  <2>3. PICK h \in [G!Channels -> Nat] : BroadcastUpTo(h) BY DEF FeedInv
  <2>4. n \in ShownUpTo(b)[c] + 1 .. h[c]
    <3>1. room[b] \in Seq(G!Message) /\ ShownUpTo(b) \in [G!Channels -> Nat]
      BY <1>a, ShownTypes DEF G!TypeOK
    <3>2. InOrder(room[b], ShownUpTo(b), h) BY <2>3 DEF BroadcastUpTo
    <3> QED BY <2>2, <3>1, <3>2, TailInOrder
  <2>5. n \in Lossy!LastShown(b, c) + 1 .. published[c]
    <3>1. h[c] \in Nat /\ published[c] \in Nat /\ h[c] <= published[c]
      BY <1>a, <2>3 DEF BroadcastUpTo, G!TypeOK
    <3>2. ShownUpTo(b)[c] = Lossy!LastShown(b, c) /\ ShownUpTo(b)[c] \in Nat
      BY <1>a, ShownTypes DEF ShownUpTo
    <3> QED BY <2>4, <3>1, <3>2
  <2>6. UNCHANGED <<published, gateway, blank>> BY <1>3 DEF G!Show
  <2>7. b \notin blank BY <2>2 DEF BlankLast
  <2>8. Lossy!ShowNext(b, c) BY <2>2, <2>5, <2>6, <2>7 DEF Lossy!ShowNext
  <2> QED BY <2>8, SameChannels DEF Lossy!Next
<1>4. CASE UNCHANGED <<published, shown>> BY <1>4, EndMaps
<1>5. ASSUME NEW i \in 1 .. Len(readers), G!ReaderStep(i) PROVE UNCHANGED <<published, shown>>
  BY <1>5 DEF G!ReaderStep, G!ReaderConnects, G!ReaderDrops, G!Broadcast, G!sse
<1> QED BY <1>2, <1>3, <1>4, <1>5
        DEF G!Next, G!vars, G!feeds, G!sse, G!Announce, G!SetActive, G!AnnouncerConnects,
            G!HearAnnouncement, G!AnnouncerDrops, G!AskPolicy, G!Open, G!ShowBlank, G!Leave,
            G!Terminate, G!CloseClients, G!Stop, G!Restart

\* The gateway has one subscriber goroutine per channel, and its state is type correct, whatever
\* Policy answers, whatever constellations are announced and however often it is restarted: no
\* event is broadcast twice for being read twice (startChannelSubscriber, activeChannels).
THEOREM OneReaderPerChannel ==
  ASSUME G!EventFeedConstants PROVE G!Spec => [](G!TypeOK /\ OneReader)
<1>1. G!Init => FeedInv BY DashboardStart
<1>2. FeedInv /\ [G!Next]_G!vars => FeedInv' BY DashboardStep
<1>3. FeedInv => G!TypeOK /\ OneReader BY DEF FeedInv
<1> QED BY <1>1, <1>2, <1>3, PTL DEF G!Spec

\* The dashboard's feed is a lossy feed: over dropped and torn subscriptions, browsers that
\* come and go, full channels and restarts of the gateway, each browser is shown a channel's
\* events in the order published and none twice, and empty frames only after shutdown has closed
\* its channel, when it has had its last event (broadcastSSE, startChannelSubscriber, handleSSE).
THEOREM DashboardImplementsLossyFeed ==
  ASSUME G!EventFeedConstants PROVE G!Spec => ImplementsLossyFeed
<1> DEFINE Inv == FeedInv /\ ClosedLate /\ BlankLast
<1>1. G!Init => Inv BY DashboardStart DEF G!Init, ClosedLate, BlankLast
<1>2. Inv /\ [G!Next]_G!vars => Inv'
  BY DashboardStep, ClosedLateStep, BlankLastStep DEF FeedInv
<1>3. G!Init => Lossy!Init
  <2>1. G!Init => (gateway = "closed") = FALSE BY DEF G!Init
  <2> QED BY <2>1, SameChannels DEF G!Init, Lossy!Init
<1>4. Inv /\ [G!Next]_G!vars => [Lossy!Next]_Lossy!vars BY FeedStepMaps
<1> HIDE DEF Inv
<1> QED BY <1>1, <1>2, <1>3, <1>4, PTL DEF G!Spec, ImplementsLossyFeed, Lossy!Spec

\* A broadcast reaches the channels of registered browsers only, and shutdown has closed those of
\* no browser still registered (broadcastSSE, gateway/shutdown.go): no goroutine sends on a
\* closed channel.
THEOREM NobodySendsOnClosed == ASSUME G!EventFeedConstants PROVE G!Spec => []G!NoSendOnClosed
<1>1. G!Init => ClosedLate BY DEF G!Init, ClosedLate
<1>2. ClosedLate /\ [G!Next]_G!vars => ClosedLate' BY ClosedLateStep
<1>3. ClosedLate => G!NoSendOnClosed BY DEF ClosedLate, G!NoSendOnClosed
<1> QED BY <1>1, <1>2, <1>3, PTL DEF G!Spec
=============================================================================
