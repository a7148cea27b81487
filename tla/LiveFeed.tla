------------------------------ MODULE LiveFeed -------------------------------
(***************************************************************************)
(* What the dashboard's live feed promises: its channels, what was published *)
(* on each and what each browser was shown of it.  The Redis subscriptions,  *)
(* the gateway and the browsers' queues that stand between are in EventFeed. *)
(***************************************************************************)
EXTENDS Naturals, Sequences

CONSTANTS
  Seti,           \* seti:events
  Constellations, \* federated constellations, one channel federation:<tag>:events each
  Browsers

VARIABLES
  published, shown,
  gateway,  \* "up", "draining", "closed", "stopped"
  blank     \* history: browsers this gateway process wrote empty frames to

Channels == {Seti} \cup Constellations

\* A browser is shown events of a channel in the order they were published and none twice,
\* across dropped subscriptions, its own reconnections and restarts of the gateway, however
\* often a constellation is announced.  The loop of handleSSE does not see that shutdown has
\* closed its channel: what the browser gets then, until the exit, are empty frames, after the
\* last event and none before.
Lossy == INSTANCE LossyFeed WITH closing <- gateway = "closed"
ImplementsLossyFeed == Lossy!Spec
=============================================================================
