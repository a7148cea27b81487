------------------------------ MODULE RedisFeed ------------------------------
(***************************************************************************)
(* A Redis subscription as Subscribe and SubscribeMulti give it to a Job    *)
(* (redis.go): a connection of its own, a goroutine that reads replies      *)
(* from it with a 500 ms deadline, and a Go channel the Job ranges over.    *)
(* Redis (external) sends a message to the connections subscribed at that   *)
(* moment, keeps none for later, and keeps the order of a connection.       *)
(*                                                                         *)
(* The socket and the Go channel are one queue here: nothing but the room   *)
(* between them tells them apart.                                           *)
(***************************************************************************)
EXTENDS Integers, Sequences, SequencesExt

\* What a Job holds: is the connection up, and the messages it has still to take.
Subscription(messages) == [up: BOOLEAN, queue: Seq(messages)]

\* No connection: not subscribed yet, or given up after the channel was closed.
Unsubscribed == [up |-> FALSE, queue |-> <<>>]

\* The SUBSCRIBE was confirmed on a new connection.
Subscribed == [up |-> TRUE, queue |-> <<>>]

\* PUBLISH, for one subscription to the channel.
Deliver(sub, message) ==
  IF sub.up THEN [sub EXCEPT !.queue = Append(@, message)] ELSE sub

\* The loop over the channel takes the next message.
Taken(sub) == [sub EXCEPT !.queue = Tail(@)]

\* The deadline expires between two pieces of a message: what was read of it is
\* dropped, the pieces that follow are read as replies of their own and ignored.
Torn(sub) ==
  IF sub.up
  THEN {[sub EXCEPT !.queue = RemoveAt(@, k)] : k \in 1 .. Len(sub.queue)}
  ELSE {}

\* The connection fails, or a deadline inside a piece leaves the goroutine with bytes that
\* are no reply: the channel is closed; what it still holds is ranged over first.
Broken(sub) ==
  IF sub.up
  THEN {[up |-> FALSE, queue |-> SubSeq(sub.queue, 1, k)] : k \in 0 .. Len(sub.queue)}
  ELSE {}

\* The range over the channel ends: it is closed and empty.
Drained(sub) == ~sub.up /\ sub.queue = <<>>
=============================================================================
