------------------------------ MODULE LossyFeed ------------------------------
(***************************************************************************)
(* What the dashboard's event feed promises, with no Redis, no goroutines   *)
(* and no queues: each channel numbers its events in the order they were    *)
(* published, and a browser is shown some of them, each at most once and in *)
(* that order, and may miss any.  What nobody published, an empty frame, it  *)
(* is shown only while the feed is closing, and then no event any more until *)
(* the feed is opened again.                                                *)
(***************************************************************************)
EXTENDS Naturals, Sequences, SequencesExt

CONSTANTS Channels, Browsers

VARIABLES
  published,  \* events published on each channel
  shown,      \* the events of each channel a browser was shown
  closing,    \* is the feed closing?
  blank       \* browsers that were shown empty frames since

vars == <<published, shown, closing, blank>>

Init ==
  /\ published = [c \in Channels |-> 0]
  /\ shown = [b \in Browsers |-> [c \in Channels |-> <<>>]]
  /\ closing = FALSE /\ blank = {}

Publish(c) ==
  /\ published' = [published EXCEPT ![c] = @ + 1]
  /\ UNCHANGED <<shown, closing, blank>>

LastShown(b, c) == IF shown[b][c] = <<>> THEN 0 ELSE Last(shown[b][c])

ShowNext(b, c) ==
  /\ b \notin blank
  /\ \E n \in LastShown(b, c) + 1 .. published[c] :
       shown' = [shown EXCEPT ![b][c] = Append(@, n)]
  /\ UNCHANGED <<published, closing, blank>>

Close == closing' = TRUE /\ UNCHANGED <<published, shown, blank>>
Reopen == closing' = FALSE /\ blank' = {} /\ UNCHANGED <<published, shown>>

ShowBlank(b) ==
  /\ closing /\ blank' = blank \cup {b}
  /\ UNCHANGED <<published, shown, closing>>

Next ==
  \/ \E c \in Channels : Publish(c) \/ \E b \in Browsers : ShowNext(b, c)
  \/ Close \/ Reopen \/ \E b \in Browsers : ShowBlank(b)

Spec == Init /\ [][Next]_vars
=============================================================================
