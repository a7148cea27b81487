------------------------------ MODULE CallChain ------------------------------
(***************************************************************************)
(* What POST /verify/call-chain asks of the window of an application         *)
(* (signal-aggregator/main.go), and what its verdict promises.  The window   *)
(* itself is kept by EventWindow.                                            *)
(***************************************************************************)
EXTENDS Integers, Sequences, FiniteSets

CONSTANTS
  WindowSize,  \* 5000 in the code, for every application whatever it asked for
  MaxTime

VARIABLES
  window,  \* windows[app]: events with the time they were received and, history, the
           \* subscription whose feed received them
  deleted  \* history: subscriptions this process was told to DELETE

\* The time as the code compares it: RFC 3339 as text, with a fraction only if it is not zero.
\* "05.5Z" comes before "05Z".
Text(time) == IF time % 2 = 0 THEN time + 1 ELSE time - 1

\* verifyCallChain, for one expected call: the events queryEvents finds after a time, and
\* whether they are enough.
Found(after) == {i \in 1 .. Len(window) : Text(window[i].time) > Text(after)}
Verified(after, occurrences) == Cardinality(Found(after)) >= occurrences

\* After the time given; of one with a fraction, a call without fraction in the same second
\* counts as later too.
Later(time, after) == time > after \/ (after % 2 = 1 /\ time = after - 1)

\* Whose event it is: that of a subscription since deleted, or 0 for the present one.
Source(event) == IF event.by \in deleted THEN event.by ELSE 0

\* A call chain passes only on calls that were received after the time given, as far as texts
\* tell, and on different ones: no call is counted twice, unless it was received once more by
\* the feed of a subscription that was deleted and is still at work.
VerdictIsEarned ==
  \A after \in 0 .. MaxTime : \A n \in 1 .. WindowSize :
    Verified(after, n) =>
      Cardinality({<<window[i].number, Source(window[i])>> : i \in
                    {j \in 1 .. Len(window) : Later(window[j].time, after)}}) >= n
=============================================================================
