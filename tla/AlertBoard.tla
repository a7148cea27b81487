----------------------------- MODULE AlertBoard -----------------------------
(***************************************************************************)
(* What Augur Canis promises about alerts, with no Redis, no goroutines    *)
(* and no messages: a service has at most one alert at a time; an alert is *)
(* raised under an ID never used before, only for a service that has none, *)
(* and it ends by being cleared, never by being replaced.                  *)
(***************************************************************************)
EXTENDS Naturals

CONSTANT Services

VARIABLES
  current,  \* the ID of the service's alert, 0 if it has none
  issued    \* the highest ID used so far

Init == current = [s \in Services |-> 0] /\ issued = 0

Raise(s) ==
  /\ current[s] = 0
  /\ issued' = issued + 1
  /\ current' = [current EXCEPT ![s] = issued']

Clear(s) ==
  /\ current[s] # 0
  /\ current' = [current EXCEPT ![s] = 0]
  /\ UNCHANGED issued

Next == \E s \in Services : Raise(s) \/ Clear(s)

Spec == Init /\ [][Next]_<<current, issued>>
=============================================================================
