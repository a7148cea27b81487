----------------------------- MODULE MCScheduler -----------------------------
(* Constants of the models of Scheduler.                                    *)
EXTENDS Scheduler, TLC

CONSTANTS seti, vox, q1, q2, w1, w2

OnlySeti == {seti}
OneTag == {vox}
TwoRequests == {q1, q2}
TwoSlots == {w1, w2}

Quarterly == [interval |-> 15, enabled |-> TRUE]
Unset == [interval |-> 0, enabled |-> TRUE]
Hourly == [interval |-> 60, enabled |-> TRUE]
Disabled == [interval |-> 60, enabled |-> FALSE]
FourSchedules == {Quarterly, Unset, Hourly, Disabled}
=============================================================================
