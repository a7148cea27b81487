----------------------------- MODULE MCClearance -----------------------------
(* Constants of the models of Clearance.                                    *)
EXTENDS Clearance, TLC

CONSTANTS left, right, ann, bob

OneBrowser == {left}
TwoBrowsers == {left, right}
OnePerson == {ann}
TwoPersons == {ann, bob}
OneWho == [b \in OneBrowser |-> ann]
SameWho == [b \in TwoBrowsers |-> ann]
EachWho == [b \in TwoBrowsers |-> IF b = left THEN ann ELSE bob]

Symmetric == Permutations(TwoBrowsers)
=============================================================================
