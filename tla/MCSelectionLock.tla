---------------------------- MODULE MCSelectionLock ---------------------------
(* Instances of SelectionLock: two pages of two operators, or of one.      *)
EXTENDS SelectionLock, TLC

CONSTANTS c1, c2, c3, c4, s1, s2, u1, u2, b1, b2, k1, k2, k3, k4

TwoCalls == {c1, c2}
ThreeCalls == {c1, c2, c3}
FourCalls == {c1, c2, c3, c4}
OneSlot == {s1}
TwoSlots == {s1, s2}
OneOperator == {u1}
TwoOperators == {u1, u2}
OnePage == {b1}
TwoPages == {b1, b2}
OneEach == [b \in Browsers |-> IF b = b1 THEN u1 ELSE u2]
TwoIds == {k1, k2}
FourIds == {k1, k2, k3, k4}
Symmetry == Permutations(Calls) \union Permutations(Slots) \union Permutations(LockIds)
===============================================================================
