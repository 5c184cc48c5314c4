------------------------------ MODULE MCTeeSheet ------------------------------
(* Instances of TeeSheet small enough for TLC.                             *)
EXTENDS TeeSheet, TLC

CONSTANTS p1, p2, l1, t1, t2, t3, t4, cA

\* Identifiers are interchangeable.
Ids == Permutations(BookingIds) \union Permutations(RowIds)
WorkersAndIds == Ids \union Permutations(Workers)

OneCourse == [l \in Lines |-> cA]
Eighteen == [c \in Courses |-> 18]

\* t1, t2 and t4 are on one day, t3 on the next.
Days == t1 :> 1 @@ t2 :> 1 @@ t3 :> 2 @@ t4 :> 1
OneDay == [t \in Times |-> 1]

TwoPerSlot == [s \in Lines \X Times |-> IF s[2] = t2 THEN 1 ELSE 2]
\* Only t1 has a slot state; create cannot use the other times, move can.
OnlyFirst == [s \in Lines \X Times |-> IF s[2] = t1 THEN 2 ELSE None]

Nothing == {}
FourthClosed == {<<l1, t4>>}

WithGuest == [people |-> {p1}, guests |-> 1, lead |-> p1]
GuestAlone == [people |-> {}, guests |-> 1, lead |-> Guest]
GuestPair == [people |-> {}, guests |-> 2, lead |-> Guest]
Pair == [people |-> {p1, p2}, guests |-> 0, lead |-> p2]

PairAndGuest == {Pair, GuestAlone}
GuestsOnly == {GuestAlone, GuestPair}
OnlyWithGuest == {WithGuest}
===============================================================================
