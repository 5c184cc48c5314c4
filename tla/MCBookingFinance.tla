--------------------------- MODULE MCBookingFinance ---------------------------
(* Instances of BookingFinance: one or two bookings of one member.         *)
EXTENDS BookingFinance, TLC

CONSTANTS b1, b2, a1, a2, w1, w2

TwoWorkers == {w1, w2}
OneBooking == {b1}
TwoBookings == {b1, b2}
AllAccounts == {a1, a2}
OpenAccounts == {a1}
OpenOrClosed == [b \in Bookings |-> Accounts]
OnePrice == {1}
TwoPrices == {1, 2}
\* Requests are interchangeable, and so are bookings.
Alike == Permutations(Workers) \union Permutations(Bookings)
===============================================================================
