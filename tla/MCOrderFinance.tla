---------------------------- MODULE MCOrderFinance ----------------------------
(* Instances of OrderFinance: orders and a booking of one member.          *)
EXTENDS OrderFinance, TLC

CONSTANTS b1, o1, o2, a1, a2, r1, w1, w2

OneWorker == {w1}
TwoWorkers == {w1, w2}
OneBooking == {b1}
OneOrder == {o1}
TwoOrders == {o1, o2}
OneRequest == {r1}
OrderAndBooking == {b1, o1}
OrdersAndBooking == {b1, o1, o2}
OneAccount == {a1}
TwoAccounts == {a1, a2}
ForBooking == {b1}
NoPayer == [b \in Bookings |-> {}]
OpenPayer == [b \in Bookings |-> {a1}]
OnePrice == {1}
\* Requests are interchangeable, and so are orders.
Alike == Permutations(Workers) \union Permutations(OrderIds)
===============================================================================
