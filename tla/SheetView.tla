------------------------------ MODULE SheetView ------------------------------
(***************************************************************************)
(* The day's tee sheet as the browser holds it: what is on it, what may be *)
(* done with it, and how it is changed before the server has answered.     *)
(* A cell is one tee at one time; tees that start from the same lane are    *)
(* shown as one row, so a slot of the page may be several cells.            *)
(***************************************************************************)
EXTENDS Naturals, FiniteSets, FiniteSetsExt, Sequences

CONSTANTS
  Cells, \* tee and time
  LaneOf, TimeOf, \* LaneOf[c], TimeOf[c]
  Seats, \* Seats[c]: player_capacity
  Shut \* cells whose display status is "blocked" or "reserved"

(* A booking on the sheet: [id, lane, time, status, paid, players]; a day:    *)
(* its date and the bookings of each cell.                                    *)
SameSlot(c, d) == LaneOf[c] = LaneOf[d] /\ TimeOf[c] = TimeOf[d]
Group(c) == {d \in Cells : SameSlot(c, d)}
OnSheet(day) == UNION {day.cells[c] : c \in Cells}
PlayersOn(day) == UNION {b.players : b \in OnSheet(day)}

(* LIFECYCLE_TRANSITIONS, and the quick actions a status allows.              *)
Lifecycle == {"cancel", "check_in", "complete", "no_show"}
FromStatus(action) == IF action = "complete" THEN "checked_in" ELSE "reserved"
ToStatus(action) == CASE action = "cancel" -> "cancelled" [] action = "check_in" -> "checked_in"
                      [] action = "complete" -> "completed" [] OTHER -> "no_show"
CanQuickAction(b, action) == b.status = FromStatus(action)

(* What the badge of a booking asks for, given the server's clock.            *)
NextAction(b, now) ==
  IF b.status \in {"cancelled", "no_show"} THEN "completed"
  ELSE IF b.paid = "pending" THEN "needs_payment"
  ELSE IF b.status # "reserved" THEN "completed"
  ELSE IF b.time < now THEN "at_risk" ELSE "ready_to_check_in"
PanelActions(b, now) ==
  {a \in {"complete", "check_in"} : CanQuickAction(b, a)}
  \union (IF CanQuickAction(b, "no_show") /\ NextAction(b, now) = "at_risk" THEN {"no_show"}
          ELSE {a \in {"cancel"} : CanQuickAction(b, a)})

(* The finance buttons of the drawer.                                         *)
CanFinance(b, action) ==
  CASE action = "post_charge" -> b.paid \notin {"paid", "complimentary", "waived"}
    [] action = "record_payment" -> b.paid = "pending"
    [] action \in {"complimentary", "waived"} -> b.paid \notin {action, "paid"}
    [] action = "post_refund" -> b.paid = "paid"
Unresolved(b) == b.paid = "pending" /\ b.status \in {"checked_in", "completed"}

(* A slot of the page: the cells of one lane and time merged, each booking    *)
(* once, represented by the cell that has bookings before one that is open.   *)
Priority(day, c) == IF day.cells[c] # {} THEN 2 ELSE IF c \notin Shut THEN 1 ELSE 0
Representative(day, c) ==
  CHOOSE d \in Group(c) : \A e \in Group(c) : Priority(day, d) >= Priority(day, e)
Merged(day, c) ==
  {CHOOSE b \in OnSheet(day) : b.id = i
     : i \in {b.id : b \in UNION {day.cells[d] : d \in Group(c)}}}
Taken(bookings) == MapThenSumSet(LAMBDA b : Cardinality(b.players), bookings)
Room(day, c) ==
  LET seats == Min({4, Seats[Representative(day, c)]})
  IN IF Taken(Merged(day, c)) >= seats THEN 0 ELSE seats - Taken(Merged(day, c))
CanCreate(day, c) == Representative(day, c) \notin Shut /\ Room(day, c) > 0
CanDrop(day, c) == Representative(day, c) \notin Shut

(* Where the bookings of a slot are drawn: sizes[i] is the party of the i-th. *)
Before(sizes) ==
  LET before[i \in 0..Len(sizes)] == IF i = 0 THEN 0 ELSE before[i - 1] + sizes[i]
  IN before
Segments(sizes, seats) ==
  {[last |-> Min({Before(sizes)[i], seats}), first |-> Before(sizes)[i - 1] + 1]
     : i \in {j \in 1..Len(sizes) : Before(sizes)[j - 1] < seats}}

-----------------------------------------------------------------------------
(* The two changes the page makes before it has an answer.                    *)

(* optimisticallyTransitionBooking: the day as it was unless the booking is in *)
(* the status the action starts from.                                          *)
Transitioned(day, id, action) ==
  [day EXCEPT !.cells =
     [c \in Cells |->
        {IF b.id = id /\ CanQuickAction(b, action) THEN [b EXCEPT !.status = ToStatus(action)]
         ELSE b : b \in day.cells[c]}]]

(* optimisticallyMoveBooking: the whole booking, or one participant as a       *)
(* booking of their own (id made up from the two), to every cell of the target *)
(* slot.                                                                       *)
Splits(b, p) == p \in b.players /\ b.players # {p}
Landed(b, p, target) ==
  IF Splits(b, p)
  THEN [b EXCEPT !.id = Append(@, p), !.players = {p},
                 !.lane = LaneOf[target], !.time = TimeOf[target]]
  ELSE [b EXCEPT !.lane = LaneOf[target], !.time = TimeOf[target]]
Left(b, p) == IF Splits(b, p) THEN {[b EXCEPT !.players = @ \ {p}]} ELSE {}
\* Mutant: the booking is added to its new slot and left in the old one.
MovedAndLeft(day, b, p, target) ==
  [day EXCEPT !.cells =
     [c \in Cells |-> day.cells[c]
        \union (IF SameSlot(c, target) THEN {Landed(b, p, target)} ELSE {})]]
Moved(day, b, p, target) ==
  [day EXCEPT !.cells =
     [c \in Cells |->
        {x \in day.cells[c] : x.id # b.id}
        \union (IF \E x \in day.cells[c] : x.id = b.id THEN Left(b, p) ELSE {})
        \union (IF SameSlot(c, target) THEN {Landed(b, p, target)} ELSE {})]]
=============================================================================
