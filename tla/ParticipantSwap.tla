--------------------------- MODULE ParticipantSwap ---------------------------
(***************************************************************************)
(* Dragging players about the Phase 10 tee sheet.  A player dropped on an   *)
(* open cell is moved; a player dropped on another's cell is swapped, which *)
(* is two moves one after the other with a choice to retry or to restore    *)
(* when only the first was done.  The grid is changed before the server     *)
(* answers and put back when it refuses; anyone may book meanwhile.         *)
(***************************************************************************)
EXTENDS Naturals, FiniteSets, Sequences, SequencesExt

CONSTANTS
  SlotTimes, \* rows of the sheet
  RoomIn, \* RoomIn[s]: player_capacity
  Columns, \* cells drawn in every row (four)
  Party, \* the bookings the day starts with: [id, row, players, status]
  Passers, \* players others may book during the day
  MaxMoves, \* bound: how many moves are sent
  Patient, \* staff finish one drop before the next
  Nil \* no result, no day, no answer

InRow(bookings, s) == {b \in bookings : b.row = s}
Players(bookings) == UNION {b.players : b \in bookings}
\* What the ids of bookings are made of: those of the day, and of who splits off or is booked.
Marks == Passers \union UNION {b.players \union ToSet(b.id) : b \in Party}

ASSUME SwapAssumption ==
  /\ MaxMoves \in Nat /\ Patient \in BOOLEAN /\ RoomIn \in [SlotTimes -> Nat]
  /\ \A b \in Party : b = [id |-> b.id, players |-> b.players, row |-> b.row, status |-> b.status]
  /\ \A b, c \in Party : b # c => b.players \intersect c.players = {}
  /\ IsFiniteSet(Players(Party))
  /\ \A s \in SlotTimes : Cardinality(Players(InRow(Party, s))) <= RoomIn[s]
  /\ (\A b \in Party : b.id \in Seq(Marks)) /\ Nil \notin Seq(Marks)

VARIABLES
  booked, \* the server's bookings
  grid, \* the bookings of the cached day, moved ones under an id made up
  match, \* does the first cached query of the date hold the grid?
  swap, \* SwapState: [kind, a, b, result], a and b as SwapParticipant
  moves, \* moves in flight, in the order sent
  reading, \* the day's query in flight: [step, got]
  count, \* moves sent
  stood, \* where the server had the two when the swap began: [a, b]
  lost \* an answer was lost since the swap began

swapVars == <<booked, grid, match, swap, moves, reading, count, stood, lost>>

Moveable == {"reserved", "checked_in"}
Holding(bookings, p) == {b \in bookings : p \in b.players}
RowOf(p) == IF Holding(booked, p) = {} THEN Nil ELSE (CHOOSE b \in Holding(booked, p) : TRUE).row
SitsIn(p, s) == \E b \in Holding(booked, p) : b.row = s
Unread == [step |-> "none", got |-> Nil]
NoSwap == [b |-> Nil, a |-> Nil, kind |-> "idle", result |-> Nil]

SwapInit ==
  /\ booked = Party /\ grid = Party
  /\ match \in BOOLEAN
  /\ swap = NoSwap /\ moves = <<>> /\ reading = Unread
  /\ count = 0 /\ stood = [b |-> Nil, a |-> Nil] /\ lost = FALSE

-----------------------------------------------------------------------------
(* patchDayWithMove: the player leaves their booking in the source row, if it *)
(* is there, and enters every target row as a booking of their own.           *)
Patched(day, m) ==
  {IF b.id = m.id /\ b.row = m.from THEN [b EXCEPT !.players = @ \ {m.player}] ELSE b
     : b \in {x \in day : ~(x.id = m.id /\ x.row = m.from /\ x.players = {m.player})}}
  \union {[id |-> <<"optimistic", m.player>>, players |-> {m.player}, row |-> m.to,
           status |-> "reserved"]}

(* mutate: stage says whose callbacks it carries ("plain" is the page's own     *)
(* move, the others the swap's); the patch goes to the first cached query that *)
(* matches the date, and the answer of a running fetch is dropped.             *)
Unanswered == [booking |-> Nil, refusal |-> "unanswered"]
Move(stage, id, p, from, to) ==
  [id |-> id, player |-> p, before |-> Nil, latest |-> TRUE, from |-> from,
   to |-> to, stage |-> stage, answer |-> Unanswered]
Observer(m) == IF m.stage = "plain" THEN "page" ELSE "swap"
Mutate(m, others) ==
  /\ count < MaxMoves /\ count' = count + 1
  /\ moves' = Append([i \in 1..Len(others) |->
                        IF Observer(others[i]) = Observer(m)
                        THEN [others[i] EXCEPT !.latest = FALSE] ELSE others[i]],
                     IF match THEN [m EXCEPT !.before = grid] ELSE m)
  /\ IF match THEN grid' = Patched(grid, m) /\ reading' = Unread
     ELSE UNCHANGED <<grid, reading>>

-----------------------------------------------------------------------------
(* Dragging.  A cell is a drag source while its booking may be moved; cells of *)
(* the same row reject the drop.                                               *)
Draggable(b) == b.status \in Moveable
DropMode(from, to) == IF from = to THEN "reject" ELSE "valid"
Drawn(s) == LET seated == Cardinality(Players(InRow(grid, s)))
            IN IF seated > RoomIn[s] THEN RoomIn[s] ELSE seated
OpenCells(s) == Drawn(s) < Columns
Waits == Patient => moves = <<>> /\ swap.kind \notin {"partial-failure-second", "restore-failed"}

DropOnOpen(b, p, s) ==
  /\ Waits /\ b \in grid /\ p \in b.players /\ Draggable(b)
  /\ DropMode(b.row, s) = "valid" /\ OpenCells(s)
  /\ Mutate(Move("plain", b.id, p, b.row, s), moves)
  /\ UNCHANGED <<booked, match, swap, stood, lost>>

(* initiate: refused at once when the target row has no cell for the player    *)
(* in the meantime.                                                            *)
Ends(b, p) == [row |-> b.row, player |-> p, booking |-> b.id]
Initiate(x, p, y, q) ==
  /\ Waits /\ x \in grid /\ y \in grid /\ p \in x.players /\ q \in y.players
  /\ Draggable(x) /\ DropMode(x.row, y.row) = "valid"
  /\ lost' = FALSE /\ stood' = [b |-> RowOf(q), a |-> RowOf(p)]
  /\ IF OpenCells(y.row)
     THEN /\ swap' = [b |-> Ends(y, q), a |-> Ends(x, p), kind |-> "first-pending",
                      result |-> Nil]
          /\ Mutate(Move("first", x.id, p, x.row, y.row), moves)
     ELSE /\ swap' = [b |-> Ends(y, q), a |-> Ends(x, p), kind |-> "rejected-target-row-full",
                      result |-> Nil]
          /\ UNCHANGED <<grid, moves, reading, count>>
  /\ UNCHANGED <<booked, match>>

SecondMove(s) == Move("second", s.b.booking, s.b.player, s.b.row, s.a.row)
(* The two buttons of the pill, off while a move of the swap is in flight.     *)
Swapping == \E i \in 1..Len(moves) : Observer(moves[i]) = "swap" /\ moves[i].latest
RetrySecond ==
  /\ swap.kind = "partial-failure-second" /\ ~Swapping
  /\ swap' = [swap EXCEPT !.kind = "second-pending"]
  /\ Mutate(SecondMove(swap), moves)
  /\ UNCHANGED <<booked, match, stood, lost>>
\* Mutant: the other player is moved back.
OtherMovedBack(s) == Move("restore", s.b.booking, s.b.player, s.b.row, s.a.row)
(* The booking of the first move's result: a split gave the player a new one.  *)
MoveBack(s) == Move("restore", s.result, s.a.player, s.b.row, s.a.row)
RestoreFirst ==
  /\ swap.kind = "partial-failure-second" /\ ~Swapping
  /\ swap' = [swap EXCEPT !.kind = "restoring"]
  /\ Mutate(MoveBack(swap), moves)
  /\ UNCHANGED <<booked, match, stood, lost>>
(* Dismiss on the banners of a full row and of a failed restore.               *)
ResetSwap ==
  /\ swap.kind \in {"rejected-target-row-full", "restore-failed"}
  /\ swap' = NoSwap
  /\ UNCHANGED <<booked, grid, match, moves, reading, count, stood, lost>>

-----------------------------------------------------------------------------
(* The server: move_booking.  A refusal has a category; a request lost before  *)
(* the deed and an answer lost after it look like one.                         *)
Asked(m) == CHOOSE b \in booked : b.id = m.id
Refusal(m) ==
  IF \A b \in booked : b.id # m.id THEN "booking_not_found"
  ELSE LET b == Asked(m)
       IN IF b.status \notin Moveable THEN "booking_not_moveable"
          ELSE IF m.player \notin b.players THEN "participant_not_found"
          ELSE IF b.row = m.to THEN "no_op"
          ELSE IF Cardinality(Players(InRow(booked, m.to))) >= RoomIn[m.to]
               THEN "capacity_full" ELSE "none"
(* What move_booking makes of a booking: moved whole, or one player split off. *)
Split(b, p) == b.players # {p}
After(b, m) ==
  IF Split(b, m.player)
  THEN {[b EXCEPT !.players = @ \ {m.player}],
        [id |-> Append(b.id, m.player), players |-> {m.player}, row |-> m.to, status |-> b.status]}
  ELSE {[b EXCEPT !.row = m.to]}
Reply(refusal, booking) == [booking |-> booking, refusal |-> refusal]
ServeMove(i) ==
  /\ i \in 1..Len(moves) /\ moves[i].answer = Unanswered
  /\ LET m == moves[i]
         b == Asked(m)
         done == IF Split(b, m.player) THEN Append(b.id, m.player) ELSE b.id
         Heard(refusal, booking) ==
           moves' = [moves EXCEPT ![i].answer = Reply(refusal, booking)]
     IN \/ /\ \E refusal \in {Refusal(m), "unknown"} \ {"none"} : Heard(refusal, Nil)
           /\ UNCHANGED <<booked, lost>>
        \/ /\ Refusal(m) = "none"
           /\ booked' = (booked \ {b}) \union After(b, m)
           /\ \/ Heard("none", done) /\ UNCHANGED lost
              \/ Heard("unknown", Nil) /\ lost' = TRUE
  /\ UNCHANGED <<grid, match, swap, reading, count, stood>>
Refused(m) == m.answer.refusal # "none"

(* The callbacks of one move: those of the hook (put the day back, fetch it     *)
(* again), then those of the call, which only the latest of its observer runs. *)
Settled10(m, rest) ==
  /\ moves' = rest
  /\ grid' = IF Refused(m) /\ m.before # Nil THEN m.before ELSE grid
  /\ reading' = IF match THEN [step |-> "asked", got |-> Nil] ELSE reading
  /\ UNCHANGED count
FirstDone(m, rest) ==
  /\ m.stage = "first" /\ m.latest /\ ~Refused(m)
  /\ swap' = [swap EXCEPT !.kind = "second-pending", !.result = m.answer.booking]
  /\ Mutate(SecondMove(swap), rest)
Reduced(m) ==
  CASE m.stage = "plain" \/ ~m.latest -> swap.kind
    [] m.latest /\ m.stage = "first" -> "partial-failure-first"
    [] m.latest /\ m.stage = "second" ->
         IF ~Refused(m) THEN "succeeded"
         ELSE IF swap.kind = "second-pending" THEN "partial-failure-second" ELSE swap.kind
    [] m.latest /\ m.stage = "restore" ->
         IF ~Refused(m) THEN "restored"
         ELSE IF swap.kind = "restoring" THEN "restore-failed" ELSE swap.kind
SettleMove(i) ==
  /\ i \in 1..Len(moves) /\ moves[i].answer # Unanswered
  /\ LET m == moves[i]
         rest == RemoveAt(moves, i)
     IN \/ FirstDone(m, rest)
        \/ /\ ~(m.stage = "first" /\ m.latest /\ ~Refused(m))
           /\ swap' = [swap EXCEPT !.kind = Reduced(m)]
           /\ Settled10(m, rest)
  /\ UNCHANGED <<booked, match, stood, lost>>

(* Somebody else books a seat; the day is fetched again.                       *)
OtherBooks(p, s) ==
  /\ p \in Passers \ Players(booked)
  /\ Cardinality(Players(InRow(booked, s))) < RoomIn[s]
  /\ booked' = booked \union {[id |-> <<p>>, players |-> {p}, row |-> s, status |-> "reserved"]}
  /\ UNCHANGED <<grid, match, swap, moves, reading, count, stood, lost>>
ReadDay ==
  /\ \/ reading.step = "none" /\ reading' = [step |-> "asked", got |-> Nil] /\ UNCHANGED grid
     \/ reading.step = "asked" /\ reading' = [step |-> "answered", got |-> booked] /\ UNCHANGED grid
     \/ reading.step = "answered" /\ reading' = Unread /\ grid' = reading.got
  /\ UNCHANGED <<booked, match, swap, moves, count, stood, lost>>

SwapNext ==
  \/ \E b \in grid : \E p \in b.players :
       \/ \E s \in SlotTimes : DropOnOpen(b, p, s)
       \/ \E y \in grid : \E q \in y.players : Initiate(b, p, y, q)
  \/ RetrySecond \/ RestoreFirst \/ ResetSwap
  \/ \E i \in 1..Len(moves) : ServeMove(i) \/ SettleMove(i)
  \/ \E p \in Passers, s \in SlotTimes : OtherBooks(p, s)
  \/ ReadDay
SwapSpec == SwapInit /\ [][SwapNext]_swapVars

-----------------------------------------------------------------------------
(* Properties *)

Kinds == {"idle", "first-pending", "second-pending", "succeeded", "partial-failure-first",
          "partial-failure-second", "rejected-target-row-full", "restoring", "restore-failed",
          "restored"}
SwapTypeOK ==
  /\ swap.kind \in Kinds /\ count \in 0..MaxMoves
  /\ \A s \in SlotTimes : Cardinality(Players(InRow(booked, s))) <= RoomIn[s]
  /\ Players(Party) \subseteq Players(booked)
  /\ swap.kind \in {"second-pending", "partial-failure-second", "restoring"} => swap.result # Nil

(* What the page says of a swap is what the server did with the two players:  *)
(* "succeeded" when they have changed places, "restored" and "first failed"   *)
(* when neither has moved in the end, "partial" when only the first has.  After *)
(* a lost answer a failure may have been none.  It is said of two people: on a *)
(* stale grid one may be drawn in two rows and swapped with themselves.        *)
Told ==
  LET crossed == SitsIn(swap.a.player, swap.b.row)
  IN CASE swap.kind = "succeeded" -> crossed /\ SitsIn(swap.b.player, swap.a.row)
       [] swap.kind = "restored" -> /\ SitsIn(swap.a.player, swap.a.row)
                                    /\ lost \/ SitsIn(swap.b.player, stood.b)
       [] swap.kind = "partial-failure-first" ->
            lost \/ (SitsIn(swap.a.player, stood.a) /\ SitsIn(swap.b.player, stood.b))
       [] swap.kind \in {"partial-failure-second", "restore-failed"} ->
            lost \/ (crossed /\ SitsIn(swap.b.player, stood.b))
       [] OTHER -> TRUE
OfTwo == swap.a.player # swap.b.player
SwapTells == [][swap'.kind \notin {swap.kind, "idle"} /\ OfTwo' => Told']_swapVars
=============================================================================
