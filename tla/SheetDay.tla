------------------------------- MODULE SheetDay -------------------------------
(***************************************************************************)
(* The cached days of the live tee sheet.  The page shows the day of the   *)
(* query cache, asks for it again every thirty seconds, changes it itself  *)
(* when a booking is dragged or acted on, and puts the day it remembers    *)
(* back when the server refuses.  Requests overlap, their answers may be   *)
(* lost, and the staff may turn to another day in between.                 *)
(***************************************************************************)
EXTENDS SheetView

CONSTANTS
  Days, \* dates staff turn to
  Booked, \* the bookings the club starts with: [id, day, cell, paid, players]
  Requests, \* requests that may be on their way at once
  MaxDeeds, \* bound: how many requests are sent and days turned to
  Late, \* the server's clock: a reserved time before it is at risk
  Missing \* no cached day, no request, nobody

PaidMarks == {"pending", "paid", "complimentary", "waived"}
(* Ids are unique, and nobody plays twice on a day when the page opens: the    *)
(* server does not refuse that, the question is what the page makes of it.     *)
ASSUME SheetAssumption ==
  /\ MaxDeeds \in Nat
  /\ \A b \in Booked : /\ b.id = <<b.id[1]>> /\ b.day \in Days /\ b.cell \in Cells
                       /\ b.players # {} /\ b.paid \in PaidMarks
  /\ \A b, c \in Booked :
       b.id = c.id \/ (b.day = c.day /\ b.players \intersect c.players # {}) => b = c

VARIABLES
  held, \* the server's bookings: [id, day, cell, status, paid, players]
  cached, \* Days -> the day in the query cache, or Missing
  page, \* [day, last]: the selected date, the day that was shown before it
  asked, \* Requests -> mutation in flight, or Missing
  fetch, \* the query in flight: [step, day, got]
  deeds \* how many of MaxDeeds

sheetVars == <<held, cached, page, asked, fetch, deeds>>

NoFetch == [day |-> Missing, step |-> "none", got |-> Missing]
(* The read model: live bookings, and completed ones that are not paid.       *)
OnTheSheet(b) == b.status \in {"reserved", "checked_in"} \/ Unresolved(b)
Read(d) ==
  [date |-> d,
   cells |-> [c \in Cells |->
                {[id |-> b.id, paid |-> b.paid, players |-> b.players, status |-> b.status,
                  lane |-> LaneOf[c], time |-> TimeOf[c]]
                   : b \in {x \in held : x.day = d /\ x.cell = c /\ OnTheSheet(x)}}]]
(* placeholderData: until the selected day has come the last one stays.       *)
Shown == IF cached[page.day] # Missing THEN cached[page.day] ELSE cached[page.last]
Unasked(r) == asked[r] = Missing /\ deeds < MaxDeeds

SheetInit ==
  /\ held = {[id |-> b.id, day |-> b.day, cell |-> b.cell, paid |-> b.paid,
              players |-> b.players, status |-> "reserved"] : b \in Booked}
  /\ \E d \in Days : page = [day |-> d, last |-> d]
  /\ cached = [d \in Days |-> IF d = page.day THEN Read(d) ELSE Missing]
  /\ asked = [r \in Requests |-> Missing]
  /\ fetch = NoFetch /\ deeds = 0

-----------------------------------------------------------------------------
(* A mutation in flight: the observer it belongs to (kind), what it asks for, *)
(* the day remembered in onMutate, the key its callbacks will write to, and   *)
(* whether it is the latest of its observer, whose callbacks are renewed with *)
(* every rendering and so follow the selected date.                           *)
Mutation(kind, bookings, p, target, before) ==
  [player |-> p, kind |-> kind, target |-> target, before |-> before, ids |-> bookings,
   open |-> bookings, key |-> page.day, latest |-> TRUE, verdict |-> "none"]
Send(r, m) ==
  /\ asked' = [q \in Requests |->
                 IF q = r THEN m
                 ELSE IF asked[q] # Missing /\ asked[q].kind = m.kind
                      THEN [asked[q] EXCEPT !.latest = FALSE] ELSE asked[q]]
  /\ deeds' = deeds + 1
(* cancelQueries on the day's key: the answer of a running fetch is dropped.  *)
CancelFetch == fetch' = IF fetch.day = page.day THEN NoFetch ELSE fetch
(* setQueryData on the selected day's key, which may have nothing in it yet.  *)
Patch(new) == cached' = IF cached[page.day] = Missing THEN cached
                        ELSE [cached EXCEPT ![page.day] = new]

(* Drag a booking or, in the table, one player of it to a slot it may be       *)
(* dropped on.                                                                 *)
DropOn(r, b, p, target) ==
  /\ Unasked(r) /\ Shown # Missing /\ b \in OnSheet(Shown)
  /\ CanDrop(Shown, target) /\ target = Representative(Shown, target)
  /\ ~(LaneOf[target] = b.lane /\ TimeOf[target] = b.time)
  /\ Send(r, Mutation("move", {b.id}, p, target, cached[page.day]))
  /\ LET known == IF cached[page.day] = Missing THEN {}
                  ELSE {x \in OnSheet(cached[page.day]) : x.id = b.id}
     IN IF known = {} THEN UNCHANGED cached
        ELSE Patch(Moved(cached[page.day], CHOOSE x \in known : TRUE, p, target))
  /\ CancelFetch
  /\ UNCHANGED <<held, page>>

(* A quick action of a card, or the same of the drawer.                        *)
QuickAction(r, b, action) ==
  /\ Unasked(r) /\ Shown # Missing /\ b \in OnSheet(Shown)
  /\ action \in Lifecycle /\ CanQuickAction(b, action)
  /\ Send(r, Mutation(action, {b.id}, Missing, Missing, cached[page.day]))
  /\ Patch(IF cached[page.day] = Missing THEN Missing
           ELSE Transitioned(cached[page.day], b.id, action))
  /\ CancelFetch
  /\ UNCHANGED <<held, page>>

(* "Check in all" of one time, and the batch no-show of the filtered sheet:    *)
(* one request per booking, nothing changed until all have settled.            *)
ReservedAt(t) == {b \in OnSheet(Shown) : b.status = "reserved" /\ b.time = t}
AtRisk == {b \in OnSheet(Shown) : NextAction(b, Late) = "at_risk" /\ CanQuickAction(b, "no_show")}
Batch(r, kind, bookings) ==
  /\ Unasked(r) /\ Shown # Missing /\ bookings # {}
  /\ \A q \in Requests : asked[q] # Missing => asked[q].kind # kind
  /\ Send(r, Mutation(kind, {b.id : b \in bookings}, Missing, Missing, Missing))
  /\ UNCHANGED <<held, cached, page, fetch>>
CheckInAll(r, t) == Batch(r, "check_in_all", ReservedAt(t))
BatchNoShow(r) == Batch(r, "no_show_all", AtRisk)

(* The finance buttons: the payment status changes on the server only.         *)
FinanceAction(r, b, action) ==
  /\ Unasked(r) /\ Shown # Missing /\ b \in OnSheet(Shown) /\ CanFinance(b, action)
  /\ Send(r, Mutation(action, {b.id}, Missing, Missing, Missing))
  /\ UNCHANGED <<held, cached, page, fetch>>

-----------------------------------------------------------------------------
(* The server does what is asked or refuses; what looks refused to the page is *)
(* a decision, an unknown booking, or an answer lost after the deed was done.  *)
NewStatus(kind) == ToStatus(CASE kind = "check_in_all" -> "check_in"
                              [] kind = "no_show_all" -> "no_show" [] OTHER -> kind)
Paid(action) == CASE action = "record_payment" -> "paid" [] action = "post_refund" -> "pending"
                  [] OTHER -> action
Applied(x, m) ==
  CASE m.kind = "move" /\ Splits(x, m.player) ->
         {[x EXCEPT !.players = @ \ {m.player}],
          [x EXCEPT !.id = Append(Append(@, m.player), "split"), !.players = {m.player},
                    !.cell = m.target]}
    [] m.kind = "move" /\ ~Splits(x, m.player) -> {[x EXCEPT !.cell = m.target]}
    [] m.kind \in {"record_payment", "post_refund"} -> {[x EXCEPT !.paid = Paid(m.kind)]}
    [] OTHER -> {[x EXCEPT !.status = NewStatus(m.kind)]}
Allowed(x, m) ==
  CASE m.kind = "move" -> x.status = "reserved"
    [] m.kind \in {"record_payment", "post_refund"} -> CanFinance(x, m.kind)
    [] m.kind = "complete" -> x.status = "checked_in"
    [] OTHER -> x.status = "reserved"
ServeBooking(r, i) ==
  /\ asked[r] # Missing /\ i \in asked[r].open
  /\ \E verdict \in {"allowed", "refused"} :
       /\ asked' = [asked EXCEPT ![r].open = @ \ {i},
                                 ![r].verdict = IF @ = "refused" THEN @ ELSE verdict]
       /\ \/ /\ \E x \in held : /\ x.id = i /\ Allowed(x, asked[r])
                                /\ held' = (held \ {x}) \union Applied(x, asked[r])
          \/ verdict = "refused" /\ UNCHANGED held
  /\ UNCHANGED <<cached, page, fetch, deeds>>

(* The callbacks.  A refused move or action puts its remembered day back; all  *)
(* but a refused move or finance action have the day fetched again.            *)
Refetch == fetch' = [day |-> page.day, step |-> "asked", got |-> Missing]
PutBack(m) == IF m.before = Missing \/ m.verdict = "allowed" THEN cached
              ELSE [cached EXCEPT ![m.key] = m.before]
Settle(r) ==
  /\ asked[r] # Missing /\ asked[r].open = {}
  /\ cached' = PutBack(asked[r])
  /\ IF asked[r].verdict = "allowed"
        \/ asked[r].kind \in Lifecycle \union {"check_in_all", "no_show_all"}
     THEN Refetch ELSE UNCHANGED fetch
  /\ asked' = [asked EXCEPT ![r] = Missing]
  /\ UNCHANGED <<held, page, deeds>>

-----------------------------------------------------------------------------
\* Mutant: the day is not asked for again once it is there.
PollOnce ==
  /\ fetch.step = "none" /\ cached[page.day] = Missing
  /\ Refetch /\ UNCHANGED <<held, cached, page, asked, deeds>>
(* The day's query: on mount, after an invalidation and every thirty seconds.  *)
Poll == fetch.step = "none" /\ Refetch /\ UNCHANGED <<held, cached, page, asked, deeds>>
ServeFetch ==
  /\ fetch.step = "asked"
  /\ fetch' = [fetch EXCEPT !.step = "answered", !.got = Read(fetch.day)]
  /\ UNCHANGED <<held, cached, page, asked, deeds>>
FailFetch ==
  /\ fetch.step = "asked" /\ fetch' = NoFetch
  /\ UNCHANGED <<held, cached, page, asked, deeds>>
(* With the day on the page its neighbours are prefetched.                     *)
DeliverFetch ==
  /\ fetch.step = "answered"
  /\ cached' = [d \in Days |-> IF d = fetch.day THEN fetch.got
                               ELSE IF cached[d] = Missing THEN Read(d) ELSE cached[d]]
  /\ fetch' = NoFetch
  /\ UNCHANGED <<held, page, asked, deeds>>

(* changeSelectedDate: the callbacks of the latest mutations follow.           *)
ChangeDate(d) ==
  /\ d # page.day /\ deeds < MaxDeeds
  /\ page' = [day |-> d, last |-> IF cached[page.day] # Missing THEN page.day ELSE page.last]
  /\ asked' = [r \in Requests |->
                 IF asked[r] # Missing /\ asked[r].latest THEN [asked[r] EXCEPT !.key = d]
                 ELSE asked[r]]
  /\ fetch' = NoFetch /\ deeds' = deeds + 1
  /\ UNCHANGED <<held, cached>>

Staff ==
  \/ \E r \in Requests :
       \/ Shown # Missing /\ \E b \in OnSheet(Shown) :
            \/ \E p \in b.players \union {Missing}, t \in Cells : DropOn(r, b, p, t)
            \/ \E a \in Lifecycle : QuickAction(r, b, a)
            \/ \E a \in {"record_payment", "post_refund"} : FinanceAction(r, b, a)
       \/ \E c \in Cells : CheckInAll(r, TimeOf[c])
       \/ BatchNoShow(r)
  \/ \E d \in Days : ChangeDate(d)
Replies ==
  \E r \in Requests :
    \/ Settle(r)
    \/ asked[r] # Missing /\ \E i \in asked[r].open : ServeBooking(r, i)
Query == Poll \/ ServeFetch \/ FailFetch \/ DeliverFetch
SheetNext == Staff \/ Replies \/ Query
SheetFairness == WF_sheetVars(Replies) /\ WF_sheetVars(Poll \/ DeliverFetch)
                 /\ SF_sheetVars(ServeFetch)
SheetSpec == SheetInit /\ [][SheetNext]_sheetVars /\ SheetFairness

-----------------------------------------------------------------------------
(* Properties *)

Golfers == UNION {b.players : b \in Booked}
\* What ids are made of: a player who was split off is part of the new booking's id.
Names == {b.id[1] : b \in Booked} \union Golfers \union {"split"}
Playing(b) ==
  /\ b.players \subseteq Golfers /\ b.players # {} /\ b.paid \in PaidMarks
  /\ b.status \in {"reserved", "checked_in"} \union {ToStatus(a) : a \in Lifecycle}
DayTyped(day) ==
  /\ day.date \in Days
  /\ \A c \in Cells : \A b \in day.cells[c] :
       b.id \in Seq(Names) /\ Playing(b)
       /\ \E k \in Cells : b.lane = LaneOf[k] /\ b.time = TimeOf[k]
RequestTyped(m) ==
  /\ m.kind \in Lifecycle \union {"move", "check_in_all", "no_show_all", "record_payment",
                                  "post_refund"}
  /\ m.player \in Golfers \union {Missing} /\ m.target \in Cells \union {Missing}
  /\ m.ids \subseteq Seq(Names) /\ m.open \subseteq m.ids /\ m.key \in Days
  /\ m.latest \in BOOLEAN /\ m.verdict \in {"none", "allowed", "refused"}
  /\ m.before # Missing => DayTyped(m.before)
SheetTypeOK ==
  /\ page \in [day : Days, last : Days] /\ deeds \in 0..MaxDeeds
  /\ \A x \in held : x.id \in Seq(Names) /\ Playing(x) /\ x.day \in Days /\ x.cell \in Cells
  /\ DOMAIN cached = Days /\ \A d \in Days : cached[d] # Missing => DayTyped(cached[d])
  /\ DOMAIN asked = Requests
  /\ \A r \in Requests : asked[r] # Missing => RequestTyped(asked[r])
  /\ fetch.step \in {"none", "asked", "answered"} /\ fetch.day \in Days \union {Missing}
  /\ fetch.got # Missing => DayTyped(fetch.got)

(* Whatever overlapped and whatever was refused, no player of a day is on its *)
(* sheet twice: the page's own changes take a player off one slot when they   *)
(* put the player on another.                                                 *)
NobodyTwice ==
  \A d \in Days : cached[d] # Missing =>
    \A c1, c2 \in Cells : \A b1 \in cached[d].cells[c1], b2 \in cached[d].cells[c2] :
      b1.players \intersect b2.players # {} => SameSlot(c1, c2) /\ b1.id = b2.id

(* Once the staff stop, the sheet shows what the server has: a day put back   *)
(* under the wrong date or over another's change does not stay.               *)
SheetCatchesUp == <>[](Shown = Read(page.day))
=============================================================================
