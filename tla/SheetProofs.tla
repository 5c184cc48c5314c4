------------------------------- MODULE SheetProofs ------------------------------
(***************************************************************************)
(* Proofs about the tee sheet pages: the cached days of the live sheet,    *)
(* the drawer over it, the panels of the phase 10 page and its swaps of    *)
(* two players. The parts share no state: a section states one part's      *)
(* invariant, the lemmas of its actions and its theorems.                  *)
(***************************************************************************)
EXTENDS SheetDay, SheetDrawer, TeeSheetPage, ParticipantSwap, FiniteSetTheorems, SequenceTheorems,
        TLAPS

-----------------------------------------------------------------------------
(***************************************************************************)
(* SheetDay: every copy of a day there is was read or made of one.         *)
(***************************************************************************)

\* The id of a player who was split off tells the player: the server appends the player
\* and a mark, the page the player only.
IdFits(b) ==
  /\ b.id \in Seq(Names) /\ b.players \subseteq Names
  /\ Len(b.id) = 1 \/ (Len(b.id) \in {2, 3} /\ b.players = {b.id[2]})

\* The server's bookings: an id is one booking's, a player plays once a day, and who was
\* split off a booking plays on its day.
HeldFine ==
  \A x \in held :
    /\ x = [id |-> x.id, day |-> x.day, cell |-> x.cell, paid |-> x.paid,
            players |-> x.players, status |-> x.status]
    /\ x.cell \in Cells /\ IdFits(x)
    /\ \A y \in held :
         /\ x.id = y.id \/ (x.day = y.day /\ x.players \intersect y.players # {}) => x = y
         /\ Len(x.id) = 1 /\ Len(y.id) = 3 /\ x.id[1] = y.id[1] => x.day = y.day

\* A day of the cache: what has one id is one party in one slot, and who is in two
\* bookings is in two copies of one.
Card(b) == b = [id |-> b.id, paid |-> b.paid, players |-> b.players, status |-> b.status,
                lane |-> b.lane, time |-> b.time]
Apart(b1, c1, b2, c2) ==
  /\ b1.id = b2.id => b1.players = b2.players /\ SameSlot(c1, c2)
  /\ b1.players \intersect b2.players # {} => b1.id = b2.id
DayFine(day) ==
  /\ day = [date |-> day.date, cells |-> day.cells]
  /\ day.cells = [c \in Cells |-> day.cells[c]]
  /\ \A c1 \in Cells : \A b1 \in day.cells[c1] :
       /\ Card(b1) /\ IdFits(b1)
       /\ \A c2 \in Cells : \A b2 \in day.cells[c2] : Apart(b1, c1, b2, c2)
FineOrMissing(day) == day # Missing => DayFine(day)

\* A request remembers a day that was fine, and moves to a cell of the sheet.
RequestFine(m) ==
  /\ m = [player |-> m.player, kind |-> m.kind, target |-> m.target, before |-> m.before,
          ids |-> m.ids, open |-> m.open, key |-> m.key, latest |-> m.latest,
          verdict |-> m.verdict]
  /\ FineOrMissing(m.before)
  /\ m.kind = "move" => m.target \in Cells
AskedFine ==
  /\ asked = [r \in Requests |-> asked[r]]
  /\ \A r \in Requests : asked[r] # Missing => RequestFine(asked[r])
CachedFine == cached = [d \in Days |-> cached[d]] /\ \A d \in Days : FineOrMissing(cached[d])
FetchFine ==
  /\ fetch = [day |-> fetch.day, step |-> fetch.step, got |-> fetch.got]
  /\ fetch.step = "answered" => DayFine(fetch.got)

\* The invariant: every day there is a copy of, shown, remembered or on its way, is fine.
SheetInv == HeldFine /\ AskedFine /\ CachedFine /\ FetchFine /\ page.day \in Days

\* Ids of players split off are new ones.
LEMMA SplitIds ==
  ASSUME NEW b, IdFits(b), NEW p, Splits(b, p)
  PROVE  /\ Len(b.id) = 1 /\ p \in Names
         /\ Append(b.id, p) \in Seq(Names) /\ Len(Append(b.id, p)) = 2
         /\ Append(b.id, p)[2] = p
         /\ Append(Append(b.id, p), "split") \in Seq(Names)
         /\ Len(Append(Append(b.id, p), "split")) = 3
         /\ Append(Append(b.id, p), "split")[2] = p
         /\ Append(Append(b.id, p), "split")[1] = b.id[1]
<1>1. "split" \in Names
  <2>1. \A S, T : "split" \in S \union T \union {"split"} OBVIOUS
  <2> QED BY <2>1 DEF Names
<1>2. p \in Names /\ b.id \in Seq(Names) /\ Len(b.id) = 1 BY DEF IdFits, Splits
<1> HIDE DEF Names
<1>3. PICK i : i = Append(b.id, p) OBVIOUS
<1>4. i \in Seq(Names) /\ Len(i) = 2 /\ i[2] = p /\ i[1] = b.id[1] BY <1>2, <1>3, AppendProperties
<1>5. PICK s, j : s = "split" /\ j = Append(i, s) OBVIOUS
<1>6. j \in Seq(Names) /\ Len(j) = 3 /\ j[2] = p /\ j[1] = b.id[1]
  <2>1. /\ j \in Seq(Names) /\ Len(j) = Len(i) + 1
        /\ \A k \in 1..Len(i) : j[k] = i[k]
    <3>1. s \in Names BY <1>1, <1>5
    <3>2. i \in Seq(Names) BY <1>4
    <3>3. j = Append(i, s) BY <1>5
    <3> QED BY <3>1, <3>2, <3>3, AppendProperties
  <2> QED BY <1>4, <2>1
<1> QED BY <1>2, <1>3, <1>4, <1>5, <1>6

\* The read model shows each booking in its cell.
LEMMA ReadFine == ASSUME HeldFine, NEW d PROVE DayFine(Read(d))
<1> DEFINE Shows(x, c) ==
             [id |-> x.id, paid |-> x.paid, players |-> x.players, status |-> x.status,
              lane |-> LaneOf[c], time |-> TimeOf[c]]
           cells == [c \in Cells |->
             {Shows(x, c) : x \in {y \in held : y.day = d /\ y.cell = c /\ OnTheSheet(y)}}]
<1>1. Read(d) = [date |-> d, cells |-> cells] BY DEF Read
<1>2. \A c \in Cells : \A b \in cells[c] :
        \E x \in held : x.day = d /\ x.cell = c /\ b = Shows(x, c)
  OBVIOUS
<1>3. Read(d).cells = cells /\ Read(d).date = d BY <1>1
<1> HIDE DEF cells
<1>4. ASSUME NEW c1 \in Cells, NEW b1 \in cells[c1]
      PROVE  /\ Card(b1) /\ IdFits(b1)
             /\ \A c2 \in Cells : \A b2 \in cells[c2] : Apart(b1, c1, b2, c2)
  <2>1. PICK x \in held : x.day = d /\ x.cell = c1 /\ b1 = Shows(x, c1) BY <1>2
  <2>2. b1.id = x.id /\ b1.players = x.players /\ Card(b1) BY <2>1 DEF Card
  <2>3. IdFits(b1) BY <2>2 DEF HeldFine, IdFits
  <2>4. ASSUME NEW c2 \in Cells, NEW b2 \in cells[c2] PROVE Apart(b1, c1, b2, c2)
    <3>1. PICK y \in held : y.day = d /\ y.cell = c2 /\ b2 = Shows(y, c2) BY <1>2
    <3>2. b2.id = y.id /\ b2.players = y.players BY <3>1
    <3>3. x.id = y.id \/ x.players \intersect y.players # {} => x = y
      BY <2>1, <3>1 DEF HeldFine
    <3> QED BY <2>1, <2>2, <3>1, <3>2, <3>3 DEF Apart, SameSlot
  <2> QED BY <2>2, <2>3, <2>4
<1>5. cells = [c \in Cells |-> cells[c]] BY DEF cells
<1> QED BY <1>1, <1>3, <1>4, <1>5 DEF DayFine

\* A quick action changes statuses only.
LEMMA TransitionedFine ==
  ASSUME NEW day, DayFine(day), NEW id, NEW action
  PROVE  DayFine(Transitioned(day, id, action))
<1> DEFINE Acted(b) == IF b.id = id /\ CanQuickAction(b, action)
                       THEN [b EXCEPT !.status = ToStatus(action)] ELSE b
           cells == [c \in Cells |-> {Acted(b) : b \in day.cells[c]}]
           new == Transitioned(day, id, action)
<1>1. new = [day EXCEPT !.cells = cells] BY DEF Transitioned
<1>2. new = [date |-> day.date, cells |-> cells] BY <1>1 DEF DayFine
<1>3. \A c \in Cells : \A b \in cells[c] : \E a \in day.cells[c] : b = Acted(a) OBVIOUS
<1>4. \A b : Card(b) => /\ Card(Acted(b)) /\ Acted(b).id = b.id /\ Acted(b).players = b.players
  BY DEF Card
<1>5. new.cells = cells /\ new.date = day.date BY <1>2
<1>6. cells = [c \in Cells |-> cells[c]] OBVIOUS
<1> HIDE DEF cells, Acted, new
<1>7. ASSUME NEW c1 \in Cells, NEW b1 \in cells[c1]
      PROVE  /\ Card(b1) /\ IdFits(b1)
             /\ \A c2 \in Cells : \A b2 \in cells[c2] : Apart(b1, c1, b2, c2)
  <2>1. PICK a1 \in day.cells[c1] : b1 = Acted(a1) BY <1>3
  <2>2. Card(b1) /\ b1.id = a1.id /\ b1.players = a1.players BY <1>4, <2>1 DEF DayFine
  <2>3. IdFits(b1) BY <2>2 DEF DayFine, IdFits
  <2>4. ASSUME NEW c2 \in Cells, NEW b2 \in cells[c2] PROVE Apart(b1, c1, b2, c2)
    <3>1. PICK a2 \in day.cells[c2] : b2 = Acted(a2) BY <1>3
    <3>2. b2.id = a2.id /\ b2.players = a2.players BY <1>4, <3>1 DEF DayFine
    <3>3. Apart(a1, c1, a2, c2) BY DEF DayFine
    <3> QED BY <2>2, <3>2, <3>3 DEF Apart
  <2> QED BY <2>2, <2>3, <2>4
<1> QED BY <1>2, <1>5, <1>6, <1>7 DEF DayFine, new

\* A drop takes the player, or the party, off every cell before it adds them to the target.
LEMMA MovedFine ==
  ASSUME NEW day, DayFine(day), NEW b \in OnSheet(day), NEW p, NEW target \in Cells
  PROVE  DayFine(Moved(day, b, p, target))
<1> DEFINE landed == Landed(b, p, target)
           Stays(x, c) == x \in day.cells[c] /\ x.id # b.id
           Leaves(x, c) == x \in Left(b, p) /\ \E y \in day.cells[c] : y.id = b.id
           Lands(x, c) == x = landed /\ SameSlot(c, target)
           new == Moved(day, b, p, target)
           cells == new.cells
<1>1. /\ new = [date |-> day.date, cells |-> cells] /\ cells = [c \in Cells |-> cells[c]]
      /\ \A c \in Cells : \A x \in cells[c] : Stays(x, c) \/ Leaves(x, c) \/ Lands(x, c)
  <2> DEFINE moved == [c \in Cells |->
        {x \in day.cells[c] : x.id # b.id}
        \union (IF \E x \in day.cells[c] : x.id = b.id THEN Left(b, p) ELSE {})
        \union (IF SameSlot(c, target) THEN {Landed(b, p, target)} ELSE {})]
  <2>1. new = [day EXCEPT !.cells = moved] BY DEF Moved
  <2>2. \A c \in Cells : \A x \in moved[c] : Stays(x, c) \/ Leaves(x, c) \/ Lands(x, c)
    OBVIOUS
  <2>3. moved = [c \in Cells |-> moved[c]] OBVIOUS
  <2> HIDE DEF moved
  <2>4. new = [date |-> day.date, cells |-> moved] BY <2>1 DEF DayFine
  <2> QED BY <2>2, <2>3, <2>4
<1>2. PICK cb \in Cells : b \in day.cells[cb]
  <2>1. PICK s \in {day.cells[c] : c \in Cells} : b \in s BY DEF OnSheet
  <2> QED BY <2>1
<1>3. Card(b) /\ IdFits(b) BY <1>2 DEF DayFine
<1>4. /\ Card(landed) /\ IdFits(landed) /\ landed.players \subseteq b.players
      /\ Splits(b, p) => landed.id = Append(b.id, p) /\ landed.players = {p} /\ p \in b.players
      /\ ~Splits(b, p) => landed.id = b.id /\ landed.players = b.players
  <2>1. CASE Splits(b, p)
    <3>1. landed = [b EXCEPT !.id = Append(b.id, p), !.players = {p},
                             !.lane = LaneOf[target], !.time = TimeOf[target]]
      BY <2>1 DEF Landed
    <3>2. landed = [id |-> Append(b.id, p), paid |-> b.paid, players |-> {p},
                    status |-> b.status, lane |-> LaneOf[target], time |-> TimeOf[target]]
      BY <1>3, <3>1 DEF Card
    <3> QED BY <1>3, <2>1, <3>2, SplitIds DEF Card, IdFits, Splits
  <2>2. CASE ~Splits(b, p)
    <3>1. landed = [b EXCEPT !.lane = LaneOf[target], !.time = TimeOf[target]]
      BY <2>2 DEF Landed
    <3>2. landed = [id |-> b.id, paid |-> b.paid, players |-> b.players,
                    status |-> b.status, lane |-> LaneOf[target], time |-> TimeOf[target]]
      BY <1>3, <3>1 DEF Card
    <3> QED BY <1>3, <2>2, <3>2 DEF Card, IdFits
  <2> QED BY <2>1, <2>2
<1>5. \A x \in Left(b, p) : /\ Card(x) /\ x.id = b.id /\ x.players = b.players \ {p}
                            /\ Splits(b, p) /\ IdFits(x)
  <2> SUFFICES ASSUME NEW x \in Left(b, p)
               PROVE  /\ Card(x) /\ x.id = b.id /\ x.players = b.players \ {p}
                      /\ Splits(b, p) /\ IdFits(x)
    OBVIOUS
  <2>1. Splits(b, p) /\ x = [b EXCEPT !.players = b.players \ {p}] BY DEF Left
  <2>2. x = [id |-> b.id, paid |-> b.paid, players |-> b.players \ {p},
             status |-> b.status, lane |-> b.lane, time |-> b.time]
    BY <1>3, <2>1 DEF Card
  <2>3. Len(b.id) = 1 BY <1>3, <2>1, SplitIds
  <2> QED BY <1>3, <2>1, <2>2, <2>3 DEF Card, IdFits
<1>6. ASSUME NEW c \in Cells, NEW x, Stays(x, c)
      PROVE  /\ Card(x) /\ IdFits(x)
             /\ x.players \intersect b.players = {}
             /\ x.id # b.id /\ x.id # landed.id
  <2>1. Card(x) /\ IdFits(x) /\ Apart(x, c, b, cb) BY <1>2, <1>6 DEF DayFine
  <2>2. x.players \intersect b.players = {} /\ x.id # b.id BY <1>6, <2>1 DEF Apart
  <2>3. ASSUME Splits(b, p), x.id = Append(b.id, p) PROVE FALSE
    <3>1. Len(x.id) = 2 /\ x.id[2] = p BY <1>3, <2>3, SplitIds
    <3>2. x.players = {p} BY <2>1, <3>1 DEF IdFits
    <3> QED BY <2>2, <2>3, <3>2 DEF Splits
  <2> QED BY <1>4, <2>1, <2>2, <2>3
<1>7. Splits(b, p) => landed.id # b.id BY <1>3, <1>4, SplitIds
<1>8. \A c, d \in Cells : SameSlot(c, d) <=> SameSlot(d, c) BY DEF SameSlot
<1>9. \A c, d, e \in Cells : SameSlot(c, d) /\ SameSlot(e, d) => SameSlot(c, e)
  BY DEF SameSlot
<1>10. \A c, d \in Cells :
         (\E y \in day.cells[c] : y.id = b.id) /\ (\E y \in day.cells[d] : y.id = b.id)
         => SameSlot(c, d)
  BY DEF DayFine, Apart
<1> HIDE DEF landed, Stays, Leaves, Lands, new, cells
<1>11. ASSUME NEW c1 \in Cells, NEW x1 \in cells[c1], NEW c2 \in Cells, NEW x2 \in cells[c2]
       PROVE  Apart(x1, c1, x2, c2)
  <2>1. CASE Stays(x1, c1) /\ Stays(x2, c2) BY <2>1 DEF Stays, DayFine
  <2>2. CASE Stays(x1, c1) /\ (Leaves(x2, c2) \/ Lands(x2, c2))
    BY <2>2, <1>4, <1>5, <1>6 DEF Leaves, Lands, Apart
  <2>3. CASE Stays(x2, c2) /\ (Leaves(x1, c1) \/ Lands(x1, c1))
    BY <2>3, <1>4, <1>5, <1>6 DEF Leaves, Lands, Apart
  <2>4. CASE Leaves(x1, c1) /\ Leaves(x2, c2)
    BY <2>4, <1>5, <1>10 DEF Leaves, Apart
  <2>5. CASE Leaves(x1, c1) /\ Lands(x2, c2)
    BY <2>5, <1>4, <1>5, <1>7 DEF Leaves, Lands, Apart
  <2>6. CASE Lands(x1, c1) /\ Leaves(x2, c2)
    BY <2>6, <1>4, <1>5, <1>7 DEF Leaves, Lands, Apart
  <2>7. CASE Lands(x1, c1) /\ Lands(x2, c2)
    BY <2>7, <1>9 DEF Lands, Apart
  <2> QED BY <1>1, <2>1, <2>2, <2>3, <2>4, <2>5, <2>6, <2>7
<1>12. ASSUME NEW c \in Cells, NEW x \in cells[c] PROVE Card(x) /\ IdFits(x)
  BY <1>1, <1>4, <1>5, <1>6 DEF Leaves, Lands
<1> QED BY <1>1, <1>11, <1>12 DEF DayFine, cells, new

LEMMA SheetInitInv == ASSUME SheetInit PROVE SheetInv
<1> DEFINE Book(b) == [id |-> b.id, day |-> b.day, cell |-> b.cell, paid |-> b.paid,
                       players |-> b.players, status |-> "reserved"]
<1>1. held = {Book(b) : b \in Booked} BY DEF SheetInit
<1>2. ASSUME NEW b \in Booked
      PROVE  Book(b).cell \in Cells /\ IdFits(Book(b)) /\ Len(Book(b).id) = 1
  <2>1. b.id[1] \in Names /\ b.players \subseteq Names
    <3>1. \A A, B, S : b.id[1] \in A => b.id[1] \in A \union B \union S OBVIOUS
    <3>2. \A A, B, S : b.players \subseteq B => b.players \subseteq A \union B \union S OBVIOUS
    <3>3. b.players \subseteq Golfers BY DEF Golfers
    <3>4. b.id[1] \in {c.id[1] : c \in Booked} OBVIOUS
    <3> QED BY <3>1, <3>2, <3>3, <3>4 DEF Names
  <2>2. b.id = <<b.id[1]>> /\ b.cell \in Cells BY SheetAssumption
  <2> HIDE DEF Names
  <2>3. PICK n : n = b.id[1] OBVIOUS
  <2>4. <<n>> \in Seq(Names) /\ Len(<<n>>) = 1 BY <2>1, <2>3
  <2> QED BY <2>1, <2>2, <2>3, <2>4 DEF IdFits
<1>3. ASSUME NEW b \in Booked, NEW c \in Booked,
             \/ Book(b).id = Book(c).id
             \/ Book(b).day = Book(c).day /\ Book(b).players \intersect Book(c).players # {}
      PROVE  Book(b) = Book(c)
  BY <1>3, SheetAssumption
<1>4. HeldFine
  <2>1. ASSUME NEW x \in held PROVE IdFits(x) /\ Len(x.id) = 1 /\ x.cell \in Cells
    BY <1>1, <1>2, <2>1
  <2>2. ASSUME NEW x \in held, NEW y \in held,
               x.id = y.id \/ (x.day = y.day /\ x.players \intersect y.players # {})
        PROVE  x = y
    <3>1. PICK b \in Booked : x = Book(b) BY <1>1
    <3>2. PICK c \in Booked : y = Book(c) BY <1>1
    <3> HIDE DEF Book
    <3> QED BY <1>3, <2>2, <3>1, <3>2
  <2>3. ASSUME NEW x \in held
        PROVE  x = [id |-> x.id, day |-> x.day, cell |-> x.cell, paid |-> x.paid,
                    players |-> x.players, status |-> x.status]
    BY <1>1
  <2> QED BY <2>1, <2>2, <2>3 DEF HeldFine
<1>5. CachedFine
  <2>1. cached = [d \in Days |-> IF d = page.day THEN Read(d) ELSE Missing] BY DEF SheetInit
  <2> QED BY <1>4, <2>1, ReadFine DEF CachedFine, FineOrMissing
<1>6. AskedFine BY DEF SheetInit, AskedFine
<1>7. FetchFine BY DEF SheetInit, NoFetch, FetchFine
<1> QED BY <1>4, <1>5, <1>6, <1>7 DEF SheetInit, SheetInv

\* A request with other fields than what it remembers and where it moves to.
LEMMA ChangedFine ==
  ASSUME NEW m, RequestFine(m), NEW v, NEW w
  PROVE  /\ RequestFine([m EXCEPT !.open = v, !.verdict = w])
         /\ RequestFine([m EXCEPT !.key = v])
         /\ RequestFine([m EXCEPT !.latest = v])
<1>1. m = [player |-> m.player, kind |-> m.kind, target |-> m.target, before |-> m.before,
           ids |-> m.ids, open |-> m.open, key |-> m.key, latest |-> m.latest,
           verdict |-> m.verdict]
  BY DEF RequestFine
<1>2. RequestFine([m EXCEPT !.open = v, !.verdict = w])
  <2>1. [m EXCEPT !.open = v, !.verdict = w] =
          [player |-> m.player, kind |-> m.kind, target |-> m.target, before |-> m.before,
           ids |-> m.ids, open |-> v, key |-> m.key, latest |-> m.latest, verdict |-> w]
    <3>1. PICK n : n = [m EXCEPT !.open = v] OBVIOUS
    <3>2. n = [player |-> m.player, kind |-> m.kind, target |-> m.target, before |-> m.before,
               ids |-> m.ids, open |-> v, key |-> m.key, latest |-> m.latest,
               verdict |-> m.verdict]
      BY <1>1, <3>1
    <3>3. [m EXCEPT !.open = v, !.verdict = w] = [n EXCEPT !.verdict = w] BY <3>1
    <3> QED BY <3>2, <3>3
  <2> QED BY <2>1 DEF RequestFine
<1>3. RequestFine([m EXCEPT !.key = v])
  <2>1. [m EXCEPT !.key = v] =
          [player |-> m.player, kind |-> m.kind, target |-> m.target, before |-> m.before,
           ids |-> m.ids, open |-> m.open, key |-> v, latest |-> m.latest,
           verdict |-> m.verdict]
    BY <1>1
  <2> QED BY <2>1 DEF RequestFine
<1>4. RequestFine([m EXCEPT !.latest = v])
  <2>1. [m EXCEPT !.latest = v] =
          [player |-> m.player, kind |-> m.kind, target |-> m.target, before |-> m.before,
           ids |-> m.ids, open |-> m.open, key |-> m.key, latest |-> v,
           verdict |-> m.verdict]
    BY <1>1
  <2> QED BY <2>1 DEF RequestFine
<1> QED BY <1>2, <1>3, <1>4

\* Whatever is sent, the requests stay fine if the new one is.
LEMMA SendFine ==
  ASSUME AskedFine, NEW r \in Requests, NEW m, RequestFine(m), Send(r, m)
  PROVE  AskedFine'
<1>1. ASSUME NEW q \in Requests, asked[q] # Missing
      PROVE  RequestFine([asked[q] EXCEPT !.latest = FALSE])
  BY <1>1, ChangedFine DEF AskedFine
<1>2. asked' = [q \in Requests |->
                 IF q = r THEN m
                 ELSE IF asked[q] # Missing /\ asked[q].kind = m.kind
                      THEN [asked[q] EXCEPT !.latest = FALSE] ELSE asked[q]]
  BY DEF Send
<1>3. \A q \in Requests : asked'[q] # Missing => RequestFine(asked'[q])
  BY <1>1, <1>2 DEF AskedFine
<1>4. asked' = [q \in Requests |-> asked'[q]] BY <1>2
<1>5. \A q \in Requests : asked'[q] # Missing => RequestFine(asked[q])'
  BY <1>3 DEF RequestFine, FineOrMissing, DayFine, Card, IdFits, Apart
<1> QED BY <1>4, <1>5 DEF AskedFine

LEMMA MutationFine ==
  ASSUME NEW kind, NEW bookings, NEW p, NEW target, NEW before, FineOrMissing(before),
         kind = "move" => target \in Cells
  PROVE  RequestFine(Mutation(kind, bookings, p, target, before))
BY DEF Mutation, RequestFine

\* A day put into the cache leaves it fine.
LEMMA PutFine ==
  ASSUME CachedFine, NEW d, NEW new, FineOrMissing(new),
         cached' \in {cached, [cached EXCEPT ![d] = new]}
  PROVE  CachedFine'
<1>1. \A e \in Days : cached'[e] = new \/ cached'[e] = cached[e] BY DEF CachedFine
<1>2. cached' = [e \in Days |-> cached'[e]] BY DEF CachedFine
<1>3. \A e \in Days : FineOrMissing(cached[e])'
  BY <1>1 DEF CachedFine, FineOrMissing, DayFine, Card, IdFits, Apart
<1> QED BY <1>2, <1>3 DEF CachedFine

LEMMA CancelFine == ASSUME FetchFine, CancelFetch PROVE FetchFine'
BY DEF FetchFine, CancelFetch, NoFetch, DayFine, Card, IdFits, Apart

LEMMA SameFine ==
  /\ HeldFine /\ held' = held => HeldFine'
  /\ AskedFine /\ asked' = asked => AskedFine'
  /\ CachedFine /\ cached' = cached => CachedFine'
  /\ FetchFine /\ fetch' = fetch => FetchFine'
<1>1. HeldFine /\ held' = held => HeldFine' BY DEF HeldFine, IdFits
<1>2. AskedFine /\ asked' = asked => AskedFine' BY DEF AskedFine
<1>3. CachedFine /\ cached' = cached => CachedFine' BY DEF CachedFine
<1>4. FetchFine /\ fetch' = fetch => FetchFine' BY DEF FetchFine
<1> QED BY <1>1, <1>2, <1>3, <1>4

LEMMA DropInv ==
  ASSUME SheetInv, NEW r \in Requests, NEW b, NEW p, NEW target \in Cells, DropOn(r, b, p, target)
  PROVE  SheetInv'
<1> DEFINE day == cached[page.day]
           known == IF day = Missing THEN {} ELSE {x \in OnSheet(day) : x.id = b.id}
<1>1. FineOrMissing(day) BY DEF SheetInv, CachedFine
<1>2. CachedFine'
  <2>1. CASE known = {}
    <3>1. cached' = cached BY <2>1 DEF DropOn
    <3> QED BY <3>1, SameFine DEF SheetInv
  <2>2. CASE known # {}
    <3>1. PICK x : x \in known /\ x = (CHOOSE y \in known : TRUE) BY <2>2
    <3>2. Patch(Moved(day, x, p, target)) BY <2>2, <3>1 DEF DropOn
    <3>3. day # Missing /\ x \in OnSheet(day) BY <3>1
    <3>4. FineOrMissing(Moved(day, x, p, target))
      BY <1>1, <3>3, MovedFine DEF FineOrMissing
    <3> QED BY <3>2, <3>4, PutFine DEF SheetInv, Patch
  <2> QED BY <2>1, <2>2
<1>3. AskedFine'
  <2>1. RequestFine(Mutation("move", {b.id}, p, target, day)) BY <1>1, MutationFine
  <2> QED BY <2>1, SendFine DEF DropOn, SheetInv
<1>4. FetchFine' /\ HeldFine' BY CancelFine, SameFine DEF DropOn, SheetInv
<1> QED BY <1>2, <1>3, <1>4 DEF DropOn, SheetInv

LEMMA ActionInv ==
  ASSUME SheetInv, NEW r \in Requests, NEW b, NEW action \in Lifecycle, QuickAction(r, b, action)
  PROVE  SheetInv'
<1> DEFINE day == cached[page.day]
           new == IF day = Missing THEN Missing ELSE Transitioned(day, b.id, action)
<1>1. FineOrMissing(day) BY DEF SheetInv, CachedFine
<1>2. CachedFine'
  <2>1. FineOrMissing(new) BY <1>1, TransitionedFine DEF FineOrMissing
  <2>2. Patch(new) BY DEF QuickAction
  <2> HIDE DEF new
  <2> QED BY <2>1, <2>2, PutFine DEF SheetInv, Patch
<1>3. AskedFine'
  <2>1. action # "move" BY DEF Lifecycle
  <2>2. RequestFine(Mutation(action, {b.id}, Missing, Missing, day)) BY <1>1, <2>1, MutationFine
  <2> QED BY <2>2, SendFine DEF QuickAction, SheetInv
<1>4. FetchFine' /\ HeldFine' BY CancelFine, SameFine DEF QuickAction, SheetInv
<1> QED BY <1>2, <1>3, <1>4 DEF QuickAction, SheetInv

\* What changes nothing before it is answered.
LEMMA OthersInv ==
  ASSUME SheetInv, NEW r \in Requests,
         \/ \E c \in Cells : CheckInAll(r, TimeOf[c])
         \/ BatchNoShow(r)
         \/ \E b \in OnSheet(Shown) :
              \E a \in {"record_payment", "post_refund"} : FinanceAction(r, b, a)
  PROVE  SheetInv'
<1>1. PICK kind \in {"check_in_all", "no_show_all", "record_payment", "post_refund"} :
        \E ids : /\ Send(r, Mutation(kind, ids, Missing, Missing, Missing))
                 /\ UNCHANGED <<held, cached, page, fetch>>
  BY DEF CheckInAll, BatchNoShow, Batch, FinanceAction
<1>2. PICK ids : /\ Send(r, Mutation(kind, ids, Missing, Missing, Missing))
                 /\ UNCHANGED <<held, cached, page, fetch>>
  BY <1>1
<1>3. FineOrMissing(Missing) BY DEF FineOrMissing
<1>4. RequestFine(Mutation(kind, ids, Missing, Missing, Missing)) BY <1>3, MutationFine
<1>5. AskedFine' BY <1>2, <1>4, SendFine DEF SheetInv
<1> QED BY <1>2, <1>5, SameFine DEF SheetInv

\* What the server makes of a booking keeps its day, and ids and players apart.
LEMMA AppliedFine ==
  ASSUME HeldFine, NEW x \in held, NEW m, m.kind = "move" => m.target \in Cells,
         held' = (held \ {x}) \union Applied(x, m)
  PROVE  HeldFine'
<1> DEFINE Booking(y) == y = [id |-> y.id, day |-> y.day, cell |-> y.cell, paid |-> y.paid,
                              players |-> y.players, status |-> y.status]
           \* y and z may both be there.
           Together(y, z) ==
             /\ y.id # z.id /\ (y.day = z.day => y.players \intersect z.players = {})
             /\ Len(y.id) = 1 /\ Len(z.id) = 3 /\ y.id[1] = z.id[1] => y.day = z.day
             /\ Len(z.id) = 1 /\ Len(y.id) = 3 /\ y.id[1] = z.id[1] => y.day = z.day
           Fits(z) == Booking(z) /\ z.cell \in Cells /\ IdFits(z)
<1>1. Fits(x) /\ \A y \in held \ {x} : Fits(y) /\ Together(x, y) BY DEF HeldFine
<1>0. Booking(x) BY <1>1
<1>2. ASSUME NEW A, A = Applied(x, m), \A z \in A : Fits(z) /\ \A y \in held \ {x} : Together(z, y),
             \A y, z \in A : y = z \/ Together(y, z)
      PROVE  HeldFine'
  <2>1. \A y, z \in held \ {x} : y = z \/ Together(y, z) BY DEF HeldFine
  <2>2. held' = (held \ {x}) \union A BY <1>2
  <2>3. \A z \in held' : Fits(z) BY <1>1, <1>2, <2>2
  <2>4. \A y, z \in held' : y = z \/ Together(y, z) BY <1>2, <2>1, <2>2
  <2>5. \A y, z \in held' :
          /\ y.id = z.id \/ (y.day = z.day /\ y.players \intersect z.players # {}) => y = z
          /\ Len(y.id) = 1 /\ Len(z.id) = 3 /\ y.id[1] = z.id[1] => y.day = z.day
    BY <2>4
  <2> QED BY <2>3, <2>5 DEF HeldFine, IdFits
\* One booking with its id and day, and no other player.
<1>3. ASSUME NEW z, Applied(x, m) = {z}, Fits(z), z.id = x.id, z.day = x.day,
             z.players = x.players
      PROVE  HeldFine'
  <2>1. \A y \in held \ {x} : Together(z, y) BY <1>1, <1>3
  <2> QED BY <1>2, <1>3, <2>1
<1>4. CASE m.kind = "move" /\ Splits(x, m.player)
  <2> DEFINE p == m.player
             stays == [x EXCEPT !.players = x.players \ {p}]
             goes == [x EXCEPT !.id = Append(Append(x.id, p), "split"), !.players = {p},
                               !.cell = m.target]
  <2>1. Applied(x, m) = {stays, goes} BY <1>4 DEF Applied
  <2>2. stays = [id |-> x.id, day |-> x.day, cell |-> x.cell, paid |-> x.paid,
                 players |-> x.players \ {p}, status |-> x.status]
    BY <1>0
  <2>3. goes = [id |-> Append(Append(x.id, p), "split"), day |-> x.day, cell |-> m.target,
                paid |-> x.paid, players |-> {p}, status |-> x.status]
    <3>1. PICK i : i = Append(Append(x.id, p), "split") OBVIOUS
    <3>2. PICK y, z : y = [x EXCEPT !.id = i] /\ z = [y EXCEPT !.players = {p}] OBVIOUS
    <3>3. y = [id |-> i, day |-> x.day, cell |-> x.cell, paid |-> x.paid,
               players |-> x.players, status |-> x.status]
      BY <1>0, <3>2
    <3>4. z = [id |-> i, day |-> x.day, cell |-> x.cell, paid |-> x.paid,
               players |-> {p}, status |-> x.status]
      BY <3>2, <3>3
    <3>5. goes = [z EXCEPT !.cell = m.target] BY <3>1, <3>2
    <3>6. goes = [id |-> i, day |-> x.day, cell |-> m.target, paid |-> x.paid,
                  players |-> {p}, status |-> x.status]
      BY <3>4, <3>5
    <3> QED BY <3>1, <3>6
  <2>4. Len(x.id) = 1 /\ p \in x.players /\ Len(goes.id) = 3 /\ goes.id[2] = p
        /\ goes.id[1] = x.id[1] /\ goes.id \in Seq(Names) /\ p \in Names
    BY <1>1, <1>4, <2>3, SplitIds DEF Splits
  <2>5. Fits(stays) /\ stays.id = x.id /\ stays.day = x.day
        /\ stays.players = x.players \ {p}
    BY <1>1, <2>2, <2>4 DEF IdFits
  <2>6. Fits(goes) /\ goes.day = x.day /\ goes.players = {p}
    BY <1>1, <1>4, <2>3, <2>4 DEF IdFits
  <2> HIDE DEF stays, goes
  <2>7. ASSUME NEW y \in held \ {x} PROVE Together(stays, y) /\ Together(goes, y)
    <3>1. Together(x, y) /\ IdFits(y) BY <1>1
    <3>2. Together(stays, y) BY <2>5, <3>1
    <3>3. goes.day = y.day => goes.players \intersect y.players = {}
      BY <2>4, <2>6, <3>1
    <3>4. ASSUME goes.id = y.id PROVE FALSE
      <4>1. Len(y.id) = 3 /\ y.id[1] = x.id[1] /\ y.players = {p}
        BY <2>4, <3>1, <3>4 DEF IdFits
      <4>2. x.day = y.day BY <2>4, <3>1, <4>1
      <4> QED BY <2>4, <3>1, <4>1, <4>2
    <3>5. ASSUME Len(y.id) = 1, y.id[1] = x.id[1] PROVE FALSE
      <4>1. y.id \in Seq(Names) /\ x.id \in Seq(Names) BY <1>1, <3>1 DEF IdFits
      <4>2. y.id = x.id BY <2>4, <3>5, <4>1
      <4> QED BY <3>1, <4>2
    <3> QED BY <2>4, <2>6, <3>2, <3>3, <3>4, <3>5
  <2>8. Together(stays, goes) /\ Together(goes, stays) BY <2>4, <2>5, <2>6
  <2> HIDE DEF Together, Fits
  <2> QED BY <1>2, <2>1, <2>5, <2>6, <2>7, <2>8
<1>5. CASE m.kind = "move" /\ ~Splits(x, m.player)
  <2> DEFINE z == [x EXCEPT !.cell = m.target]
  <2>1. Applied(x, m) = {z} BY <1>5 DEF Applied
  <2>2. z = [id |-> x.id, day |-> x.day, cell |-> m.target, paid |-> x.paid,
             players |-> x.players, status |-> x.status]
    BY <1>1
  <2>3. Fits(z) /\ z.id = x.id /\ z.day = x.day /\ z.players = x.players
    BY <1>1, <1>5, <2>2 DEF IdFits
  <2> HIDE DEF z, Fits
  <2> QED BY <1>3, <2>1, <2>3
<1>6. CASE m.kind \in {"record_payment", "post_refund"}
  <2> DEFINE z == [x EXCEPT !.paid = Paid(m.kind)]
  <2>1. Applied(x, m) = {z} BY <1>6 DEF Applied
  <2>2. z = [id |-> x.id, day |-> x.day, cell |-> x.cell, paid |-> Paid(m.kind),
             players |-> x.players, status |-> x.status]
    BY <1>1
  <2>3. Fits(z) /\ z.id = x.id /\ z.day = x.day /\ z.players = x.players
    BY <1>1, <2>2 DEF IdFits
  <2> HIDE DEF z, Fits
  <2> QED BY <1>3, <2>1, <2>3
<1>7. CASE m.kind \notin {"move", "record_payment", "post_refund"}
  <2> DEFINE z == [x EXCEPT !.status = NewStatus(m.kind)]
  <2>1. Applied(x, m) = {z} BY <1>7 DEF Applied
  <2>2. z = [id |-> x.id, day |-> x.day, cell |-> x.cell, paid |-> x.paid,
             players |-> x.players, status |-> NewStatus(m.kind)]
    BY <1>1
  <2>3. Fits(z) /\ z.id = x.id /\ z.day = x.day /\ z.players = x.players
    BY <1>1, <2>2 DEF IdFits
  <2> HIDE DEF z, Fits
  <2> QED BY <1>3, <2>1, <2>3
<1> QED BY <1>4, <1>5, <1>6, <1>7

LEMMA OneAskedFine ==
  ASSUME AskedFine, NEW r \in Requests, NEW m, m # Missing => RequestFine(m),
         asked' = [asked EXCEPT ![r] = m]
  PROVE  AskedFine'
<1>1. asked' = [q \in Requests |-> asked'[q]] BY DEF AskedFine
<1>2. \A q \in Requests : asked'[q] = m \/ asked'[q] = asked[q] BY DEF AskedFine
<1>3. \A q \in Requests : asked'[q] # Missing => RequestFine(asked'[q])
  BY <1>2 DEF AskedFine
<1>4. \A q \in Requests : asked'[q] # Missing => RequestFine(asked[q])'
  BY <1>3 DEF RequestFine, FineOrMissing, DayFine, Card, IdFits, Apart
<1> QED BY <1>1, <1>4 DEF AskedFine

LEMMA ServeBookingInv ==
  ASSUME SheetInv, NEW r \in Requests, asked[r] # Missing, NEW i, ServeBooking(r, i)
  PROVE  SheetInv'
<1>1. PICK verdict \in {"allowed", "refused"} :
        /\ asked' = [asked EXCEPT ![r].open = @ \ {i},
                                  ![r].verdict = IF @ = "refused" THEN @ ELSE verdict]
        /\ \/ \E x \in held : held' = (held \ {x}) \union Applied(x, asked[r])
           \/ held' = held
  BY DEF ServeBooking
<1>2. RequestFine(asked[r]) BY DEF SheetInv, AskedFine
<1>3. HeldFine'
  <2>1. ASSUME NEW x \in held, held' = (held \ {x}) \union Applied(x, asked[r])
        PROVE  HeldFine'
    BY <1>2, <2>1, AppliedFine DEF SheetInv, RequestFine
  <2> QED BY <1>1, <2>1, SameFine DEF SheetInv
<1>4. AskedFine'
  <2>1. PICK v, w : asked' = [asked EXCEPT ![r] = [asked[r] EXCEPT !.open = v, !.verdict = w]]
    BY <1>1 DEF SheetInv, AskedFine
  <2>2. RequestFine([asked[r] EXCEPT !.open = v, !.verdict = w]) BY <1>2, ChangedFine
  <2> QED BY <2>1, <2>2, OneAskedFine DEF SheetInv
<1> QED BY <1>3, <1>4, SameFine DEF ServeBooking, SheetInv

\* What is put back was fine when it was remembered.
LEMMA SettleInv == ASSUME SheetInv, NEW r \in Requests, Settle(r) PROVE SheetInv'
<1>1. FineOrMissing(asked[r].before) BY DEF Settle, SheetInv, AskedFine, RequestFine
<1>2. cached' \in {cached, [cached EXCEPT ![asked[r].key] = asked[r].before]}
  BY DEF Settle, PutBack
<1>3. CachedFine' BY <1>1, <1>2, PutFine DEF SheetInv
<1>4. AskedFine' BY OneAskedFine DEF Settle, SheetInv
<1>5. Refetch \/ fetch' = fetch BY DEF Settle
<1>6. FetchFine' BY <1>5, SameFine DEF SheetInv, Refetch, FetchFine
<1> QED BY <1>3, <1>4, <1>6, SameFine DEF Settle, SheetInv

LEMMA QueryInv == ASSUME SheetInv, Query PROVE SheetInv'
<1>1. CASE Poll
  <2>1. FetchFine' BY <1>1 DEF Poll, Refetch, FetchFine
  <2> QED BY <1>1, <2>1, SameFine DEF Poll, SheetInv
<1>2. CASE FailFetch
  <2>1. FetchFine' BY <1>2 DEF FailFetch, NoFetch, FetchFine
  <2> QED BY <1>2, <2>1, SameFine DEF FailFetch, SheetInv
<1>3. CASE ServeFetch
  <2>1. PICK got : got = Read(fetch.day) OBVIOUS
  <2>2. DayFine(got) BY <2>1, ReadFine DEF SheetInv
  <2>3. fetch' = [day |-> fetch.day, step |-> "answered", got |-> got]
    BY <1>3, <2>1 DEF ServeFetch, SheetInv, FetchFine
  <2>4. fetch'.got = got /\ fetch' = [day |-> fetch'.day, step |-> fetch'.step, got |-> fetch'.got]
    BY <2>3
  <2>5. DayFine(fetch.got)' BY <2>2, <2>4 DEF DayFine, Card, IdFits, Apart
  <2> QED BY <1>3, <2>4, <2>5, SameFine DEF ServeFetch, SheetInv, FetchFine
<1>4. CASE DeliverFetch
  <2>1. cached' = [d \in Days |-> IF d = fetch.day THEN fetch.got
                                  ELSE IF cached[d] = Missing THEN Read(d) ELSE cached[d]]
    BY <1>4 DEF DeliverFetch
  <2>2. \A d \in Days : FineOrMissing(cached'[d])
    BY <1>4, <2>1, ReadFine DEF DeliverFetch, SheetInv, CachedFine, FetchFine, FineOrMissing
  <2>3. \A d \in Days : FineOrMissing(cached[d])'
    BY <2>2 DEF FineOrMissing, DayFine, Card, IdFits, Apart
  <2>4. cached' = [d \in Days |-> cached'[d]] BY <2>1
  <2>5. CachedFine' BY <2>3, <2>4 DEF CachedFine
  <2>6. FetchFine' BY <1>4 DEF DeliverFetch, NoFetch, FetchFine
  <2> QED BY <1>4, <2>5, <2>6, SameFine DEF DeliverFetch, SheetInv
<1> QED BY <1>1, <1>2, <1>3, <1>4 DEF Query

LEMMA ChangeDateInv == ASSUME SheetInv, NEW d \in Days, ChangeDate(d) PROVE SheetInv'
<1>1. asked' = [r \in Requests |->
                  IF asked[r] # Missing /\ asked[r].latest THEN [asked[r] EXCEPT !.key = d]
                  ELSE asked[r]]
  BY DEF ChangeDate
<1>2. \A r \in Requests : asked[r] # Missing => RequestFine([asked[r] EXCEPT !.key = d])
  BY ChangedFine DEF SheetInv, AskedFine
<1>3. \A r \in Requests : asked'[r] # Missing => RequestFine(asked'[r])
  BY <1>1, <1>2 DEF SheetInv, AskedFine
<1>4. \A r \in Requests : asked'[r] # Missing => RequestFine(asked[r])'
  BY <1>3 DEF RequestFine, FineOrMissing, DayFine, Card, IdFits, Apart
<1>5. asked' = [r \in Requests |-> asked'[r]] BY <1>1
<1>6. AskedFine' BY <1>4, <1>5 DEF AskedFine
<1>7. FetchFine' BY DEF ChangeDate, NoFetch, FetchFine
<1> QED BY <1>6, <1>7, SameFine DEF ChangeDate, SheetInv

LEMMA SheetNextInv == ASSUME SheetInv, [SheetNext]_sheetVars PROVE SheetInv'
<1>1. CASE UNCHANGED sheetVars BY <1>1, SameFine DEF sheetVars, SheetInv
<1>2. CASE Staff
  <2>1. ASSUME NEW r \in Requests, NEW b \in OnSheet(Shown),
               NEW p \in b.players \union {Missing}, NEW t \in Cells, DropOn(r, b, p, t)
        PROVE  SheetInv'
    BY <2>1, DropInv
  <2>2. ASSUME NEW r \in Requests, NEW b \in OnSheet(Shown), NEW a \in Lifecycle,
               QuickAction(r, b, a)
        PROVE  SheetInv'
    BY <2>2, ActionInv
  <2>3. ASSUME NEW r \in Requests, NEW b \in OnSheet(Shown),
               NEW a \in {"record_payment", "post_refund"}, FinanceAction(r, b, a)
        PROVE  SheetInv'
    BY <2>3, OthersInv
  <2>4. ASSUME NEW r \in Requests, (\E c \in Cells : CheckInAll(r, TimeOf[c])) \/ BatchNoShow(r)
        PROVE  SheetInv'
    BY <2>4, OthersInv
  <2>5. ASSUME NEW d \in Days, ChangeDate(d) PROVE SheetInv'
    BY <2>5, ChangeDateInv
  <2> QED BY <1>2, <2>1, <2>2, <2>3, <2>4, <2>5 DEF Staff
<1>3. CASE Replies BY <1>3, SettleInv, ServeBookingInv DEF Replies
<1>4. CASE Query BY <1>4, QueryInv
<1> QED BY <1>1, <1>2, <1>3, <1>4 DEF SheetNext

LEMMA OnTheSheetOnce == SheetInv => NobodyTwice
<1> SUFFICES ASSUME SheetInv, NEW d \in Days, cached[d] # Missing,
                    NEW c1 \in Cells, NEW c2 \in Cells,
                    NEW b1 \in cached[d].cells[c1], NEW b2 \in cached[d].cells[c2],
                    b1.players \intersect b2.players # {}
             PROVE  SameSlot(c1, c2) /\ b1.id = b2.id
  BY DEF NobodyTwice
<1>1. Apart(b1, c1, b2, c2) BY DEF SheetInv, CachedFine, FineOrMissing, DayFine
<1> QED BY <1>1 DEF Apart

\* Whatever the staff drag and act on, whatever is refused, lost or late, and whichever day
\* an answer is put back under, no day of the cache has a player in two slots or in two
\* bookings: every day the page ever holds is one the server read or one that its own
\* changes made of it.
THEOREM NobodyEverTwice == SheetSpec => []NobodyTwice
BY OnTheSheetOnce, SheetInitInv, SheetNextInv, PTL DEF SheetSpec

-----------------------------------------------------------------------------
\* A day of the cache is a date's, and every booking on it is in a cell, somebody's, with a
\* status and a mark of payment.
Placed(b) == \E k \in Cells : b.lane = LaneOf[k] /\ b.time = TimeOf[k]
Peopled(day) ==
  day # Missing => day.date \in Days
                   /\ \A c \in Cells : \A b \in day.cells[c] : Playing(b) /\ Placed(b)
\* A request remembers such a day, writes to a date, and waits for bookings it is about.
MutationKinds ==
  Lifecycle \union {"move", "check_in_all", "no_show_all", "record_payment", "post_refund"}
Worded(m) ==
  /\ m.kind \in MutationKinds /\ m.ids \subseteq Seq(Names)
  /\ m.player \in Golfers \union {Missing} /\ m.target \in Cells \union {Missing}
RequestKnown(m) ==
  m # Missing => /\ Peopled(m.before) /\ m.key \in Days /\ m.open \subseteq m.ids /\ Worded(m)
                 /\ m.latest \in BOOLEAN /\ m.verdict \in {"none", "allowed", "refused"}
FetchKnown ==
  /\ fetch.step \in {"none", "asked", "answered"} /\ fetch.day \in Days \union {Missing}
  /\ fetch.step # "none" => fetch.day \in Days
  /\ fetch.step # "answered" => fetch.got = Missing
  /\ Peopled(fetch.got)
HeldPeopled == \A x \in held : Playing(x) /\ x.day \in Days
SheetTypes ==
  /\ page \in [day : Days, last : Days] /\ HeldPeopled /\ deeds \in 0..MaxDeeds
  /\ \A d \in Days : Peopled(cached[d])
  /\ \A r \in Requests : RequestKnown(asked[r])
  /\ FetchKnown

LEMMA DayTypes ==
  ASSUME NEW day, day # Missing, DayFine(day), Peopled(day) PROVE DayTyped(day)
<1>1. ASSUME NEW c \in Cells, NEW b \in day.cells[c]
      PROVE  b.id \in Seq(Names) /\ Playing(b)
             /\ \E k \in Cells : b.lane = LaneOf[k] /\ b.time = TimeOf[k]
  <2>1. IdFits(b) BY DEF DayFine
  <2>2. Playing(b) /\ Placed(b) BY DEF Peopled
  <2> QED BY <2>1, <2>2 DEF IdFits, Placed
<1>2. day.date \in Days BY DEF Peopled
<1> QED BY <1>1, <1>2 DEF DayTyped

LEMMA TypesOfSheet == ASSUME SheetInv, SheetTypes PROVE SheetTypeOK
<1>1. ASSUME NEW d \in Days, cached[d] # Missing PROVE DayTyped(cached[d])
  BY <1>1, DayTypes DEF SheetInv, CachedFine, FineOrMissing, SheetTypes
<1>2. ASSUME NEW r \in Requests, asked[r] # Missing PROVE RequestTyped(asked[r])
  <2>1. PICK m : m = asked[r] OBVIOUS
  <2>2. RequestFine(m) /\ RequestKnown(m) BY <1>2, <2>1 DEF SheetInv, AskedFine, SheetTypes
  <2>3. m.before # Missing => DayTyped(m.before)
    BY <1>2, <2>1, <2>2, DayTypes DEF RequestFine, FineOrMissing, RequestKnown
  <2>4. RequestTyped(m)
    BY <1>2, <2>1, <2>2, <2>3 DEF RequestTyped, RequestKnown, Worded, MutationKinds
  <2> QED BY <2>1, <2>4
<1>3. ASSUME NEW x \in held
      PROVE  x.id \in Seq(Names) /\ Playing(x) /\ x.day \in Days /\ x.cell \in Cells
  BY DEF SheetInv, HeldFine, IdFits, SheetTypes, HeldPeopled
<1>4. DOMAIN cached = Days /\ DOMAIN asked = Requests
  <2>1. PICK c, q : c = cached /\ q = asked OBVIOUS
  <2>2. c = [d \in Days |-> c[d]] /\ q = [r \in Requests |-> q[r]]
    BY <2>1 DEF SheetInv, CachedFine, AskedFine
  <2>3. DOMAIN [d \in Days |-> c[d]] = Days /\ DOMAIN [r \in Requests |-> q[r]] = Requests OBVIOUS
  <2> QED BY <2>1, <2>2, <2>3
<1>5. fetch.got # Missing => DayTyped(fetch.got)
  <2>1. fetch.got # Missing => fetch.step = "answered" BY DEF SheetTypes, FetchKnown
  <2>2. fetch.step = "answered" => DayFine(fetch.got) BY DEF SheetInv, FetchFine
  <2>3. Peopled(fetch.got) BY DEF SheetTypes, FetchKnown
  <2> QED BY <2>1, <2>2, <2>3, DayTypes
<1> QED BY <1>1, <1>2, <1>3, <1>4, <1>5 DEF SheetTypes, SheetTypeOK, FetchKnown

\* What the staff act on is a booking of the sheet, with players of its own.
LEMMA ShownKnown ==
  ASSUME SheetInv, SheetTypes, Shown # Missing, NEW b \in OnSheet(Shown)
  PROVE  b.id \in Seq(Names) /\ b.players \subseteq Golfers
<1>1. PICK d \in Days : Shown = cached[d] BY DEF Shown, SheetTypes
<1>2. DayFine(Shown) /\ Peopled(Shown)
  BY <1>1 DEF SheetInv, CachedFine, FineOrMissing, SheetTypes
<1> HIDE DEF Shown
<1>3. PICK c \in Cells : b \in Shown.cells[c]
  <2>1. PICK s \in {Shown.cells[c] : c \in Cells} : b \in s BY DEF OnSheet
  <2> QED BY <2>1
<1> QED BY <1>2, <1>3 DEF DayFine, IdFits, Peopled, Playing

LEMMA ReadPeopled == ASSUME HeldPeopled, NEW d \in Days PROVE Peopled(Read(d))
<1> DEFINE Shows(x, c) ==
             [id |-> x.id, paid |-> x.paid, players |-> x.players, status |-> x.status,
              lane |-> LaneOf[c], time |-> TimeOf[c]]
           cells == [c \in Cells |->
             {Shows(x, c) : x \in {y \in held : y.day = d /\ y.cell = c /\ OnTheSheet(y)}}]
<1>1. Read(d) = [date |-> d, cells |-> cells] BY DEF Read
<1>2. ASSUME NEW c \in Cells, NEW b \in cells[c] PROVE Playing(b) /\ Placed(b)
  <2>1. PICK x \in held : b = Shows(x, c) OBVIOUS
  <2>2. /\ b.players = x.players /\ b.status = x.status /\ b.paid = x.paid
        /\ b.lane = LaneOf[c] /\ b.time = TimeOf[c]
    BY <2>1
  <2>3. Playing(x) BY DEF HeldPeopled
  <2> QED BY <2>2, <2>3 DEF Playing, Placed
<1>3. Read(d).cells = cells /\ Read(d).date = d BY <1>1
<1> HIDE DEF cells
<1> QED BY <1>2, <1>3 DEF Peopled

LEMMA TransitionedPeopled ==
  ASSUME NEW day, DayFine(day), day # Missing, Peopled(day), NEW id, NEW action \in Lifecycle
  PROVE  Peopled(Transitioned(day, id, action))
<1> DEFINE Acted(b) == IF b.id = id /\ CanQuickAction(b, action)
                       THEN [b EXCEPT !.status = ToStatus(action)] ELSE b
           cells == [c \in Cells |-> {Acted(b) : b \in day.cells[c]}]
           new == Transitioned(day, id, action)
<1>0. new = [day EXCEPT !.cells = cells] BY DEF Transitioned
<1>1. new = [date |-> day.date, cells |-> cells] BY <1>0 DEF DayFine
<1>2. \A c \in Cells : \A b \in cells[c] : \E a \in day.cells[c] : b = Acted(a) OBVIOUS
<1>3. ASSUME NEW b, Card(b), Playing(b), Placed(b), action \in Lifecycle
      PROVE  Playing(Acted(b)) /\ Placed(Acted(b))
  <2>1. CASE b.id = id /\ CanQuickAction(b, action)
    <3>1. PICK t, a : t = ToStatus(action) /\ a = [b EXCEPT !.status = t] OBVIOUS
    <3>2. a = [id |-> b.id, paid |-> b.paid, players |-> b.players, status |-> t,
               lane |-> b.lane, time |-> b.time]
      BY <1>3, <3>1 DEF Card
    <3>3. /\ a.players = b.players /\ a.paid = b.paid /\ a.lane = b.lane /\ a.time = b.time
          /\ a.status = t
      BY <3>2
    <3>4. Playing(a) /\ Placed(a) BY <1>3, <3>1, <3>3 DEF Playing, Placed
    <3> QED BY <2>1, <3>1, <3>4
  <2> QED BY <1>3, <2>1
<1>4. new.cells = cells /\ new.date = day.date BY <1>1
<1> HIDE DEF cells, Acted, new
<1>5. \A c \in Cells : \A b \in cells[c] : Playing(b) /\ Placed(b)
  BY <1>2, <1>3 DEF DayFine, Peopled
<1>6. Peopled(new) BY <1>4, <1>5 DEF Peopled
<1> QED BY <1>6 DEF new

LEMMA MovedPeopled ==
  ASSUME NEW day, DayFine(day), day # Missing, Peopled(day), NEW b \in OnSheet(day), NEW p,
         NEW target \in Cells
  PROVE  Peopled(Moved(day, b, p, target))
<1> DEFINE moved == [c \in Cells |->
             {x \in day.cells[c] : x.id # b.id}
             \union (IF \E x \in day.cells[c] : x.id = b.id THEN Left(b, p) ELSE {})
             \union (IF SameSlot(c, target) THEN {Landed(b, p, target)} ELSE {})]
           new == Moved(day, b, p, target)
<1>0. new = [day EXCEPT !.cells = moved] BY DEF Moved
<1>2. \A c \in Cells : \A x \in moved[c] :
        x \in day.cells[c] \/ x \in Left(b, p) \/ x = Landed(b, p, target)
  OBVIOUS
<1> HIDE DEF moved, new
<1>1. new = [date |-> day.date, cells |-> moved] BY <1>0 DEF DayFine
<1>3. new.cells = moved /\ new.date = day.date BY <1>1
<1>4. PICK c \in Cells : b \in day.cells[c]
  <2>1. PICK s \in {day.cells[c] : c \in Cells} : b \in s BY DEF OnSheet
  <2> QED BY <2>1
<1>5. Card(b) /\ Playing(b) /\ Placed(b) BY <1>4 DEF DayFine, Peopled
<1>6. \A x \in Left(b, p) : Playing(x) /\ Placed(x)
  <2> SUFFICES ASSUME NEW x \in Left(b, p) PROVE Playing(x) /\ Placed(x) OBVIOUS
  <2>1. Splits(b, p) /\ x = [b EXCEPT !.players = b.players \ {p}] BY DEF Left
  <2>2. x = [id |-> b.id, paid |-> b.paid, players |-> b.players \ {p},
             status |-> b.status, lane |-> b.lane, time |-> b.time]
    BY <1>5, <2>1 DEF Card
  <2>3. /\ x.players = b.players \ {p} /\ x.status = b.status /\ x.paid = b.paid
        /\ x.lane = b.lane /\ x.time = b.time
    BY <2>2
  <2>4. b.players \ {p} # {} BY <2>1 DEF Splits
  <2> QED BY <1>5, <2>3, <2>4 DEF Playing, Placed
<1>7. PICK landed : landed = Landed(b, p, target) OBVIOUS
<1>8. Playing(landed) /\ Placed(landed)
  <2>1. CASE Splits(b, p)
    <3>1. landed = [b EXCEPT !.id = Append(b.id, p), !.players = {p},
                             !.lane = LaneOf[target], !.time = TimeOf[target]]
      BY <1>7, <2>1 DEF Landed
    <3>2. landed = [id |-> Append(b.id, p), paid |-> b.paid, players |-> {p},
                    status |-> b.status, lane |-> LaneOf[target], time |-> TimeOf[target]]
      BY <1>5, <3>1 DEF Card
    <3>3. /\ landed.players = {p} /\ landed.status = b.status /\ landed.paid = b.paid
          /\ landed.lane = LaneOf[target] /\ landed.time = TimeOf[target]
      BY <3>2
    <3>4. {p} \subseteq b.players BY <2>1 DEF Splits
    <3> QED BY <1>5, <3>3, <3>4 DEF Playing, Placed
  <2>2. CASE ~Splits(b, p)
    <3>1. landed = [b EXCEPT !.lane = LaneOf[target], !.time = TimeOf[target]]
      BY <1>7, <2>2 DEF Landed
    <3>2. landed = [id |-> b.id, paid |-> b.paid, players |-> b.players,
                    status |-> b.status, lane |-> LaneOf[target], time |-> TimeOf[target]]
      BY <1>5, <3>1 DEF Card
    <3>3. /\ landed.players = b.players /\ landed.status = b.status /\ landed.paid = b.paid
          /\ landed.lane = LaneOf[target] /\ landed.time = TimeOf[target]
      BY <3>2
    <3> QED BY <1>5, <3>3 DEF Playing, Placed
  <2> QED BY <2>1, <2>2
<1>9. \A e \in Cells : \A x \in moved[e] : Playing(x) /\ Placed(x)
  BY <1>2, <1>6, <1>7, <1>8 DEF Peopled
<1>10. Peopled(new) BY <1>3, <1>9 DEF Peopled
<1> QED BY <1>10 DEF new

LEMMA AppliedPeopled ==
  ASSUME HeldFine, HeldPeopled, NEW x \in held, NEW m, m.kind \in MutationKinds,
         held' = (held \ {x}) \union Applied(x, m)
  PROVE  HeldPeopled'
<1>1. x = [id |-> x.id, day |-> x.day, cell |-> x.cell, paid |-> x.paid,
           players |-> x.players, status |-> x.status]
      /\ Playing(x) /\ x.day \in Days
  BY DEF HeldFine, HeldPeopled
<1>2. ASSUME NEW z, Playing(z), z.day \in Days, Applied(x, m) = {z} PROVE HeldPeopled'
  BY <1>2 DEF HeldPeopled
<1>3. CASE m.kind = "move" /\ Splits(x, m.player)
  <2>1. PICK p, stays, i, goes :
          /\ p = m.player /\ stays = [x EXCEPT !.players = x.players \ {p}]
          /\ i = Append(Append(x.id, p), "split")
          /\ goes = [x EXCEPT !.id = i, !.players = {p}, !.cell = m.target]
    OBVIOUS
  <2>2. Applied(x, m) = {stays, goes} BY <1>3, <2>1 DEF Applied
  <2>3. stays = [id |-> x.id, day |-> x.day, cell |-> x.cell, paid |-> x.paid,
                 players |-> x.players \ {p}, status |-> x.status]
    BY <1>1, <2>1
  <2>4. PICK y, z, t : y = [x EXCEPT !.id = i] /\ z = [y EXCEPT !.players = {p}] /\ t = m.target
    OBVIOUS
  <2>5. y = [id |-> i, day |-> x.day, cell |-> x.cell, paid |-> x.paid,
             players |-> x.players, status |-> x.status]
    BY <1>1, <2>4
  <2>6. z = [id |-> i, day |-> x.day, cell |-> x.cell, paid |-> x.paid,
             players |-> {p}, status |-> x.status]
    BY <2>4, <2>5
  <2>7. goes = [z EXCEPT !.cell = t] BY <2>1, <2>4
  <2>8. goes = [id |-> i, day |-> x.day, cell |-> t, paid |-> x.paid,
                players |-> {p}, status |-> x.status]
    BY <2>6, <2>7
  <2>9. /\ stays.players = x.players \ {p} /\ stays.status = x.status /\ stays.paid = x.paid
        /\ stays.day = x.day
        /\ goes.players = {p} /\ goes.status = x.status /\ goes.paid = x.paid
        /\ goes.day = x.day
    BY <2>3, <2>8
  <2>10. p \in x.players /\ x.players \ {p} # {} BY <1>3, <2>1 DEF Splits
  <2>11. Playing(stays) /\ Playing(goes) BY <1>1, <2>9, <2>10 DEF Playing
  <2> QED BY <1>1, <2>2, <2>9, <2>11 DEF HeldPeopled
<1>4. CASE m.kind = "move" /\ ~Splits(x, m.player)
  <2>1. PICK t, z : t = m.target /\ z = [x EXCEPT !.cell = t] OBVIOUS
  <2>2. z = [id |-> x.id, day |-> x.day, cell |-> t, paid |-> x.paid,
             players |-> x.players, status |-> x.status]
    BY <1>1, <2>1
  <2>3. /\ z.players = x.players /\ z.status = x.status /\ z.paid = x.paid /\ z.day = x.day
    BY <2>2
  <2>5. Playing(z) BY <1>1, <2>3 DEF Playing
  <2>4. Applied(x, m) = {z} BY <1>4, <2>1 DEF Applied
  <2> QED BY <1>1, <1>2, <2>3, <2>4, <2>5
<1>5. CASE m.kind \in {"record_payment", "post_refund"}
  <2>1. PICK t, z : t = Paid(m.kind) /\ z = [x EXCEPT !.paid = t] OBVIOUS
  <2>2. z = [id |-> x.id, day |-> x.day, cell |-> x.cell, paid |-> t,
             players |-> x.players, status |-> x.status]
    BY <1>1, <2>1
  <2>3. /\ z.players = x.players /\ z.status = x.status /\ z.paid = t /\ z.day = x.day
    BY <2>2
  <2>6. t \in PaidMarks BY <1>5, <2>1 DEF Paid, PaidMarks
  <2>5. Playing(z) BY <1>1, <2>3, <2>6 DEF Playing
  <2>4. Applied(x, m) = {z} BY <1>5, <2>1 DEF Applied
  <2> QED BY <1>1, <1>2, <2>3, <2>4, <2>5
<1>6. CASE m.kind \notin {"move", "record_payment", "post_refund"}
  <2>1. PICK t, z : t = NewStatus(m.kind) /\ z = [x EXCEPT !.status = t] OBVIOUS
  <2>2. z = [id |-> x.id, day |-> x.day, cell |-> x.cell, paid |-> x.paid,
             players |-> x.players, status |-> t]
    BY <1>1, <2>1
  <2>3. /\ z.players = x.players /\ z.status = t /\ z.paid = x.paid /\ z.day = x.day
    BY <2>2
  <2>6. t \in {ToStatus(a) : a \in Lifecycle}
    BY <1>6, <2>1 DEF NewStatus, MutationKinds, Lifecycle
  <2>5. Playing(z) BY <1>1, <2>3, <2>6 DEF Playing
  <2>4. Applied(x, m) = {z} BY <1>6, <2>1 DEF Applied
  <2> QED BY <1>1, <1>2, <2>3, <2>4, <2>5
<1> QED BY <1>3, <1>4, <1>5, <1>6

-----------------------------------------------------------------------------
\* A request with another key, verdict or fewer bookings to wait for.
LEMMA ChangedKnown ==
  ASSUME NEW m, RequestFine(m), RequestKnown(m), m # Missing, NEW d \in Days, NEW v, NEW n,
         NEW w \in {"none", "allowed", "refused"}, NEW l \in BOOLEAN, v \subseteq m.open,
         \/ n = [m EXCEPT !.open = v, !.verdict = w]
         \/ n = [m EXCEPT !.key = d] \/ n = [m EXCEPT !.latest = l]
  PROVE  RequestKnown(n)
<1>1. m = [player |-> m.player, kind |-> m.kind, target |-> m.target, before |-> m.before,
           ids |-> m.ids, open |-> m.open, key |-> m.key, latest |-> m.latest,
           verdict |-> m.verdict]
  BY DEF RequestFine
<1>2. /\ n.before = m.before /\ n.ids = m.ids /\ n.open \in {m.open, v} /\ n.key \in {m.key, d}
      /\ n.player = m.player /\ n.kind = m.kind /\ n.target = m.target
      /\ n.latest \in {m.latest, l} /\ n.verdict \in {m.verdict, w}
  <2>1. CASE n = [m EXCEPT !.open = v, !.verdict = w]
    <3>1. PICK k : k = [m EXCEPT !.open = v] OBVIOUS
    <3>2. k = [player |-> m.player, kind |-> m.kind, target |-> m.target, before |-> m.before,
               ids |-> m.ids, open |-> v, key |-> m.key, latest |-> m.latest,
               verdict |-> m.verdict]
      BY <1>1, <3>1
    <3>3. n = [k EXCEPT !.verdict = w] BY <2>1, <3>1
    <3>4. n = [player |-> m.player, kind |-> m.kind, target |-> m.target, before |-> m.before,
               ids |-> m.ids, open |-> v, key |-> m.key, latest |-> m.latest, verdict |-> w]
      BY <3>2, <3>3
    <3> QED BY <3>4
  <2>2. CASE n = [m EXCEPT !.key = d]
    <3>1. n = [player |-> m.player, kind |-> m.kind, target |-> m.target, before |-> m.before,
               ids |-> m.ids, open |-> m.open, key |-> d, latest |-> m.latest,
               verdict |-> m.verdict]
      BY <1>1, <2>2
    <3> QED BY <3>1
  <2>3. CASE n = [m EXCEPT !.latest = l]
    <3>1. n = [player |-> m.player, kind |-> m.kind, target |-> m.target, before |-> m.before,
               ids |-> m.ids, open |-> m.open, key |-> m.key, latest |-> l,
               verdict |-> m.verdict]
      BY <1>1, <2>3
    <3> QED BY <3>1
  <2> QED BY <2>1, <2>2, <2>3
<1> QED BY <1>2 DEF RequestKnown, Worded

LEMMA SendKnown ==
  ASSUME AskedFine, \A q \in Requests : RequestKnown(asked[q]), page.day \in Days,
         NEW r \in Requests, NEW kind \in MutationKinds, NEW ids, ids \subseteq Seq(Names),
         NEW p \in Golfers \union {Missing}, NEW target \in Cells \union {Missing},
         NEW before, Peopled(before), Send(r, Mutation(kind, ids, p, target, before))
  PROVE  \A q \in Requests : RequestKnown(asked'[q])
<1>1. PICK m : m = Mutation(kind, ids, p, target, before) OBVIOUS
<1>2. RequestKnown(m)
  <2>1. /\ m.before = before /\ m.key = page.day /\ m.open = ids /\ m.ids = ids
        /\ m.kind = kind /\ m.player = p /\ m.target = target /\ m.verdict = "none"
    BY <1>1 DEF Mutation
  <2>2. m.latest \in BOOLEAN BY <1>1, ZenonT(30) DEF Mutation
  <2> QED BY <2>1, <2>2 DEF RequestKnown, Worded
<1>3. asked' = [q \in Requests |->
                 IF q = r THEN m
                 ELSE IF asked[q] # Missing /\ asked[q].kind = m.kind
                      THEN [asked[q] EXCEPT !.latest = FALSE] ELSE asked[q]]
  BY <1>1 DEF Send
<1> SUFFICES ASSUME NEW q \in Requests PROVE RequestKnown(asked'[q]) OBVIOUS
<1>4. CASE q # r /\ asked[q] # Missing /\ asked'[q] = [asked[q] EXCEPT !.latest = FALSE]
  <2>1. PICK w \in BOOLEAN : w = FALSE OBVIOUS
  <2>6. PICK a : a = asked[q] OBVIOUS
  <2>2. RequestFine(a) /\ RequestKnown(a) /\ a # Missing BY <1>4, <2>6 DEF AskedFine
  <2>3. PICK n : n = [a EXCEPT !.latest = w] OBVIOUS
  <2>4. a.open \subseteq a.open OBVIOUS
  <2>5. RequestKnown(n) BY <2>2, <2>3, <2>4, ChangedKnown
  <2> QED BY <1>4, <2>1, <2>3, <2>5, <2>6
<1>5. CASE asked'[q] = m BY <1>2, <1>5
<1>6. CASE asked'[q] = asked[q] BY <1>6
<1> QED BY <1>3, <1>4, <1>5, <1>6

LEMMA PutPeopled ==
  ASSUME CachedFine, \A d \in Days : Peopled(cached[d]), NEW d, NEW new, Peopled(new),
         cached' \in {cached, [cached EXCEPT ![d] = new]}
  PROVE  \A e \in Days : Peopled(cached'[e])
<1>1. \A e \in Days : cached'[e] = new \/ cached'[e] = cached[e] BY DEF CachedFine
<1> QED BY <1>1

LEMMA NoFetchKnown == ASSUME fetch' = NoFetch PROVE FetchKnown'
<1>1. NoFetch.step = "none" /\ NoFetch.day = Missing /\ NoFetch.got = Missing BY DEF NoFetch
<1> QED BY <1>1 DEF FetchKnown, Peopled

LEMMA CancelKnown == ASSUME FetchKnown, CancelFetch PROVE FetchKnown'
<1>1. fetch' = fetch \/ fetch' = NoFetch BY DEF CancelFetch
<1> QED BY <1>1, NoFetchKnown DEF FetchKnown

-----------------------------------------------------------------------------
LEMMA SheetTypesStart == ASSUME SheetInit PROVE SheetTypes
<1>1. HeldPeopled
  <2>1. ASSUME NEW x \in held PROVE Playing(x) /\ x.day \in Days
    <3>1. PICK b \in Booked : x = [id |-> b.id, day |-> b.day, cell |-> b.cell, paid |-> b.paid,
                                   players |-> b.players, status |-> "reserved"]
      BY DEF SheetInit
    <3>2. /\ x.players = b.players /\ x.status = "reserved" /\ x.paid = b.paid /\ x.day = b.day
      BY <3>1
    <3>3. b.players \subseteq Golfers BY DEF Golfers
    <3> QED BY <3>2, <3>3, SheetAssumption DEF Playing
  <2> QED BY <2>1 DEF HeldPeopled
<1>2. \A d \in Days : cached[d] = Missing \/ cached[d] = Read(d) BY DEF SheetInit
<1>3. Peopled(Missing) BY DEF Peopled
<1>4. \A d \in Days : Peopled(cached[d]) BY <1>1, <1>2, <1>3, ReadPeopled
<1>5. \A r \in Requests : RequestKnown(asked[r]) BY DEF SheetInit, RequestKnown
<1>6. NoFetch.step = "none" /\ NoFetch.day = Missing /\ NoFetch.got = Missing BY DEF NoFetch
<1>7. FetchKnown BY <1>3, <1>6 DEF SheetInit, FetchKnown
<1>8. page \in [day : Days, last : Days] BY DEF SheetInit
<1>9. deeds \in 0..MaxDeeds BY SheetAssumption DEF SheetInit
<1> QED BY <1>1, <1>4, <1>5, <1>7, <1>8, <1>9 DEF SheetTypes

LEMMA DeedsCounted ==
  ASSUME deeds \in 0..MaxDeeds, deeds < MaxDeeds, deeds' = deeds + 1 PROVE deeds' \in 0..MaxDeeds
BY SheetAssumption

LEMMA DropTypes ==
  ASSUME SheetInv, SheetTypes, NEW r \in Requests, NEW b, NEW p \in b.players \union {Missing},
         NEW target \in Cells, DropOn(r, b, p, target)
  PROVE  SheetTypes'
<1>1. PICK day : day = cached[page.day] OBVIOUS
<1> DEFINE known == IF day = Missing THEN {} ELSE {x \in OnSheet(day) : x.id = b.id}
<1>2. FineOrMissing(day) /\ Peopled(day) BY <1>1 DEF SheetInv, CachedFine, SheetTypes
<1>3. \A d \in Days : Peopled(cached'[d])
  <2>1. CASE known = {}
    <3>1. cached' = cached BY <1>1, <2>1 DEF DropOn
    <3> QED BY <3>1 DEF SheetTypes
  <2>2. CASE known # {}
    <3>1. PICK x : x \in known /\ x = (CHOOSE y \in known : TRUE) BY <2>2
    <3>2. PICK new : new = Moved(day, x, p, target) OBVIOUS
    <3>3. Patch(new) BY <1>1, <2>2, <3>1, <3>2 DEF DropOn
    <3>4. day # Missing /\ x \in OnSheet(day) BY <3>1
    <3>5. Peopled(new) BY <1>2, <3>2, <3>4, MovedPeopled DEF FineOrMissing
    <3> QED BY <3>3, <3>5, PutPeopled DEF SheetInv, SheetTypes, Patch
  <2> QED BY <2>1, <2>2
<1>4. \A q \in Requests : RequestKnown(asked'[q])
  <2>1. b.id \in Seq(Names) /\ b.players \subseteq Golfers BY ShownKnown DEF DropOn
  <2>2. PICK ids : ids = {b.id} OBVIOUS
  <2>3. PICK kind : kind = "move" OBVIOUS
  <2>4. Send(r, Mutation(kind, ids, p, target, day)) BY <1>1, <2>2, <2>3 DEF DropOn
  <2>5. kind \in MutationKinds BY <2>3 DEF MutationKinds
  <2>6. /\ ids \subseteq Seq(Names) /\ p \in Golfers \union {Missing}
        /\ target \in Cells \union {Missing}
    BY <2>1, <2>2
  <2> QED BY <1>2, <2>4, <2>5, <2>6, SendKnown DEF SheetInv, SheetTypes
<1>5. FetchKnown' BY CancelKnown DEF DropOn, SheetTypes
<1>6. deeds' \in 0..MaxDeeds BY DeedsCounted DEF DropOn, Unasked, Send, SheetTypes
<1> QED BY <1>3, <1>4, <1>5, <1>6 DEF DropOn, SheetTypes, HeldPeopled

LEMMA ActionTypes ==
  ASSUME SheetInv, SheetTypes, NEW r \in Requests, NEW b, NEW action \in Lifecycle,
         QuickAction(r, b, action)
  PROVE  SheetTypes'
<1>1. PICK day : day = cached[page.day] OBVIOUS
<1>2. FineOrMissing(day) /\ Peopled(day) BY <1>1 DEF SheetInv, CachedFine, SheetTypes
<1>3. PICK new : new = IF day = Missing THEN Missing ELSE Transitioned(day, b.id, action) OBVIOUS
<1>4. Peopled(new) BY <1>2, <1>3, TransitionedPeopled DEF FineOrMissing
<1>5. Patch(new) BY <1>1, <1>3 DEF QuickAction
<1>6. \A d \in Days : Peopled(cached'[d])
  BY <1>4, <1>5, PutPeopled DEF SheetInv, SheetTypes, Patch
<1>7. \A q \in Requests : RequestKnown(asked'[q])
  <2>1. b.id \in Seq(Names) BY ShownKnown DEF QuickAction
  <2>2. PICK ids : ids = {b.id} OBVIOUS
  <2>3. PICK m : m = Missing OBVIOUS
  <2>4. Send(r, Mutation(action, ids, m, m, day)) BY <1>1, <2>2, <2>3 DEF QuickAction
  <2>5. action \in MutationKinds BY DEF MutationKinds
  <2>6. /\ ids \subseteq Seq(Names) /\ m \in Golfers \union {Missing}
        /\ m \in Cells \union {Missing}
    BY <2>1, <2>2, <2>3
  <2> QED BY <1>2, <2>4, <2>5, <2>6, SendKnown DEF SheetInv, SheetTypes
<1>8. FetchKnown' BY CancelKnown DEF QuickAction, SheetTypes
<1>9. deeds' \in 0..MaxDeeds BY DeedsCounted DEF QuickAction, Unasked, Send, SheetTypes
<1> QED BY <1>6, <1>7, <1>8, <1>9 DEF QuickAction, SheetTypes, HeldPeopled

LEMMA OthersTypes ==
  ASSUME SheetInv, SheetTypes, NEW r \in Requests,
         \/ \E c \in Cells : CheckInAll(r, TimeOf[c])
         \/ BatchNoShow(r)
         \/ \E b \in OnSheet(Shown) :
              \E a \in {"record_payment", "post_refund"} : FinanceAction(r, b, a)
  PROVE  SheetTypes'
<1>1. PICK kind \in MutationKinds, ids \in SUBSET Seq(Names) :
        /\ Send(r, Mutation(kind, ids, Missing, Missing, Missing))
        /\ Unasked(r) /\ UNCHANGED <<held, cached, page, fetch>>
  <2>1. ASSUME NEW kind \in MutationKinds, NEW bookings \in SUBSET OnSheet(Shown),
               Batch(r, kind, bookings)
        PROVE  \E k \in MutationKinds, ids \in SUBSET Seq(Names) :
                 /\ Send(r, Mutation(k, ids, Missing, Missing, Missing))
                 /\ Unasked(r) /\ UNCHANGED <<held, cached, page, fetch>>
    <3>1. \A b \in bookings : b.id \in Seq(Names) BY <2>1, ShownKnown DEF Batch
    <3>2. PICK ids : ids = {b.id : b \in bookings} OBVIOUS
    <3>3. ids \in SUBSET Seq(Names) BY <3>1, <3>2
    <3> QED BY <2>1, <3>2, <3>3 DEF Batch
  <2>2. CASE \E c \in Cells : CheckInAll(r, TimeOf[c])
    <3>4. PICK kind : kind = "check_in_all" OBVIOUS
    <3>1. PICK c \in Cells : Batch(r, kind, ReservedAt(TimeOf[c]))
      BY <2>2, <3>4 DEF CheckInAll
    <3>2. ReservedAt(TimeOf[c]) \in SUBSET OnSheet(Shown) BY DEF ReservedAt
    <3>3. kind \in MutationKinds BY <3>4 DEF MutationKinds
    <3> QED BY <2>1, <3>1, <3>2, <3>3
  <2>3. CASE BatchNoShow(r)
    <3>1. PICK kind : Batch(r, kind, AtRisk) /\ kind = "no_show_all" BY <2>3 DEF BatchNoShow
    <3>2. AtRisk \in SUBSET OnSheet(Shown) BY DEF AtRisk
    <3>3. kind \in MutationKinds BY <3>1 DEF MutationKinds
    <3> QED BY <2>1, <3>1, <3>2, <3>3
  <2>4. ASSUME NEW b \in OnSheet(Shown), NEW a \in {"record_payment", "post_refund"},
               FinanceAction(r, b, a)
        PROVE  \E k \in MutationKinds, ids \in SUBSET Seq(Names) :
                 /\ Send(r, Mutation(k, ids, Missing, Missing, Missing))
                 /\ Unasked(r) /\ UNCHANGED <<held, cached, page, fetch>>
    <3>1. b.id \in Seq(Names) BY <2>4, ShownKnown DEF FinanceAction
    <3>2. PICK ids : ids = {b.id} OBVIOUS
    <3>3. ids \in SUBSET Seq(Names) /\ a \in MutationKinds BY <3>1, <3>2 DEF MutationKinds
    <3> QED BY <2>4, <3>2, <3>3 DEF FinanceAction
  <2> QED BY <2>2, <2>3, <2>4
<1>2. Peopled(Missing) BY DEF Peopled
<1>3. \A q \in Requests : RequestKnown(asked'[q])
  <2>1. PICK m : m = Missing OBVIOUS
  <2>2. Send(r, Mutation(kind, ids, m, m, m)) /\ ids \subseteq Seq(Names) BY <1>1, <2>1
  <2>3. m \in Golfers \union {Missing} /\ m \in Cells \union {Missing} /\ Peopled(m)
    BY <1>2, <2>1
  <2> QED BY <2>2, <2>3, SendKnown DEF SheetInv, SheetTypes
<1>4. deeds' \in 0..MaxDeeds BY <1>1, DeedsCounted DEF Unasked, Send, SheetTypes
<1> QED BY <1>1, <1>3, <1>4 DEF SheetTypes, HeldPeopled, FetchKnown

LEMMA ServeBookingTypes ==
  ASSUME SheetInv, SheetTypes, NEW r \in Requests, asked[r] # Missing, NEW i, ServeBooking(r, i)
  PROVE  SheetTypes'
<1>1. PICK verdict \in {"allowed", "refused"} :
        /\ asked' = [asked EXCEPT ![r].open = @ \ {i},
                                  ![r].verdict = IF @ = "refused" THEN @ ELSE verdict]
        /\ \/ \E x \in held : held' = (held \ {x}) \union Applied(x, asked[r])
           \/ held' = held
  BY DEF ServeBooking
<1>2. HeldPeopled'
  <2>1. CASE held' = held BY <2>1 DEF SheetTypes, HeldPeopled
  <2>2. asked[r].kind \in MutationKinds BY DEF SheetTypes, RequestKnown, Worded
  <2> QED BY <1>1, <2>1, <2>2, AppliedPeopled DEF SheetInv, SheetTypes
<1>3. PICK w : w = IF asked[r].verdict = "refused" THEN asked[r].verdict ELSE verdict OBVIOUS
<1>4. PICK a, v : a = asked[r] /\ v = a.open \ {i} OBVIOUS
<1>5. PICK n : n = [a EXCEPT !.open = v, !.verdict = w] OBVIOUS
<1>6. asked' = [asked EXCEPT ![r] = n]
  BY <1>1, <1>3, <1>4, <1>5 DEF SheetInv, AskedFine
<1>7. RequestFine(a) /\ RequestKnown(a) /\ a # Missing BY <1>4 DEF SheetInv, AskedFine, SheetTypes
<1>8. page.day \in Days /\ w \in {"none", "allowed", "refused"}
  BY <1>3 DEF SheetInv, SheetTypes, RequestKnown
<1>9. v \subseteq a.open BY <1>4
<1>10. RequestKnown(n) BY <1>5, <1>7, <1>8, <1>9, ChangedKnown
<1>11. \A q \in Requests : RequestKnown(asked'[q])
  BY <1>6, <1>10 DEF SheetInv, AskedFine, SheetTypes
<1> QED BY <1>2, <1>11 DEF ServeBooking, SheetTypes, FetchKnown

LEMMA RefetchKnown == ASSUME SheetInv, Refetch PROVE FetchKnown'
<1>1. fetch'.day = page.day /\ fetch'.step = "asked" /\ fetch'.got = Missing BY DEF Refetch
<1> QED BY <1>1 DEF FetchKnown, SheetInv, Peopled

LEMMA SettleTypes ==
  ASSUME SheetInv, SheetTypes, NEW r \in Requests, Settle(r) PROVE SheetTypes'
<1>1. Peopled(asked[r].before) BY DEF Settle, SheetTypes, RequestKnown
<1>2. cached' \in {cached, [cached EXCEPT ![asked[r].key] = asked[r].before]}
  BY DEF Settle, PutBack
<1>3. \A d \in Days : Peopled(cached'[d]) BY <1>1, <1>2, PutPeopled DEF SheetInv, SheetTypes
<1>4. \A q \in Requests : asked'[q] = Missing \/ asked'[q] = asked[q]
  BY DEF Settle, SheetInv, AskedFine
<1>5. RequestKnown(Missing) BY DEF RequestKnown
<1>6. \A q \in Requests : RequestKnown(asked'[q]) BY <1>4, <1>5 DEF SheetTypes
<1>7. FetchKnown'
  <2>1. Refetch \/ fetch' = fetch BY DEF Settle
  <2>2. CASE fetch' = fetch BY <2>2 DEF SheetTypes, FetchKnown
  <2> QED BY <2>1, <2>2, RefetchKnown
<1> QED BY <1>3, <1>6, <1>7 DEF Settle, SheetTypes, HeldPeopled

LEMMA QueryTypes == ASSUME SheetInv, SheetTypes, Query PROVE SheetTypes'
<1>1. CASE Poll
  BY <1>1, RefetchKnown DEF Poll, SheetTypes, HeldPeopled
<1>2. CASE FailFetch
  <2>1. FetchKnown' BY <1>2, NoFetchKnown DEF FailFetch
  <2> QED BY <1>2, <2>1 DEF FailFetch, SheetTypes, HeldPeopled
<1>3. CASE ServeFetch
  <2>1. PICK got : got = Read(fetch.day) OBVIOUS
  <2>2. fetch' = [day |-> fetch.day, step |-> "answered", got |-> got]
    BY <1>3, <2>1 DEF ServeFetch, SheetInv, FetchFine
  <2>3. fetch'.got = got /\ fetch'.day = fetch.day /\ fetch'.step = "answered" BY <2>2
  <2>4. fetch.day \in Days BY <1>3 DEF ServeFetch, SheetTypes, FetchKnown
  <2>5. Peopled(got) BY <2>1, <2>4, ReadPeopled DEF SheetTypes
  <2>6. FetchKnown' BY <2>3, <2>4, <2>5 DEF FetchKnown
  <2> QED BY <1>3, <2>6 DEF ServeFetch, SheetTypes, HeldPeopled
<1>4. CASE DeliverFetch
  <2>1. cached' = [d \in Days |-> IF d = fetch.day THEN fetch.got
                                  ELSE IF cached[d] = Missing THEN Read(d) ELSE cached[d]]
        /\ fetch' = NoFetch /\ fetch.step = "answered"
    BY <1>4 DEF DeliverFetch
  <2>2. Peopled(fetch.got) BY <2>1 DEF SheetTypes, FetchKnown
  <2>3. \A d \in Days : Peopled(cached'[d]) BY <2>1, <2>2, ReadPeopled DEF SheetTypes
  <2>4. FetchKnown' BY <2>1, NoFetchKnown
  <2> QED BY <1>4, <2>3, <2>4 DEF DeliverFetch, SheetTypes, HeldPeopled
<1> QED BY <1>1, <1>2, <1>3, <1>4 DEF Query

LEMMA ChangeDateTypes ==
  ASSUME SheetInv, SheetTypes, NEW d \in Days, ChangeDate(d) PROVE SheetTypes'
<1>1. asked' = [r \in Requests |->
                  IF asked[r] # Missing /\ asked[r].latest THEN [asked[r] EXCEPT !.key = d]
                  ELSE asked[r]]
  BY DEF ChangeDate
<1>2. ASSUME NEW q \in Requests PROVE RequestKnown(asked'[q])
  <2>1. CASE asked[q] # Missing /\ asked'[q] = [asked[q] EXCEPT !.key = d]
    <3>1. PICK a, n : a = asked[q] /\ n = [a EXCEPT !.key = d] OBVIOUS
    <3>2. RequestFine(a) /\ RequestKnown(a) /\ a # Missing
      BY <2>1, <3>1 DEF SheetInv, AskedFine, SheetTypes
    <3>3. a.open \subseteq a.open OBVIOUS
    <3>4. RequestKnown(n) BY <3>1, <3>2, <3>3, ChangedKnown
    <3> QED BY <2>1, <3>1, <3>4
  <2>2. CASE asked'[q] = asked[q] BY <2>2 DEF SheetTypes
  <2> QED BY <1>1, <2>1, <2>2
<1>3. page' = [day |-> d, last |-> IF cached[page.day] # Missing THEN page.day ELSE page.last]
  BY DEF ChangeDate
<1>4. page' \in [day : Days, last : Days] BY <1>3 DEF SheetTypes
<1>5. FetchKnown' BY NoFetchKnown DEF ChangeDate
<1>6. deeds' \in 0..MaxDeeds BY DeedsCounted DEF ChangeDate, SheetTypes
<1> QED BY <1>2, <1>4, <1>5, <1>6 DEF ChangeDate, SheetTypes, HeldPeopled

LEMMA SheetNextTypes == ASSUME SheetInv, SheetTypes, [SheetNext]_sheetVars PROVE SheetTypes'
<1>1. CASE UNCHANGED sheetVars BY <1>1 DEF sheetVars, SheetTypes, HeldPeopled, FetchKnown
<1>2. CASE Staff
  <2>1. ASSUME NEW r \in Requests, NEW b \in OnSheet(Shown),
               NEW p \in b.players \union {Missing}, NEW t \in Cells, DropOn(r, b, p, t)
        PROVE  SheetTypes'
    BY <2>1, DropTypes
  <2>2. ASSUME NEW r \in Requests, NEW b \in OnSheet(Shown), NEW a \in Lifecycle,
               QuickAction(r, b, a)
        PROVE  SheetTypes'
    BY <2>2, ActionTypes
  <2>3. ASSUME NEW r \in Requests, NEW b \in OnSheet(Shown),
               NEW a \in {"record_payment", "post_refund"}, FinanceAction(r, b, a)
        PROVE  SheetTypes'
    BY <2>3, OthersTypes
  <2>4. ASSUME NEW r \in Requests, (\E c \in Cells : CheckInAll(r, TimeOf[c])) \/ BatchNoShow(r)
        PROVE  SheetTypes'
    BY <2>4, OthersTypes
  <2>5. ASSUME NEW d \in Days, ChangeDate(d) PROVE SheetTypes'
    BY <2>5, ChangeDateTypes
  <2> QED BY <1>2, <2>1, <2>2, <2>3, <2>4, <2>5 DEF Staff
<1>3. CASE Replies BY <1>3, SettleTypes, ServeBookingTypes DEF Replies
<1>4. CASE Query BY <1>4, QueryTypes
<1> QED BY <1>1, <1>2, <1>3, <1>4 DEF SheetNext

\* The six variables keep their types: the server's bookings and those of every day that is
\* cached, remembered by a request or on its way are on a cell of the sheet, with a status, a
\* mark of payment and at least one player; a drag that takes a player off a booking leaves
\* somebody on it; a request waits only for bookings it is about.
THEOREM SheetTypeCorrect == SheetSpec => []SheetTypeOK
BY TypesOfSheet, SheetInitInv, SheetTypesStart, SheetNextInv, SheetNextTypes, PTL DEF SheetSpec


-----------------------------------------------------------------------------
(***************************************************************************)
(* SheetDrawer: a form and the booking it edits change together.           *)
(***************************************************************************)

DrawerTypes ==
  /\ desk \in Desk /\ drafts \in Form /\ edits \in EditForm
  /\ saves \subseteq SaveRequest /\ creates \subseteq Form /\ batching \in BOOLEAN

\* One dialog at a time, and a batch runs under its dialog.
OneDialog == ~(desk.palette /\ desk.confirm) /\ (batching => desk.confirm)

\* The invariant: a form is well formed as soon as it is a booking's, and it changes
\* together with the booking that is edited, so what it sends is that booking's.
DrawerInv ==
  /\ DrawerTypes /\ OneDialog
  /\ WellFormed(drafts) /\ (edits.of # Nowhere => WellFormed(edits))
  /\ PartySentIsItsOwn

LEMMA DrawerInitInv == ASSUME DeskInit PROVE DrawerInv
<1>1. PICK f \in Filters \union {"all"} : desk = [ClosedDesk EXCEPT !.filter = f] BY DEF DeskInit
<1>2. desk = [filter |-> f, mode |-> "none", slot |-> Nowhere, editing |-> Nowhere,
              expanded |-> Nowhere, palette |-> FALSE, confirm |-> FALSE]
  BY <1>1 DEF ClosedDesk
<1>3. desk \in Desk BY <1>2 DEF Desk
<1>4. /\ drafts \in Form /\ WellFormed(drafts)
      /\ edits \in EditForm /\ edits.of = Nowhere
  BY DEF DeskInit, Fresh, NoEdits, Form, EditForm, WellFormed
<1> QED BY <1>2, <1>3, <1>4
      DEF DeskInit, DrawerInv, DrawerTypes, OneDialog, PartySentIsItsOwn

\* A player more or less leaves a form well formed.
LEMMA FormKept ==
  ASSUME NEW form, WellFormed(form), form \in Form \/ form \in EditForm
  PROVE  \A g \in {Grown(form), Shrunk(form)} :
           /\ WellFormed(g)
           /\ form \in Form => g \in Form
           /\ form \in EditForm => g \in EditForm /\ g.of = form.of
BY DEF WellFormed, Grown, Shrunk, Form, EditForm

\* What only opens, closes or moves the layers, with or without emptying the forms.
LayersMove ==
  /\ desk' \in Desk /\ ~(desk.palette /\ desk.confirm)'
  /\ \/ desk'.editing = desk.editing /\ edits' = edits
     \/ desk'.editing = Nowhere /\ edits' = NoEdits
  /\ drafts' \in {drafts, Fresh}
  /\ saves' = saves /\ creates' \subseteq creates
  /\ batching' \in BOOLEAN /\ (batching' => desk'.confirm)

LEMMA LayersInv == ASSUME DrawerInv, LayersMove PROVE DrawerInv'
<1>1. /\ drafts' \in Form /\ WellFormed(drafts)'
      /\ edits' \in EditForm /\ (edits'.of # Nowhere => WellFormed(edits)')
      /\ desk'.editing = edits'.of
  BY DEF DrawerInv, DrawerTypes, LayersMove, PartySentIsItsOwn, Fresh, NoEdits, Form, EditForm,
         WellFormed
<1> QED BY <1>1 DEF DrawerInv, DrawerTypes, LayersMove, OneDialog, PartySentIsItsOwn, WellFormed

LEMMA FilteredDesk ==
  ASSUME desk \in Desk, NEW f \in Filters \union {"all"}
  PROVE  /\ Filtered(f) \in Desk /\ Filtered(f).editing = desk.editing
         /\ Filtered(f).palette = desk.palette /\ Filtered(f).confirm = desk.confirm
BY DEF Filtered, Desk

LEMMA OpeningMoves ==
  ASSUME DrawerInv
  PROVE  /\ \A s \in Slots : OpenCreate(s) => LayersMove
         /\ \A s \in Slots, b \in Bookings \union {Nowhere} : OpenManage(s, b) => LayersMove
         /\ \A b \in Bookings : ToggleBookingExpansion(b) => LayersMove
         /\ CloseDrawer \/ CloseExpanded \/ SlotGone => LayersMove
<1> USE DEF DrawerInv, DrawerTypes, OneDialog, LayersMove
<1>1. ASSUME NEW s \in Slots, OpenCreate(s) PROVE LayersMove
  BY <1>1 DEF OpenCreate, Desk
<1>2. ASSUME NEW s \in Slots, NEW b \in Bookings \union {Nowhere}, OpenManage(s, b)
      PROVE  LayersMove
  BY <1>2 DEF OpenManage, Desk
<1>3. ASSUME NEW b \in Bookings, ToggleBookingExpansion(b) PROVE LayersMove
  BY <1>3 DEF ToggleBookingExpansion, Desk
<1>4. CASE CloseDrawer BY <1>4 DEF CloseDrawer, Desk
<1>5. CASE CloseExpanded BY <1>5 DEF CloseExpanded, Desk
<1>6. CASE SlotGone
  <2>1. PICK e \in {desk.expanded, Nowhere} :
          desk' = [desk EXCEPT !.mode = "none", !.slot = Nowhere, !.editing = Nowhere,
                               !.expanded = e]
    BY <1>6 DEF SlotGone
  <2> QED BY <1>6, <2>1 DEF SlotGone, Desk
<1> QED BY <1>1, <1>2, <1>3, <1>4, <1>5, <1>6

LEMMA PaletteMoves ==
  ASSUME DrawerInv
  PROVE  /\ OpenPalette \/ ClosePalette => LayersMove
         /\ \A f \in Filters \union {"all"} : SelectCommand(f) \/ SetFilter(f) => LayersMove
         /\ \A b \in Bookings : NavigateToBooking(b) => LayersMove
<1> USE DEF DrawerInv, DrawerTypes, OneDialog, LayersMove
<1>1. CASE OpenPalette BY <1>1 DEF OpenPalette, Desk
<1>2. CASE ClosePalette BY <1>2 DEF ClosePalette, Desk
<1>3. ASSUME NEW f \in Filters \union {"all"}, SelectCommand(f) PROVE LayersMove
  BY <1>3, FilteredDesk DEF SelectCommand, Desk
<1>4. ASSUME NEW f \in Filters \union {"all"}, SetFilter(f) PROVE LayersMove
  BY <1>4, FilteredDesk DEF SetFilter
<1>5. ASSUME NEW b \in Bookings, NavigateToBooking(b) PROVE LayersMove
  BY <1>5 DEF NavigateToBooking, ClosedDesk, Desk
<1> QED BY <1>1, <1>2, <1>3, <1>4, <1>5

LEMMA AnswerMoves ==
  ASSUME DrawerInv
  PROVE  /\ \A b \in Bookings : LifecycleDone(b) => LayersMove
         /\ MoveDone \/ CancelEdit => LayersMove
         /\ ConfirmBatch \/ RunBatch \/ BatchDone \/ CloseConfirm => LayersMove
<1> USE DEF DrawerInv, DrawerTypes, OneDialog, LayersMove
<1>1. ASSUME NEW b \in Bookings, LifecycleDone(b) PROVE LayersMove
  BY <1>1 DEF LifecycleDone, Desk
<1>2. CASE MoveDone BY <1>2 DEF MoveDone, Desk
<1>3. CASE CancelEdit BY <1>3 DEF CancelEdit, Desk
<1>4. CASE ConfirmBatch BY <1>4 DEF ConfirmBatch, Bare, Desk
<1>5. CASE RunBatch BY <1>5 DEF RunBatch
<1>6. CASE BatchDone BY <1>6 DEF BatchDone, Desk
<1>7. CASE CloseConfirm BY <1>7 DEF CloseConfirm, Desk
<1> QED BY <1>1, <1>2, <1>3, <1>4, <1>5, <1>6, <1>7

\* The forms and what is sent from them.
LEMMA FormsInv ==
  ASSUME DrawerInv, ChangeDrafts \/ ChangeEdits \/ \E b \in Bookings : StartEdit(b)
  PROVE  DrawerInv'
<1> USE DEF DrawerInv, DrawerTypes, OneDialog, PartySentIsItsOwn
<1>1. CASE ChangeDrafts
  BY <1>1, FormKept DEF ChangeDrafts, WellFormed
<1>2. CASE ChangeEdits
  <2>1. WellFormed(edits) /\ edits \in EditForm BY <1>2 DEF ChangeEdits
  <2>2. WellFormed(edits)' /\ edits' \in EditForm /\ edits'.of = edits.of
    BY <1>2, <2>1, FormKept DEF ChangeEdits, WellFormed
  <2> QED BY <1>2, <2>2 DEF ChangeEdits, WellFormed
<1>3. ASSUME NEW b \in Bookings, StartEdit(b) PROVE DrawerInv'
  <2>1. /\ edits' = [size |-> PartyOf[b], leads |-> 1, of |-> b]
        /\ desk' = [desk EXCEPT !.editing = b]
        /\ PartyOf[b] \in 1..4
    BY <1>3, DrawerAssumption DEF StartEdit
  <2>2. WellFormed(edits)' /\ edits' \in EditForm /\ edits'.of = b
    BY <2>1 DEF WellFormed, EditForm
  <2>3. /\ desk' \in Desk /\ desk'.editing = b
        /\ desk'.palette = desk.palette /\ desk'.confirm = desk.confirm
    BY <2>1 DEF Desk
  <2> QED BY <1>3, <2>2, <2>3 DEF StartEdit, WellFormed
<1> QED BY <1>1, <1>2, <1>3

LEMMA SaveInv == ASSUME DrawerInv, NEW b \in Bookings, SaveEdit(b) PROVE DrawerInv'
<1> DEFINE new == [id |-> b, last |-> TRUE, size |-> edits.size, leads |-> edits.leads,
                   of |-> edits.of]
<1>1. edits.of = b /\ edits.of # Nowhere /\ edits \in EditForm /\ WellFormed(edits)
  BY DrawerAssumption DEF SaveEdit, DrawerInv, DrawerTypes, PartySentIsItsOwn
<1>2. new \in SaveRequest /\ new.of = new.id /\ WellFormed(new)
  BY <1>1 DEF SaveRequest, EditForm, WellFormed
<1>3. \A m \in saves : LET n == [m EXCEPT !.last = FALSE] IN
        n \in SaveRequest /\ n.of = n.id /\ WellFormed(n)
  BY DEF DrawerInv, DrawerTypes, PartySentIsItsOwn, SaveRequest, WellFormed
<1>4. saves' = {[m EXCEPT !.last = FALSE] : m \in saves} \union {new} BY DEF SaveEdit
<1> HIDE DEF new
<1>5. /\ saves' \subseteq SaveRequest
      /\ \A m \in saves' : m.of = m.id /\ WellFormed(m)
  BY <1>2, <1>3, <1>4
<1> QED BY <1>5 DEF SaveEdit, DrawerInv, DrawerTypes, OneDialog, PartySentIsItsOwn, WellFormed

LEMMA AnsweredInv ==
  ASSUME DrawerInv,
         NEW ok \in BOOLEAN, Create \/ CreateAnswered(ok) \/ \E m \in saves : SaveAnswered(m, ok)
  PROVE  DrawerInv'
<1> USE DEF DrawerInv, DrawerTypes, OneDialog, PartySentIsItsOwn
<1>1. CASE Create BY <1>1 DEF Create, WellFormed
<1>2. CASE CreateAnswered(ok) /\ ok
  <2>1. LayersMove BY <1>2, ZenonT(60) DEF CreateAnswered, LayersMove, Desk
  <2> QED BY <2>1, LayersInv
<1>3. CASE CreateAnswered(ok) /\ ~ok
  BY <1>3 DEF CreateAnswered, WellFormed
<1>4. ASSUME NEW m \in saves, SaveAnswered(m, ok), ok PROVE DrawerInv'
  <2>1. /\ edits' = NoEdits /\ desk' = [desk EXCEPT !.mode = "manage", !.editing = Nowhere]
        /\ saves' \subseteq saves
    BY <1>4 DEF SaveAnswered
  <2>2. edits' \in EditForm /\ edits'.of = Nowhere BY <2>1 DEF NoEdits, EditForm
  <2>3. /\ desk' \in Desk /\ desk'.editing = Nowhere
        /\ desk'.palette = desk.palette /\ desk'.confirm = desk.confirm
    BY <2>1 DEF Desk
  <2> QED BY <1>4, <2>1, <2>2, <2>3 DEF SaveAnswered, WellFormed
<1>5. ASSUME NEW m \in saves, SaveAnswered(m, ok), ~ok PROVE DrawerInv'
  BY <1>5 DEF SaveAnswered, WellFormed
<1> QED BY <1>1, <1>2, <1>3, <1>4, <1>5

LEMMA DrawerStepInv == DrawerInv /\ [DeskNext]_deskVars => DrawerInv'
<1> SUFFICES ASSUME DrawerInv, [DeskNext]_deskVars PROVE DrawerInv' OBVIOUS
<1>1. CASE LayersMove BY <1>1, LayersInv
<1>2. CASE UNCHANGED deskVars
  BY <1>2 DEF deskVars, DrawerInv, DrawerTypes, OneDialog, PartySentIsItsOwn, WellFormed
<1>3. CASE DeskNext
  BY <1>1, <1>3, OpeningMoves, PaletteMoves, AnswerMoves, FormsInv, SaveInv, AnsweredInv
     DEF DeskNext
<1> QED BY <1>2, <1>3

\* The party a save or a creation carries is the one drafted for that very booking, with
\* one to four players and one lead, in whatever order answers, clicks and other people's
\* changes open, close and fill the drawer.
THEOREM PartySentAlways == DrawerSpec => []PartySentIsItsOwn
<1>1. DrawerInv => PartySentIsItsOwn BY DEF DrawerInv
<1> QED BY <1>1, DrawerInitInv, DrawerStepInv, PTL DEF DrawerSpec

\* All six variables of the drawer keep their types, and a batch runs under its dialog only.
THEOREM DrawerTypeCorrect == DrawerSpec => []DeskTypeOK
<1>1. DrawerInv => DeskTypeOK BY DEF DrawerInv, DrawerTypes, OneDialog, DeskTypeOK
<1> QED BY <1>1, DrawerInitInv, DrawerStepInv, PTL DEF DrawerSpec

-----------------------------------------------------------------------------
(***************************************************************************)
(* TeeSheetPage: the row a panel points at goes with its panel.            *)
(***************************************************************************)

\* The page's own state is a record of these fields, whatever they hold.
Shaped(v) ==
  v = [selected |-> v.selected, popover |-> v.popover, help |-> v.help,
       layers |-> v.layers, typing |-> v.typing, g |-> v.g, density |-> v.density]
\* A row that is pointed at is on the sheet, or the sheet has none.
Pointed(v, seq) ==
  seq # <<>> => \A r \in {v.selected, v.popover} \ {NoRow} : Has(seq, r)

\* The invariant: an answer clears what it has no row for in the step that brings it, and
\* what is selected or opened between two answers is taken from the rows shown.
Addresses ==
  [course : CourseIds, date : DayRange, interval : Intervals \union {NoRow}]
PageInv == at \in Addresses /\ rows \in Seq(Rows) /\ Shaped(view) /\ Pointed(view, rows)

\* What only drops the selection or the popover, and what points at a row that is shown.
Drops(v, w) ==
  Shaped(w) /\ w.selected \in {v.selected, NoRow} /\ w.popover \in {v.popover, NoRow}
Picks(v, w) ==
  /\ Shaped(w)
  /\ \A r \in {w.selected, w.popover} \ {v.selected, v.popover, NoRow} : Has(rows, r)

LEMMA PickedInv ==
  ASSUME PageInv, Drops(view, view') \/ Picks(view, view'), rows' = rows,
         at' \in Addresses
  PROVE  PageInv'
BY DEF PageInv, Pointed, Drops, Picks

\* A record with one field set drops nothing, unless the field points at a row.
LEMMA RowSet ==
  ASSUME NEW v, Shaped(v), NEW r
  PROVE  /\ Shaped([v EXCEPT !.selected = r])
         /\ [v EXCEPT !.selected = r].selected = r
         /\ [v EXCEPT !.selected = r].popover = v.popover
         /\ Shaped([v EXCEPT !.popover = r])
         /\ [v EXCEPT !.popover = r].popover = r
         /\ [v EXCEPT !.popover = r].selected = v.selected
BY DEF Shaped

LEMMA FieldsDrop ==
  ASSUME NEW v, Shaped(v)
  PROVE  /\ Drops(v, v)
         /\ \A b : /\ Drops(v, [v EXCEPT !.typing = b]) /\ Drops(v, [v EXCEPT !.help = b])
                   /\ Drops(v, [v EXCEPT !.g = b]) /\ Drops(v, [v EXCEPT !.density = b])
                   /\ Drops(v, [v EXCEPT !.layers = b])
BY DEF Shaped, Drops

LEMMA DropsTwice ==
  ASSUME NEW u, NEW v, NEW w, Drops(u, v), Drops(v, w)
  PROVE  Drops(u, w)
BY DEF Drops

LEMMA LayersDrop ==
  ASSUME NEW v, Shaped(v)
  PROVE  /\ Drops(v, NoPopover(v)) /\ NoPopover(v).popover = NoRow
         /\ Drops(v, NoHelp(v)) /\ Drops(v, Elsewhere(v)) /\ Drops(v, Pressed(v))
         /\ Drops(v, [v EXCEPT !.selected = NoRow])
         /\ NoPopover(v).selected = v.selected
         /\ Drops(v, WithHelp(v))
         /\ \A r : /\ Shaped(WithPopover(v, r)) /\ WithPopover(v, r).popover = r
                   /\ WithPopover(v, r).selected = v.selected
<1>1. \A layer : LET w == CloseLayer(v, layer) IN
        Shaped(w) /\ w.selected = v.selected /\ w.popover = v.popover
  BY DEF CloseLayer, Shaped
<1>2. \A layer : LET w == OpenLayer(v, layer) IN
        Shaped(w) /\ w.selected = v.selected /\ w.popover = v.popover
  BY DEF OpenLayer, Shaped
<1>3. /\ Shaped(NoPopover(v)) /\ NoPopover(v).popover = NoRow
      /\ NoPopover(v).selected = v.selected
  <2>1. PICK w : w = CloseLayer(v, "popover") OBVIOUS
  <2>2. NoPopover(v) = [w EXCEPT !.popover = NoRow] BY <2>1 DEF NoPopover
  <2>3. Shaped(w) /\ w.selected = v.selected BY <1>1, <2>1
  <2>4. /\ Shaped([w EXCEPT !.popover = NoRow]) /\ [w EXCEPT !.popover = NoRow].popover = NoRow
        /\ [w EXCEPT !.popover = NoRow].selected = w.selected
    BY <2>3, RowSet, ZenonT(60)
  <2> QED BY <2>2, <2>3, <2>4
<1>4. Drops(v, NoHelp(v))
  <2>1. PICK w : w = CloseLayer(v, "help") OBVIOUS
  <2>2. PICK u : u = [w EXCEPT !.help = FALSE] OBVIOUS
  <2>3. NoHelp(v) = [w EXCEPT !.help = FALSE, !.typing = FALSE] BY <2>1 DEF NoHelp
  <2>4. NoHelp(v) = [u EXCEPT !.typing = FALSE] BY <2>2, <2>3
  <2>5. Drops(v, w) BY <1>1, <2>1 DEF Drops
  <2>6. Drops(w, u) BY <2>2, <2>5, FieldsDrop, Zenon DEF Drops
  <2>7. Drops(u, NoHelp(v)) BY <2>4, <2>6, FieldsDrop, Zenon DEF Drops
  <2> QED BY <2>5, <2>6, <2>7, DropsTwice
<1>5. Drops(v, Elsewhere(v))
  <2>1. PICK w : w = NoPopover(v) OBVIOUS
  <2>2. Elsewhere(v) = [w EXCEPT !.selected = NoRow] BY <2>1 DEF Elsewhere
  <2>3. Shaped(w) /\ w.popover = NoRow BY <1>3, <2>1
  <2>4. /\ Shaped([w EXCEPT !.selected = NoRow]) /\ [w EXCEPT !.selected = NoRow].selected = NoRow
        /\ [w EXCEPT !.selected = NoRow].popover = w.popover
    BY <2>3, RowSet, ZenonT(60)
  <2> QED BY <2>2, <2>3, <2>4 DEF Drops
<1>6. Drops(v, Pressed(v)) BY FieldsDrop, Zenon DEF Pressed
<1>7. Drops(v, WithHelp(v))
  <2>1. PICK w : w = OpenLayer(v, "help") OBVIOUS
  <2>2. PICK u : u = [w EXCEPT !.help = TRUE] OBVIOUS
  <2>3. WithHelp(v) = [w EXCEPT !.help = TRUE, !.typing = TRUE] BY <2>1 DEF WithHelp
  <2>4. WithHelp(v) = [u EXCEPT !.typing = TRUE] BY <2>2, <2>3
  <2>5. Drops(v, w) BY <1>2, <2>1 DEF Drops
  <2>6. Drops(w, u) BY <2>2, <2>5, FieldsDrop, Zenon DEF Drops
  <2>7. Drops(u, WithHelp(v)) BY <2>4, <2>6, FieldsDrop, Zenon DEF Drops
  <2> QED BY <2>5, <2>6, <2>7, DropsTwice
<1>8. ASSUME NEW r
      PROVE  /\ Shaped(WithPopover(v, r)) /\ WithPopover(v, r).popover = r
             /\ WithPopover(v, r).selected = v.selected
  <2>1. PICK w : w = OpenLayer(v, "popover") OBVIOUS
  <2>2. WithPopover(v, r) = [w EXCEPT !.popover = r] BY <2>1 DEF WithPopover
  <2>3. Shaped(w) /\ w.selected = v.selected BY <1>2, <2>1
  <2>4. /\ Shaped([w EXCEPT !.popover = r]) /\ [w EXCEPT !.popover = r].popover = r
        /\ [w EXCEPT !.popover = r].selected = w.selected
    BY <2>3, RowSet, ZenonT(60)
  <2> QED BY <2>2, <2>3, <2>4
<1>9. Drops(v, [v EXCEPT !.selected = NoRow]) BY RowSet DEF Drops
<1> QED BY <1>3, <1>4, <1>5, <1>6, <1>7, <1>8, <1>9 DEF Drops

\* An answer leaves nothing that points at a row it does not have.
LEMMA ClearedPoints ==
  ASSUME NEW v, Shaped(v), NEW new
  PROVE  Shaped(Cleared(v, new)) /\ Pointed(Cleared(v, new), new)
<1> DEFINE kept == IF v.selected = NoRow \/ Has(new, v.selected) \/ new = <<>> THEN v
                   ELSE [v EXCEPT !.selected = NoRow]
<1>1. /\ Shaped(kept) /\ kept.popover = v.popover
      /\ kept.selected = NoRow \/ Has(new, kept.selected) \/ new = <<>>
  BY DEF Shaped
<1>2. Cleared(v, new) = IF v.popover = NoRow \/ Has(new, v.popover) \/ new = <<>> THEN kept
                        ELSE NoPopover(kept)
  BY DEF Cleared
<1> HIDE DEF kept
<1>3. /\ Shaped(NoPopover(kept)) /\ NoPopover(kept).popover = NoRow
      /\ NoPopover(kept).selected = kept.selected
  BY <1>1, LayersDrop DEF Drops
<1> QED BY <1>1, <1>2, <1>3 DEF Pointed

\* Escape only closes.
LEMMA EscapeDrops == ASSUME PageInv, Escape PROVE Drops(view, view')
<1> DEFINE top == IF view.help \/ view.popover # NoRow THEN view
                  ELSE [view EXCEPT !.selected = NoRow]
           Heard(v, i) == IF i <= Len(view.layers) THEN HearEscape(v, view.layers[i]) ELSE v
<1>1. Shaped(view) BY DEF PageInv
<1>2. Drops(view, top) BY <1>1, LayersDrop DEF Drops
<1>3. ASSUME NEW v, Shaped(v), NEW i PROVE Drops(v, Heard(v, i))
  BY <1>3, LayersDrop DEF HearEscape, Drops
<1>4. view' = Heard(Heard(top, 1), 2) BY DEF Escape
<1> HIDE DEF top, Heard
<1>5. Drops(view, Heard(top, 1)) BY <1>2, <1>3, DropsTwice DEF Drops
<1>6. Drops(view, Heard(Heard(top, 1), 2)) BY <1>3, <1>5, DropsTwice DEF Drops
<1> QED BY <1>4, <1>6

LEMMA MouseInv ==
  ASSUME PageInv,
         \/ DismissPopover \/ OpenHelp \/ DismissHelp \/ MoveFocus \/ Escape
         \/ \E i \in 1..Len(rows) : SelectRow(rows[i]) \/ PressPrice(rows[i])
         \/ \E i \in 1..Len(Courses) : SelectCourse(Courses[i])
         \/ \E m \in Intervals : ChangeInterval(m)
  PROVE  PageInv'
<1>1. Shaped(view) BY DEF PageInv
<1>a. at' = at => at' \in Addresses BY DEF PageInv
<1>2. CASE DismissPopover BY <1>1, <1>2, <1>a, LayersDrop, PickedInv DEF DismissPopover
<1>3. CASE OpenHelp BY <1>1, <1>3, <1>a, LayersDrop, PickedInv DEF OpenHelp
<1>4. CASE DismissHelp BY <1>1, <1>4, <1>a, LayersDrop, PickedInv DEF DismissHelp
<1>5. CASE MoveFocus
  <2>1. Drops(view, [view EXCEPT !.typing = ~view.typing]) BY <1>1, FieldsDrop, Zenon
  <2> QED BY <1>5, <1>a, <2>1, PickedInv DEF MoveFocus
<1>6. CASE Escape BY <1>6, <1>a, EscapeDrops, PickedInv DEF Escape
<1>7. ASSUME NEW i \in 1..Len(rows), SelectRow(rows[i]) PROVE PageInv'
  <2>1. Has(rows, rows[i]) BY DEF Has
  <2>2. view' = [NoPopover(view) EXCEPT !.selected = rows[i], !.typing = FALSE] /\ rows' = rows
    BY <1>7 DEF SelectRow
  <2>3. Shaped(NoPopover(view)) /\ NoPopover(view).popover = NoRow
    BY <1>1, LayersDrop DEF Drops
  <2>4. Shaped(view') /\ view'.selected = rows[i] /\ view'.popover = NoRow
    BY <2>2, <2>3 DEF Shaped
  <2> QED BY <2>1, <2>2, <1>7, <1>a, <2>4, PickedInv DEF Picks, SelectRow
<1>8. ASSUME NEW i \in 1..Len(rows), PressPrice(rows[i]) PROVE PageInv'
  <2>1. Has(rows, rows[i]) BY DEF Has
  <2>2. view' = [WithPopover(view, rows[i]) EXCEPT !.selected = rows[i], !.typing = FALSE]
        /\ rows' = rows
    BY <1>8 DEF PressPrice
  <2>3. Shaped(WithPopover(view, rows[i])) /\ WithPopover(view, rows[i]).popover = rows[i]
    BY <1>1, LayersDrop
  <2>4. Shaped(view') /\ view'.selected = rows[i] /\ view'.popover = rows[i]
    BY <2>2, <2>3 DEF Shaped
  <2> QED BY <2>1, <2>2, <1>8, <1>a, <2>4, PickedInv DEF Picks, PressPrice
<1>9. ASSUME NEW i \in 1..Len(Courses), SelectCourse(Courses[i]) PROVE PageInv'
  <2>1. at' \in Addresses BY <1>9 DEF SelectCourse, PageInv, Addresses, CourseIds
  <2> QED BY <1>1, <1>9, <2>1, LayersDrop, PickedInv DEF SelectCourse
<1>10. ASSUME NEW m \in Intervals, ChangeInterval(m) PROVE PageInv'
  <2>1. Drops(view, NoPopover(view)) BY <1>1, LayersDrop
  <2>2. Drops(view, view') BY <1>10, <2>1 DEF ChangeInterval, Drops, Shaped
  <2>3. at' \in Addresses BY <1>10 DEF ChangeInterval, PageInv, Addresses
  <2> QED BY <1>10, <2>2, <2>3, PickedInv DEF ChangeInterval
<1> QED BY <1>2, <1>3, <1>4, <1>5, <1>6, <1>7, <1>8, <1>9, <1>10

\* The arrow keys go to a row of the sheet, or stay.
LEMMA BesideIsARow ==
  ASSUME PageInv, NEW delta
  PROVE  Beside(delta) = view.selected \/ Has(rows, Beside(delta))
<1> DEFINE here == {i \in 1..Len(rows) : rows[i] = view.selected}
<1>1. CASE here = {} /\ delta > 0 /\ rows # <<>>
  <2>1. Beside(delta) = rows[1] BY <1>1 DEF Beside
  <2>2. 1 \in 1..Len(rows) BY <1>1 DEF PageInv
  <2> QED BY <2>1, <2>2 DEF Has
<1>2. CASE here = {} /\ ~(delta > 0 /\ rows # <<>>) BY <1>2 DEF Beside
<1>3. CASE here # {}
  <2> DEFINE next == (CHOOSE i \in here : TRUE) + delta
  <2>1. Beside(delta) = IF next \in 1..Len(rows) THEN rows[next] ELSE view.selected
    BY <1>3 DEF Beside
  <2> HIDE DEF next
  <2> QED BY <2>1 DEF Has
<1> QED BY <1>1, <1>2, <1>3

LEMMA KeysInv ==
  ASSUME PageInv,
         \/ JumpToday \/ GoToEnd \/ FocusSearch \/ OpenPriceForSelected \/ CycleDensity
         \/ \E delta \in {-1, 1} : ShiftDay(delta) \/ MoveSelection(delta)
         \/ \E action \in {"check_in", "no_show"} : ActOnSelected(action)
         \/ \E a \in actions : Answered10(a)
  PROVE  PageInv'
<1>1. Shaped(view) BY DEF PageInv
<1>a. at' = at => at' \in Addresses BY DEF PageInv
<1>2. ASSUME NEW v, Drops(view, v) PROVE Drops(view, Pressed(v))
  BY <1>2, LayersDrop, DropsTwice DEF Drops
<1>3. CASE JumpToday
  <2>1. Drops(view, view') BY <1>1, <1>2, <1>3, LayersDrop DEF JumpToday
  <2>2. at' \in Addresses BY <1>3, PageAssumption DEF JumpToday, PageInv, Addresses
  <2> QED BY <1>3, <2>1, <2>2, PickedInv DEF JumpToday
<1>4. CASE GoToEnd
  <2>1. Drops(view, [view EXCEPT !.selected = NoRow]) BY <1>1, LayersDrop
  <2>2. Drops(view, [view EXCEPT !.g = TRUE]) BY <1>1, FieldsDrop, Zenon
  <2>3. Drops(view, view') BY <1>2, <1>4, <2>1, <2>2 DEF GoToEnd
  <2> QED BY <1>4, <1>a, <2>3, PickedInv DEF GoToEnd
<1>5. CASE FocusSearch
  <2>1. Drops(view, [view EXCEPT !.typing = TRUE]) BY <1>1, FieldsDrop, Zenon
  <2>2. Drops(view, view') BY <1>2, <1>5, <2>1 DEF FocusSearch
  <2> QED BY <1>5, <1>a, <2>2, PickedInv DEF FocusSearch
<1>6. CASE OpenPriceForSelected
  <2>1. CASE ~(Drawable(view.selected) /\ view.selected \notin Barred)
    <3>1. Drops(view, view') BY <1>1, <1>6, <2>1, LayersDrop DEF OpenPriceForSelected
    <3> QED BY <1>6, <1>a, <3>1, PickedInv DEF OpenPriceForSelected
  <2>2. CASE Drawable(view.selected) /\ view.selected \notin Barred
    <3>1. Has(rows, view.selected) BY <2>2 DEF Drawable, Has
    <3>2. view' = Pressed(WithPopover(view, view.selected))
      BY <1>6, <2>2 DEF OpenPriceForSelected
    <3>3. /\ Shaped(WithPopover(view, view.selected))
          /\ WithPopover(view, view.selected).popover = view.selected
          /\ WithPopover(view, view.selected).selected = view.selected
      BY <1>1, LayersDrop
    <3>4. Shaped(view') /\ view'.popover = view.selected /\ view'.selected = view.selected
      BY <3>2, <3>3 DEF Shaped, Pressed
    <3> QED BY <1>6, <1>a, <3>1, <3>4, PickedInv DEF OpenPriceForSelected, Picks
  <2> QED BY <2>1, <2>2
<1>7. CASE CycleDensity
  <2>1. Drops(view, [view EXCEPT !.density = NextDensity(view.density)])
    BY <1>1, FieldsDrop, Zenon
  <2>2. Drops(view, view') BY <1>2, <1>7, <2>1 DEF CycleDensity
  <2> QED BY <1>7, <1>a, <2>2, PickedInv DEF CycleDensity
<1>8. ASSUME NEW delta \in {-1, 1}, ShiftDay(delta) PROVE PageInv'
  <2>1. Drops(view, view') BY <1>1, <1>2, <1>8, LayersDrop DEF ShiftDay
  <2>2. at' \in Addresses BY <1>8 DEF ShiftDay, PageInv, Addresses
  <2> QED BY <1>8, <2>1, <2>2, PickedInv DEF ShiftDay
<1>9. ASSUME NEW delta \in {-1, 1}, MoveSelection(delta) PROVE PageInv'
  <2>1. view' = Pressed([view EXCEPT !.selected = Beside(delta)]) BY <1>9 DEF MoveSelection
  <2>2. Shaped(view') /\ view'.popover = view.popover /\ view'.selected = Beside(delta)
    BY <1>1, <2>1 DEF Shaped, Pressed
  <2> QED BY <1>9, <1>a, <2>2, BesideIsARow, PickedInv DEF MoveSelection, Picks
<1>10. ASSUME NEW action \in {"check_in", "no_show"}, ActOnSelected(action) PROVE PageInv'
  BY <1>1, <1>10, <1>a, LayersDrop, PickedInv DEF ActOnSelected
<1>11. ASSUME NEW a \in actions, Answered10(a) PROVE PageInv'
  BY <1>11 DEF Answered10, PageInv, Pointed
<1> QED BY <1>3, <1>4, <1>5, <1>6, <1>7, <1>8, <1>9, <1>10, <1>11

LEMMA PageStepInv == PageInv /\ [PageNext]_pageVars => PageInv'
<1> SUFFICES ASSUME PageInv, [PageNext]_pageVars PROVE PageInv' OBVIOUS
<1>1. CASE UNCHANGED pageVars BY <1>1 DEF pageVars, PageInv, Pointed
<1>2. CASE DayArrives
  <2>1. PICK new \in RowsAt[Key] : rows' = new /\ view' = Cleared(view, new)
    BY <1>2 DEF DayArrives
  <2>2. PICK i \in 1..Len(Courses) : at.course = Courses[i] BY DEF PageInv, Addresses, CourseIds
  <2>3. RowsAt[Key] \subseteq Seq(Rows)
    BY <2>2, PageAssumption DEF PageInv, Addresses, Key
  <2> QED BY <1>2, <2>1, <2>3, ClearedPoints DEF DayArrives, PageInv
<1>3. CASE PageNext BY <1>2, <1>3, MouseInv, KeysInv DEF PageNext, PageStep
<1> QED BY <1>1, <1>3

\* A panel that has a row got it on the course and the date that are asked for.
Marked ==
  /\ made = [p \in Panes |-> made[p]]
  /\ view.selected # NoRow => made["selected"] = <<at.course, at.date>>
  /\ view.popover # NoRow => made["popover"] = <<at.course, at.date>>
LEMMA MarkedInv ==
  ASSUME Marked, MadeOn,
         \/ at'.course = at.course /\ at'.date = at.date
         \/ view'.selected = NoRow /\ view'.popover = NoRow
  PROVE  Marked'
<1>1. made' = [p \in Panes |-> IF view'[p] = NoRow THEN NoRow
                               ELSE IF view'[p] = view[p] THEN made[p]
                               ELSE <<at'.course, at'.date>>]
  BY DEF MadeOn
<1>2. "selected" \in Panes /\ "popover" \in Panes BY DEF Panes
<1>3. /\ made' = [p \in Panes |-> made'[p]]
      /\ view'.selected # NoRow =>
           made'["selected"] = IF view'.selected = view.selected THEN made["selected"]
                               ELSE <<at'.course, at'.date>>
      /\ view'.popover # NoRow =>
           made'["popover"] = IF view'.popover = view.popover THEN made["popover"]
                              ELSE <<at'.course, at'.date>>
  BY <1>1, <1>2
<1> QED BY <1>3 DEF Marked

\* Course and date change only as the selection and the popover are cleared.
LEMMA ElsewhereClears ==
  ASSUME PageInv, PageStep
  PROVE  \/ at'.course = at.course /\ at'.date = at.date
         \/ view'.selected = NoRow /\ view'.popover = NoRow
<1>1. Shaped(view) BY DEF PageInv
<1>2. LET w == Elsewhere(view) IN Shaped(w) /\ w.selected = NoRow /\ w.popover = NoRow
  <2>1. PICK w : w = NoPopover(view) OBVIOUS
  <2>2. Elsewhere(view) = [w EXCEPT !.selected = NoRow] BY <2>1 DEF Elsewhere
  <2>3. Shaped(w) /\ w.popover = NoRow BY <1>1, <2>1, LayersDrop DEF Drops
  <2>4. /\ Shaped([w EXCEPT !.selected = NoRow]) /\ [w EXCEPT !.selected = NoRow].selected = NoRow
        /\ [w EXCEPT !.selected = NoRow].popover = w.popover
    BY <2>3, RowSet, ZenonT(60)
  <2> QED BY <2>2, <2>3, <2>4
<1>3. LET w == Pressed(Elsewhere(view)) IN w.selected = NoRow /\ w.popover = NoRow
  BY <1>2, LayersDrop DEF Drops
<1>4. ASSUME NEW i \in 1..Len(Courses), SelectCourse(Courses[i])
      PROVE  view'.selected = NoRow /\ view'.popover = NoRow
  BY <1>2, <1>4 DEF SelectCourse
<1>5. ASSUME NEW delta \in {-1, 1}, ShiftDay(delta)
      PROVE  view'.selected = NoRow /\ view'.popover = NoRow
  BY <1>3, <1>5 DEF ShiftDay
<1>6. ASSUME NEW m \in Intervals, ChangeInterval(m)
      PROVE  at'.course = at.course /\ at'.date = at.date
  BY <1>6 DEF ChangeInterval, PageInv, Addresses
<1>7. CASE JumpToday
  <2>1. CASE at.date = 0
    <3>1. at' = [at EXCEPT !.date = 0] BY <1>7 DEF JumpToday
    <3> QED BY <2>1, <3>1 DEF PageInv, Addresses
  <2>2. CASE at.date # 0 BY <1>3, <1>7, <2>2 DEF JumpToday
  <2> QED BY <2>1, <2>2
<1>8. CASE at' = at BY <1>8
<1>9. CASE \/ DayArrives \/ DismissPopover \/ OpenHelp \/ DismissHelp \/ MoveFocus \/ Escape
           \/ \E i \in 1..Len(rows) : SelectRow(rows[i]) \/ PressPrice(rows[i])
           \/ GoToEnd \/ FocusSearch \/ OpenPriceForSelected \/ CycleDensity
           \/ \E delta \in {-1, 1} : MoveSelection(delta)
           \/ \E action \in {"check_in", "no_show"} : ActOnSelected(action)
           \/ \E a \in actions : Answered10(a)
  BY <1>8, <1>9
  DEF DayArrives, DismissPopover, OpenHelp, DismissHelp, MoveFocus, Escape, SelectRow, PressPrice,
      GoToEnd, FocusSearch, OpenPriceForSelected, CycleDensity, MoveSelection, ActOnSelected,
      Answered10
<1> QED BY <1>4, <1>5, <1>6, <1>7, <1>9 DEF PageStep

LEMMA PageStepMarked == PageInv /\ Marked /\ [PageNext]_pageVars => Marked'
<1> SUFFICES ASSUME PageInv, Marked, [PageNext]_pageVars PROVE Marked' OBVIOUS
<1>1. CASE UNCHANGED pageVars BY <1>1 DEF pageVars, Marked
<1>2. CASE PageNext BY <1>2, ElsewhereClears, MarkedInv DEF PageNext
<1> QED BY <1>1, <1>2

(* Whatever answers come and whatever is pressed, the footer, the lock and the keys act on a *)
(* row that is on the sheet, and one that was selected or opened while the course and the    *)
(* date were asked for that are asked for now.                                               *)
THEOREM AlwaysPointsAtARow == PageSpec => []PointsAtARow
<1>1. PageInit => PageInv /\ Marked
  <2> SUFFICES ASSUME PageInit PROVE PageInv /\ Marked OBVIOUS
  <2>1. view \in [density : Densities, selected : {NoRow}, popover : {NoRow}, help : {FALSE},
                  layers : {<<>>}, typing : {FALSE}, g : {FALSE}]
    BY DEF PageInit
  <2>2. Shaped(view) /\ view.selected = NoRow /\ view.popover = NoRow BY <2>1 DEF Shaped
  <2>3. at \in Addresses /\ rows \in Seq(Rows) BY PageAssumption DEF PageInit, Addresses, CourseIds
  <2> QED BY <2>2, <2>3 DEF PageInit, PageInv, Pointed, Marked
<1>2. PageInv /\ Marked => PointsAtARow
  <2> SUFFICES ASSUME PageInv, Marked, NEW p \in Panes, view[p] # NoRow
               PROVE  (rows = <<>> \/ Has(rows, view[p])) /\ made[p] = <<at.course, at.date>>
    BY DEF PointsAtARow
  <2>1. p = "selected" \/ p = "popover" BY DEF Panes
  <2> QED BY <2>1 DEF PageInv, Pointed, Marked
<1>3. (PageInv /\ Marked) /\ [PageNext]_pageVars => (PageInv /\ Marked)'
  BY PageStepInv, PageStepMarked
<1> QED BY <1>1, <1>2, <1>3, PTL DEF PageSpec

-----------------------------------------------------------------------------
\* A listener is on the page once at most.
Once(seq) == \A i, j \in 1..Len(seq) : seq[i] = seq[j] => i = j

LEMMA AppendOnce ==
  ASSUME NEW S, NEW seq \in Seq(S), NEW x \in S
  PROVE  /\ Append(seq, x) \in Seq(S)
         /\ \A y : Has(Append(seq, x), y) <=> Has(seq, y) \/ y = x
         /\ Once(seq) /\ ~Has(seq, x) => Once(Append(seq, x))
<1>1. PICK new : new = Append(seq, x) OBVIOUS
<1>2. /\ new \in Seq(S) /\ Len(new) = Len(seq) + 1 /\ new[Len(seq) + 1] = x
      /\ \A i \in 1..Len(seq) : new[i] = seq[i]
  BY <1>1, AppendProperties
<1>3. ASSUME NEW y PROVE Has(new, y) <=> Has(seq, y) \/ y = x
  <2>1. Len(seq) \in Nat OBVIOUS
  <2>2. \A i : i \in 1..Len(new) <=> i \in 1..Len(seq) \/ i = Len(seq) + 1 BY <1>2, <2>1
  <2> QED BY <1>2, <2>2 DEF Has
<1>4. Once(seq) /\ ~Has(seq, x) => Once(new)
  <2>1. Len(seq) \in Nat OBVIOUS
  <2>2. \A i : i \in 1..Len(new) <=> i \in 1..Len(seq) \/ i = Len(seq) + 1 BY <1>2, <2>1
  <2> QED BY <1>2, <2>2 DEF Has, Once
<1> QED BY <1>1, <1>2, <1>3, <1>4

LEMMA RemovedOnce ==
  ASSUME NEW S, NEW seq \in Seq(S), NEW x, Once(seq)
  PROVE  /\ RemoveFirst(seq, x) \in Seq(S) /\ Once(RemoveFirst(seq, x))
         /\ \A y : Has(RemoveFirst(seq, x), y) <=> Has(seq, y) /\ y # x
<1>1. CASE ~Has(seq, x)
  <2>1. RemoveFirst(seq, x) = seq BY <1>1 DEF RemoveFirst, Has
  <2> QED BY <1>1, <2>1
<1>2. ASSUME NEW k \in 1..Len(seq), seq[k] = x
      PROVE  /\ RemoveFirst(seq, x) \in Seq(S) /\ Once(RemoveFirst(seq, x))
             /\ \A y : Has(RemoveFirst(seq, x), y) <=> Has(seq, y) /\ y # x
  <2>1. SelectInSeq(seq, LAMBDA v : v = x) = k
    <3>1. {i \in 1..Len(seq) : seq[i] = x} = {k} BY <1>2 DEF Once
    <3>2. Min({k}) = k BY DEF Min
    <3> QED BY <3>1, <3>2 DEF SelectInSeq
  <2>2. RemoveFirst(seq, x) = RemoveAt(seq, k) BY <1>2, <2>1 DEF RemoveFirst
  <2>3. PICK n : n = Len(seq) OBVIOUS
  <2>4. n \in Nat /\ k \in 1..n /\ (\A i \in 1..n : seq[i] \in S) BY <2>3
  <2>5. PICK a : a = SubSeq(seq, 1, k - 1) OBVIOUS
  <2>6. PICK b : b = SubSeq(seq, k + 1, n) OBVIOUS
  <2>7. a \in Seq(S) /\ Len(a) = k - 1 /\ (\A i \in 1..k - 1 : a[i] = seq[i])
    <3>1. k - 1 \in Int /\ (\A i \in 1..k - 1 : seq[i] \in S) BY <2>4
    <3>2. /\ a \in Seq(S) /\ Len(a) = IF 1 <= k - 1 THEN (k - 1) - 1 + 1 ELSE 0
          /\ \A i \in 1..(k - 1) - 1 + 1 : a[i] = seq[1 + i - 1]
      BY <2>5, <3>1, SubSeqProperties
    <3> QED BY <2>4, <3>2
  <2>8. b \in Seq(S) /\ Len(b) = n - k /\ (\A i \in 1..n - k : b[i] = seq[k + i])
    <3>1. k + 1 \in Int /\ n \in Int /\ (\A i \in (k + 1)..n : seq[i] \in S) BY <2>4
    <3>2. /\ b \in Seq(S) /\ Len(b) = IF k + 1 <= n THEN n - (k + 1) + 1 ELSE 0
          /\ \A i \in 1..n - (k + 1) + 1 : b[i] = seq[k + 1 + i - 1]
      BY <2>6, <3>1, SubSeqProperties
    <3> QED BY <2>4, <3>2
  <2>9. PICK r : r = a \o b OBVIOUS
  <2>10. /\ r \in Seq(S) /\ Len(r) = n - 1
         /\ \A i \in 1..n - 1 : r[i] = IF i < k THEN seq[i] ELSE seq[i + 1]
    <3>1. /\ r \in Seq(S) /\ Len(r) = Len(a) + Len(b)
          /\ \A i \in 1..Len(a) + Len(b) : r[i] = IF i <= Len(a) THEN a[i] ELSE b[i - Len(a)]
      BY <2>7, <2>8, <2>9, ConcatProperties
    <3>2. Len(r) = n - 1 BY <2>4, <2>7, <2>8, <3>1
    <3>3. ASSUME NEW i \in 1..n - 1 PROVE r[i] = IF i < k THEN seq[i] ELSE seq[i + 1]
      <4>1. r[i] = IF i <= k - 1 THEN a[i] ELSE b[i - (k - 1)] BY <2>4, <2>7, <2>8, <3>1
      <4>2. i <= k - 1 => a[i] = seq[i] BY <2>4, <2>7
      <4>3. ~(i <= k - 1) => i - (k - 1) \in 1..n - k /\ k + (i - (k - 1)) = i + 1 BY <2>4
      <4>4. ~(i <= k - 1) => b[i - (k - 1)] = seq[i + 1] BY <2>8, <4>3
      <4> QED BY <2>4, <4>1, <4>2, <4>4
    <3> QED BY <3>1, <3>2, <3>3
  <2>11. RemoveFirst(seq, x) = r BY <2>2, <2>3, <2>5, <2>6, <2>9 DEF RemoveAt
  <2>12. Once(r)
    <3> SUFFICES ASSUME NEW i \in 1..n - 1, NEW j \in 1..n - 1, r[i] = r[j] PROVE i = j
      BY <2>10 DEF Once
    <3> QED BY <2>3, <2>4, <2>10 DEF Once
  <2>13. ASSUME NEW y PROVE Has(r, y) <=> Has(seq, y) /\ y # x
    <3>1. ASSUME NEW i \in 1..n - 1, r[i] = y PROVE Has(seq, y) /\ y # x
      <4>1. PICK j : j = IF i < k THEN i ELSE i + 1 OBVIOUS
      <4>2. j \in 1..n /\ j # k BY <2>4, <4>1
      <4>3. r[i] = seq[j] BY <2>10, <4>1
      <4> QED BY <1>2, <2>3, <2>4, <3>1, <4>2, <4>3 DEF Has, Once
    <3>2. ASSUME NEW j \in 1..n, seq[j] = y, y # x PROVE Has(r, y)
      <4>1. j # k BY <1>2, <3>2
      <4>2. CASE j < k
        <5>1. j \in 1..n - 1 /\ r[j] = y BY <2>4, <2>10, <3>2, <4>2
        <5> QED BY <2>10, <5>1 DEF Has
      <4>3. CASE j > k
        <5>1. j - 1 \in 1..n - 1 /\ ~(j - 1 < k) /\ (j - 1) + 1 = j BY <2>4, <4>3
        <5>2. r[j - 1] = y BY <2>10, <3>2, <5>1
        <5> QED BY <2>10, <5>1, <5>2 DEF Has
      <4> QED BY <2>4, <4>1, <4>2, <4>3
    <3> QED BY <2>3, <2>10, <3>1, <3>2 DEF Has
  <2> QED BY <2>10, <2>11, <2>12, <2>13
<1> QED BY <1>1, <1>2 DEF Has

-----------------------------------------------------------------------------
\* A panel is open while its key listener is on the page.
Panels == {"help", "popover"}
RowOrNone == Rows \union {NoRow}
Layered(v) ==
  /\ v.layers \in Seq(Panels) /\ Once(v.layers)
  /\ Has(v.layers, "help") <=> v.help
  /\ Has(v.layers, "popover") <=> v.popover # NoRow
  /\ v.help \in BOOLEAN /\ v.typing \in BOOLEAN /\ v.popover \in RowOrNone
  /\ v.selected \in RowOrNone /\ v.g \in BOOLEAN /\ v.density \in Densities
\* What changes no panel.
SamePanels(v, w) ==
  /\ Shaped(w) /\ w.layers = v.layers /\ w.help = v.help /\ w.popover = v.popover
  /\ w.selected \in RowOrNone /\ w.g \in BOOLEAN /\ w.density \in Densities
  /\ w.typing \in BOOLEAN

LEMMA SameLayered ==
  ASSUME NEW v, NEW w, Layered(v), SamePanels(v, w)
  PROVE  Layered(w)
BY DEF Layered, SamePanels

LEMMA FieldsSame ==
  ASSUME NEW v, Shaped(v), Layered(v)
  PROVE  /\ SamePanels(v, v)
         /\ \A r \in RowOrNone : SamePanels(v, [v EXCEPT !.selected = r])
         /\ \A b \in BOOLEAN : SamePanels(v, [v EXCEPT !.typing = b])
         /\ \A b \in BOOLEAN : SamePanels(v, [v EXCEPT !.g = b])
         /\ \A d \in Densities : SamePanels(v, [v EXCEPT !.density = d])
BY DEF Shaped, Layered, SamePanels

\* The two panels open and close with their listeners.
LEMMA PanelsLayered ==
  ASSUME NEW v, Shaped(v), Layered(v)
  PROVE  /\ Shaped(NoPopover(v)) /\ Layered(NoPopover(v))
         /\ Shaped(NoHelp(v)) /\ Layered(NoHelp(v))
         /\ Shaped(WithHelp(v)) /\ Layered(WithHelp(v))
         /\ \A r \in Rows : Shaped(WithPopover(v, r)) /\ Layered(WithPopover(v, r))
<1>1. PICK s, p, h, ls, t, g, d :
        /\ v = [selected |-> s, popover |-> p, help |-> h, layers |-> ls, typing |-> t, g |-> g,
                density |-> d]
        /\ v.selected = s /\ v.popover = p /\ v.help = h /\ v.layers = ls /\ v.typing = t
        /\ v.g = g /\ v.density = d
  BY Zenon DEF Shaped
<1>2. /\ ls \in Seq(Panels) /\ Once(ls) /\ h \in BOOLEAN /\ t \in BOOLEAN
      /\ s \in RowOrNone /\ p \in RowOrNone /\ g \in BOOLEAN /\ d \in Densities
      /\ Has(ls, "help") <=> h
      /\ Has(ls, "popover") <=> p # NoRow
  BY <1>1 DEF Layered
<1>3. PICK shown : shown = TRUE OBVIOUS
<1>4. PICK gone : gone = FALSE OBVIOUS
<1>5. ASSUME NEW l
      PROVE  /\ RemoveFirst(ls, l) \in Seq(Panels) /\ Once(RemoveFirst(ls, l))
             /\ \A y : Has(RemoveFirst(ls, l), y) <=> Has(ls, y) /\ y # l
  BY <1>2, RemovedOnce
<1>6. ASSUME NEW l \in Panels
      PROVE  LET new == IF Has(ls, l) THEN ls ELSE Append(ls, l)
             IN /\ new \in Seq(Panels) /\ Once(new)
                /\ \A y : Has(new, y) <=> Has(ls, y) \/ y = l
  BY <1>2, AppendOnce
<1>7. Shaped(NoPopover(v)) /\ Layered(NoPopover(v))
  <2>1. PICK new : new = RemoveFirst(ls, "popover") OBVIOUS
  <2>2. NoPopover(v) = [selected |-> s, popover |-> NoRow, help |-> h, layers |-> new,
                        typing |-> t, g |-> g, density |-> d]
    <3>1. CloseLayer(v, "popover") = [selected |-> s, popover |-> p, help |-> h, layers |-> new,
                                      typing |-> t, g |-> g, density |-> d]
      BY <1>1, <2>1 DEF CloseLayer
    <3> QED BY <3>1 DEF NoPopover
  <2>3. /\ new \in Seq(Panels) /\ Once(new) /\ ~Has(new, "popover")
        /\ Has(new, "help") <=> Has(ls, "help")
    BY <1>5, <2>1
  <2>4. NoRow \in RowOrNone BY DEF RowOrNone
  <2> QED BY <1>2, <2>2, <2>3, <2>4 DEF Shaped, Layered
<1>8. Shaped(NoHelp(v)) /\ Layered(NoHelp(v))
  <2>1. PICK new : new = RemoveFirst(ls, "help") OBVIOUS
  <2>2. NoHelp(v) = [selected |-> s, popover |-> p, help |-> gone, layers |-> new,
                     typing |-> gone, g |-> g, density |-> d]
    <3>1. CloseLayer(v, "help") = [selected |-> s, popover |-> p, help |-> h, layers |-> new,
                                   typing |-> t, g |-> g, density |-> d]
      BY <1>1, <2>1 DEF CloseLayer
    <3>2. PICK w : w = CloseLayer(v, "help") OBVIOUS
    <3>3. PICK u : u = [w EXCEPT !.help = FALSE] OBVIOUS
    <3>4. NoHelp(v) = [w EXCEPT !.help = FALSE, !.typing = FALSE] BY <3>2 DEF NoHelp
    <3>5. u = [selected |-> s, popover |-> p, help |-> gone, layers |-> new, typing |-> t, g |-> g,
               density |-> d]
      <4>1. u = [w EXCEPT !.help = gone] BY <1>4, <3>3
      <4> QED BY <3>1, <3>2, <4>1
    <3>6. NoHelp(v) = [u EXCEPT !.typing = FALSE] BY <3>3, <3>4
    <3>7. NoHelp(v) = [u EXCEPT !.typing = gone] BY <1>4, <3>6
    <3> QED BY <3>5, <3>7
  <2>3. /\ new \in Seq(Panels) /\ Once(new) /\ ~Has(new, "help")
        /\ Has(new, "popover") <=> Has(ls, "popover")
    BY <1>5, <2>1
  <2>4. PICK w : w = NoHelp(v) OBVIOUS
  <2>5. /\ w.layers = new /\ w.help = gone /\ w.typing = gone /\ w.popover = p /\ Shaped(w)
        /\ w.selected = s /\ w.g = g /\ w.density = d
    BY <2>2, <2>4 DEF Shaped
  <2>6. Layered(w) BY <1>2, <1>4, <2>3, <2>5 DEF Layered
  <2> QED BY <2>4, <2>5, <2>6
<1>9. Shaped(WithHelp(v)) /\ Layered(WithHelp(v))
  <2>1. PICK new : new = IF Has(ls, "help") THEN ls ELSE Append(ls, "help") OBVIOUS
  <2>2. WithHelp(v) = [selected |-> s, popover |-> p, help |-> shown, layers |-> new,
                       typing |-> shown, g |-> g, density |-> d]
    <3>0. OpenLayer(v, "help") = [v EXCEPT !.layers = new]
      BY <1>1, <2>1 DEF OpenLayer
    <3>1. OpenLayer(v, "help") = [selected |-> s, popover |-> p, help |-> h, layers |-> new,
                                  typing |-> t, g |-> g, density |-> d]
      BY <1>1, <3>0
    <3>2. PICK w : w = OpenLayer(v, "help") OBVIOUS
    <3>3. PICK u : u = [w EXCEPT !.help = TRUE] OBVIOUS
    <3>4. WithHelp(v) = [w EXCEPT !.help = TRUE, !.typing = TRUE] BY <3>2 DEF WithHelp
    <3>5. u = [selected |-> s, popover |-> p, help |-> shown, layers |-> new, typing |-> t, g |-> g,
               density |-> d]
      <4>1. u = [w EXCEPT !.help = shown] BY <1>3, <3>3
      <4> QED BY <3>1, <3>2, <4>1
    <3>6. WithHelp(v) = [u EXCEPT !.typing = TRUE] BY <3>3, <3>4
    <3>7. WithHelp(v) = [u EXCEPT !.typing = shown] BY <1>3, <3>6
    <3> QED BY <3>5, <3>7
  <2>3. /\ new \in Seq(Panels) /\ Once(new) /\ Has(new, "help")
        /\ Has(new, "popover") <=> Has(ls, "popover")
    BY <1>6, <2>1 DEF Panels
  <2>4. PICK w : w = WithHelp(v) OBVIOUS
  <2>5. /\ w.layers = new /\ w.help = shown /\ w.typing = shown /\ w.popover = p /\ Shaped(w)
        /\ w.selected = s /\ w.g = g /\ w.density = d
    BY <2>2, <2>4 DEF Shaped
  <2>6. Layered(w) BY <1>2, <1>3, <2>3, <2>5 DEF Layered
  <2> QED BY <2>4, <2>5, <2>6
<1>10. ASSUME NEW r \in Rows PROVE Shaped(WithPopover(v, r)) /\ Layered(WithPopover(v, r))
  <2>1. PICK new : new = IF Has(ls, "popover") THEN ls ELSE Append(ls, "popover") OBVIOUS
  <2>2. WithPopover(v, r) = [selected |-> s, popover |-> r, help |-> h, layers |-> new,
                             typing |-> t, g |-> g, density |-> d]
    <3>0. OpenLayer(v, "popover") = [v EXCEPT !.layers = new]
      BY <1>1, <2>1 DEF OpenLayer
    <3>1. OpenLayer(v, "popover") = [selected |-> s, popover |-> p, help |-> h, layers |-> new,
                                     typing |-> t, g |-> g, density |-> d]
      BY <1>1, <3>0
    <3> QED BY <3>1 DEF WithPopover
  <2>3. /\ new \in Seq(Panels) /\ Once(new) /\ Has(new, "popover")
        /\ Has(new, "help") <=> Has(ls, "help")
    BY <1>6, <2>1 DEF Panels
  <2>4. r \in RowOrNone /\ r # NoRow BY PageAssumption DEF RowOrNone
  <2> QED BY <1>2, <2>2, <2>3, <2>4 DEF Shaped, Layered
<1> QED BY <1>7, <1>8, <1>9, <1>10

Fine(v) == Shaped(v) /\ Layered(v)
LEMMA StaysFine ==
  ASSUME NEW v, Fine(v)
  PROVE  /\ \A r \in RowOrNone : Fine([v EXCEPT !.selected = r])
         /\ \A r \in RowOrNone : Fine([v EXCEPT !.selected = r, !.typing = FALSE])
         /\ \A b \in BOOLEAN : Fine([v EXCEPT !.typing = b])
         /\ \A b \in BOOLEAN : Fine([v EXCEPT !.g = b])
         /\ \A d \in Densities : Fine([v EXCEPT !.density = d])
         /\ Fine(Pressed(v)) /\ Fine(NoPopover(v)) /\ Fine(NoHelp(v)) /\ Fine(WithHelp(v))
         /\ Fine(Elsewhere(v))
         /\ \A r \in Rows : Fine(WithPopover(v, r))
<1>1. ASSUME NEW u, Fine(u), NEW w, SamePanels(u, w) PROVE Fine(w)
  BY <1>1, SameLayered DEF Fine, SamePanels
<1>2. ASSUME NEW u, Fine(u)
      PROVE  /\ \A r \in RowOrNone : Fine([u EXCEPT !.selected = r])
             /\ \A b \in BOOLEAN : Fine([u EXCEPT !.typing = b])
             /\ \A b \in BOOLEAN : Fine([u EXCEPT !.g = b])
             /\ \A d \in Densities : Fine([u EXCEPT !.density = d])
  BY <1>1, <1>2, FieldsSame, Zenon DEF Fine
<1>a. FALSE \in BOOLEAN /\ NoRow \in RowOrNone BY DEF RowOrNone
<1>3. ASSUME NEW r \in RowOrNone PROVE Fine([v EXCEPT !.selected = r, !.typing = FALSE])
  <2>1. PICK u : u = [v EXCEPT !.selected = r] OBVIOUS
  <2>2. [v EXCEPT !.selected = r, !.typing = FALSE] = [u EXCEPT !.typing = FALSE] BY <2>1
  <2>3. Fine(u) BY <1>2, <2>1, Zenon
  <2> QED BY <1>2, <1>a, <2>2, <2>3, Zenon
<1>4. Fine(Pressed(v)) BY <1>2, <1>a, Zenon DEF Pressed
<1>5. /\ Fine(NoPopover(v)) /\ Fine(NoHelp(v)) /\ Fine(WithHelp(v))
      /\ \A r \in Rows : Fine(WithPopover(v, r))
  BY PanelsLayered, Zenon DEF Fine
<1>6. Fine(Elsewhere(v)) BY <1>2, <1>5, <1>a, Zenon DEF Elsewhere
<1> QED BY <1>2, <1>3, <1>4, <1>5, <1>6, Zenon

LEMMA ClearedFine == ASSUME NEW v, Fine(v), NEW new PROVE Fine(Cleared(v, new))
<1>1. PICK kept : kept = IF v.selected = NoRow \/ Has(new, v.selected) \/ new = <<>> THEN v
                        ELSE [v EXCEPT !.selected = NoRow]
  OBVIOUS
<1>2. Fine(kept)
  <2>1. NoRow \in RowOrNone BY DEF RowOrNone
  <2> QED BY <1>1, <2>1, StaysFine
<1>3. Cleared(v, new) = IF v.popover = NoRow \/ Has(new, v.popover) \/ new = <<>> THEN kept
                        ELSE NoPopover(kept)
  BY <1>1 DEF Cleared
<1> QED BY <1>2, <1>3, StaysFine

LEMMA EscapeFine == ASSUME Fine(view), Escape PROVE Fine(view')
<1> DEFINE top == IF view.help \/ view.popover # NoRow THEN view
                  ELSE [view EXCEPT !.selected = NoRow]
           Heard(v, i) == IF i <= Len(view.layers) THEN HearEscape(v, view.layers[i]) ELSE v
<1>1. Fine(top)
  <2>1. NoRow \in RowOrNone BY DEF RowOrNone
  <2> QED BY <2>1, StaysFine
<1>2. ASSUME NEW v, Fine(v), NEW i PROVE Fine(Heard(v, i))
  BY <1>2, StaysFine DEF HearEscape
<1>3. view' = Heard(Heard(top, 1), 2) BY DEF Escape
<1> HIDE DEF top, Heard
<1> QED BY <1>1, <1>2, <1>3

LEMMA PageNextFine == PageInv /\ Fine(view) /\ [PageNext]_pageVars => Fine(view')
<1> SUFFICES ASSUME PageInv, Fine(view), [PageNext]_pageVars PROVE Fine(view') OBVIOUS
<1>1. CASE UNCHANGED pageVars BY <1>1 DEF pageVars
<1>2. \A i \in 1..Len(rows) : rows[i] \in Rows /\ rows[i] \in RowOrNone /\ rows[i] # NoRow
  BY PageAssumption DEF PageInv, RowOrNone
<1>a. NoRow \in RowOrNone /\ TRUE \in BOOLEAN /\ FALSE \in BOOLEAN BY DEF RowOrNone
<1>3. CASE DayArrives BY <1>3, ClearedFine DEF DayArrives
<1>4. CASE DismissPopover BY <1>4, StaysFine DEF DismissPopover
<1>5. CASE OpenHelp BY <1>5, StaysFine DEF OpenHelp
<1>6. CASE DismissHelp BY <1>6, StaysFine DEF DismissHelp
<1>7. CASE MoveFocus
  <2>1. PICK b \in BOOLEAN : b = ~view.typing OBVIOUS
  <2>2. view' = [view EXCEPT !.typing = ~view.typing] BY <1>7 DEF MoveFocus
  <2>3. \A c \in BOOLEAN : Fine([view EXCEPT !.typing = c]) BY StaysFine, Zenon
  <2> QED BY <2>2, <2>3, Zenon
<1>8. CASE Escape BY <1>8, EscapeFine
<1>9. ASSUME NEW i \in 1..Len(rows), SelectRow(rows[i]) PROVE Fine(view')
  <2>1. view' = [NoPopover(view) EXCEPT !.selected = rows[i], !.typing = FALSE]
    BY <1>9 DEF SelectRow
  <2>2. Fine(NoPopover(view)) BY StaysFine
  <2> QED BY <1>2, <2>1, <2>2, StaysFine, Zenon
<1>10. ASSUME NEW i \in 1..Len(rows), PressPrice(rows[i]) PROVE Fine(view')
  <2>1. view' = [WithPopover(view, rows[i]) EXCEPT !.selected = rows[i], !.typing = FALSE]
    BY <1>10 DEF PressPrice
  <2>2. Fine(WithPopover(view, rows[i])) BY <1>2, StaysFine, Zenon
  <2> QED BY <1>2, <2>1, <2>2, StaysFine, Zenon
<1>11. ASSUME NEW i \in 1..Len(Courses), SelectCourse(Courses[i]) PROVE Fine(view')
  BY <1>11, StaysFine DEF SelectCourse
<1>12. ASSUME NEW m \in Intervals, ChangeInterval(m) PROVE Fine(view')
  <2>1. view' = [NoPopover(view) EXCEPT !.selected = NoRow, !.typing = FALSE]
    BY <1>12 DEF ChangeInterval
  <2>2. Fine(NoPopover(view)) BY StaysFine
  <2> QED BY <1>a, <2>1, <2>2, StaysFine, Zenon
<1>13. CASE JumpToday
  <2>1. view' = Pressed([view EXCEPT !.selected = NoRow]) \/ view' = Pressed(Elsewhere(view))
    BY <1>13 DEF JumpToday
  <2>2. Fine([view EXCEPT !.selected = NoRow]) /\ Fine(Elsewhere(view)) BY <1>a, StaysFine, Zenon
  <2> QED BY <2>1, <2>2, StaysFine, Zenon
<1>14. CASE GoToEnd
  <2>1. view' = Pressed([view EXCEPT !.selected = NoRow]) \/ view' = [view EXCEPT !.g = TRUE]
    BY <1>14 DEF GoToEnd
  <2>2. Fine([view EXCEPT !.selected = NoRow]) /\ Fine([view EXCEPT !.g = TRUE])
    BY <1>a, StaysFine, Zenon
  <2> QED BY <2>1, <2>2, StaysFine, Zenon
<1>15. CASE FocusSearch
  <2>1. view' = Pressed([view EXCEPT !.typing = TRUE]) BY <1>15 DEF FocusSearch
  <2>2. \A c \in BOOLEAN : Fine([view EXCEPT !.typing = c]) BY StaysFine, Zenon
  <2> QED BY <2>1, <2>2, StaysFine, Zenon
<1>16. CASE OpenPriceForSelected
  <2>1. CASE Drawable(view.selected) /\ view.selected \notin Barred
    <3>1. view.selected \in Rows BY <1>2, <2>1, Zenon DEF Drawable
    <3>2. view' = Pressed(WithPopover(view, view.selected)) BY <1>16, <2>1 DEF OpenPriceForSelected
    <3>3. Fine(WithPopover(view, view.selected)) BY <3>1, StaysFine, Zenon
    <3> QED BY <3>2, <3>3, StaysFine, Zenon
  <2>2. CASE ~(Drawable(view.selected) /\ view.selected \notin Barred)
    <3>1. view' = Pressed(view) BY <1>16, <2>2 DEF OpenPriceForSelected
    <3> QED BY <3>1, StaysFine, Zenon
  <2> QED BY <2>1, <2>2
<1>17. CASE CycleDensity
  <2>1. view' = Pressed([view EXCEPT !.density = NextDensity(view.density)])
    BY <1>17 DEF CycleDensity
  <2>2. NextDensity(view.density) \in Densities BY DEF NextDensity, Densities
  <2>3. Fine([view EXCEPT !.density = NextDensity(view.density)]) BY <2>2, StaysFine, Zenon
  <2> QED BY <2>1, <2>3, StaysFine, Zenon
<1>18. ASSUME NEW delta \in {-1, 1}, ShiftDay(delta) \/ MoveSelection(delta) PROVE Fine(view')
  <2>1. view' = Pressed(Elsewhere(view))
        \/ view' = Pressed([view EXCEPT !.selected = Beside(delta)])
    BY <1>18 DEF ShiftDay, MoveSelection
  <2>2. Beside(delta) \in RowOrNone
    <3>1. Beside(delta) = view.selected \/ Has(rows, Beside(delta)) BY BesideIsARow
    <3>2. view.selected \in RowOrNone BY DEF Fine, Layered
    <3> QED BY <1>2, <3>1, <3>2 DEF Has
  <2>3. Fine([view EXCEPT !.selected = Beside(delta)]) /\ Fine(Elsewhere(view))
    BY <2>2, StaysFine, Zenon
  <2> QED BY <2>1, <2>3, StaysFine, Zenon
<1>19. ASSUME NEW action \in {"check_in", "no_show"}, ActOnSelected(action) PROVE Fine(view')
  BY <1>19, StaysFine DEF ActOnSelected
<1>20. ASSUME NEW a \in actions, Answered10(a) PROVE Fine(view')
  BY <1>20 DEF Answered10
<1> QED
  BY <1>1, <1>3, <1>4, <1>5, <1>6, <1>7, <1>8, <1>9, <1>10, <1>11, <1>12, <1>13, <1>14, <1>15,
     <1>16, <1>17, <1>18, <1>19, <1>20 DEF PageNext, PageStep

LEMMA PageStarts == PageInit => PageInv /\ Fine(view)
<1> SUFFICES ASSUME PageInit PROVE PageInv /\ Fine(view) OBVIOUS
<1>1. view \in [density : Densities, selected : {NoRow},
                popover : {NoRow}, help : {FALSE}, layers : {<<>>}, typing : {FALSE}, g : {FALSE}]
  BY DEF PageInit
<1>2. Shaped(view) /\ view.selected = NoRow /\ view.popover = NoRow BY <1>1 DEF Shaped
<1>3. view.help = FALSE /\ view.typing = FALSE /\ view.layers = <<>> /\ view.g = FALSE
      /\ view.density \in Densities
  BY <1>1
<1>4. at \in Addresses /\ rows \in Seq(Rows) BY PageAssumption DEF PageInit, Addresses, CourseIds
<1>5. \A x : ~Has(<<>>, x) BY DEF Has
<1>6. <<>> \in Seq(Panels) /\ Once(<<>>) BY DEF Once
<1>7. Layered(view) BY <1>2, <1>3, <1>5, <1>6 DEF Layered, RowOrNone
<1> QED BY <1>2, <1>4, <1>7 DEF PageInit, PageInv, Pointed, Fine

LEMMA HasIsTruth == \A seq, x : Has(seq, x) \in BOOLEAN
BY DEF Has
LEMMA SameTruth == ASSUME NEW p \in BOOLEAN, NEW q \in BOOLEAN, p <=> q PROVE p = q
OBVIOUS

\* The requests sent by keyboard are of rows that were on the sheet.
ActsRight ==
  /\ actions \subseteq [row : Rows, action : {"check_in", "no_show"}]
  /\ made \in [Panes -> (CourseIds \X DayRange) \union {NoRow}]
LEMMA PageStepActs == PageInv /\ ActsRight /\ [PageNext]_pageVars => ActsRight'
<1> SUFFICES ASSUME PageInv, ActsRight, [PageNext]_pageVars PROVE ActsRight' OBVIOUS
<1>1. CASE UNCHANGED pageVars BY <1>1 DEF pageVars, ActsRight
<1>2. CASE PageNext
  <2>1. PageInv' BY <1>2, PageStepInv
  <2>2. <<at'.course, at'.date>> \in CourseIds \X DayRange BY <2>1 DEF PageInv, Addresses
  <2>3. made' \in [Panes -> (CourseIds \X DayRange) \union {NoRow}]
    BY <1>2, <2>2 DEF PageNext, MadeOn, ActsRight
  <2>4. actions' \subseteq [row : Rows, action : {"check_in", "no_show"}]
    <3>1. CASE actions' = actions BY <3>1 DEF ActsRight
    <3>2. ASSUME NEW action \in {"check_in", "no_show"}, ActOnSelected(action)
          PROVE  actions' \subseteq [row : Rows, action : {"check_in", "no_show"}]
      <4>1. CASE EligibleRow = NoRow BY <3>1, <3>2, <4>1 DEF ActOnSelected
      <4>2. CASE EligibleRow # NoRow
        <5>1. EligibleRow = view.selected /\ Has(rows, view.selected) BY <4>2 DEF EligibleRow
        <5>2. EligibleRow \in Rows BY <5>1 DEF Has, PageInv
        <5>3. actions' = actions \union {[row |-> EligibleRow, action |-> action]}
          BY <3>2, <4>2 DEF ActOnSelected
        <5> QED BY <5>2, <5>3 DEF ActsRight
      <4> QED BY <4>1, <4>2
    <3>3. ASSUME NEW a \in actions, Answered10(a)
          PROVE  actions' \subseteq [row : Rows, action : {"check_in", "no_show"}]
      BY <3>3 DEF Answered10, ActsRight
    <3>4. actions' = actions \/ (\E action \in {"check_in", "no_show"} : ActOnSelected(action))
          \/ \E a \in actions : Answered10(a)
      BY <1>2
      DEF PageNext, PageStep, DayArrives, DismissPopover, OpenHelp, DismissHelp, MoveFocus, Escape,
          SelectRow, PressPrice, SelectCourse, ChangeInterval, JumpToday, GoToEnd, FocusSearch,
          OpenPriceForSelected, CycleDensity, ShiftDay, MoveSelection
    <3> QED BY <3>1, <3>2, <3>3, <3>4
  <2> QED BY <2>3, <2>4 DEF ActsRight
<1> QED BY <1>1, <1>2

LEMMA TypesOfPage == PageInv /\ Fine(view) /\ ActsRight => PageTypeOK
<1> SUFFICES ASSUME PageInv, Fine(view), ActsRight PROVE PageTypeOK OBVIOUS
<1>1. view.help \in BOOLEAN BY DEF Fine, Layered
<1>2. view \in [selected : Rows \union {NoRow}, popover : Rows \union {NoRow}, help : BOOLEAN,
                layers : Seq({"help", "popover"}), typing : BOOLEAN, g : BOOLEAN,
                density : Densities]
  <2>1. PICK s, p, h, ls, t, g, d :
          /\ view = [selected |-> s, popover |-> p, help |-> h, layers |-> ls, typing |-> t,
                     g |-> g, density |-> d]
          /\ view.selected = s /\ view.popover = p /\ view.help = h /\ view.layers = ls
          /\ view.typing = t /\ view.g = g /\ view.density = d
    BY Zenon DEF Fine, Shaped
  <2>2. /\ s \in Rows \union {NoRow} /\ p \in Rows \union {NoRow} /\ h \in BOOLEAN
        /\ ls \in Seq({"help", "popover"}) /\ t \in BOOLEAN /\ g \in BOOLEAN /\ d \in Densities
    BY <2>1 DEF Fine, Layered, RowOrNone, Panels
  <2> QED BY <2>1, <2>2, Zenon
<1>3. Has(view.layers, "popover") = (view.popover # NoRow)
  <2>1. Has(view.layers, "popover") <=> view.popover # NoRow BY DEF Fine, Layered
  <2>2. Has(view.layers, "popover") \in BOOLEAN /\ (view.popover # NoRow) \in BOOLEAN
    BY HasIsTruth
  <2> QED BY <2>1, <2>2, SameTruth
<1>4. Has(view.layers, "help") = view.help
  <2>1. Has(view.layers, "help") <=> view.help BY DEF Fine, Layered
  <2>2. Has(view.layers, "help") \in BOOLEAN BY HasIsTruth
  <2> QED BY <1>1, <2>1, <2>2, SameTruth
<1>5. \A i, j \in 1..Len(view.layers) : view.layers[i] = view.layers[j] => i = j
  BY DEF Fine, Layered, Once
<1> QED BY <1>2, <1>3, <1>4, <1>5 DEF PageTypeOK, PageInv, Addresses, ActsRight

(* Whatever answers come and whatever is pressed, every variable of the page keeps its type; *)
(* and the help and the price popover each have a listener for Escape while they are open,   *)
(* one and no longer, so that a press closes what is open and nothing that is not            *)
(* (ShortcutHelpModal, PricePopover).                                                        *)
THEOREM PageTypeCorrect == PageSpec => []PageTypeOK
<1>1. PageInit => PageInv /\ Fine(view) /\ ActsRight
  BY PageStarts DEF PageInit, ActsRight
<1>2. /\ PageInv /\ Fine(view) /\ ActsRight /\ [PageNext]_pageVars
      => (PageInv /\ Fine(view) /\ ActsRight)'
  BY PageStepInv, PageNextFine, PageStepActs
<1> QED BY <1>1, <1>2, TypesOfPage, PTL DEF PageSpec


-----------------------------------------------------------------------------
(***************************************************************************)
(* ParticipantSwap: what is known of the two people at every step of their *)
(* swap. Where staff finish one drop before the next, at most one move is  *)
(* on its way, and a swap that failed half-way waits with both still where *)
(* the page says.                                                          *)
(***************************************************************************)

LEMMA OfOne ==
  ASSUME NEW m
  PROVE  <<m>> \in Seq({m}) /\ Len(<<m>>) = 1 /\ <<m>>[1] = m
OBVIOUS

LEMMA NoneLeftOfOne ==
  ASSUME NEW m, NEW i \in 1..Len(<<m>>)
  PROVE  RemoveAt(<<m>>, i) = <<>>
<1>1. i = 1 BY OfOne
<1>2. PICK s : s = <<m>> OBVIOUS
<1>3. s \in Seq({m}) /\ Len(s) = 1 BY <1>2, OfOne
<1>4. SubSeq(s, 1, 0) = <<>> /\ SubSeq(s, 2, 1) = <<>> BY SubSeqEmpty
<1>5. RemoveAt(s, 1) = SubSeq(s, 1, 0) \o SubSeq(s, 2, 1) BY <1>3 DEF RemoveAt
<1>6. <<>> \o <<>> = <<>> BY <1>3, ConcatEmptySeq, EmptySeq
<1> QED BY <1>1, <1>2, <1>4, <1>5, <1>6

LEMMA AnsweredOne ==
  ASSUME NEW m, NEW v, NEW i \in 1..Len(<<m>>)
  PROVE  [<<m>> EXCEPT ![i].answer = v] = <<[m EXCEPT !.answer = v]>>
<1>1. i = 1 BY OfOne
<1> QED BY <1>1

-----------------------------------------------------------------------------
\* A booking and its fields; nobody in two bookings; a copy of the day the page has.
BookingsShaped(bookings) ==
  \A b \in bookings : b = [id |-> b.id, players |-> b.players, row |-> b.row, status |-> b.status]
PlayersApart(bookings) == \A b, c \in bookings : b # c => b.players \intersect c.players = {}
KnownDay(day) == BookingsShaped(day) /\ Players(day) \subseteq Players(booked)

\* The two people of the swap, seen from the server.
Stayed == SitsIn(swap.a.player, stood.a) /\ SitsIn(swap.b.player, stood.b)
Crossed == SitsIn(swap.a.player, swap.b.row)
OtherStayed == lost \/ SitsIn(swap.b.player, stood.b)
Busy == {"first-pending", "second-pending", "restoring"}
Stuck == {"partial-failure-second", "restore-failed"}

\* What holds of the two while a move of the swap is on its way, given its answer.
FirstRight(answer) == IF answer = "none" THEN Crossed /\ OtherStayed ELSE lost \/ Stayed
SecondRight(answer) ==
  Crossed /\ IF answer = "none" THEN SitsIn(swap.b.player, swap.a.row) ELSE OtherStayed
RestoreRight(answer) ==
  /\ OtherStayed
  /\ IF answer = "none" THEN SitsIn(swap.a.player, swap.a.row) ELSE lost \/ Crossed
MoveRight(m) ==
  \/ m.stage = "plain" /\ swap.kind \notin Busy \union Stuck
  \/ /\ m.stage = "first" /\ swap.kind = "first-pending"
     /\ m.player = swap.a.player /\ m.to = swap.b.row
     /\ OfTwo => FirstRight(m.answer.refusal)
  \/ /\ m.stage = "second" /\ swap.kind = "second-pending"
     /\ m.player = swap.b.player /\ m.to = swap.a.row
     /\ OfTwo => SecondRight(m.answer.refusal)
  \/ /\ m.stage = "restore" /\ swap.kind = "restoring"
     /\ m.player = swap.a.player /\ m.to = swap.a.row
     /\ OfTwo => RestoreRight(m.answer.refusal)
MoveShaped(m) ==
  /\ m = [id |-> m.id, player |-> m.player, before |-> m.before, latest |-> TRUE, from |-> m.from,
          to |-> m.to, stage |-> m.stage, answer |-> m.answer]
  /\ m.answer = [booking |-> m.answer.booking, refusal |-> m.answer.refusal]
  /\ (m.answer.refusal = "unanswered") => m.answer = Unanswered
  /\ m.before # Nil => KnownDay(m.before)
SwapAtRest ==
  /\ moves = <<>> /\ swap.kind \notin Busy
  /\ swap.kind = "partial-failure-second" /\ OfTwo => Crossed /\ OtherStayed

SwapInv ==
  /\ BookingsShaped(booked) /\ PlayersApart(booked) /\ KnownDay(grid)
  /\ reading.step = "answered" => KnownDay(reading.got)
  /\ swap = [kind |-> swap.kind, a |-> swap.a, b |-> swap.b, result |-> swap.result]
  /\ swap.kind # "idle" => {swap.a.player, swap.b.player} \subseteq Players(booked)
  /\ SwapAtRest \/ \E m : moves = <<m>> /\ MoveShaped(m) /\ MoveRight(m)

-----------------------------------------------------------------------------
LEMMA SitsWhereBooked ==
  ASSUME NEW p \in Players(booked)
  PROVE  SitsIn(p, RowOf(p))
<1>1. Holding(booked, p) # {} BY DEF Players, Holding
<1>2. PICK b \in Holding(booked, p) : RowOf(p) = b.row BY <1>1 DEF RowOf
<1> QED BY <1>2 DEF SitsIn

\* A move that is done takes its player to its row and nobody else anywhere.
LEMMA ServedMove ==
  ASSUME BookingsShaped(booked), PlayersApart(booked), NEW m, Refusal(m) = "none",
         booked' = (booked \ {Asked(m)}) \union After(Asked(m), m)
  PROVE  /\ BookingsShaped(booked)' /\ PlayersApart(booked)'
         /\ Players(booked) \subseteq Players(booked')
         /\ SitsIn(m.player, m.to)'
         /\ \A p, s : p # m.player /\ SitsIn(p, s) => SitsIn(p, s)'
<1>1. PICK b : b = Asked(m) OBVIOUS
<1>2. b \in booked /\ m.player \in b.players BY <1>1 DEF Refusal, Asked
<1>3. b = [id |-> b.id, players |-> b.players, row |-> b.row, status |-> b.status]
  BY <1>2 DEF BookingsShaped
<1>4. \A c \in booked \ {b} : c.players \intersect b.players = {} BY <1>2 DEF PlayersApart
<1>5. CASE b.players = {m.player}
  <2>1. PICK c : c = [id |-> b.id, players |-> b.players, row |-> m.to, status |-> b.status]
    OBVIOUS
  <2>2. [b EXCEPT !.row = m.to] = c BY <1>3, <2>1
  <2>3. booked' = (booked \ {b}) \union {c} BY <1>1, <1>5, <2>2 DEF After, Split
  <2>4. BookingsShaped(booked)' BY <2>1, <2>3 DEF BookingsShaped
  <2>5. PlayersApart(booked)' BY <1>4, <2>1, <2>3 DEF PlayersApart
  <2>6. Players(booked) \subseteq Players(booked') BY <1>2, <2>1, <2>3 DEF Players
  <2>7. SitsIn(m.player, m.to)' BY <1>2, <2>1, <2>3 DEF SitsIn, Holding
  <2>8. \A p, s : p # m.player /\ SitsIn(p, s) => SitsIn(p, s)'
    BY <1>5, <2>3 DEF SitsIn, Holding
  <2> QED BY <2>4, <2>5, <2>6, <2>7, <2>8
<1>6. CASE b.players # {m.player}
  <2>1. PICK c : c = [id |-> b.id, players |-> b.players \ {m.player}, row |-> b.row,
                      status |-> b.status]
    OBVIOUS
  <2>2. PICK d : d = [id |-> Append(b.id, m.player), players |-> {m.player}, row |-> m.to,
                      status |-> b.status]
    OBVIOUS
  <2>3. [b EXCEPT !.players = @ \ {m.player}] = c BY <1>3, <2>1
  <2>5. booked' = (booked \ {b}) \union {c, d}
    BY <1>1, <1>6, <2>2, <2>3 DEF After, Split
  <2>6. c.players = b.players \ {m.player} /\ c.row = b.row /\ d.players = {m.player}
                                           /\ d.row = m.to
    BY <2>1, <2>2
  <2>7. BookingsShaped(booked)'
    <3>1. c = [id |-> c.id, players |-> c.players, row |-> c.row, status |-> c.status] BY <2>1
    <3>2. d = [id |-> d.id, players |-> d.players, row |-> d.row, status |-> d.status] BY <2>2
    <3> QED BY <2>5, <3>1, <3>2 DEF BookingsShaped
  <2>8. PlayersApart(booked)' 
    <3>1. \A e \in booked \ {b} : /\ e.players \intersect c.players = {}
                                  /\ e.players \intersect d.players = {}
      BY <1>2, <1>4, <2>6
    <3>2. c.players \intersect d.players = {} BY <2>6
    <3>3. \A e, f \in booked \ {b} : e # f => e.players \intersect f.players = {}
      BY DEF PlayersApart
    <3> QED BY <2>5, <3>1, <3>2, <3>3 DEF PlayersApart
  <2>9. Players(booked) \subseteq Players(booked')
    <3> SUFFICES ASSUME NEW p, NEW e \in booked, p \in e.players PROVE p \in Players(booked')
      BY DEF Players
    <3>1. \E f \in booked' : p \in f.players BY <1>2, <2>5, <2>6
    <3> QED BY <3>1 DEF Players
  <2>10. SitsIn(m.player, m.to)' BY <2>5, <2>6 DEF SitsIn, Holding
  <2>11. \A p, s : p # m.player /\ SitsIn(p, s) => SitsIn(p, s)'
    <3> SUFFICES ASSUME NEW p, NEW s, p # m.player, NEW e \in booked, p \in e.players, e.row = s
                 PROVE  \E f \in booked' : p \in f.players /\ f.row = s
      BY DEF SitsIn, Holding
    <3> QED BY <2>5, <2>6
  <2> QED BY <2>7, <2>8, <2>9, <2>10, <2>11
<1> QED BY <1>5, <1>6

\* Somebody else's booking moves nobody.
LEMMA OtherBooksKeeps ==
  ASSUME SwapInv, NEW p, NEW s, OtherBooks(p, s)
  PROVE  /\ BookingsShaped(booked)' /\ PlayersApart(booked)'
         /\ Players(booked) \subseteq Players(booked')
         /\ \A q, r : SitsIn(q, r) => SitsIn(q, r)'
<1>1. PICK c : c = [id |-> <<p>>, players |-> {p}, row |-> s, status |-> "reserved"] OBVIOUS
<1>2. booked' = booked \union {c} /\ p \notin Players(booked) BY <1>1 DEF OtherBooks
<1>3. c = [id |-> c.id, players |-> c.players, row |-> c.row, status |-> c.status]
      /\ c.players = {p}
  BY <1>1
<1>4. \A e \in booked : e.players \intersect c.players = {} BY <1>2, <1>3 DEF Players
<1>5. BookingsShaped(booked)' BY <1>2, <1>3 DEF SwapInv, BookingsShaped
<1>6. PlayersApart(booked)' BY <1>2, <1>4 DEF SwapInv, PlayersApart
<1>7. Players(booked) \subseteq Players(booked') BY <1>2 DEF Players
<1>8. \A q, r : SitsIn(q, r) => SitsIn(q, r)' BY <1>2 DEF SitsIn, Holding
<1> QED BY <1>5, <1>6, <1>7, <1>8

\* The patch of a move shows nobody who is not booked.
LEMMA PatchKnown ==
  ASSUME NEW day, KnownDay(day), NEW m, m.player \in Players(booked)
  PROVE  KnownDay(Patched(day, m))
<1>1. PICK n : n = [id |-> <<"optimistic", m.player>>, players |-> {m.player}, row |-> m.to,
                    status |-> "reserved"]
  OBVIOUS
<1>2. n = [id |-> n.id, players |-> n.players, row |-> n.row, status |-> n.status]
      /\ n.players = {m.player}
  BY <1>1
<1>3. \A b \in day : [b EXCEPT !.players = @ \ {m.player}]
                       = [id |-> b.id, players |-> b.players \ {m.player}, row |-> b.row,
                          status |-> b.status]
  BY DEF KnownDay, BookingsShaped
<1>4. ASSUME NEW e \in Patched(day, m)
      PROVE  /\ e = [id |-> e.id, players |-> e.players, row |-> e.row, status |-> e.status]
             /\ e.players \subseteq Players(booked)
  <2>1. e = n \/ e \in day \/ \E b \in day : e = [b EXCEPT !.players = @ \ {m.player}]
    BY <1>1, <1>4 DEF Patched
  <2>2. CASE e = n BY <1>2, <2>2
  <2>3. CASE e \in day BY <2>3 DEF KnownDay, BookingsShaped, Players
  <2>4. ASSUME NEW b \in day, e = [b EXCEPT !.players = @ \ {m.player}]
        PROVE  /\ e = [id |-> e.id, players |-> e.players, row |-> e.row, status |-> e.status]
               /\ e.players \subseteq Players(booked)
    <3>1. e = [id |-> b.id, players |-> b.players \ {m.player}, row |-> b.row,
               status |-> b.status]
      BY <1>3, <2>4
    <3>2. b.players \subseteq Players(booked) BY DEF KnownDay, Players
    <3> QED BY <3>1, <3>2
  <2> QED BY <2>1, <2>2, <2>3, <2>4
<1>5. BookingsShaped(Patched(day, m)) BY <1>4 DEF BookingsShaped
<1>6. Players(Patched(day, m)) \subseteq Players(booked) BY <1>4 DEF Players
<1> QED BY <1>5, <1>6 DEF KnownDay

\* A move that is sent: what it remembers of the grid, and that it waits for an answer.
LEMMA MoveSent ==
  ASSUME KnownDay(grid), reading.step = "answered" => KnownDay(reading.got), UNCHANGED booked,
         NEW stage, NEW id, NEW p \in Players(booked), NEW from, NEW to,
         Mutate(Move(stage, id, p, from, to), <<>>)
  PROVE  /\ KnownDay(grid)' /\ (reading'.step = "answered" => KnownDay(reading.got)')
         /\ \E n : /\ moves' = <<n>> /\ MoveShaped(n)' /\ n.answer.refusal = "unanswered"
                   /\ n.stage = stage /\ n.player = p /\ n.to = to
<1>1. PICK m : m = Move(stage, id, p, from, to) OBVIOUS
<1>2. m = [id |-> id, player |-> p, before |-> Nil, latest |-> TRUE, from |-> from,
           to |-> to, stage |-> stage, answer |-> Unanswered]
  BY <1>1 DEF Move
<1>3. PICK n : n = IF match THEN [m EXCEPT !.before = grid] ELSE m OBVIOUS
<1>4. PICK old : n = [id |-> id, player |-> p, before |-> old, latest |-> TRUE, from |-> from,
                      to |-> to, stage |-> stage, answer |-> Unanswered]
                 /\ (old = Nil \/ old = grid)
  BY <1>2, <1>3
<1>5. moves' = <<n>> BY <1>1, <1>3 DEF Mutate
<1>6. n.answer = Unanswered /\ Unanswered.refusal = "unanswered"
      /\ Unanswered = [booking |-> Unanswered.booking, refusal |-> Unanswered.refusal]
  BY <1>4 DEF Unanswered
<1>7. n.before # Nil => KnownDay(n.before)' BY <1>4 DEF KnownDay
<1>8. n = [id |-> n.id, player |-> n.player, before |-> n.before, latest |-> TRUE, from |-> n.from,
           to |-> n.to, stage |-> n.stage, answer |-> n.answer]
  BY <1>4
<1>9. MoveShaped(n)' BY <1>6, <1>7, <1>8 DEF MoveShaped
<1>10. m.player = p BY <1>2
<1>11. KnownDay(Patched(grid, m)) BY <1>10, PatchKnown
<1>12. grid' = grid \/ grid' = Patched(grid, m) BY <1>1 DEF Mutate
<1>13. KnownDay(grid)' BY <1>11, <1>12 DEF KnownDay
<1>14. reading' = Unread \/ reading' = reading BY <1>1 DEF Mutate
<1>15. reading'.step = "answered" => KnownDay(reading.got)' BY <1>14 DEF Unread, KnownDay
<1> QED BY <1>4, <1>5, <1>6, <1>9, <1>13, <1>15

\* A step in which nobody sits elsewhere keeps what is known of the two.
ToldOfTwo == swap'.kind \notin {swap.kind, "idle"} /\ OfTwo' => Told'

LEMMA DropKeeps ==
  ASSUME Patient, SwapInv, NEW b, NEW p, NEW s, DropOnOpen(b, p, s)
  PROVE  SwapInv' /\ ToldOfTwo
<1>1. moves = <<>> /\ swap.kind \notin Stuck BY DEF DropOnOpen, Waits, Stuck
<1>2. <<>> # <<swap>> /\ \A m : <<>> # <<m>> OBVIOUS
<1>3. swap.kind \notin Busy BY <1>1, <1>2 DEF SwapInv, SwapAtRest
<1>4. p \in Players(booked) BY DEF DropOnOpen, SwapInv, KnownDay, Players
<1>5. UNCHANGED <<booked, swap, stood, lost>> BY DEF DropOnOpen
<1>6. Mutate(Move("plain", b.id, p, b.row, s), <<>>) BY <1>1 DEF DropOnOpen
<1>7. /\ KnownDay(grid)' /\ (reading'.step = "answered" => KnownDay(reading.got)')
      /\ \E n : moves' = <<n>> /\ MoveShaped(n)' /\ n.stage = "plain"
  BY <1>4, <1>5, <1>6, MoveSent DEF SwapInv
<1>8. PICK n : moves' = <<n>> /\ MoveShaped(n)' /\ n.stage = "plain" BY <1>7
<1>9. MoveRight(n)' BY <1>1, <1>3, <1>5, <1>8 DEF MoveRight
<1>10. SwapInv' BY <1>5, <1>7, <1>8, <1>9 DEF SwapInv, BookingsShaped, PlayersApart
<1> QED BY <1>5, <1>10 DEF ToldOfTwo

LEMMA InitiateKeeps ==
  ASSUME Patient, SwapInv, NEW x, NEW p, NEW y, NEW q, Initiate(x, p, y, q)
  PROVE  SwapInv' /\ ToldOfTwo
<1>1. moves = <<>> /\ swap.kind \notin Stuck BY DEF Initiate, Waits, Stuck
<1>2. p \in Players(booked) /\ q \in Players(booked)
  BY DEF Initiate, SwapInv, KnownDay, Players
<1>3. UNCHANGED <<booked, match>> /\ lost' = FALSE /\ stood' = [b |-> RowOf(q), a |-> RowOf(p)]
  BY DEF Initiate
<1>4. CASE OpenCells(y.row)
  <2>1. /\ swap' = [b |-> Ends(y, q), a |-> Ends(x, p), kind |-> "first-pending", result |-> Nil]
        /\ Mutate(Move("first", x.id, p, x.row, y.row), <<>>)
    BY <1>1, <1>4 DEF Initiate
  <2>2. /\ KnownDay(grid)' /\ (reading'.step = "answered" => KnownDay(reading.got)')
        /\ \E n : /\ moves' = <<n>> /\ MoveShaped(n)' /\ n.answer.refusal = "unanswered"
                  /\ n.stage = "first" /\ n.player = p /\ n.to = y.row
    BY <1>2, <1>3, <2>1, MoveSent DEF SwapInv
  <2>3. PICK n : /\ moves' = <<n>> /\ MoveShaped(n)' /\ n.answer.refusal = "unanswered"
                 /\ n.stage = "first" /\ n.player = p /\ n.to = y.row
    BY <2>2
  <2>4. /\ swap'.a.player = p /\ swap'.b.player = q /\ swap'.b.row = y.row
        /\ swap'.kind = "first-pending" /\ stood'.a = RowOf(p) /\ stood'.b = RowOf(q)
    BY <1>3, <2>1 DEF Ends
  <2>5. SitsIn(p, RowOf(p)) /\ SitsIn(q, RowOf(q)) BY <1>2, SitsWhereBooked
  <2>6. Stayed' BY <1>3, <2>4, <2>5 DEF Stayed, SitsIn, Holding
  <2>7. MoveRight(n)' BY <2>3, <2>4, <2>6 DEF MoveRight, FirstRight
  <2>8. swap' = [kind |-> swap'.kind, a |-> swap'.a, b |-> swap'.b, result |-> swap'.result]
    BY <2>1
  <2>9. {swap'.a.player, swap'.b.player} \subseteq Players(booked')
    BY <1>2, <1>3, <2>4
  <2>10. SwapInv' BY <1>3, <2>2, <2>3, <2>7, <2>8, <2>9 DEF SwapInv, BookingsShaped, PlayersApart
  <2> QED BY <2>4, <2>10 DEF ToldOfTwo, Told
<1>5. CASE ~OpenCells(y.row)
  <2>1. /\ swap' = [b |-> Ends(y, q), a |-> Ends(x, p), kind |-> "rejected-target-row-full",
                    result |-> Nil]
        /\ UNCHANGED <<grid, moves, reading, count>>
    BY <1>5 DEF Initiate
  <2>2. swap' = [kind |-> swap'.kind, a |-> swap'.a, b |-> swap'.b, result |-> swap'.result]
        /\ swap'.kind = "rejected-target-row-full" /\ swap'.a.player = p /\ swap'.b.player = q
    BY <2>1 DEF Ends
  <2>5. {swap'.a.player, swap'.b.player} \subseteq Players(booked')
    BY <1>2, <1>3, <2>2
  <2>3. SwapAtRest' BY <1>1, <2>1, <2>2 DEF SwapAtRest, Busy
  <2>4. SwapInv' BY <1>3, <2>1, <2>2, <2>3, <2>5 DEF SwapInv, BookingsShaped, PlayersApart, KnownDay
  <2> QED BY <2>2, <2>4 DEF ToldOfTwo, Told
<1> QED BY <1>4, <1>5

LEMMA RetryKeeps ==
  ASSUME SwapInv, RetrySecond
  PROVE  SwapInv' /\ ToldOfTwo
<1>1. swap.kind = "partial-failure-second" BY DEF RetrySecond
<1>2. SwapAtRest BY <1>1 DEF SwapInv, MoveRight, Busy, Stuck
<1>3. moves = <<>> /\ (OfTwo => Crossed /\ OtherStayed) BY <1>1, <1>2 DEF SwapAtRest
<1>4. UNCHANGED <<booked, match, stood, lost>> BY DEF RetrySecond
<1>5. {swap.a.player, swap.b.player} \subseteq Players(booked) BY <1>1 DEF SwapInv
<1>6. swap' = [kind |-> "second-pending", a |-> swap.a, b |-> swap.b, result |-> swap.result]
  BY DEF RetrySecond, SwapInv
<1>7. Mutate(Move("second", swap.b.booking, swap.b.player, swap.b.row, swap.a.row), <<>>)
  BY <1>3 DEF RetrySecond, SecondMove
<1>8. /\ KnownDay(grid)' /\ (reading'.step = "answered" => KnownDay(reading.got)')
      /\ \E n : /\ moves' = <<n>> /\ MoveShaped(n)' /\ n.answer.refusal = "unanswered"
                /\ n.stage = "second" /\ n.player = swap.b.player /\ n.to = swap.a.row
  BY <1>4, <1>5, <1>7, MoveSent DEF SwapInv
<1>9. PICK n : /\ moves' = <<n>> /\ MoveShaped(n)' /\ n.answer.refusal = "unanswered"
               /\ n.stage = "second" /\ n.player = swap.b.player /\ n.to = swap.a.row
  BY <1>8
<1>10. /\ swap'.a = swap.a /\ swap'.b = swap.b /\ swap'.kind = "second-pending"
       /\ swap' = [kind |-> swap'.kind, a |-> swap'.a, b |-> swap'.b, result |-> swap'.result]
  BY <1>6
<1>11. OfTwo' => Crossed' /\ OtherStayed'
  BY <1>3, <1>4, <1>10 DEF OfTwo, Crossed, OtherStayed, SitsIn, Holding
<1>12. MoveRight(n)' BY <1>9, <1>10, <1>11 DEF MoveRight, SecondRight
<1>13. SwapInv' BY <1>4, <1>5, <1>8, <1>9, <1>10, <1>12 DEF SwapInv, BookingsShaped, PlayersApart
<1> QED BY <1>10, <1>13 DEF ToldOfTwo, Told

LEMMA RestoreKeeps ==
  ASSUME SwapInv, RestoreFirst
  PROVE  SwapInv' /\ ToldOfTwo
<1>1. swap.kind = "partial-failure-second" BY DEF RestoreFirst
<1>2. SwapAtRest BY <1>1 DEF SwapInv, MoveRight, Busy, Stuck
<1>3. moves = <<>> /\ (OfTwo => Crossed /\ OtherStayed) BY <1>1, <1>2 DEF SwapAtRest
<1>4. UNCHANGED <<booked, match, stood, lost>> BY DEF RestoreFirst
<1>5. {swap.a.player, swap.b.player} \subseteq Players(booked) BY <1>1 DEF SwapInv
<1>6. swap' = [kind |-> "restoring", a |-> swap.a, b |-> swap.b, result |-> swap.result]
  BY DEF RestoreFirst, SwapInv
<1>7. Mutate(Move("restore", swap.result, swap.a.player, swap.b.row, swap.a.row), <<>>)
  BY <1>3 DEF RestoreFirst, MoveBack
<1>8. /\ KnownDay(grid)' /\ (reading'.step = "answered" => KnownDay(reading.got)')
      /\ \E n : /\ moves' = <<n>> /\ MoveShaped(n)' /\ n.answer.refusal = "unanswered"
                /\ n.stage = "restore" /\ n.player = swap.a.player /\ n.to = swap.a.row
  BY <1>4, <1>5, <1>7, MoveSent DEF SwapInv
<1>9. PICK n : /\ moves' = <<n>> /\ MoveShaped(n)' /\ n.answer.refusal = "unanswered"
               /\ n.stage = "restore" /\ n.player = swap.a.player /\ n.to = swap.a.row
  BY <1>8
<1>10. /\ swap'.a = swap.a /\ swap'.b = swap.b /\ swap'.kind = "restoring"
       /\ swap' = [kind |-> swap'.kind, a |-> swap'.a, b |-> swap'.b, result |-> swap'.result]
  BY <1>6
<1>11. OfTwo' => Crossed' /\ OtherStayed'
  BY <1>3, <1>4, <1>10 DEF OfTwo, Crossed, OtherStayed, SitsIn, Holding
<1>12. MoveRight(n)' BY <1>9, <1>10, <1>11 DEF MoveRight, RestoreRight
<1>13. SwapInv' BY <1>4, <1>5, <1>8, <1>9, <1>10, <1>12 DEF SwapInv, BookingsShaped, PlayersApart
<1> QED BY <1>10, <1>13 DEF ToldOfTwo, Told

LEMMA ResetKeeps ==
  ASSUME SwapInv, ResetSwap
  PROVE  SwapInv' /\ ToldOfTwo
<1>1. /\ swap.kind \in {"rejected-target-row-full", "restore-failed"} /\ swap' = NoSwap
      /\ UNCHANGED <<booked, grid, match, moves, reading, count, stood, lost>>
  BY DEF ResetSwap
<1>2. swap'.kind = "idle"
      /\ swap' = [kind |-> swap'.kind, a |-> swap'.a, b |-> swap'.b, result |-> swap'.result]
  BY <1>1 DEF NoSwap
<1>3. CASE SwapAtRest
  <2>1. SwapAtRest' BY <1>1, <1>2, <1>3 DEF SwapAtRest, Busy
  <2> QED BY <1>1, <1>2, <2>1 DEF SwapInv, BookingsShaped, PlayersApart, KnownDay, ToldOfTwo
<1>4. ASSUME NEW m, moves = <<m>>, MoveShaped(m), MoveRight(m)
      PROVE  SwapInv' /\ ToldOfTwo
  <2>1. m.stage = "plain" BY <1>1, <1>4 DEF MoveRight, Busy
  <2>2. MoveRight(m)' BY <1>2, <2>1 DEF MoveRight, Busy, Stuck
  <2>3. MoveShaped(m)' BY <1>1, <1>4 DEF MoveShaped, KnownDay
  <2> QED
    BY <1>1, <1>2, <1>4, <2>2, <2>3 DEF SwapInv, BookingsShaped, PlayersApart, KnownDay, ToldOfTwo
<1> QED BY <1>3, <1>4 DEF SwapInv

\* Nobody the swap is about sits elsewhere after a step that leaves the swap alone.
LEMMA SeatsKept ==
  ASSUME UNCHANGED <<swap, stood, lost>>, \A q, r : SitsIn(q, r) => SitsIn(q, r)'
  PROVE  /\ Crossed => Crossed'
         /\ Stayed => Stayed'
         /\ OtherStayed => OtherStayed'
         /\ SitsIn(swap.a.player, swap.a.row) => SitsIn(swap.a.player, swap.a.row)'
         /\ SitsIn(swap.b.player, swap.a.row) => SitsIn(swap.b.player, swap.a.row)'
         /\ OfTwo' <=> OfTwo
<1>1. \A q, r : (\E b \in booked : q \in b.players /\ b.row = r)
                  => \E b \in booked' : q \in b.players /\ b.row = r
  BY DEF SitsIn, Holding
<1>2. Crossed => Crossed' BY <1>1 DEF Crossed, SitsIn, Holding
<1>3. Stayed => Stayed' BY <1>1 DEF Stayed, SitsIn, Holding
<1>4. OtherStayed => OtherStayed' BY <1>1 DEF OtherStayed, SitsIn, Holding
<1>5. SitsIn(swap.a.player, swap.a.row) => SitsIn(swap.a.player, swap.a.row)'
  BY <1>1 DEF SitsIn, Holding
<1>6. SitsIn(swap.b.player, swap.a.row) => SitsIn(swap.b.player, swap.a.row)'
  BY <1>1 DEF SitsIn, Holding
<1> QED BY <1>2, <1>3, <1>4, <1>5, <1>6 DEF OfTwo

LEMMA RightKept ==
  ASSUME UNCHANGED <<swap, stood, lost>>, \A q, r : SitsIn(q, r) => SitsIn(q, r)'
  PROVE  /\ \A m : MoveRight(m) => MoveRight(m)'
         /\ moves' = moves /\ SwapAtRest => SwapAtRest'
<1>1. /\ Crossed => Crossed'
      /\ Stayed => Stayed'
      /\ OtherStayed => OtherStayed'
      /\ SitsIn(swap.a.player, swap.a.row) => SitsIn(swap.a.player, swap.a.row)'
      /\ SitsIn(swap.b.player, swap.a.row) => SitsIn(swap.b.player, swap.a.row)'
      /\ OfTwo' <=> OfTwo
  BY SeatsKept
<1>2. lost' = lost /\ swap' = swap OBVIOUS
<1>3. \A r : FirstRight(r) => FirstRight(r)' BY <1>1, <1>2 DEF FirstRight
<1>4. \A r : SecondRight(r) => SecondRight(r)' BY <1>1, <1>2 DEF SecondRight
<1>5. \A r : RestoreRight(r) => RestoreRight(r)' BY <1>1, <1>2 DEF RestoreRight
<1>6. ASSUME NEW m, MoveRight(m) PROVE MoveRight(m)'
  BY <1>1, <1>2, <1>3, <1>4, <1>5, <1>6 DEF MoveRight
<1>7. moves' = moves /\ SwapAtRest => SwapAtRest' BY <1>1, <1>2 DEF SwapAtRest
<1> QED BY <1>6, <1>7

LEMMA BooksKeeps ==
  ASSUME SwapInv, NEW p, NEW s, OtherBooks(p, s)
  PROVE  SwapInv' /\ ToldOfTwo
<1>1. /\ BookingsShaped(booked)' /\ PlayersApart(booked)'
      /\ Players(booked) \subseteq Players(booked')
      /\ \A q, r : SitsIn(q, r) => SitsIn(q, r)'
  BY OtherBooksKeeps
<1>2. UNCHANGED <<grid, match, swap, moves, reading, count, stood, lost>> BY DEF OtherBooks
<1>3. /\ \A m : MoveRight(m) => MoveRight(m)'
      /\ SwapAtRest => SwapAtRest'
  BY <1>1, <1>2, RightKept
<1>4. \A day : KnownDay(day) => BookingsShaped(day) /\ Players(day) \subseteq Players(booked')
  BY <1>1 DEF KnownDay
<1>5. \A m : MoveShaped(m) => MoveShaped(m)' BY <1>4 DEF MoveShaped, KnownDay
<1>6. KnownDay(grid)' /\ (reading'.step = "answered" => KnownDay(reading.got)')
  BY <1>2, <1>4 DEF SwapInv, KnownDay
<1>7. swap'.kind # "idle" => {swap'.a.player, swap'.b.player} \subseteq Players(booked')
  BY <1>1, <1>2 DEF SwapInv
<1> QED BY <1>1, <1>2, <1>3, <1>5, <1>6, <1>7 DEF SwapInv, ToldOfTwo

LEMMA ReadKeeps ==
  ASSUME SwapInv, ReadDay \/ UNCHANGED swapVars
  PROVE  SwapInv' /\ ToldOfTwo
<1>1. UNCHANGED <<booked, match, swap, moves, count, stood, lost>> BY DEF ReadDay, swapVars
<1>2. /\ \A m : MoveRight(m) => MoveRight(m)'
      /\ SwapAtRest => SwapAtRest'
  <2>1. \A q, r : SitsIn(q, r) => SitsIn(q, r)' BY <1>1 DEF SitsIn, Holding
  <2> QED BY <1>1, <2>1, RightKept
<1>3. \A m : MoveShaped(m) => MoveShaped(m)' BY <1>1 DEF MoveShaped, KnownDay
<1>4. KnownDay(booked) BY DEF SwapInv, KnownDay
<1>5. KnownDay(grid)' /\ (reading'.step = "answered" => KnownDay(reading.got)')
  <2>1. CASE UNCHANGED swapVars BY <2>1 DEF swapVars, SwapInv, KnownDay
  <2>2. CASE reading.step = "none" /\ reading' = [step |-> "asked", got |-> Nil] /\ UNCHANGED grid
    BY <1>1, <2>2 DEF SwapInv, KnownDay
  <2>3. CASE reading.step = "asked" /\ reading' = [step |-> "answered", got |-> booked]
             /\ UNCHANGED grid
    BY <1>1, <1>4, <2>3 DEF SwapInv, KnownDay
  <2>4. CASE reading.step = "answered" /\ reading' = Unread /\ grid' = reading.got
    BY <1>1, <2>4 DEF SwapInv, KnownDay, Unread
  <2> QED BY <2>1, <2>2, <2>3, <2>4 DEF ReadDay
<1> QED BY <1>1, <1>2, <1>3, <1>5 DEF SwapInv, BookingsShaped, PlayersApart, ToldOfTwo

-----------------------------------------------------------------------------
LEMMA ServeKeeps ==
  ASSUME SwapInv, NEW i, ServeMove(i)
  PROVE  SwapInv' /\ ToldOfTwo
<1>1. PICK m : moves = <<m>> /\ MoveShaped(m) /\ MoveRight(m)
  <2>1. 1..Len(<<>>) = {} OBVIOUS
  <2>2. moves # <<>> BY <2>1 DEF ServeMove
  <2> QED BY <2>2 DEF SwapInv, SwapAtRest
<1>2. i \in 1..Len(<<m>>) /\ moves[i] = m /\ m.answer = Unanswered
  <2>1. i \in 1..Len(<<m>>) /\ moves[i].answer = Unanswered BY <1>1 DEF ServeMove
  <2>2. i = 1 BY <2>1, OfOne
  <2>3. moves[1] = m BY <1>1, OfOne
  <2> QED BY <2>1, <2>2, <2>3
<1>3. UNCHANGED <<grid, match, swap, reading, count, stood>> BY DEF ServeMove
<1>4. PICK refusal, booking :
        /\ moves' = [moves EXCEPT ![i].answer = Reply(refusal, booking)]
        /\ \/ /\ refusal \in {Refusal(m), "unknown"} \ {"none"} /\ UNCHANGED <<booked, lost>>
           \/ /\ Refusal(m) = "none" /\ refusal = "none" /\ UNCHANGED lost
              /\ booked' = (booked \ {Asked(m)}) \union After(Asked(m), m)
           \/ /\ Refusal(m) = "none" /\ refusal = "unknown" /\ lost' = TRUE
              /\ booked' = (booked \ {Asked(m)}) \union After(Asked(m), m)
  BY <1>2 DEF ServeMove
<1>5. PICK n : n = [m EXCEPT !.answer = Reply(refusal, booking)] OBVIOUS
<1>6. moves' = <<n>>
  <2>1. PICK v : v = Reply(refusal, booking) OBVIOUS
  <2>2. moves' = [<<m>> EXCEPT ![i].answer = v] BY <1>1, <1>4, <2>1
  <2>3. [<<m>> EXCEPT ![i].answer = v] = <<[m EXCEPT !.answer = v]>> BY <1>2, AnsweredOne
  <2> QED BY <1>5, <2>1, <2>2, <2>3
<1>7. /\ n = [id |-> m.id, player |-> m.player, before |-> m.before, latest |-> TRUE,
              from |-> m.from, to |-> m.to, stage |-> m.stage,
              answer |-> [booking |-> booking, refusal |-> refusal]]
  <2>1. PICK v : v = Reply(refusal, booking) OBVIOUS
  <2>2. v = [booking |-> booking, refusal |-> refusal] BY <2>1 DEF Reply
  <2>3. n = [m EXCEPT !.answer = v] BY <1>5, <2>1
  <2>5. m = [id |-> m.id, player |-> m.player, before |-> m.before, latest |-> TRUE,
             from |-> m.from, to |-> m.to, stage |-> m.stage, answer |-> m.answer]
    BY <1>1 DEF MoveShaped
  <2>4. n = [id |-> m.id, player |-> m.player, before |-> m.before, latest |-> TRUE,
             from |-> m.from, to |-> m.to, stage |-> m.stage, answer |-> v]
    <3>1. PICK l : l = TRUE OBVIOUS
    <3>2. PICK a, p, d, f, t, g, r :
            /\ a = m.id /\ p = m.player /\ d = m.before /\ f = m.from
            /\ t = m.to /\ g = m.stage /\ r = m.answer
      OBVIOUS
    <3>3. m = [id |-> a, player |-> p, before |-> d, latest |-> l, from |-> f, to |-> t,
               stage |-> g, answer |-> r]
      BY <2>5, <3>1, <3>2, Zenon
    <3>4. [m EXCEPT !.answer = v] = [id |-> a, player |-> p, before |-> d, latest |-> l,
                                     from |-> f, to |-> t, stage |-> g, answer |-> v]
      BY <3>3
    <3>5. n = [id |-> a, player |-> p, before |-> d, latest |-> l,
               from |-> f, to |-> t, stage |-> g, answer |-> v]
      BY <2>3, <3>4, Zenon
    <3> QED BY <3>1, <3>2, <3>5
  <2> QED BY <2>2, <2>4
<1>8. /\ n.stage = m.stage /\ n.player = m.player /\ n.to = m.to /\ n.answer.refusal = refusal
      /\ n.before = m.before
      /\ n.answer = [booking |-> n.answer.booking, refusal |-> n.answer.refusal]
      /\ n = [id |-> n.id, player |-> n.player, before |-> n.before, latest |-> TRUE,
              from |-> n.from, to |-> n.to, stage |-> n.stage, answer |-> n.answer]
  BY <1>7
<1>9. refusal # "unanswered"
  BY <1>4 DEF Refusal
<1>10. m.answer.refusal = "unanswered" BY <1>2 DEF Unanswered
<1>11. /\ BookingsShaped(booked)' /\ PlayersApart(booked)'
       /\ Players(booked) \subseteq Players(booked')
       /\ \A p, s : p # m.player /\ SitsIn(p, s) => SitsIn(p, s)'
       /\ refusal = "none" => SitsIn(m.player, m.to)'
       /\ lost' \/ refusal = "none" \/ \A p, s : SitsIn(p, s) => SitsIn(p, s)'
       /\ (lost => lost')
  <2>1. CASE UNCHANGED <<booked, lost>> /\ refusal # "none"
    BY <2>1 DEF SwapInv, BookingsShaped, PlayersApart, SitsIn, Holding
  <2>2. CASE /\ Refusal(m) = "none" /\ booked' = (booked \ {Asked(m)}) \union After(Asked(m), m)
             /\ (refusal = "none" /\ lost' = lost) \/ lost' = TRUE
    <3>1. /\ BookingsShaped(booked)' /\ PlayersApart(booked)'
          /\ Players(booked) \subseteq Players(booked')
          /\ SitsIn(m.player, m.to)'
          /\ \A p, s : p # m.player /\ SitsIn(p, s) => SitsIn(p, s)'
      BY <2>2, ServedMove DEF SwapInv
    <3> QED BY <2>2, <3>1
  <2> QED BY <1>4, <2>1, <2>2
<1>12. KnownDay(grid)' /\ (reading'.step = "answered" => KnownDay(reading.got)')
  BY <1>3, <1>11 DEF SwapInv, KnownDay
<1>13. swap'.kind # "idle" => {swap'.a.player, swap'.b.player} \subseteq Players(booked')
  BY <1>3, <1>11 DEF SwapInv
<1>14. MoveShaped(n)' BY <1>1, <1>8, <1>9, <1>11 DEF MoveShaped, KnownDay
<1>15. OfTwo' <=> OfTwo BY <1>3 DEF OfTwo
<1>16. CASE m.stage = "plain" /\ swap.kind \notin Busy \union Stuck
  <2>1. MoveRight(n)' BY <1>3, <1>8, <1>16 DEF MoveRight
  <2> QED BY <1>3, <1>6, <1>11, <1>12, <1>13, <1>14, <2>1 DEF SwapInv, ToldOfTwo
<1>17. ASSUME OfTwo,
              m.stage = "first" /\ m.player = swap.a.player /\ m.to = swap.b.row
                                /\ FirstRight("unanswered")
       PROVE  FirstRight(refusal)'
  <2>1. lost \/ (SitsIn(swap.a.player, stood.a) /\ SitsIn(swap.b.player, stood.b))
    BY <1>17 DEF FirstRight, Stayed
  <2>2. CASE refusal = "none"
    <3>1. SitsIn(swap.a.player, swap.b.row)' BY <1>3, <1>11, <1>17, <2>2 DEF SitsIn, Holding
    <3>2. SitsIn(swap.b.player, stood.b) => SitsIn(swap.b.player, stood.b)'
      BY <1>3, <1>11, <1>17 DEF OfTwo, SitsIn, Holding
    <3> QED BY <1>11, <2>1, <2>2, <3>1, <3>2 DEF FirstRight, Crossed, OtherStayed
  <2>3. CASE refusal # "none"
    <3>1. lost' \/ (\A p, s : SitsIn(p, s) => SitsIn(p, s)') BY <1>11, <2>3
    <3>2. (\A p, s : SitsIn(p, s) => SitsIn(p, s)') /\ Stayed => Stayed'
      BY <1>3 DEF Stayed, SitsIn, Holding
    <3> QED BY <1>11, <1>17, <2>3, <3>1, <3>2 DEF FirstRight
  <2> QED BY <2>2, <2>3
<1>18. ASSUME OfTwo,
              m.stage = "second" /\ m.player = swap.b.player /\ m.to = swap.a.row
                                 /\ SecondRight("unanswered")
       PROVE  SecondRight(refusal)'
  <2>1. Crossed /\ OtherStayed BY <1>18 DEF SecondRight
  <2>2. Crossed'
    <3>1. PICK p : p = swap.a.player OBVIOUS
    <3>2. PICK s : s = swap.b.row OBVIOUS
    <3>3. p # m.player BY <1>18, <3>1 DEF OfTwo
    <3>4. SitsIn(p, s) BY <2>1, <3>1, <3>2 DEF Crossed
    <3>5. SitsIn(p, s)' BY <1>11, <3>3, <3>4
    <3> QED BY <1>3, <3>1, <3>2, <3>5 DEF Crossed, SitsIn, Holding
  <2>3. refusal = "none" => SitsIn(swap.b.player, swap.a.row)'
    BY <1>3, <1>11, <1>18 DEF SitsIn, Holding
  <2>4. refusal # "none" => OtherStayed'
    <3>1. (\A p, s : SitsIn(p, s) => SitsIn(p, s)') => OtherStayed'
      BY <1>3, <1>11, <2>1 DEF OtherStayed, SitsIn, Holding
    <3> QED BY <1>11, <3>1 DEF OtherStayed
  <2> QED BY <2>2, <2>3, <2>4 DEF SecondRight
<1>19. ASSUME OfTwo,
              m.stage = "restore" /\ m.player = swap.a.player /\ m.to = swap.a.row
                /\ RestoreRight("unanswered")
       PROVE  RestoreRight(refusal)'
  <2>1. OtherStayed /\ (lost \/ Crossed) BY <1>19 DEF RestoreRight
  <2>2. OtherStayed'
    <3>1. PICK p : p = swap.b.player OBVIOUS
    <3>2. PICK s : s = stood.b OBVIOUS
    <3>3. p # m.player BY <1>19, <3>1 DEF OfTwo
    <3>4. lost \/ SitsIn(p, s) BY <2>1, <3>1, <3>2 DEF OtherStayed
    <3>5. lost' \/ SitsIn(p, s)' BY <1>11, <3>3, <3>4
    <3> QED BY <1>3, <3>1, <3>2, <3>5 DEF OtherStayed, SitsIn, Holding
  <2>3. refusal = "none" => SitsIn(swap.a.player, swap.a.row)'
    BY <1>3, <1>11, <1>19 DEF SitsIn, Holding
  <2>4. refusal # "none" => lost' \/ Crossed'
    <3>1. (\A p, s : SitsIn(p, s) => SitsIn(p, s)') /\ Crossed => Crossed'
      BY <1>3 DEF Crossed, SitsIn, Holding
    <3> QED BY <1>11, <2>1, <3>1
  <2> QED BY <2>2, <2>3, <2>4 DEF RestoreRight
<1>20. CASE m.stage # "plain" \/ swap.kind \in Busy \union Stuck
  <2>1. MoveRight(n)'
    BY <1>1, <1>3, <1>8, <1>10, <1>15, <1>17, <1>18, <1>19, <1>20 DEF MoveRight
  <2> QED BY <1>3, <1>6, <1>11, <1>12, <1>13, <1>14, <2>1 DEF SwapInv, ToldOfTwo
<1> QED BY <1>16, <1>20

LEMMA SettleKeeps ==
  ASSUME SwapInv, NEW i, SettleMove(i)
  PROVE  SwapInv' /\ ToldOfTwo
<1>1. PICK m : moves = <<m>> /\ MoveShaped(m) /\ MoveRight(m)
  <2>1. 1..Len(<<>>) = {} OBVIOUS
  <2>2. moves # <<>> BY <2>1 DEF SettleMove
  <2> QED BY <2>2 DEF SwapInv, SwapAtRest
<1>2. i \in 1..Len(<<m>>) /\ moves[i] = m /\ m.answer # Unanswered
  <2>1. i \in 1..Len(<<m>>) /\ moves[i].answer # Unanswered BY <1>1 DEF SettleMove
  <2>2. i = 1 BY <2>1, OfOne
  <2>3. moves[1] = m BY <1>1, OfOne
  <2> QED BY <2>1, <2>2, <2>3
<1>3. RemoveAt(moves, i) = <<>> BY <1>1, <1>2, NoneLeftOfOne
<1>4. m.latest BY <1>1 DEF MoveShaped
<1>5. m.answer.refusal # "unanswered" BY <1>1, <1>2 DEF MoveShaped
<1>6. UNCHANGED <<booked, match, stood, lost>> BY DEF SettleMove
<1>7. PICK r : r = m.answer.refusal OBVIOUS
<1>8. Refused(m) <=> r # "none" BY <1>7 DEF Refused
<1>9. swap = [kind |-> swap.kind, a |-> swap.a, b |-> swap.b, result |-> swap.result]
      /\ (swap.kind # "idle" => {swap.a.player, swap.b.player} \subseteq Players(booked))
      /\ BookingsShaped(booked) /\ PlayersApart(booked)
  BY DEF SwapInv
<1>10. CASE FirstDone(m, <<>>)
  <2>1. m.stage = "first" /\ r = "none" BY <1>8, <1>10 DEF FirstDone
  <2>2. swap.kind = "first-pending" /\ (OfTwo => Crossed /\ OtherStayed)
    BY <1>1, <1>7, <2>1 DEF MoveRight, FirstRight
  <2>3. swap' = [kind |-> "second-pending", a |-> swap.a, b |-> swap.b,
                 result |-> m.answer.booking]
    <3>1. PICK v : v = m.answer.booking OBVIOUS
    <3>2. swap' = [swap EXCEPT !.kind = "second-pending", !.result = v]
      BY <1>10, <3>1 DEF FirstDone
    <3> QED BY <1>9, <3>1, <3>2
  <2>4. Mutate(Move("second", swap.b.booking, swap.b.player, swap.b.row, swap.a.row), <<>>)
    BY <1>10 DEF FirstDone, SecondMove
  <2>5. {swap.a.player, swap.b.player} \subseteq Players(booked) BY <1>9, <2>2
  <2>6. /\ KnownDay(grid)' /\ (reading'.step = "answered" => KnownDay(reading.got)')
        /\ \E n : /\ moves' = <<n>> /\ MoveShaped(n)' /\ n.answer.refusal = "unanswered"
                  /\ n.stage = "second" /\ n.player = swap.b.player /\ n.to = swap.a.row
    BY <1>6, <2>4, <2>5, MoveSent DEF SwapInv
  <2>7. PICK n : /\ moves' = <<n>> /\ MoveShaped(n)' /\ n.answer.refusal = "unanswered"
                 /\ n.stage = "second" /\ n.player = swap.b.player /\ n.to = swap.a.row
    BY <2>6
  <2>8. /\ swap'.a = swap.a /\ swap'.b = swap.b /\ swap'.kind = "second-pending"
        /\ swap' = [kind |-> swap'.kind, a |-> swap'.a, b |-> swap'.b, result |-> swap'.result]
    BY <2>3
  <2>9. OfTwo' => Crossed' /\ OtherStayed'
    BY <1>6, <2>2, <2>8 DEF OfTwo, Crossed, OtherStayed, SitsIn, Holding
  <2>10. MoveRight(n)' BY <2>7, <2>8, <2>9 DEF MoveRight, SecondRight
  <2>11. SwapInv'
    BY <1>6, <1>9, <2>5, <2>6, <2>7, <2>8, <2>10 DEF SwapInv, BookingsShaped, PlayersApart
  <2> QED BY <2>8, <2>11 DEF ToldOfTwo, Told
<1>11. CASE /\ ~(m.stage = "first" /\ m.latest /\ ~Refused(m))
            /\ swap' = [swap EXCEPT !.kind = Reduced(m)] /\ Settled10(m, <<>>)
  <2>1. PICK k : k = Reduced(m) OBVIOUS
  <2>2. swap' = [kind |-> k, a |-> swap.a, b |-> swap.b, result |-> swap.result]
    <3>1. swap' = [swap EXCEPT !.kind = k] BY <1>11, <2>1
    <3> QED BY <1>9, <3>1
  <2>3. /\ swap'.a = swap.a /\ swap'.b = swap.b /\ swap'.kind = k
        /\ swap' = [kind |-> swap'.kind, a |-> swap'.a, b |-> swap'.b, result |-> swap'.result]
    BY <2>2
  <2>4. moves' = <<>> BY <1>11 DEF Settled10
  <2>5. KnownDay(grid)' /\ (reading'.step = "answered" => KnownDay(reading.got)')
    <3>1. (grid' = m.before /\ m.before # Nil) \/ grid' = grid BY <1>11 DEF Settled10
    <3>2. KnownDay(grid') BY <1>1, <3>1 DEF MoveShaped, SwapInv
    <3>3. reading' = [step |-> "asked", got |-> Nil] \/ reading' = reading
      BY <1>11 DEF Settled10
    <3> QED BY <1>6, <3>2, <3>3 DEF KnownDay, SwapInv
  <2>6. /\ OfTwo' <=> OfTwo
        /\ Crossed' <=> Crossed
        /\ Stayed' <=> Stayed
        /\ OtherStayed' <=> OtherStayed
        /\ \A p, s : SitsIn(p, s)' <=> SitsIn(p, s)
    BY <1>6, <2>3 DEF OfTwo, Crossed, Stayed, OtherStayed, SitsIn, Holding
  <2>7. SUFFICES (swap'.kind # "idle" => swap.kind # "idle") /\ SwapAtRest' /\ ToldOfTwo
    BY <1>6, <1>9, <2>3, <2>5 DEF SwapInv, BookingsShaped, PlayersApart
  <2>8. CASE m.stage = "plain"
    <3>1. swap.kind \notin Busy \union Stuck BY <1>1, <2>8 DEF MoveRight
    <3>2. k = swap.kind BY <2>1, <2>8 DEF Reduced
    <3> QED BY <2>3, <2>4, <3>1, <3>2 DEF SwapAtRest, ToldOfTwo, Busy, Stuck
  <2>9. CASE m.stage = "first"
    <3>1. k = "partial-failure-first" BY <1>4, <2>1, <2>9 DEF Reduced
    <3>2. r # "none" BY <1>4, <1>8, <1>11, <2>9
    <3>3. swap.kind = "first-pending" /\ (OfTwo => lost \/ Stayed)
      BY <1>1, <1>7, <2>9, <3>2 DEF MoveRight, FirstRight
    <3>4. SwapAtRest' BY <2>3, <2>4, <3>1 DEF SwapAtRest, Busy
    <3>5. OfTwo' => lost' \/ Stayed' BY <1>6, <2>6, <3>3
    <3>6. OfTwo' => Told' BY <2>3, <3>1, <3>5 DEF Told, Stayed
    <3> QED BY <3>3, <3>4, <3>6 DEF ToldOfTwo
  <2>10. CASE m.stage = "second"
    <3>1. swap.kind = "second-pending" /\ (OfTwo => SecondRight(r))
      BY <1>1, <1>7, <2>10 DEF MoveRight
    <3>2. CASE r = "none"
      <4>1. k = "succeeded" BY <1>4, <1>8, <2>1, <2>10, <3>2 DEF Reduced
      <4>2. SwapAtRest' BY <2>3, <2>4, <4>1 DEF SwapAtRest, Busy
      <4>3. OfTwo => Crossed /\ SitsIn(swap.b.player, swap.a.row) BY <3>1, <3>2 DEF SecondRight
      <4>4. OfTwo' => Crossed' /\ SitsIn(swap.b.player, swap.a.row)'
        BY <1>6, <2>3, <2>6, <4>3 DEF SitsIn, Holding
      <4>5. OfTwo' => Told' BY <2>3, <4>1, <4>4 DEF Told, Crossed
      <4> QED BY <3>1, <4>2, <4>5 DEF ToldOfTwo
    <3>3. CASE r # "none"
      <4>1. k = "partial-failure-second" BY <1>4, <1>8, <2>1, <2>10, <3>1, <3>3 DEF Reduced
      <4>2. OfTwo => Crossed /\ OtherStayed BY <3>1, <3>3 DEF SecondRight
      <4>3. SwapAtRest' BY <2>3, <2>4, <2>6, <4>1, <4>2 DEF SwapAtRest, Busy
      <4>4. OfTwo' => Told' BY <2>3, <2>6, <4>1, <4>2 DEF Told, Crossed, OtherStayed
      <4> QED BY <3>1, <4>3, <4>4 DEF ToldOfTwo
    <3> QED BY <3>2, <3>3
  <2>11. CASE m.stage = "restore"
    <3>1. swap.kind = "restoring" /\ (OfTwo => RestoreRight(r))
      BY <1>1, <1>7, <2>11 DEF MoveRight
    <3>2. CASE r = "none"
      <4>1. k = "restored" BY <1>4, <1>8, <2>1, <2>11, <3>2 DEF Reduced
      <4>2. SwapAtRest' BY <2>3, <2>4, <4>1 DEF SwapAtRest, Busy
      <4>3. OfTwo => OtherStayed /\ SitsIn(swap.a.player, swap.a.row)
        BY <3>1, <3>2 DEF RestoreRight
      <4>4. OfTwo' => OtherStayed' /\ SitsIn(swap.a.player, swap.a.row)'
        BY <1>6, <2>3, <2>6, <4>3 DEF SitsIn, Holding
      <4>5. OfTwo' => Told' BY <2>3, <4>1, <4>4 DEF Told, OtherStayed
      <4> QED BY <3>1, <4>2, <4>5 DEF ToldOfTwo
    <3>3. CASE r # "none"
      <4>1. k = "restore-failed" BY <1>4, <1>8, <2>1, <2>11, <3>1, <3>3 DEF Reduced
      <4>2. OfTwo => OtherStayed /\ (lost \/ Crossed) BY <3>1, <3>3 DEF RestoreRight
      <4>3. SwapAtRest' BY <2>3, <2>4, <4>1 DEF SwapAtRest, Busy
      <4>4. OfTwo' => Told' BY <1>6, <2>3, <2>6, <4>1, <4>2 DEF Told, Crossed, OtherStayed
      <4> QED BY <3>1, <4>3, <4>4 DEF ToldOfTwo
    <3> QED BY <3>2, <3>3
  <2> QED BY <1>1, <2>8, <2>9, <2>10, <2>11 DEF MoveRight
<1> QED BY <1>2, <1>3, <1>10, <1>11 DEF SettleMove

LEMMA SwapStarts == SwapInit => SwapInv
<1> SUFFICES ASSUME SwapInit PROVE SwapInv OBVIOUS
<1>1. /\ booked = Party /\ grid = Party /\ swap = NoSwap /\ moves = <<>> /\ reading = Unread
  BY DEF SwapInit
<1>2. BookingsShaped(Party) /\ PlayersApart(Party)
  BY SwapAssumption DEF BookingsShaped, PlayersApart
<1>3. KnownDay(grid) BY <1>1, <1>2 DEF KnownDay
<1>4. reading.step # "answered" BY <1>1 DEF Unread
<1>5. swap = [kind |-> swap.kind, a |-> swap.a, b |-> swap.b, result |-> swap.result]
      /\ swap.kind = "idle"
  BY <1>1 DEF NoSwap
<1>6. SwapAtRest BY <1>1, <1>5 DEF SwapAtRest, Busy
<1> QED BY <1>1, <1>2, <1>3, <1>4, <1>5, <1>6 DEF SwapInv

LEMMA SwapSteps ==
  ASSUME Patient, SwapInv, [SwapNext]_swapVars
  PROVE  SwapInv' /\ ToldOfTwo
<1>1. ASSUME NEW b \in grid, NEW p \in b.players, NEW s \in SlotTimes, DropOnOpen(b, p, s)
      PROVE  SwapInv' /\ ToldOfTwo
  BY <1>1, DropKeeps
<1>2. ASSUME NEW b \in grid, NEW p \in b.players, NEW y \in grid, NEW q \in y.players,
             Initiate(b, p, y, q)
      PROVE  SwapInv' /\ ToldOfTwo
  BY <1>2, InitiateKeeps
<1>3. CASE RetrySecond BY <1>3, RetryKeeps
<1>4. CASE RestoreFirst BY <1>4, RestoreKeeps
<1>5. CASE ResetSwap BY <1>5, ResetKeeps
<1>6. ASSUME NEW i \in 1..Len(moves), ServeMove(i) \/ SettleMove(i) PROVE SwapInv' /\ ToldOfTwo
  BY <1>6, ServeKeeps, SettleKeeps
<1>7. ASSUME NEW p \in Passers, NEW s \in SlotTimes, OtherBooks(p, s) PROVE SwapInv' /\ ToldOfTwo
  BY <1>7, BooksKeeps
<1>8. CASE ReadDay \/ UNCHANGED swapVars BY <1>8, ReadKeeps
<1> QED BY <1>1, <1>2, <1>3, <1>4, <1>5, <1>6, <1>7, <1>8 DEF SwapNext

(* For any rows, players, bookings and moves, and whatever is refused, lost, booked or read  *)
(* meanwhile: what the page says of a swap of two people is what the server did with them    *)
(* (use-participant-swap.ts), where staff finish one drop before the next.                   *)
THEOREM SwapAlwaysTells == ASSUME Patient PROVE SwapSpec => SwapTells
<1>1. SwapInit => SwapInv BY SwapStarts
<1>2. SwapInv /\ [SwapNext]_swapVars => SwapInv' BY SwapSteps
<1>3. SwapInv /\ [SwapNext]_swapVars
        => [swap'.kind \notin {swap.kind, "idle"} /\ OfTwo' => Told']_swapVars
  BY SwapSteps DEF ToldOfTwo
<1> QED BY <1>1, <1>2, <1>3, PTL DEF SwapSpec, SwapTells

-----------------------------------------------------------------------------
\* The rows hold whom they have room for; every id is one; whoever was booked still is.
RowsRight ==
  /\ IsFiniteSet(Players(booked)) /\ Players(Party) \subseteq Players(booked)
  /\ \A s \in SlotTimes : Cardinality(Players(InRow(booked, s))) <= RoomIn[s]
IdsRight == \A b \in booked : b.id \in Seq(Marks) /\ b.players \subseteq Marks
\* A move that was done was answered with a booking, and so was the first of a swap.
AnswersRight(sent) ==
  \A i \in 1..Len(sent) : sent[i].answer.refusal = "none" => sent[i].answer.booking # Nil
SecondKinds == {"second-pending", "partial-failure-second", "restoring"}
PillRight == swap.kind \in Kinds /\ (swap.kind \in SecondKinds => swap.result # Nil)
SwapTypes ==
  /\ RowsRight /\ IdsRight /\ AnswersRight(moves) /\ PillRight /\ count \in 0..MaxMoves

LEMMA MarksOfParty == \A b \in Party : b.id \in Seq(Marks) /\ b.players \subseteq Marks
<1>1. \A b \in Party : b.id \in Seq(Marks) BY SwapAssumption
<1>2. \A b \in Party : b.players \subseteq Marks BY DEF Marks
<1> QED BY <1>1, <1>2

LEMMA NoneSent == AnswersRight(<<>>)
<1>1. 1..Len(<<>>) = {} OBVIOUS
<1> QED BY <1>1 DEF AnswersRight

LEMMA OneSent ==
  ASSUME NEW m
  PROVE  AnswersRight(<<m>>) <=> (m.answer.refusal = "none" => m.answer.booking # Nil)
<1>1. 1..Len(<<m>>) = {1} BY OfOne
<1>2. <<m>>[1] = m BY OfOne
<1> QED BY <1>1, <1>2 DEF AnswersRight

\* One player who comes into a row that has room for them leaves it with no more than it takes.
Joins(p, to, before, after) ==
  /\ to \in SlotTimes => Cardinality(Players(InRow(before, to))) < RoomIn[to]
  /\ Players(before) \subseteq Players(after) /\ Players(after) \subseteq Players(before) \union {p}
  /\ \A s \in SlotTimes : Players(InRow(after, s))
       \subseteq Players(InRow(before, s)) \union (IF s = to THEN {p} ELSE {})
LEMMA OneMore ==
  ASSUME RowsRight, NEW p, NEW to, Joins(p, to, booked, booked')
  PROVE  RowsRight'
<1>1. IsFiniteSet(Players(booked')) /\ Players(Party) \subseteq Players(booked')
  <2>1. IsFiniteSet(Players(booked) \union {p}) BY FS_AddElement DEF RowsRight
  <2> QED BY <2>1, FS_Subset DEF RowsRight, Joins
<1>2. ASSUME NEW s \in SlotTimes PROVE Cardinality(Players(InRow(booked', s))) <= RoomIn[s]
  <2>1. PICK old : old = Players(InRow(booked, s)) OBVIOUS
  <2>2. PICK new : new = Players(InRow(booked', s)) OBVIOUS
  <2>3. IsFiniteSet(old)
    <3>1. old \subseteq Players(booked) BY <2>1 DEF Players, InRow
    <3> QED BY <3>1, FS_Subset DEF RowsRight
  <2>4. Cardinality(old) \in Nat /\ Cardinality(old) <= RoomIn[s] /\ RoomIn[s] \in Nat
    BY <2>1, <2>3, FS_CardinalityType, SwapAssumption DEF RowsRight
  <2>5. CASE s = to
    <3>1. new \subseteq old \union {p} BY <2>1, <2>2, <2>5 DEF Joins
    <3>2. Cardinality(old) < RoomIn[s] BY <2>1, <2>5 DEF Joins
    <3>3. IsFiniteSet(old \union {p}) /\ Cardinality(old \union {p}) <= Cardinality(old) + 1
      <4>1. IsFiniteSet(old \union {p})
            /\ Cardinality(old \union {p}) = IF p \in old THEN Cardinality(old)
                                             ELSE Cardinality(old) + 1
        BY <2>3, FS_AddElement
      <4> QED BY <2>4, <4>1
    <3>4. Cardinality(new) <= Cardinality(old \union {p}) /\ IsFiniteSet(new)
      BY <3>1, <3>3, FS_Subset
    <3>5. Cardinality(new) \in Nat /\ Cardinality(old \union {p}) \in Nat
      BY <3>3, <3>4, FS_CardinalityType
    <3> QED BY <2>2, <2>4, <3>2, <3>3, <3>4, <3>5
  <2>6. CASE s # to
    <3>1. new \subseteq old BY <2>1, <2>2, <2>6 DEF Joins
    <3>2. Cardinality(new) <= Cardinality(old) /\ IsFiniteSet(new) BY <2>3, <3>1, FS_Subset
    <3>3. Cardinality(new) \in Nat BY <3>2, FS_CardinalityType
    <3> QED BY <2>2, <2>4, <3>2, <3>3
  <2> QED BY <2>5, <2>6
<1> QED BY <1>1, <1>2 DEF RowsRight

\* A move that is done takes one player to a row with room for them.
LEMMA ServedRows ==
  ASSUME SwapInv, RowsRight, IdsRight, NEW m, Refusal(m) = "none",
         booked' = (booked \ {Asked(m)}) \union After(Asked(m), m)
  PROVE  RowsRight' /\ IdsRight'
<1>1. PICK b : b = Asked(m) OBVIOUS
<1>2. /\ b \in booked /\ m.player \in b.players
      /\ ~(Cardinality(Players(InRow(booked, m.to))) >= RoomIn[m.to])
  BY <1>1 DEF Refusal, Asked
<1>3. b = [id |-> b.id, players |-> b.players, row |-> b.row, status |-> b.status]
  BY <1>2 DEF SwapInv, BookingsShaped
<1>4. b.id \in Seq(Marks) /\ m.player \in Marks /\ b.players \subseteq Marks
  BY <1>2 DEF IdsRight
<1>5. Players(booked) \subseteq Players(booked') BY ServedMove DEF SwapInv
<1>6. m.to \in SlotTimes => Cardinality(Players(InRow(booked, m.to))) < RoomIn[m.to]
  <2> SUFFICES ASSUME m.to \in SlotTimes
               PROVE  Cardinality(Players(InRow(booked, m.to))) < RoomIn[m.to]
    OBVIOUS
  <2>1. Players(InRow(booked, m.to)) \subseteq Players(booked) BY DEF Players, InRow
  <2>2. IsFiniteSet(Players(InRow(booked, m.to))) BY <2>1, FS_Subset DEF RowsRight
  <2>3. Cardinality(Players(InRow(booked, m.to))) \in Nat BY <2>2, FS_CardinalityType
  <2>4. RoomIn[m.to] \in Nat BY SwapAssumption
  <2> QED BY <1>2, <2>3, <2>4
<1>7. \A e \in booked' : \/ e \in booked
                         \/ e.players \subseteq b.players /\ e.row = b.row /\ e.id = b.id
                         \/ e.players = {m.player} /\ e.row = m.to /\ e.id \in Seq(Marks)
  <2>1. CASE b.players = {m.player}
    <3>1. PICK c : c = [id |-> b.id, players |-> b.players, row |-> m.to, status |-> b.status]
      OBVIOUS
    <3>2. [b EXCEPT !.row = m.to] = c BY <1>3, <3>1
    <3>3. booked' = (booked \ {b}) \union {c} BY <1>1, <2>1, <3>2 DEF After, Split
    <3> QED BY <1>4, <2>1, <3>1, <3>3
  <2>2. CASE b.players # {m.player}
    <3>1. PICK c : c = [id |-> b.id, players |-> b.players \ {m.player}, row |-> b.row,
                        status |-> b.status]
      OBVIOUS
    <3>2. PICK d : d = [id |-> Append(b.id, m.player), players |-> {m.player}, row |-> m.to,
                        status |-> b.status]
      OBVIOUS
    <3>3. [b EXCEPT !.players = @ \ {m.player}] = c BY <1>3, <3>1
    <3>4. booked' = (booked \ {b}) \union {c, d} BY <1>1, <2>2, <3>2, <3>3 DEF After, Split
    <3>5. Append(b.id, m.player) \in Seq(Marks) BY <1>4, AppendProperties
    <3>6. c.players \subseteq b.players /\ c.row = b.row /\ c.id = b.id BY <3>1
    <3>7. d.players = {m.player} /\ d.row = m.to /\ d.id \in Seq(Marks) BY <3>2, <3>5
    <3> QED BY <3>4, <3>6, <3>7
  <2> QED BY <2>1, <2>2
<1>8. Players(booked') \subseteq Players(booked) \union {m.player}
  BY <1>2, <1>7 DEF Players
<1>9. ASSUME NEW s \in SlotTimes
      PROVE  Players(InRow(booked', s))
               \subseteq Players(InRow(booked, s)) \union (IF s = m.to THEN {m.player} ELSE {})
  <2> SUFFICES ASSUME NEW e \in booked', e.row = s, NEW q \in e.players
               PROVE  q \in Players(InRow(booked, s)) \/ (s = m.to /\ q = m.player)
    BY DEF Players, InRow
  <2>1. CASE \E c \in booked : c.row = s /\ q \in c.players BY <2>1 DEF Players, InRow
  <2> QED BY <1>2, <1>7, <2>1
<1>10. Joins(m.player, m.to, booked, booked') BY <1>5, <1>6, <1>8, <1>9 DEF Joins
<1>11. RowsRight' BY <1>10, OneMore
<1>12. IdsRight' BY <1>4, <1>7 DEF IdsRight
<1> QED BY <1>11, <1>12

LEMMA OneMark == ASSUME NEW S, NEW p \in S PROVE <<p>> \in Seq(S)
OBVIOUS

LEMMA BookedRows ==
  ASSUME SwapInv, RowsRight, IdsRight, NEW p \in Passers, NEW s, OtherBooks(p, s)
  PROVE  RowsRight' /\ IdsRight'
<1>1. PICK c : c = [id |-> <<p>>, players |-> {p}, row |-> s, status |-> "reserved"] OBVIOUS
<1>2. booked' = booked \union {c} /\ Cardinality(Players(InRow(booked, s))) < RoomIn[s]
  BY <1>1 DEF OtherBooks
<1>3. c.id = <<p>> /\ c.players = {p} /\ c.row = s BY <1>1
<1>4. p \in Marks /\ <<p>> \in Seq(Marks)
  <2>1. p \in Marks BY DEF Marks
  <2> QED BY <2>1, OneMark
<1>5. /\ Players(booked') \subseteq Players(booked) \union {p}
      /\ Players(booked) \subseteq Players(booked')
  BY <1>2, <1>3 DEF Players
<1>6. ASSUME NEW t \in SlotTimes
      PROVE  Players(InRow(booked', t))
               \subseteq Players(InRow(booked, t)) \union (IF t = s THEN {p} ELSE {})
  <2> SUFFICES ASSUME NEW e \in booked', e.row = t, NEW q \in e.players
               PROVE  q \in Players(InRow(booked, t)) \/ (t = s /\ q = p)
    BY DEF Players, InRow
  <2> QED BY <1>2, <1>3 DEF Players, InRow
<1>7. Joins(p, s, booked, booked') BY <1>2, <1>5, <1>6 DEF Joins
<1>8. RowsRight' BY <1>7, OneMore
<1>9. IdsRight' BY <1>2, <1>3, <1>4 DEF IdsRight
<1> QED BY <1>8, <1>9

\* A booking that was moved has an id.
LEMMA AnswerIsOne ==
  ASSUME IdsRight, NEW m, Refusal(m) = "none", NEW b, b = Asked(m)
  PROVE  b.id # Nil /\ Append(b.id, m.player) # Nil
<1>1. b \in booked /\ m.player \in b.players BY DEF Refusal, Asked
<1>2. b.id \in Seq(Marks) /\ m.player \in Marks BY <1>1 DEF IdsRight
<1>3. Append(b.id, m.player) \in Seq(Marks) BY <1>2, AppendProperties
<1> QED BY <1>2, <1>3, SwapAssumption

\* A move that is sent waits for its answer, and is counted.
LEMMA SentTypes ==
  ASSUME count \in 0..MaxMoves, NEW stage, NEW id, NEW p, NEW from, NEW to,
         Mutate(Move(stage, id, p, from, to), <<>>)
  PROVE  AnswersRight(moves') /\ count' \in 0..MaxMoves
<1>1. PICK m : m = Move(stage, id, p, from, to) OBVIOUS
<1>2. m = [id |-> id, player |-> p, before |-> Nil, latest |-> TRUE, from |-> from,
           to |-> to, stage |-> stage, answer |-> Unanswered]
  BY <1>1 DEF Move
<1>3. PICK n : n = IF match THEN [m EXCEPT !.before = grid] ELSE m OBVIOUS
<1>4. n.answer = Unanswered BY <1>2, <1>3
<1>5. moves' = <<n>> BY <1>1, <1>3 DEF Mutate
<1>6. n.answer.refusal # "none" BY <1>4 DEF Unanswered
<1>7. AnswersRight(moves') BY <1>5, <1>6, OneSent
<1>8. count' \in 0..MaxMoves BY SwapAssumption DEF Mutate
<1> QED BY <1>7, <1>8

LEMMA SwapTypesStart == SwapInit => SwapTypes
<1> SUFFICES ASSUME SwapInit PROVE SwapTypes OBVIOUS
<1>1. booked = Party /\ swap = NoSwap /\ moves = <<>> /\ count = 0 BY DEF SwapInit
<1>2. RowsRight BY <1>1, SwapAssumption DEF RowsRight
<1>3. IdsRight BY <1>1, MarksOfParty DEF IdsRight
<1>4. AnswersRight(moves) BY <1>1, NoneSent
<1>5. swap.kind = "idle" BY <1>1 DEF NoSwap
<1>6. PillRight BY <1>5 DEF PillRight, Kinds, SecondKinds
<1>7. count \in 0..MaxMoves BY <1>1, SwapAssumption
<1> QED BY <1>2, <1>3, <1>4, <1>6, <1>7 DEF SwapTypes

\* The booking a move that is done answers with.
Done(m) ==
  IF Split(Asked(m), m.player) THEN Append(Asked(m).id, m.player) ELSE Asked(m).id

LEMMA ServeTypes ==
  ASSUME SwapInv, SwapTypes, NEW i, ServeMove(i)
  PROVE  SwapTypes'
<1>1. PICK m : moves = <<m>> /\ MoveShaped(m)
  <2>1. 1..Len(<<>>) = {} OBVIOUS
  <2>2. moves # <<>> BY <2>1 DEF ServeMove
  <2> QED BY <2>2 DEF SwapInv, SwapAtRest
<1>2. i \in 1..Len(<<m>>) /\ moves[i] = m
  <2>1. i \in 1..Len(<<m>>) BY <1>1 DEF ServeMove
  <2>2. i = 1 BY <2>1, OfOne
  <2>3. moves[1] = m BY <1>1, OfOne
  <2> QED BY <2>1, <2>2, <2>3
<1>3. UNCHANGED <<swap, count>> BY DEF ServeMove
<1>4. PICK refusal, booking :
        /\ moves' = [moves EXCEPT ![i].answer = Reply(refusal, booking)]
        /\ \/ refusal \in {Refusal(m), "unknown"} \ {"none"} /\ UNCHANGED booked
           \/ /\ Refusal(m) = "none" /\ refusal = "none"
              /\ booked' = (booked \ {Asked(m)}) \union After(Asked(m), m)
              /\ booking = Done(m)
           \/ /\ Refusal(m) = "none" /\ refusal = "unknown"
              /\ booked' = (booked \ {Asked(m)}) \union After(Asked(m), m)
  BY <1>2 DEF ServeMove, Done
<1>5. RowsRight' /\ IdsRight' /\ (refusal = "none" => booking # Nil)
  <2>1. CASE refusal # "none" /\ UNCHANGED booked
    BY <2>1 DEF SwapTypes, RowsRight, IdsRight
  <2>2. CASE /\ Refusal(m) = "none" /\ booked' = (booked \ {Asked(m)}) \union After(Asked(m), m)
             /\ \/ refusal # "none"
                \/ booking = Done(m)
    <3>1. RowsRight' /\ IdsRight' BY <2>2, ServedRows DEF SwapTypes
    <3>2. refusal = "none" => booking # Nil BY <2>2, AnswerIsOne DEF SwapTypes, Done
    <3> QED BY <3>1, <3>2
  <2> QED BY <1>4, <2>1, <2>2
<1>6. AnswersRight(moves')
  <2>1. PICK v : v = Reply(refusal, booking) OBVIOUS
  <2>2. moves' = [<<m>> EXCEPT ![i].answer = v] BY <1>1, <1>4, <2>1
  <2>3. [<<m>> EXCEPT ![i].answer = v] = <<[m EXCEPT !.answer = v]>> BY <1>2, AnsweredOne
  <2>4. PICK n : n = [m EXCEPT !.answer = v] OBVIOUS
  <2>5. n.answer = v
    <3>1. m = [id |-> m.id, player |-> m.player, before |-> m.before, latest |-> TRUE,
               from |-> m.from, to |-> m.to, stage |-> m.stage, answer |-> m.answer]
      BY <1>1 DEF MoveShaped
    <3>2. PICK l : l = TRUE OBVIOUS
    <3>3. PICK a, p, d, f, t, g, r :
            /\ a = m.id /\ p = m.player /\ d = m.before /\ f = m.from
            /\ t = m.to /\ g = m.stage /\ r = m.answer
      OBVIOUS
    <3>4. m = [id |-> a, player |-> p, before |-> d, latest |-> l, from |-> f, to |-> t,
               stage |-> g, answer |-> r]
      BY <3>1, <3>2, <3>3, Zenon
    <3> QED BY <2>4, <3>4
  <2>6. v.refusal = refusal /\ v.booking = booking BY <2>1 DEF Reply
  <2>7. n.answer.refusal = "none" => n.answer.booking # Nil BY <1>5, <2>5, <2>6
  <2> QED BY <2>2, <2>3, <2>4, <2>7, OneSent
<1>7. PillRight' /\ count' \in 0..MaxMoves BY <1>3 DEF SwapTypes, PillRight
<1> QED BY <1>5, <1>6, <1>7 DEF SwapTypes

LEMMA SettledTypes ==
  ASSUME SwapInv, SwapTypes, NEW i, SettleMove(i)
  PROVE  SwapTypes'
<1>1. PICK m : moves = <<m>> /\ MoveShaped(m) /\ MoveRight(m)
  <2>1. 1..Len(<<>>) = {} OBVIOUS
  <2>2. moves # <<>> BY <2>1 DEF SettleMove
  <2> QED BY <2>2 DEF SwapInv, SwapAtRest
<1>2. i \in 1..Len(<<m>>) /\ moves[i] = m
  <2>1. i \in 1..Len(<<m>>) BY <1>1 DEF SettleMove
  <2>2. i = 1 BY <2>1, OfOne
  <2>3. moves[1] = m BY <1>1, OfOne
  <2> QED BY <2>1, <2>2, <2>3
<1>3. RemoveAt(moves, i) = <<>> BY <1>1, <1>2, NoneLeftOfOne
<1>4. m.answer.refusal = "none" => m.answer.booking # Nil BY <1>1, OneSent DEF SwapTypes
<1>5. UNCHANGED booked BY DEF SettleMove
<1>6. swap = [kind |-> swap.kind, a |-> swap.a, b |-> swap.b, result |-> swap.result]
  BY DEF SwapInv
<1>7. count \in 0..MaxMoves /\ PillRight BY DEF SwapTypes
<1>8. RowsRight' /\ IdsRight' BY <1>5 DEF SwapTypes, RowsRight, IdsRight
<1>9. CASE FirstDone(m, <<>>)
  <2>1. PICK v : v = m.answer.booking OBVIOUS
  <2>2. v # Nil BY <1>4, <1>9, <2>1 DEF FirstDone, Refused
  <2>3. swap' = [swap EXCEPT !.kind = "second-pending", !.result = v] BY <1>9, <2>1 DEF FirstDone
  <2>4. swap'.kind = "second-pending" /\ swap'.result = v BY <1>6, <2>3
  <2>5. PillRight' BY <2>2, <2>4 DEF PillRight, Kinds
  <2>6. Mutate(Move("second", swap.b.booking, swap.b.player, swap.b.row, swap.a.row), <<>>)
    BY <1>9 DEF FirstDone, SecondMove
  <2>7. AnswersRight(moves') /\ count' \in 0..MaxMoves BY <1>7, <2>6, SentTypes
  <2> QED BY <1>8, <2>5, <2>7 DEF SwapTypes
<1>10. CASE swap' = [swap EXCEPT !.kind = Reduced(m)] /\ Settled10(m, <<>>)
  <2>1. PICK k : k = Reduced(m) OBVIOUS
  <2>2. swap'.kind = k /\ swap'.result = swap.result
    <3>1. swap' = [swap EXCEPT !.kind = k] BY <1>10, <2>1
    <3> QED BY <1>6, <3>1
  <2>3. k \in Kinds /\ (k \in SecondKinds => swap.kind \in SecondKinds)
    <3>1. m.latest BY <1>1 DEF MoveShaped
    <3>2. m.stage \in {"plain", "first", "second", "restore"} BY <1>1 DEF MoveRight
    <3> QED BY <1>7, <2>1, <3>1, <3>2 DEF Reduced, PillRight, Kinds, SecondKinds
  <2>4. PillRight' BY <1>7, <2>2, <2>3 DEF PillRight
  <2>5. moves' = <<>> /\ count' = count BY <1>10 DEF Settled10
  <2>6. AnswersRight(moves') BY <2>5, NoneSent
  <2> QED BY <1>7, <1>8, <2>4, <2>5, <2>6 DEF SwapTypes
<1> QED BY <1>2, <1>3, <1>9, <1>10 DEF SettleMove

LEMMA SwapNextTypes ==
  ASSUME Patient, SwapInv, SwapTypes, [SwapNext]_swapVars
  PROVE  SwapTypes'
<1>1. /\ RowsRight /\ IdsRight /\ AnswersRight(moves) /\ PillRight /\ count \in 0..MaxMoves
      /\ swap = [kind |-> swap.kind, a |-> swap.a, b |-> swap.b, result |-> swap.result]
  BY DEF SwapTypes, SwapInv
<1>2. ASSUME UNCHANGED booked PROVE RowsRight' /\ IdsRight'
  BY <1>1, <1>2 DEF RowsRight, IdsRight
<1>3. swap.kind \notin Busy => moves = <<>> \/ swap.kind \notin Stuck
  BY DEF SwapInv, SwapAtRest, MoveRight, Busy, Stuck
<1>4. ASSUME NEW b \in grid, NEW p \in b.players, NEW s \in SlotTimes, DropOnOpen(b, p, s)
      PROVE  SwapTypes'
  <2>1. moves = <<>> /\ UNCHANGED <<booked, swap>> BY <1>4 DEF DropOnOpen, Waits
  <2>2. Mutate(Move("plain", b.id, p, b.row, s), <<>>) BY <1>4, <2>1 DEF DropOnOpen
  <2>3. AnswersRight(moves') /\ count' \in 0..MaxMoves BY <1>1, <2>2, SentTypes
  <2>4. PillRight' BY <1>1, <2>1 DEF PillRight
  <2> QED BY <1>2, <2>1, <2>3, <2>4 DEF SwapTypes
<1>5. ASSUME NEW b \in grid, NEW p \in b.players, NEW y \in grid, NEW q \in y.players,
             Initiate(b, p, y, q)
      PROVE  SwapTypes'
  <2>1. moves = <<>> /\ UNCHANGED booked BY <1>5 DEF Initiate, Waits
  <2>2. PillRight' BY <1>5 DEF Initiate, PillRight, Kinds, SecondKinds
  <2>3. AnswersRight(moves') /\ count' \in 0..MaxMoves
    <3>1. CASE OpenCells(y.row)
      <4>1. Mutate(Move("first", b.id, p, b.row, y.row), <<>>) BY <1>5, <2>1, <3>1 DEF Initiate
      <4> QED BY <1>1, <4>1, SentTypes
    <3>2. CASE ~OpenCells(y.row) BY <1>1, <1>5, <3>2 DEF Initiate
    <3> QED BY <3>1, <3>2
  <2> QED BY <1>2, <2>1, <2>2, <2>3 DEF SwapTypes
<1>6. ASSUME NEW k \in {"second-pending", "restoring"}, NEW stage, NEW id, NEW p, NEW from, NEW to,
             swap.kind = "partial-failure-second", swap' = [swap EXCEPT !.kind = k],
             Mutate(Move(stage, id, p, from, to), moves), UNCHANGED booked
      PROVE  SwapTypes'
  <2>1. moves = <<>> BY <1>3, <1>6 DEF Busy, Stuck
  <2>2. AnswersRight(moves') /\ count' \in 0..MaxMoves BY <1>1, <1>6, <2>1, SentTypes
  <2>3. swap'.kind = k /\ swap'.result = swap.result BY <1>1, <1>6
  <2>4. swap.result # Nil BY <1>1, <1>6 DEF PillRight, SecondKinds
  <2>5. PillRight' BY <1>6, <2>3, <2>4 DEF PillRight, Kinds
  <2> QED BY <1>2, <1>6, <2>2, <2>5 DEF SwapTypes
<1>7. CASE RetrySecond
  <2>1. Mutate(Move("second", swap.b.booking, swap.b.player, swap.b.row, swap.a.row), moves)
    BY <1>7 DEF RetrySecond, SecondMove
  <2> QED BY <1>6, <1>7, <2>1 DEF RetrySecond
<1>8. CASE RestoreFirst
  <2>1. Mutate(Move("restore", swap.result, swap.a.player, swap.b.row, swap.a.row), moves)
    BY <1>8 DEF RestoreFirst, MoveBack
  <2> QED BY <1>6, <1>8, <2>1 DEF RestoreFirst
<1>9. CASE ResetSwap
  <2>1. swap'.kind = "idle" /\ UNCHANGED <<booked, moves, count>> BY <1>9 DEF ResetSwap, NoSwap
  <2>2. PillRight' BY <2>1 DEF PillRight, Kinds, SecondKinds
  <2> QED BY <1>1, <1>2, <2>1, <2>2 DEF SwapTypes
<1>10. ASSUME NEW i \in 1..Len(moves), ServeMove(i) \/ SettleMove(i) PROVE SwapTypes'
  BY <1>10, ServeTypes, SettledTypes
<1>11. ASSUME NEW p \in Passers, NEW s \in SlotTimes, OtherBooks(p, s) PROVE SwapTypes'
  <2>1. RowsRight' /\ IdsRight' BY <1>1, <1>11, BookedRows
  <2>2. UNCHANGED <<swap, moves, count>> BY <1>11 DEF OtherBooks
  <2> QED BY <1>1, <2>1, <2>2 DEF SwapTypes, PillRight
<1>12. CASE ReadDay \/ UNCHANGED swapVars
  <2>1. UNCHANGED <<booked, swap, moves, count>> BY <1>12 DEF ReadDay, swapVars
  <2> QED BY <1>1, <1>2, <2>1 DEF SwapTypes, PillRight
<1> QED BY <1>4, <1>5, <1>7, <1>8, <1>9, <1>10, <1>11, <1>12 DEF SwapNext

LEMMA TypesOfSwap == SwapTypes => SwapTypeOK
BY DEF SwapTypes, RowsRight, PillRight, SecondKinds, SwapTypeOK

(* For any rows, players, bookings and moves, and whatever is refused, lost, booked or read  *)
(* meanwhile: no row of the tee sheet ever holds more players than it takes, nobody who was  *)
(* booked loses their seat, and a swap that waits for its second move or to be restored      *)
(* knows the booking its first move made (booking_move_service.py, use-participant-swap.ts), *)
(* where staff finish one drop before the next.                                              *)
THEOREM SwapTypeCorrect == ASSUME Patient PROVE SwapSpec => []SwapTypeOK
<1>1. SwapInit => SwapInv /\ SwapTypes BY SwapStarts, SwapTypesStart
<1>2. SwapInv /\ SwapTypes /\ [SwapNext]_swapVars => (SwapInv /\ SwapTypes)'
  BY SwapSteps, SwapNextTypes
<1>3. SwapTypes => SwapTypeOK BY TypesOfSwap
<1> QED BY <1>1, <1>2, <1>3, PTL DEF SwapSpec
=============================================================================
