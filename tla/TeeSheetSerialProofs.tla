-------------------------- MODULE TeeSheetSerialProofs --------------------------
(***************************************************************************)
(* What the booking services keep when requests are served one after the   *)
(* other, for any number of bookings, players and slots. The checks of     *)
(* create, update, move and split are made on reads that nothing protects, *)
(* so these properties do not survive two requests that overlap (the runs  *)
(* TeeSheetRace and TeeSheetOverbooked find how they fail); here is what   *)
(* the same code guarantees as long as none do.                            *)
(***************************************************************************)
EXTENDS TeeSheetProofs, WellFoundedInduction

\* No two requests are being served at a time.
OneAtATime ==
  \A v, w \in Workers : v = w \/ jobs[v] = Idle \/ jobs[w] = Idle

\* What a request has loaded is still what is committed.
Fresh(j) ==
  /\ j.op \in {"update", "move", "split"} => j.seen = bookings[j.id]
  /\ j.op \in {"update", "split"} => j.loaded = Participants(j.id)
  /\ j.op = "split" =>
       /\ IsLive(j.id)
       /\ j.primaries = {r \in j.loaded : rows[r].primary}
  /\ j.op = "transition" => bookings[j.id].status = j.from /\ j.from = From(j.to)

\* A participant that is not deleted takes part in a booking there is.
RowsOfMade ==
  \A r \in RowIds : IsRow(r) => rows[r].booking = None \/ Exists(rows[r].booking)

\* One booking: its size, its players and its lead.
Agrees(b) ==
  /\ bookings[b].size = Cardinality(Participants(b))
  /\ bookings[b].size > 0
  /\ \E r \in Participants(b) :
       /\ rows[r].primary
       /\ rows[r].person = bookings[b].lead
       /\ \A x \in Participants(b) \ {r} : ~ rows[x].primary

AllAgree == \A b \in BookingIds : Exists(b) => Agrees(b)

SerialInv ==
  /\ RowsOfMade
  /\ AllAgree
  /\ LogIsAChain
  /\ \A w \in Workers : Fresh(jobs[w])

LEMMA AgreementIsConsistency == AllAgree /\ LogIsAChain => BookingsConsistent
BY DEF AllAgree, Agrees, BookingsConsistent, PartySizeIsRows, OnePrimary

-------------------------------------------------------------------------------
(* Facts about the data.                                                   *)

\* A party has at least one player.
LEMMA PartyNotEmpty ==
  ASSUME NEW p \in Parties
  PROVE  PartySize(p) \in Nat /\ PartySize(p) > 0
<1>1. p \in Party /\ IF p.lead = Guest THEN p.guests > 0 ELSE p.lead \in p.people
  BY PartiesOK
<1>2. IsFiniteSet(p.people) BY <1>1, ConstantsOK, FS_Subset DEF Party
<1>3. Cardinality(p.people) \in Nat BY <1>2, FS_CardinalityType
<1>4. p.lead \in p.people => Cardinality(p.people) # 0 BY <1>2, FS_EmptySet
<1>5. p.guests \in Nat BY <1>1 DEF Party
<1> QED BY <1>1, <1>3, <1>4, <1>5 DEF PartySize

LEMMA RowSetFinite ==
  ASSUME NEW S \in SUBSET RowIds
  PROVE  IsFiniteSet(S) /\ Cardinality(S) \in Nat
BY ConstantsOK, FS_Subset, FS_CardinalityType

\* Seating a party: which rows are new, which lose their booking, which stay as they
\* were.
LEMMA SeatRows ==
  ASSUME TypeOK, NEW b \in BookingIds, NEW party \in Parties,
         NEW removed \in SUBSET RowIds, \A r \in removed : IsRow(r),
         Seat(b, party, removed)
  PROVE  \E fresh \in SUBSET RowIds : \E first \in fresh :
           /\ Cardinality(fresh) = PartySize(party)
           /\ \A r \in fresh :
                /\ ~ IsRow(r)
                /\ IsRow(r)'
                /\ rows'[r].booking = b
                /\ rows'[r].primary <=> r = first
           /\ rows'[first].person = party.lead
           /\ \A r \in removed : IsRow(r)' /\ rows'[r].booking = None
           /\ \A r \in RowIds \ (fresh \union removed) : rows'[r] = rows[r]
<1>1. party \in Party BY PartiesOK
<1>2. PICK fresh \in kSubset(PartySize(party), {r \in RowIds : ~ IsRow(r)}) :
        \E who \in [fresh -> party.people \union {Guest}] : \E first \in fresh :
          /\ who[first] = party.lead
          /\ rows' = Seated(b, party, removed, fresh, who, first)
  BY DEF Seat
<1>3. PICK who \in [fresh -> party.people \union {Guest}] : \E first \in fresh :
        /\ who[first] = party.lead
        /\ rows' = Seated(b, party, removed, fresh, who, first)
  BY <1>2
<1>4. PICK first \in fresh :
        /\ who[first] = party.lead
        /\ rows' = Seated(b, party, removed, fresh, who, first)
  BY <1>3
<1>5. /\ fresh \subseteq RowIds
      /\ \A r \in fresh : ~ IsRow(r)
      /\ Cardinality(fresh) = PartySize(party)
  BY DEF kSubset
<1>6. ASSUME NEW r \in fresh
      PROVE  rows'[r] = [booking |-> b, person |-> who[r], primary |-> r = first]
  BY <1>4, <1>5 DEF Seated
<1>7. ASSUME NEW r \in fresh
      PROVE  /\ IsRow(r)' /\ rows'[r].booking = b /\ rows'[r].person = who[r]
             /\ rows'[r].primary <=> r = first
  <2>1. PICK flag \in BOOLEAN : flag <=> r = first OBVIOUS
  <2>2. rows'[r] = [booking |-> b, person |-> who[r], primary |-> flag] BY <1>6, <2>1
  <2>3. who[r] \in Persons \union {Guest} BY <1>1 DEF Party
  <2>4. rows'[r] \in Row BY <2>2, <2>3 DEF Row
  <2>5. /\ rows'[r].booking = b /\ rows'[r].person = who[r]
        /\ rows'[r].primary = flag
    BY <2>2
  <2>6. rows'[r].primary <=> r = first BY <2>1, <2>5
  <2> QED BY <2>4, <2>5, <2>6, NoneIsNothing DEF IsRow
<1>8. rows'[first].person = party.lead BY <1>4, <1>7
<1>9. ASSUME NEW r \in removed PROVE IsRow(r)' /\ rows'[r].booking = None
  <2>1. r \notin fresh /\ rows[r] \in Row BY <1>5 DEF TypeOK, IsRow
  <2>2. rows'[r] = [rows[r] EXCEPT !.booking = None] BY <1>4, <2>1 DEF Seated
  <2>3. rows'[r] \in Row BY <2>1, <2>2 DEF Row
  <2> QED BY <2>1, <2>2, <2>3, NoneIsNothing DEF IsRow, Row
<1>10. ASSUME NEW r \in RowIds \ (fresh \union removed) PROVE rows'[r] = rows[r]
  BY <1>4 DEF Seated
<1> QED BY <1>5, <1>7, <1>8, <1>9, <1>10

\* Nobody takes part in a booking that is not made.
LEMMA NobodyYet ==
  ASSUME RowsOfMade, NEW b \in BookingIds, ~ Exists(b)
  PROVE  Participants(b) = {}
BY NoneIsNothing DEF RowsOfMade, Participants

\* A booking agrees with its players as long as its size, its lead and their rows
\* stay.
LEMMA StillAgrees ==
  ASSUME NEW b \in BookingIds, Agrees(b),
         bookings'[b].size = bookings[b].size, bookings'[b].lead = bookings[b].lead,
         Participants(b)' = Participants(b),
         \A r \in Participants(b) : rows'[r] = rows[r]
  PROVE  Agrees(b)'
BY DEF Agrees

\* As a request is committed the other workers are idle, and so is its own after it.
LEMMA AllIdleAfter ==
  ASSUME TypeOK, OneAtATime, NEW w \in Workers, jobs[w] # Idle, Finish(w)
  PROVE  \A v \in Workers : jobs'[v] = Idle
BY DEF TypeOK, OneAtATime, Finish

LEMMA IdleFresh ==
  ASSUME \A v \in Workers : jobs'[v] = Idle
  PROVE  \A v \in Workers : Fresh(jobs[v])'
BY DEF Fresh, Idle

-------------------------------------------------------------------------------
(* Requests that read.                                                     *)

\* A request that starts, goes on or ends without a commit.
LEMMA ReadSerial ==
  ASSUME IInv, SerialInv, NEW w \in Workers, NEW job, Fresh(job),
         jobs' = [jobs EXCEPT ![w] = job], UNCHANGED <<bookings, rows, audit>>
  PROVE  SerialInv'
<1>1. \A v \in Workers : Fresh(jobs'[v]) BY DEF SerialInv, IInv, TypeOK
<1>2. \A v \in Workers : Fresh(jobs[v])'
  BY <1>1 DEF Fresh, Exists, IsLive, Participants, IsRow
<1>3. RowsOfMade' /\ AllAgree' /\ LogIsAChain'
  BY DEF SerialInv, RowsOfMade, AllAgree, Agrees, LogIsAChain, Exists, IsRow, Participants
<1> QED BY <1>2, <1>3 DEF SerialInv

\* What a request loads at its start is what is committed.
LEMMA BeginSerial ==
  ASSUME IInv, SerialInv, NEW w \in Workers,
         \/ BeginCreate(w) \/ BeginUpdate(w) \/ BeginMove(w)
         \/ BeginSplit(w) \/ BeginTransition(w)
  PROVE  SerialInv'
<1>1. ASSUME NEW job, Fresh(job), Start(w, job) PROVE SerialInv'
  BY <1>1, ReadSerial DEF Start
<1>2. CASE BeginCreate(w)
  <2>1. PICK job : Start(w, job) /\ job.op = "create" BY <1>2 DEF BeginCreate
  <2> QED BY <1>1, <2>1 DEF Fresh
<1>3. CASE BeginUpdate(w)
  <2>1. PICK job : /\ Start(w, job) /\ job.op = "update"
                   /\ job.seen = bookings[job.id] /\ job.loaded = Participants(job.id)
    BY <1>3 DEF BeginUpdate
  <2> QED BY <1>1, <2>1 DEF Fresh
<1>4. CASE BeginMove(w)
  <2>1. PICK job : Start(w, job) /\ job.op = "move" /\ job.seen = bookings[job.id]
    BY <1>4 DEF BeginMove
  <2> QED BY <1>1, <2>1 DEF Fresh
<1>5. CASE BeginSplit(w)
  <2>1. PICK job : /\ Start(w, job) /\ job.op = "split"
                   /\ job.seen = bookings[job.id] /\ job.loaded = Participants(job.id)
                   /\ IsLive(job.id)
                   /\ job.primaries = {r \in job.loaded : rows[r].primary}
    BY <1>5 DEF BeginSplit
  <2> QED BY <1>1, <2>1 DEF Fresh
<1>6. CASE BeginTransition(w)
  <2>1. PICK job : /\ Start(w, job) /\ job.op = "transition"
                   /\ bookings[job.id].status = job.from /\ job.from = From(job.to)
    BY <1>6 DEF BeginTransition
  <2> QED BY <1>1, <2>1 DEF Fresh
<1> QED BY <1>2, <1>3, <1>4, <1>5, <1>6

LEMMA CheckSerial ==
  ASSUME IInv, SerialInv, NEW w \in Workers, CheckSlot(w) \/ CheckLimits(w)
  PROVE  SerialInv'
<1>1. PICK stage \in {"limits", "commit"} :
        Advance(w, stage) /\ jobs[w].op \in {"create", "update", "move", "split"}
  BY DEF CheckSlot, CheckLimits
<1> DEFINE job == [jobs[w] EXCEPT !.stage = stage]
<1>2. jobs[w] \in Job /\ Fresh(jobs[w]) BY DEF IInv, TypeOK, SerialInv
<1>3. Fresh(job)
  BY <1>1, <1>2, JobKinds DEF Fresh, CreateJob, UpdateJob, MoveJob, SplitJob
<1>4. jobs' = [jobs EXCEPT ![w] = job] BY <1>1 DEF Advance, IInv, TypeOK
<1> HIDE DEF job
<1> QED BY <1>1, <1>3, <1>4, ReadSerial DEF Advance

LEMMA AbandonSerial ==
  ASSUME IInv, SerialInv, NEW w \in Workers, Abandon(w)
  PROVE  SerialInv'
<1>1. Fresh(Idle) BY DEF Fresh, Idle
<1> QED BY <1>1, ReadSerial DEF Abandon, Finish

-------------------------------------------------------------------------------
(* The commits.                                                            *)

LEMMA NotIdle ==
  ASSUME NEW j, j.op # "idle"
  PROVE  j # Idle
BY DEF Idle

\* A row a commit writes belongs to a booking that is made, or to none.
LEMMA RowsStayOfMade ==
  ASSUME IInv, SerialInv, Kept,
         \A r \in RowIds : IsRow(r)' =>
           \/ rows'[r].booking = None
           \/ bookings'[rows'[r].booking] # None
           \/ IsRow(r) /\ rows'[r].booking = rows[r].booking
  PROVE  RowsOfMade'
<1> SUFFICES ASSUME NEW r \in RowIds, IsRow(r)'
             PROVE  rows'[r].booking = None \/ bookings'[rows'[r].booking] # None
  BY DEF RowsOfMade, Exists
<1>1. CASE IsRow(r) /\ rows'[r].booking = rows[r].booking
  <2>1. PICK b \in BookingIds \union {None} : b = rows[r].booking
    BY <1>1 DEF IInv, TypeOK, IsRow, Row
  <2>2. b = None \/ Exists(b) BY <1>1, <2>1 DEF SerialInv, RowsOfMade
  <2> QED BY <1>1, <2>1, <2>2, NoneIsNothing DEF Kept, Exists
<1> QED BY <1>1

\* The commit of the only request there is.
LEMMA CommitSerial ==
  ASSUME IInv, SerialInv, OneAtATime, NEW w \in Workers, jobs[w].op # "idle",
         Finish(w), RowsOfMade', AllAgree', LogIsAChain'
  PROVE  SerialInv'
<1>1. jobs[w] # Idle BY NotIdle
<1>2. \A v \in Workers : jobs'[v] = Idle BY <1>1, AllIdleAfter DEF IInv
<1> QED BY <1>2, IdleFresh DEF SerialInv

\* A log that was a chain goes on being one when the entry it gains starts where it
\* ended.
LEMMA ChainGrows ==
  ASSUME TypeOK, LogIsAChain, NEW b \in BookingIds, NEW from \in Statuses \union {None},
         NEW to \in Statuses, audit' = [audit EXCEPT ![b] = Append(@, <<from, to>>)],
         audit[b] = << >> \/ audit[b][Len(audit[b])][2] = from
  PROVE  LogIsAChain'
<1> DEFINE E == (Statuses \union {None}) \X Statuses
<1>1. audit \in [BookingIds -> Seq(E)] BY DEF TypeOK
<1>2. <<from, to>> \in E OBVIOUS
<1>3. /\ audit'[b] = Append(audit[b], <<from, to>>)
      /\ \A x \in BookingIds \ {b} : audit'[x] = audit[x]
  BY <1>1
<1> HIDE DEF E
<1>4. PICK log \in Seq(E) : log = audit[b] BY <1>1
<1>5. PICK longer : longer = Append(log, <<from, to>>) OBVIOUS
<1>6. /\ Len(log) \in Nat /\ Len(longer) = Len(log) + 1
      /\ longer[Len(log) + 1] = <<from, to>>
      /\ \A i \in 1 .. Len(log) : longer[i] = log[i]
  BY <1>2, <1>5
<1>7. ASSUME NEW i \in 1 .. Len(longer) - 1 PROVE longer[i][2] = longer[i + 1][1]
  <2>1. CASE i = Len(log)
    <3>1. log # << >> BY <1>6, <2>1
    <3>2. log[i][2] = from BY <1>4, <2>1, <3>1
    <3> QED BY <1>6, <1>7, <2>1, <3>2
  <2>2. CASE i # Len(log)
    <3>1. i \in 1 .. (Len(log) - 1) /\ i \in 1 .. Len(log) /\ i + 1 \in 1 .. Len(log)
      BY <1>6, <1>7, <2>2
    <3>2. log[i][2] = log[i + 1][1] BY <1>4, <3>1 DEF LogIsAChain
    <3> QED BY <1>6, <3>1, <3>2
  <2> QED BY <2>1, <2>2
<1>8. audit'[b] = longer BY <1>3, <1>4, <1>5
<1> QED BY <1>3, <1>7, <1>8 DEF LogIsAChain

LEMMA CreateSerial ==
  ASSUME IInv, SerialInv, OneAtATime, NEW w \in Workers, CommitCreate(w)
  PROVE  SerialInv'
<1>1. PICK j \in CreateJob : j = jobs[w]
  BY JobKinds DEF IInv, TypeOK, CommitCreate
<1>2. j.party \in Parties BY DEF CreateJob
<1> DEFINE made == [lead |-> j.party.lead, course |-> j.course, line |-> j.line,
                    time |-> j.time, status |-> "reserved",
                    size |-> PartySize(j.party), holes |-> j.holes]
<1>3. PICK b \in BookingIds :
        /\ ~ Exists(b)
        /\ Seat(b, j.party, {})
        /\ bookings' = [bookings EXCEPT ![b] = made]
        /\ audit' = [audit EXCEPT ![b] = Append(@, <<None, "reserved">>)]
  BY <1>1 DEF CommitCreate
<1>4. /\ made.lead = j.party.lead /\ made.size = PartySize(j.party)
      /\ made \in Booking
  BY <1>2, PartySizeNat, PartiesOK DEF CreateJob, Party, Booking, Statuses
<1> HIDE DEF made
<1>5. bookings'[b] = made /\ \A x \in BookingIds \ {b} : bookings'[x] = bookings[x]
  BY <1>3 DEF IInv, TypeOK
<1>6. Kept /\ Finish(w) BY CommitCreateInv DEF CommitCreate
<1>7. PICK fresh \in SUBSET RowIds : \E first \in fresh :
        /\ Cardinality(fresh) = PartySize(j.party)
        /\ \A r \in fresh :
             /\ ~ IsRow(r)
             /\ IsRow(r)'
             /\ rows'[r].booking = b
             /\ rows'[r].primary <=> r = first
        /\ rows'[first].person = j.party.lead
        /\ \A r \in RowIds \ fresh : rows'[r] = rows[r]
  <2>1. TypeOK /\ Seat(b, j.party, {}) BY <1>3 DEF IInv
  <2> QED BY <1>2, <2>1, SeatRows
<1>8. Participants(b) = {} BY <1>3, NobodyYet DEF SerialInv
<1>9. Participants(b)' = fresh BY <1>7, <1>8 DEF Participants, IsRow
<1>10. \A x \in BookingIds \ {b} : Participants(x)' = Participants(x)
  BY <1>7, <1>8 DEF Participants, IsRow
<1>11. Agrees(b)'
  <2>1. PICK first \in fresh :
          /\ rows'[first].primary
          /\ rows'[first].person = j.party.lead
          /\ \A r \in fresh \ {first} : ~ rows'[r].primary
    BY <1>7
  <2>2. PartySize(j.party) > 0 BY <1>2, PartyNotEmpty
  <2>3. Cardinality(fresh) = PartySize(j.party) BY <1>7
  <2> QED BY <1>4, <1>5, <1>9, <2>1, <2>2, <2>3 DEF Agrees
<1>12. ASSUME NEW x \in BookingIds \ {b}, Exists(x)' PROVE Agrees(x)'
  <2>1. Exists(x) /\ Agrees(x) BY <1>5, <1>12 DEF Exists, SerialInv, AllAgree
  <2>2. \A r \in Participants(x) : rows'[r] = rows[r] BY <1>7 DEF Participants
  <2> QED BY <1>5, <1>10, <2>1, <2>2, StillAgrees
<1>13. AllAgree' BY <1>11, <1>12 DEF AllAgree
<1>14. RowsOfMade'
  <2>1. bookings'[b] # None BY <1>4, <1>5, NoneIsNothing
  <2> QED BY <1>6, <1>7, <2>1, RowsStayOfMade DEF IsRow
<1>15. LogIsAChain'
  <2>1. audit[b] = << >> BY <1>3 DEF IInv, LogOfMade
  <2>2. TypeOK /\ LogIsAChain BY DEF IInv, SerialInv
  <2> QED BY <1>3, <2>1, <2>2, ChainGrows DEF Statuses
<1>16. jobs[w].op # "idle" BY <1>1 DEF CreateJob
<1> QED BY <1>6, <1>13, <1>14, <1>15, <1>16, CommitSerial

\* An edit replaces the party that was there by the new one.
LEMMA UpdateSerial ==
  ASSUME IInv, SerialInv, OneAtATime, NEW w \in Workers, CommitUpdate(w)
  PROVE  SerialInv'
<1>1. PICK j \in UpdateJob : j = jobs[w]
  BY JobKinds DEF IInv, TypeOK, CommitUpdate
<1>2. PICK b \in BookingIds : b = j.id BY DEF UpdateJob
<1>3. /\ j.party \in Parties /\ j.op = "update"
      /\ j.loaded \subseteq RowIds /\ \A r \in j.loaded : IsRow(r)
      /\ Exists(b)
  BY <1>1, <1>2 DEF UpdateJob, IInv, JobsKnown, JobKnown
<1>4. j.seen = bookings[b] /\ j.loaded = Participants(b)
  BY <1>1, <1>2, <1>3 DEF SerialInv, Fresh
<1>5. bookings[b] \in Booking BY <1>3 DEF IInv, TypeOK, Exists
<1>6. /\ Seat(b, j.party, j.loaded)
      /\ bookings' = [bookings EXCEPT ![b] = UpdatedRow(j)]
  BY <1>1, <1>2 DEF CommitUpdate
<1>7. UpdatedRow(j).size = PartySize(j.party) /\ UpdatedRow(j).lead = j.party.lead
  BY <1>2, <1>4, <1>5 DEF UpdatedRow, Written, Booking
<1>8. /\ bookings'[b] = UpdatedRow(j)
      /\ \A x \in BookingIds \ {b} : bookings'[x] = bookings[x]
  BY <1>6 DEF IInv, TypeOK
<1>9. Kept /\ Finish(w) /\ audit' = audit BY CommitUpdateInv DEF CommitUpdate
<1>10. PICK fresh \in SUBSET RowIds : \E first \in fresh :
         /\ Cardinality(fresh) = PartySize(j.party)
         /\ \A r \in fresh :
              /\ ~ IsRow(r)
              /\ IsRow(r)'
              /\ rows'[r].booking = b
              /\ rows'[r].primary <=> r = first
         /\ rows'[first].person = j.party.lead
         /\ \A r \in j.loaded : IsRow(r)' /\ rows'[r].booking = None
         /\ \A r \in RowIds \ (fresh \union j.loaded) : rows'[r] = rows[r]
  <2>1. TypeOK BY DEF IInv
  <2> QED BY <1>3, <1>6, <2>1, SeatRows
<1>11. Participants(b)' = fresh
  BY <1>4, <1>10, NoneIsNothing DEF Participants, IsRow
<1>12. \A x \in BookingIds \ {b} : Participants(x)' = Participants(x)
  BY <1>4, <1>10, NoneIsNothing DEF Participants, IsRow
<1>13. Agrees(b)'
  <2>1. PICK first \in fresh :
          /\ rows'[first].primary
          /\ rows'[first].person = j.party.lead
          /\ \A r \in fresh \ {first} : ~ rows'[r].primary
    BY <1>10
  <2>2. PartySize(j.party) > 0 BY <1>3, PartyNotEmpty
  <2>3. Cardinality(fresh) = PartySize(j.party) BY <1>10
  <2> QED BY <1>7, <1>8, <1>11, <2>1, <2>2, <2>3 DEF Agrees
<1>14. ASSUME NEW x \in BookingIds \ {b}, Exists(x)' PROVE Agrees(x)'
  <2>1. Exists(x) /\ Agrees(x) BY <1>8, <1>14 DEF Exists, SerialInv, AllAgree
  <2>2. \A r \in Participants(x) : rows'[r] = rows[r]
    BY <1>4, <1>10 DEF Participants
  <2> QED BY <1>8, <1>12, <2>1, <2>2, StillAgrees
<1>15. AllAgree' BY <1>13, <1>14 DEF AllAgree
<1>16. RowsOfMade'
  <2>1. bookings'[b] # None BY <1>3, <1>9 DEF Kept, Exists
  <2> QED BY <1>9, <1>10, <2>1, RowsStayOfMade DEF IsRow
<1>17. LogIsAChain' BY <1>9 DEF SerialInv, LogIsAChain
<1>18. jobs[w].op # "idle" BY <1>1, <1>3
<1> QED BY <1>9, <1>15, <1>16, <1>17, <1>18, CommitSerial

\* A move of the party, and a change of status, touch neither size, lead nor players.
LEMMA BookingOnlySerial ==
  ASSUME IInv, SerialInv, NEW b \in BookingIds, Exists(b), Kept, rows' = rows,
         \A x \in BookingIds \ {b} : bookings'[x] = bookings[x],
         bookings'[b].size = bookings[b].size, bookings'[b].lead = bookings[b].lead
  PROVE  AllAgree' /\ RowsOfMade'
<1>1. RowsOfMade' BY RowsStayOfMade DEF IsRow
<1>2. ASSUME NEW x \in BookingIds, Exists(x)' PROVE Agrees(x)'
  <2>1. Exists(x) /\ Agrees(x) BY <1>2 DEF Exists, SerialInv, AllAgree
  <2>2. Participants(x)' = Participants(x) BY DEF Participants, IsRow
  <2>3. bookings'[x].size = bookings[x].size /\ bookings'[x].lead = bookings[x].lead
    OBVIOUS
  <2> QED BY <2>1, <2>2, <2>3, StillAgrees
<1> QED BY <1>1, <1>2 DEF AllAgree

LEMMA MoveSerial ==
  ASSUME IInv, SerialInv, OneAtATime, NEW w \in Workers, CommitMove(w)
  PROVE  SerialInv'
<1>1. PICK j \in MoveJob : j = jobs[w]
  BY JobKinds DEF IInv, TypeOK, CommitMove
<1>2. PICK b \in BookingIds : b = j.id BY DEF MoveJob
<1>3. j.op = "move" /\ Exists(b)
  BY <1>1, <1>2 DEF MoveJob, IInv, JobsKnown, JobKnown
<1>4. bookings[b] \in Booking BY <1>3 DEF IInv, TypeOK, Exists
<1>5. /\ bookings'[b] = MovedRow(j)
      /\ \A x \in BookingIds \ {b} : bookings'[x] = bookings[x]
  BY <1>1, <1>2 DEF CommitMove, IInv, TypeOK
<1>6. MovedRow(j).size = bookings[b].size /\ MovedRow(j).lead = bookings[b].lead
  BY <1>2, <1>4 DEF MovedRow, Booking
<1>7. Kept /\ Finish(w) /\ audit' = audit /\ rows' = rows
  BY CommitMoveInv DEF CommitMove
<1>8. AllAgree' /\ RowsOfMade' BY <1>3, <1>5, <1>6, <1>7, BookingOnlySerial
<1>9. LogIsAChain' BY <1>7 DEF SerialInv, LogIsAChain
<1>10. jobs[w].op # "idle" BY <1>1, <1>3
<1> QED BY <1>7, <1>8, <1>9, <1>10, CommitSerial

\* The entry a transition adds starts at the status it read, which is still the one
\* the log ends in.
LEMMA TransitionSerial ==
  ASSUME IInv, SerialInv, OneAtATime, NEW w \in Workers, CommitTransition(w)
  PROVE  SerialInv'
<1>1. PICK j \in TransitionJob : j = jobs[w]
  BY JobKinds DEF IInv, TypeOK, CommitTransition
<1>2. PICK b \in BookingIds : b = j.id BY DEF TransitionJob
<1>3. j.op = "transition" /\ Exists(b) /\ j.from \in Statuses /\ j.to \in Statuses
  BY <1>1, <1>2 DEF TransitionJob, IInv, JobsKnown, JobKnown
<1>4. bookings[b] \in Booking BY <1>3 DEF IInv, TypeOK, Exists
<1>5. bookings[b].status = j.from BY <1>1, <1>2, <1>3 DEF SerialInv, Fresh
<1>6. /\ bookings'[b] = [bookings[b] EXCEPT !.status = j.to]
      /\ \A x \in BookingIds \ {b} : bookings'[x] = bookings[x]
      /\ audit' = [audit EXCEPT ![b] = Append(@, <<j.from, j.to>>)]
  BY <1>1, <1>2 DEF CommitTransition, Logged, IInv, TypeOK
<1>7. bookings'[b].size = bookings[b].size /\ bookings'[b].lead = bookings[b].lead
  BY <1>4, <1>6 DEF Booking
<1>8. Kept /\ Finish(w) /\ rows' = rows BY CommitTransitionInv DEF CommitTransition
<1>9. AllAgree' /\ RowsOfMade' BY <1>3, <1>6, <1>7, <1>8, BookingOnlySerial
<1>10. LogIsAChain'
  <2>1. audit[b] = << >> \/ audit[b][Len(audit[b])][2] = j.from
    BY <1>3, <1>5 DEF IInv, LogEndsInStatus
  <2>2. TypeOK /\ LogIsAChain BY DEF IInv, SerialInv
  <2> QED BY <1>3, <1>6, <2>1, <2>2, ChainGrows
<1>11. jobs[w].op # "idle" BY <1>1, <1>3
<1> QED BY <1>8, <1>9, <1>10, <1>11, CommitSerial

\* What a split makes of the two bookings and of the rows, when nothing has changed
\* since it read them.
Splitting(b, player, made, new, first) ==
  /\ ~ Exists(new)
  /\ bookings'[new] = made
  /\ bookings'[b] = [bookings[b] EXCEPT !.size = Cardinality(Participants(b) \ {player}),
                                        !.lead = rows[first].person]
  /\ \A x \in BookingIds \ {new, b} : bookings'[x] = bookings[x]
  /\ rows'[player] # None /\ rows'[player].booking = new
  /\ rows'[player].primary /\ rows'[player].person = rows[player].person
  /\ \A r \in Participants(b) \ {player} :
       /\ rows'[r] # None /\ rows'[r].booking = b
       /\ rows'[r].person = rows[r].person
       /\ rows'[r].primary <=> r = first
  /\ \A r \in RowIds \ Participants(b) : rows'[r] = rows[r]

LEMMA SplitRows ==
  ASSUME IInv, SerialInv, NEW w \in Workers, CommitSplit(w)
  PROVE  LET j == jobs[w] IN
         /\ j \in SplitJob
         /\ j.op = "split" /\ j.id \in BookingIds /\ Exists(j.id)
         /\ j.loaded = Participants(j.id) /\ j.player \in j.loaded
         /\ j.seen = bookings[j.id] /\ IsLive(j.id)
         /\ \E new \in BookingIds, first \in Participants(j.id) \ {j.player} :
              Splitting(j.id, j.player, SplitBooking(j), new, first)
<1> DEFINE j == jobs[w]
           staying == j.loaded \ {j.player}
<1>0. j \in SplitJob BY JobKinds DEF IInv, TypeOK, CommitSplit
<1>1. /\ j.op = "split" /\ j.id \in BookingIds /\ Exists(j.id)
      /\ j.player \in j.loaded /\ j.loaded \subseteq RowIds
      /\ \A r \in j.loaded : IsRow(r)
  BY <1>0 DEF SplitJob, IInv, JobsKnown, JobKnown
<1>2. /\ j.loaded = Participants(j.id) /\ j.seen = bookings[j.id] /\ IsLive(j.id)
      /\ j.primaries = {r \in j.loaded : rows[r].primary}
  BY <1>1 DEF SerialInv, Fresh
<1>3. PICK new \in BookingIds, first \in staying :
        LET rewritten == (j.primaries \ {j.player, first}) \union ({first} \ j.primaries) IN
        /\ ~ Exists(new)
        /\ rows' = [r \in RowIds |->
             CASE r = j.player -> [rows[r] EXCEPT !.booking = new, !.primary = TRUE]
               [] r \in rewritten -> [rows[r] EXCEPT !.primary = r = first]
               [] OTHER -> rows[r]]
        /\ bookings' = [bookings EXCEPT
             ![new] = SplitBooking(j),
             ![j.id].size = Written(Cardinality(staying), j.seen.size, @),
             ![j.id].lead = Written(rows[first].person, j.seen.lead, @)]
  BY DEF CommitSplit
<1>4. new # j.id BY <1>1, <1>3
<1>5. bookings[j.id] \in Booking BY <1>1 DEF IInv, TypeOK, Exists
<1>6. /\ bookings'[new] = SplitBooking(j)
      /\ bookings'[j.id] = [bookings[j.id] EXCEPT
                              !.size = Written(Cardinality(staying), j.seen.size, @),
                              !.lead = Written(rows[first].person, j.seen.lead, @)]
      /\ \A x \in BookingIds \ {new, j.id} : bookings'[x] = bookings[x]
  BY <1>1, <1>3, <1>4 DEF IInv, TypeOK
<1>7. bookings'[j.id] = [bookings[j.id] EXCEPT !.size = Cardinality(staying),
                                                !.lead = rows[first].person]
  BY <1>2, <1>5, <1>6 DEF Written, Booking
<1>8. \A r \in j.loaded : rows[r] \in Row /\ rows[r].booking = j.id
  BY <1>1, <1>2 DEF IInv, TypeOK, IsRow, Participants
<1>9. /\ rows'[j.player] # None /\ rows'[j.player].booking = new
      /\ rows'[j.player].primary /\ rows'[j.player].person = rows[j.player].person
  <2>1. rows'[j.player] = [rows[j.player] EXCEPT !.booking = new, !.primary = TRUE]
    BY <1>1, <1>3
  <2>2. rows'[j.player] \in Row BY <1>1, <1>8, <2>1 DEF Row
  <2> QED BY <1>1, <1>8, <2>1, <2>2, NoneIsNothing DEF IsRow, Row
<1>10. ASSUME NEW r \in staying
       PROVE  /\ rows'[r] # None /\ rows'[r].booking = j.id /\ rows'[r].person = rows[r].person
              /\ rows'[r].primary <=> r = first
  <2> DEFINE rewritten == (j.primaries \ {j.player, first}) \union ({first} \ j.primaries)
  <2>1. r \in j.loaded /\ r # j.player /\ rows[r] \in Row /\ rows[r].booking = j.id
    BY <1>8
  <2>2. CASE r \in rewritten
    <3>1. PICK flag \in BOOLEAN : flag <=> r = first OBVIOUS
    <3>2. rows'[r] = [rows[r] EXCEPT !.primary = r = first] BY <1>1, <1>3, <2>1, <2>2
    <3>3. rows'[r] = [rows[r] EXCEPT !.primary = flag] BY <3>1, <3>2
    <3>4. /\ rows'[r] \in Row /\ rows'[r].booking = j.id
          /\ rows'[r].person = rows[r].person /\ rows'[r].primary = flag
      BY <2>1, <3>3 DEF Row
    <3>5. rows'[r].primary <=> r = first BY <3>1, <3>4
    <3> QED BY <3>4, <3>5, NoneIsNothing DEF IsRow
  <2>3. CASE r \notin rewritten
    <3>1. rows'[r] = rows[r] BY <1>1, <1>3, <2>1, <2>3
    <3>2. r \in j.primaries <=> r = first BY <2>1, <2>3
    <3>3. r \in j.primaries <=> rows[r].primary BY <1>2, <2>1
    <3> QED BY <2>1, <3>1, <3>2, <3>3, NoneIsNothing DEF IsRow
  <2> QED BY <2>2, <2>3
<1>11. ASSUME NEW r \in RowIds \ j.loaded PROVE rows'[r] = rows[r]
  <2>1. r # j.player /\ r # first /\ r \notin j.primaries BY <1>1, <1>2
  <2> QED BY <1>3, <2>1
<1> HIDE DEF staying
<1>12. /\ ~ Exists(new)
       /\ bookings'[new] = SplitBooking(j)
       /\ \A x \in BookingIds \ {new, j.id} : bookings'[x] = bookings[x]
  BY <1>3, <1>6
<1>13. Splitting(j.id, j.player, SplitBooking(j), new, first)
  BY <1>2, <1>7, <1>9, <1>10, <1>11, <1>12 DEF staying, Splitting, IsRow
<1>14. first \in Participants(j.id) \ {j.player} BY <1>2 DEF staying
<1> QED BY <1>0, <1>1, <1>2, <1>13, <1>14

\* A split leaves two bookings that agree: one with the player, one with the others.
LEMMA SplitSerial ==
  ASSUME IInv, SerialInv, OneAtATime, NEW w \in Workers, CommitSplit(w)
  PROVE  SerialInv'
<1>1. PICK j \in SplitJob : j = jobs[w] BY SplitRows
<1>2. PICK b \in BookingIds : b = j.id BY DEF SplitJob
<1>3. PICK player \in RowIds : player = j.player BY DEF SplitJob
<1> DEFINE staying == Participants(b) \ {player}
<1>4. /\ j.op = "split" /\ Exists(b) /\ j.loaded = Participants(b)
      /\ player \in Participants(b) /\ j.seen = bookings[b]
  BY <1>1, <1>2, <1>3, SplitRows
<1>5. PICK new \in BookingIds, first \in staying :
        Splitting(b, player, SplitBooking(j), new, first)
  BY <1>1, <1>2, <1>3, SplitRows
<1> USE DEF Splitting
<1>6. new # b /\ Participants(b) \subseteq RowIds BY <1>4, <1>5 DEF Participants
<1>7. bookings[b] \in Booking BY <1>4 DEF IInv, TypeOK, Exists
<1>8. /\ bookings'[new].size = 1 /\ bookings'[new].lead = rows[player].person
      /\ bookings'[b].size = Cardinality(staying)
      /\ bookings'[b].lead = rows[first].person
  BY <1>3, <1>4, <1>5, <1>7 DEF SplitBooking, Booking
<1>9. Participants(new) = {} BY <1>5, NobodyYet DEF SerialInv
<1>10. /\ Participants(new)' = {player}
       /\ Participants(b)' = staying
       /\ \A x \in BookingIds \ {new, b} : Participants(x)' = Participants(x)
  <2>1. \A r \in RowIds : r \in Participants(new)' <=> r = player
    BY <1>5, <1>6, <1>9 DEF Participants, IsRow
  <2>2. \A r \in RowIds : r \in Participants(b)' <=> r \in staying
    BY <1>5, <1>6 DEF Participants, IsRow
  <2>3. ASSUME NEW x \in BookingIds \ {new, b}
        PROVE  Participants(x)' = Participants(x)
    <3>1. \A r \in RowIds : r \in Participants(x)' <=> r \in Participants(x)
      BY <1>5, <1>6 DEF Participants, IsRow
    <3> QED BY <3>1 DEF Participants
  <2> QED BY <1>6, <2>1, <2>2, <2>3 DEF Participants
<1>11. Agrees(new)'
  <2>1. Cardinality({player}) = 1 BY FS_Singleton
  <2> QED BY <1>5, <1>8, <1>10, <2>1 DEF Agrees
<1>12. Agrees(b)'
  <2>1. staying \subseteq RowIds /\ first \in staying BY <1>6
  <2>2. Cardinality(staying) \in Nat /\ IsFiniteSet(staying) BY <2>1, RowSetFinite
  <2>3. Cardinality(staying) # 0 BY <2>1, <2>2, FS_EmptySet
  <2>4. Cardinality(staying) > 0 BY <2>2, <2>3
  <2>5. /\ rows'[first].primary /\ rows'[first].person = rows[first].person
        /\ \A x \in staying \ {first} : ~ rows'[x].primary
    BY <1>5, <2>1
  <2> HIDE DEF staying
  <2> QED BY <1>8, <1>10, <2>1, <2>4, <2>5 DEF Agrees
<1>13. ASSUME NEW x \in BookingIds \ {new, b}, Exists(x)' PROVE Agrees(x)'
  <2>1. Exists(x) /\ Agrees(x) BY <1>5, <1>13 DEF Exists, SerialInv, AllAgree
  <2>2. \A r \in Participants(x) : rows'[r] = rows[r] BY <1>5 DEF Participants
  <2>3. bookings'[x] = bookings[x] /\ Participants(x)' = Participants(x)
    BY <1>5, <1>10
  <2> QED BY <2>1, <2>2, <2>3, StillAgrees
<1>14. AllAgree' BY <1>11, <1>12, <1>13 DEF AllAgree
<1>15. Kept /\ IInv' /\ Finish(w) /\ audit' = audit BY CommitSplitInv DEF CommitSplit
<1>16. RowsOfMade'
  <2>1. bookings'[b] # None BY <1>4, <1>15 DEF Kept, Exists
  <2>2. bookings'[new] # None
    <3>1. rows[player] \in Row BY <1>4 DEF IInv, TypeOK, Participants, IsRow
    <3>2. SplitBooking(j) \in Booking
      BY <1>3, <1>4, <1>7, <3>1 DEF SplitBooking, SplitJob, Booking, Row
    <3> QED BY <1>5, <3>2, NoneIsNothing
  <2> QED BY <1>5, <1>15, <2>1, <2>2, RowsStayOfMade DEF IsRow
<1>17. LogIsAChain' BY <1>15 DEF SerialInv, LogIsAChain
<1>18. jobs[w].op # "idle" BY <1>1, <1>4
<1> QED BY <1>14, <1>15, <1>16, <1>17, <1>18, CommitSerial

LEMMA NextSerial == IInv /\ SerialInv /\ OneAtATime /\ [Next]_vars => SerialInv'
<1> SUFFICES ASSUME IInv, SerialInv, OneAtATime, [Next]_vars PROVE SerialInv' OBVIOUS
<1>1. CASE UNCHANGED vars
  BY <1>1 DEF vars, SerialInv, RowsOfMade, AllAgree, Agrees, LogIsAChain, Fresh,
              Exists, IsLive, IsRow, Participants
<1> QED BY <1>1, BeginSerial, CheckSerial, AbandonSerial, CreateSerial, UpdateSerial,
           MoveSerial, SplitSerial, TransitionSerial DEF Next

LEMMA InitSerial == Init => SerialInv
BY DEF Init, SerialInv, RowsOfMade, AllAgree, LogIsAChain, Fresh, Idle, Exists, IsRow

\* When requests do not overlap, what a request has loaded is what is committed, and
\* every booking has the size, the lead and the history that its rows and log say.
THEOREM SerialInvariance == Spec /\ []OneAtATime => []SerialInv
BY InitSerial, NextSerial, Invariance, PTL DEF Spec

\* When requests do not overlap, party_size is the number of participant rows, one of
\* them is primary and gives the booking its lead, and the log of statuses has no
\* gaps, through every edit, move and split.
THEOREM SerialConsistent == Spec /\ []OneAtATime => []BookingsConsistent
<1>1. SerialInv => BookingsConsistent BY AgreementIsConsistency DEF SerialInv
<1> QED BY <1>1, SerialInvariance, PTL

-------------------------------------------------------------------------------
(* The statuses follow the lifecycle.                                      *)

StatusIn(b) == IF Exists(b) THEN bookings[b].status ELSE None

LEMMA StatusKept ==
  ASSUME \A b \in BookingIds : StatusIn(b)' = StatusIn(b)
  PROVE  StatusOf' = StatusOf
BY DEF StatusOf, StatusIn

\* One booking changes its status, or is made with one.
LEMMA StatusSet ==
  ASSUME NEW b \in BookingIds, NEW s, StatusIn(b)' = s,
         \A x \in BookingIds \ {b} : StatusIn(x)' = StatusIn(x)
  PROVE  Lifecycle!Set(b, s)
<1>1. StatusOf = [x \in BookingIds |-> StatusIn(x)] BY DEF StatusOf, StatusIn
<1>2. StatusOf' = [x \in BookingIds |-> StatusIn(x)'] BY DEF StatusOf, StatusIn
<1> QED BY <1>1, <1>2 DEF Lifecycle!Set

LEMMA StatusChanged ==
  ASSUME NEW b \in BookingIds, NEW s,
         \A x \in BookingIds \ {b} : bookings'[x] = bookings[x],
         bookings'[b] # None, bookings'[b].status = s
  PROVE  Lifecycle!Set(b, s)
<1>1. StatusIn(b)' = s BY DEF StatusIn, Exists
<1>2. \A x \in BookingIds \ {b} : StatusIn(x)' = StatusIn(x) BY DEF StatusIn, Exists
<1> QED BY <1>1, <1>2, StatusSet

\* A request that does not change a status takes no step of the lifecycle.
LEMMA OthersStutter ==
  ASSUME IInv, NEW w \in Workers,
         \/ BeginCreate(w) \/ BeginUpdate(w) \/ BeginMove(w)
         \/ BeginSplit(w) \/ BeginTransition(w)
         \/ CheckSlot(w) \/ CheckLimits(w) \/ Abandon(w)
         \/ CommitUpdate(w) \/ CommitMove(w)
  PROVE  StatusOf' = StatusOf
<1>1. CASE bookings' = bookings BY <1>1, StatusKept DEF StatusIn, Exists
<1>2. CASE CommitUpdate(w) \/ CommitMove(w)
  <2>1. PICK j \in UpdateJob \union MoveJob : j = jobs[w]
    BY <1>2, JobKinds DEF IInv, TypeOK, CommitUpdate, CommitMove
  <2>2. PICK b \in BookingIds : b = j.id BY <2>1 DEF UpdateJob, MoveJob
  <2>3. Exists(b) BY <2>1, <2>2 DEF IInv, JobsKnown, JobKnown, UpdateJob, MoveJob
  <2>4. bookings[b] \in Booking BY <2>3 DEF IInv, TypeOK, Exists
  <2>5. /\ UpdatedRow(j).status = bookings[b].status
        /\ MovedRow(j).status = bookings[b].status
    BY <2>2, <2>4 DEF UpdatedRow, MovedRow, Booking
  <2>6. /\ bookings'[b].status = bookings[b].status
        /\ \A x \in BookingIds \ {b} : bookings'[x] = bookings[x]
    BY <1>2, <2>1, <2>2, <2>5 DEF CommitUpdate, CommitMove, IInv, TypeOK
  <2>7. Exists(b)' BY <1>2, <2>3, CommitUpdateInv, CommitMoveInv DEF Kept
  <2> QED BY <2>3, <2>6, <2>7, StatusKept DEF StatusIn, Exists
<1> QED BY <1>1, <1>2 DEF BeginCreate, BeginUpdate, BeginMove, BeginSplit,
           BeginTransition, CheckSlot, CheckLimits, Abandon, Start, Advance

\* A booking is made reserved, and a copy reserved or checked in.
LEMMA CreateMakes ==
  ASSUME IInv, NEW w \in Workers, CommitCreate(w)
  PROVE  Lifecycle!LifecycleNext
<1>1. PICK j \in CreateJob : j = jobs[w]
  BY JobKinds DEF IInv, TypeOK, CommitCreate
<1>2. j.party \in Parties BY DEF CreateJob
<1> DEFINE made == [lead |-> j.party.lead, course |-> j.course, line |-> j.line,
                    time |-> j.time, status |-> "reserved",
                    size |-> PartySize(j.party), holes |-> j.holes]
<1>3. PICK b \in BookingIds : ~ Exists(b) /\ bookings' = [bookings EXCEPT ![b] = made]
  BY <1>1 DEF CommitCreate
<1>4. made \in Booking /\ made.status = "reserved"
  BY <1>2, PartySizeNat, PartiesOK DEF CreateJob, Party, Booking, Statuses
<1> HIDE DEF made
<1>5. bookings'[b] = made /\ \A x \in BookingIds \ {b} : bookings'[x] = bookings[x]
  BY <1>3 DEF IInv, TypeOK
<1>6. Lifecycle!Set(b, "reserved") BY <1>4, <1>5, StatusChanged, NoneIsNothing
<1>7. ~ Lifecycle!Made(b) BY <1>3 DEF Lifecycle!Made, StatusOf
<1> QED BY <1>6, <1>7 DEF Lifecycle!LifecycleNext, Lifecycle!Make

LEMMA SplitMakes ==
  ASSUME IInv, SerialInv, NEW w \in Workers, CommitSplit(w)
  PROVE  Lifecycle!LifecycleNext
<1>1. PICK j \in SplitJob : j = jobs[w] BY SplitRows
<1>2. PICK b \in BookingIds : b = j.id BY DEF SplitJob
<1>3. j.seen = bookings[b] /\ IsLive(b) BY <1>1, <1>2, SplitRows
<1>4. PICK player \in RowIds : player = j.player BY DEF SplitJob
<1>5. PICK new \in BookingIds, first \in Participants(b) \ {player} :
        Splitting(b, player, SplitBooking(j), new, first)
  BY <1>1, <1>2, <1>4, SplitRows
<1>6. bookings[b] \in Booking BY <1>3 DEF IInv, TypeOK, IsLive, Exists
<1>7. new # b BY <1>3, <1>5 DEF Splitting, IsLive
<1>8. bookings'[new].status = bookings[b].status
  BY <1>3, <1>5, <1>6 DEF Splitting, SplitBooking, Booking
<1>9. bookings'[b].status = bookings[b].status BY <1>5, <1>6 DEF Splitting, Booking
<1>10. Exists(b)' /\ Exists(b) BY <1>3, CommitSplitInv DEF IsLive, Kept
<1>11. bookings'[new] # None
  <2>1. player \in Participants(b) BY <1>1, <1>2, <1>4, SplitRows
  <2>2. rows[player] \in Row BY <2>1 DEF IInv, TypeOK, Participants, IsRow
  <2>3. SplitBooking(j) \in Booking
    BY <1>3, <1>4, <1>6, <2>2 DEF SplitBooking, SplitJob, Booking, Row
  <2> QED BY <1>5, <2>3, NoneIsNothing DEF Splitting
<1>12. \A x \in BookingIds \ {new} : StatusIn(x)' = StatusIn(x)
  BY <1>5, <1>9, <1>10 DEF Splitting, StatusIn, Exists
<1>13. StatusIn(new)' = bookings[b].status BY <1>8, <1>11 DEF StatusIn, Exists
<1>14. Lifecycle!Set(new, bookings[b].status)
  BY <1>12, <1>13, StatusSet
<1>15. ~ Lifecycle!Made(new) BY <1>5 DEF Splitting, Lifecycle!Made, StatusOf
<1>16. bookings[b].status \in {"reserved", "checked_in"} BY <1>3 DEF IsLive, LiveStatuses
<1> QED BY <1>14, <1>15, <1>16 DEF Lifecycle!LifecycleNext, Lifecycle!Make

\* A transition starts in the status it read, which nobody has changed since.
LEMMA TransitionFollows ==
  ASSUME IInv, SerialInv, NEW w \in Workers, CommitTransition(w)
  PROVE  Lifecycle!LifecycleNext
<1>1. PICK j \in TransitionJob : j = jobs[w]
  BY JobKinds DEF IInv, TypeOK, CommitTransition
<1>2. PICK b \in BookingIds : b = j.id BY DEF TransitionJob
<1>3. j.op = "transition" /\ Exists(b) /\ j.to \in Statuses \ {"reserved"}
  BY <1>1, <1>2 DEF TransitionJob, IInv, JobsKnown, JobKnown
<1>4. bookings[b].status = From(j.to)
  BY <1>1, <1>2, <1>3 DEF SerialInv, Fresh
<1>5. bookings[b] \in Booking BY <1>3 DEF IInv, TypeOK, Exists
<1>6. /\ bookings'[b] = [bookings[b] EXCEPT !.status = j.to]
      /\ \A x \in BookingIds \ {b} : bookings'[x] = bookings[x]
  BY <1>1, <1>2 DEF CommitTransition, IInv, TypeOK
<1>7. bookings'[b].status = j.to BY <1>5, <1>6 DEF Booking
<1>8. bookings'[b] # None BY <1>3, CommitTransitionInv DEF Kept, Exists
<1>9. Lifecycle!Set(b, j.to) BY <1>6, <1>7, <1>8, StatusChanged
<1>10. StatusOf[b] = From(j.to) BY <1>3, <1>4 DEF StatusOf
<1>11. j.to \in {"checked_in", "completed", "cancelled", "no_show"}
  BY <1>3 DEF Statuses
<1> QED BY <1>9, <1>10, <1>11 DEF From, Lifecycle!LifecycleNext, Lifecycle!CheckIn,
           Lifecycle!Cancel, Lifecycle!MarkNoShow, Lifecycle!Complete

\* The tee sheet implements the lifecycle the services promise: a booking is checked
\* in, cancelled or a no-show only from reserved, completed only once checked in.
THEOREM SerialLifecycle == Spec /\ []OneAtATime => FollowsLifecycle
<1>1. Init => Lifecycle!LifecycleInit
  BY DEF Init, Lifecycle!LifecycleInit, StatusOf, Exists
<1>2. IInv /\ SerialInv /\ [Next]_vars => [Lifecycle!LifecycleNext]_StatusOf
  <2> SUFFICES ASSUME IInv, SerialInv, [Next]_vars
               PROVE  [Lifecycle!LifecycleNext]_StatusOf
    OBVIOUS
  <2>1. CASE UNCHANGED vars BY <2>1 DEF vars, StatusOf, Exists
  <2>2. CASE Next
    BY <2>2, OthersStutter, CreateMakes, SplitMakes, TransitionFollows DEF Next
  <2> QED BY <2>1, <2>2
<1> QED BY <1>1, <1>2, SerialInvariance, Invariance, PTL
        DEF Spec, FollowsLifecycle, Lifecycle!LifecycleSpec

-------------------------------------------------------------------------------
(* What the checks of a request have found is so when it commits.          *)

Checked(j) ==
  /\ j.op = "create" /\ j.stage # "slot" =>
       RoomFor(j.party, j.course, j.line, j.time, {})
  /\ j.op = "create" /\ j.stage = "commit" => WithinLimits(j.party, j.time, None)
  /\ j.op = "update" /\ j.stage # "slot" =>
       RoomFor(j.party, j.seen.course, j.seen.line, j.seen.time, {j.id})
  /\ j.op = "move" /\ j.stage = "commit" =>
       RoomToMove(j.seen.size, j.seen.course, j.line, j.time, {j.id})
  /\ j.op = "split" /\ j.stage = "commit" =>
       RoomToMove(1, j.seen.course, j.line, j.time, {j.id})

AllChecked == \A w \in Workers : \A j \in Job : jobs[w] = j => Checked(j)

\* The checks read nothing but the two tables.
LEMMA ChecksRead ==
  ASSUME bookings' = bookings, rows' = rows
  PROVE  \A j \in Job : Checked(j) => Checked(j)'
<1>1. \A party, course, line, time, excluded :
        RoomFor(party, course, line, time, excluded)'
          <=> RoomFor(party, course, line, time, excluded)
  BY DEF RoomFor, SlotCapacity, SlotOpen, PartySize, PlayersIn, LiveAt, IsLive, Exists, IsRow
<1>2. \A size, course, line, time, excluded :
        RoomToMove(size, course, line, time, excluded)'
          <=> RoomToMove(size, course, line, time, excluded)
  BY DEF RoomToMove, SlotCapacity, SlotOpen, LiveAt, IsLive, Exists,
         SizesOf, MapThenSumSet, MapThenFoldSet
<1>3. \A party, time, excluded :
        WithinLimits(party, time, excluded)' <=> WithinLimits(party, time, excluded)
  BY DEF WithinLimits, BookingsOnDay, BookingsOf, Participants, IsLive, Exists, IsRow
<1> QED BY <1>1, <1>2, <1>3 DEF Checked

LEMMA ReadChecked ==
  ASSUME IInv, AllChecked, NEW w \in Workers, NEW job, Checked(job),
         jobs' = [jobs EXCEPT ![w] = job], UNCHANGED <<bookings, rows, audit>>
  PROVE  AllChecked'
<1> SUFFICES ASSUME NEW v \in Workers, NEW j \in Job, jobs'[v] = j
             PROVE  Checked(j)'
  BY DEF AllChecked
<1>1. Checked(j) BY DEF IInv, TypeOK, AllChecked
<1> QED BY <1>1, ChecksRead

LEMMA BeginChecked ==
  ASSUME IInv, AllChecked, NEW w \in Workers,
         \/ BeginCreate(w) \/ BeginUpdate(w) \/ BeginMove(w)
         \/ BeginSplit(w) \/ BeginTransition(w) \/ Abandon(w)
  PROVE  AllChecked'
<1>1. ASSUME NEW job, Checked(job), Start(w, job) PROVE AllChecked'
  BY <1>1, ReadChecked DEF Start
<1>2. CASE BeginCreate(w)
  <2>1. PICK job : Start(w, job) /\ job.op = "create" /\ job.stage = "slot"
    BY <1>2 DEF BeginCreate
  <2> QED BY <1>1, <2>1 DEF Checked
<1>3. CASE BeginUpdate(w)
  <2>1. PICK job : Start(w, job) /\ job.op = "update" /\ job.stage = "slot"
    BY <1>3 DEF BeginUpdate
  <2> QED BY <1>1, <2>1 DEF Checked
<1>4. CASE BeginMove(w)
  <2>1. PICK job : Start(w, job) /\ job.op = "move" /\ job.stage = "slot"
    BY <1>4 DEF BeginMove
  <2> QED BY <1>1, <2>1 DEF Checked
<1>5. CASE BeginSplit(w)
  <2>1. PICK job : Start(w, job) /\ job.op = "split" /\ job.stage = "slot"
    BY <1>5 DEF BeginSplit
  <2> QED BY <1>1, <2>1 DEF Checked
<1>6. CASE BeginTransition(w)
  <2>1. PICK job : Start(w, job) /\ job.op = "transition" BY <1>6 DEF BeginTransition
  <2> QED BY <1>1, <2>1 DEF Checked
<1>7. CASE Abandon(w)
  <2>1. Checked(Idle) BY DEF Checked, Idle
  <2> QED BY <1>7, <2>1, ReadChecked DEF Abandon, Finish
<1> QED BY <1>2, <1>3, <1>4, <1>5, <1>6, <1>7

\* A request goes on when a check has passed.
LEMMA CheckChecked ==
  ASSUME IInv, AllChecked, NEW w \in Workers, CheckSlot(w) \/ CheckLimits(w)
  PROVE  AllChecked'
<1>1. PICK j \in Job : j = jobs[w] BY DEF IInv, TypeOK
<1>2. Checked(j) BY <1>1 DEF AllChecked
<1>3. ASSUME NEW stage, Advance(w, stage), Checked([j EXCEPT !.stage = stage])
      PROVE  AllChecked'
  <2>1. jobs' = [jobs EXCEPT ![w] = [j EXCEPT !.stage = stage]]
    BY <1>1, <1>3 DEF Advance, IInv, TypeOK
  <2> QED BY <1>3, <2>1, ReadChecked DEF Advance
<1>4. CASE j.op = "create"
  <2>1. j \in CreateJob BY <1>4, JobKinds
  <2>2. \/ /\ Advance(w, "limits")
           /\ RoomFor(j.party, j.course, j.line, j.time, {})
        \/ /\ Advance(w, "commit") /\ j.stage = "limits"
           /\ WithinLimits(j.party, j.time, None)
    BY <1>1, <1>4 DEF CheckSlot, CheckLimits
  <2>3. CASE Advance(w, "limits") /\ RoomFor(j.party, j.course, j.line, j.time, {})
    <3>1. Checked([j EXCEPT !.stage = "limits"]) BY <1>4, <2>1, <2>3 DEF Checked, CreateJob
    <3> QED BY <1>3, <2>3, <3>1
  <2>4. CASE /\ Advance(w, "commit") /\ j.stage = "limits"
             /\ WithinLimits(j.party, j.time, None)
    <3>1. Checked([j EXCEPT !.stage = "commit"])
      BY <1>2, <1>4, <2>1, <2>4 DEF Checked, CreateJob
    <3> QED BY <1>3, <2>4, <3>1
  <2> QED BY <2>2, <2>3, <2>4
<1>5. CASE j.op = "update"
  <2>1. j \in UpdateJob BY <1>5, JobKinds
  <2>2. \/ /\ Advance(w, "limits")
           /\ RoomFor(j.party, j.seen.course, j.seen.line, j.seen.time, {j.id})
        \/ Advance(w, "commit") /\ j.stage = "limits"
    BY <1>1, <1>5 DEF CheckSlot, CheckLimits
  <2>3. PICK stage \in {"limits", "commit"} :
          /\ Advance(w, stage)
          /\ RoomFor(j.party, j.seen.course, j.seen.line, j.seen.time, {j.id})
    BY <1>2, <1>5, <2>2 DEF Checked
  <2>4. Checked([j EXCEPT !.stage = stage]) BY <1>5, <2>1, <2>3 DEF Checked, UpdateJob
  <2> QED BY <1>3, <2>3, <2>4
<1>6. CASE j.op = "move"
  <2>1. j \in MoveJob BY <1>6, JobKinds
  <2>2. /\ Advance(w, "commit")
        /\ RoomToMove(j.seen.size, j.seen.course, j.line, j.time, {j.id})
    BY <1>1, <1>6 DEF CheckSlot, CheckLimits
  <2>3. Checked([j EXCEPT !.stage = "commit"]) BY <1>6, <2>1, <2>2 DEF Checked, MoveJob
  <2> QED BY <1>3, <2>2, <2>3
<1>7. CASE j.op = "split"
  <2>1. j \in SplitJob BY <1>7, JobKinds
  <2>2. Advance(w, "commit") /\ RoomToMove(1, j.seen.course, j.line, j.time, {j.id})
    BY <1>1, <1>7 DEF CheckSlot, CheckLimits
  <2>3. Checked([j EXCEPT !.stage = "commit"]) BY <1>7, <2>1, <2>2 DEF Checked, SplitJob
  <2> QED BY <1>3, <2>2, <2>3
<1> QED BY <1>1, <1>4, <1>5, <1>6, <1>7 DEF CheckSlot, CheckLimits

\* After a commit no request is in progress.
LEMMA CommitChecked ==
  ASSUME IInv, OneAtATime, NEW w \in Workers,
         \/ CommitCreate(w) \/ CommitUpdate(w) \/ CommitMove(w)
         \/ CommitSplit(w) \/ CommitTransition(w)
  PROVE  AllChecked'
<1>1. jobs[w].op # "idle" /\ Finish(w)
  BY DEF CommitCreate, CommitUpdate, CommitMove, CommitSplit, CommitTransition
<1>2. jobs[w] # Idle BY <1>1, NotIdle
<1>3. \A v \in Workers : jobs'[v] = Idle BY <1>1, <1>2, AllIdleAfter DEF IInv
<1> QED BY <1>3 DEF AllChecked, Checked, Idle

LEMMA NextChecked == IInv /\ AllChecked /\ OneAtATime /\ [Next]_vars => AllChecked'
<1> SUFFICES ASSUME IInv, AllChecked, OneAtATime, [Next]_vars PROVE AllChecked' OBVIOUS
<1>1. CASE UNCHANGED vars
  <2> SUFFICES ASSUME NEW v \in Workers, NEW j \in Job, jobs'[v] = j PROVE Checked(j)'
    BY DEF AllChecked
  <2>1. Checked(j) BY <1>1 DEF AllChecked, vars
  <2> QED BY <1>1, <2>1, ChecksRead DEF vars
<1> QED BY <1>1, BeginChecked, CheckChecked, CommitChecked DEF Next

\* When requests do not overlap, what a create, an update, a move or a split was
\* allowed on still holds when it commits.
THEOREM SerialChecks == Spec /\ []OneAtATime => []AllChecked
<1>1. Init => AllChecked BY DEF Init, AllChecked, Checked, Idle
<1> QED BY <1>1, NextChecked, Invariance, PTL DEF Spec

-------------------------------------------------------------------------------
(* The daily limit.                                                        *)

\* Bookings with players are no more than the participant rows.
LEMMA FewBookings ==
  ASSUME NEW S \in SUBSET BookingIds, \A b \in S : Participants(b) # {}
  PROVE  IsFiniteSet(S) /\ Cardinality(S) \in Nat
<1> DEFINE R == {r \in RowIds : IsRow(r) /\ rows[r].booking \in S}
           of == [r \in R |-> rows[r].booking]
<1>1. IsFiniteSet(R) BY RowSetFinite
<1>2. of \in [R -> S] OBVIOUS
<1>3. \A b \in S : \E r \in R : of[r] = b BY DEF Participants
<1>4. of \in Surjection(R, S) BY <1>2, <1>3 DEF Surjection
<1> HIDE DEF of, R
<1>5. IsFiniteSet(S) BY <1>1, <1>4, FS_Surjection
<1> QED BY <1>5, FS_CardinalityType

\* A booking that is made has its primary person in one booking more, at most.
LEMMA CreateLimited ==
  ASSUME IInv, SerialInv, AllChecked, NEW w \in Workers, CommitCreate(w),
         NEW b \in BookingIds, ~ Exists(b), audit'[b] # << >>, bookings'[b].lead # Guest
  PROVE  Cardinality(BookingsOnDay(bookings[b].lead, None, DayOf[bookings[b].time]))'
           <= DayLimit
<1>1. PICK j \in CreateJob : j = jobs[w]
  BY JobKinds DEF IInv, TypeOK, CommitCreate
<1>2. j.party \in Parties BY DEF CreateJob
<1> DEFINE made == [lead |-> j.party.lead, course |-> j.course, line |-> j.line,
                    time |-> j.time, status |-> "reserved",
                    size |-> PartySize(j.party), holes |-> j.holes]
<1>3. PICK new \in BookingIds :
        /\ ~ Exists(new)
        /\ Seat(new, j.party, {})
        /\ bookings' = [bookings EXCEPT ![new] = made]
        /\ audit' = [audit EXCEPT ![new] = Append(@, <<None, "reserved">>)]
  BY <1>1 DEF CommitCreate
<1>4. made.lead = j.party.lead /\ made.time = j.time OBVIOUS
<1> HIDE DEF made
<1>5. new = b
  <2>1. audit[b] = << >> BY DEF IInv, LogOfMade
  <2>2. new # b => audit'[b] = audit[b] BY <1>3 DEF IInv, TypeOK
  <2> QED BY <2>1, <2>2
<1>6. bookings'[b] = made /\ \A x \in BookingIds \ {b} : bookings'[x] = bookings[x]
  BY <1>3, <1>5 DEF IInv, TypeOK
<1>7. j.party.lead # Guest BY <1>4, <1>6
<1>8. WithinLimits(j.party, j.time, None)
  <2>1. Checked(j) /\ j.op = "create" BY <1>1 DEF AllChecked, Job, CreateJob
  <2>2. j.stage = "commit" BY <1>1 DEF CommitCreate
  <2> QED BY <2>1, <2>2 DEF Checked
<1> DEFINE before == BookingsOnDay(j.party.lead, None, DayOf[j.time])
           after == BookingsOnDay(bookings[b].lead, None, DayOf[bookings[b].time])'
<1>9. Cardinality(before) < DayLimit BY <1>7, <1>8 DEF WithinLimits
<1>10. PICK fresh \in SUBSET RowIds :
         /\ \A r \in fresh : ~ IsRow(r) /\ IsRow(r)' /\ rows'[r].booking = b
         /\ \A r \in RowIds \ fresh : rows'[r] = rows[r]
  <2>1. TypeOK /\ Seat(b, j.party, {}) BY <1>3, <1>5 DEF IInv
  <2> QED BY <1>2, <2>1, SeatRows
<1>11. after \subseteq before \union {b}
  <2> SUFFICES ASSUME NEW x \in after, x # b PROVE x \in before OBVIOUS
  <2>1. /\ x \in BookingIds \ {None} /\ IsLive(x)'
        /\ DayOf[bookings'[x].time] = DayOf[j.time]
        /\ \E r \in RowIds : /\ IsRow(r)' /\ rows'[r].booking = x
                             /\ rows'[r].person = j.party.lead
    BY <1>4, <1>6 DEF BookingsOnDay, BookingsOf, Participants
  <2>2. PICK r \in RowIds : /\ IsRow(r)' /\ rows'[r].booking = x
                            /\ rows'[r].person = j.party.lead
    BY <2>1
  <2>3. r \notin fresh /\ rows'[r] = rows[r] BY <1>10, <2>2
  <2>4. bookings'[x] = bookings[x] BY <1>6, <2>1
  <2> QED BY <2>1, <2>2, <2>3, <2>4
          DEF BookingsOnDay, BookingsOf, Participants, IsLive, Exists, IsRow
<1>12. IsFiniteSet(before) /\ Cardinality(before) \in Nat
  <2>1. before \subseteq BookingIds BY DEF BookingsOnDay, BookingsOf
  <2>2. \A x \in before : Participants(x) # {} BY DEF BookingsOnDay, BookingsOf
  <2> HIDE DEF before
  <2> QED BY <2>1, <2>2, FewBookings
<1> HIDE DEF before, after
<1>13. /\ IsFiniteSet(before \union {b})
       /\ Cardinality(before \union {b}) <= Cardinality(before) + 1
  <2>1. /\ IsFiniteSet(before \union {b})
        /\ Cardinality(before \union {b})
             = IF b \in before THEN Cardinality(before) ELSE Cardinality(before) + 1
    BY <1>12, FS_AddElement, Zenon
  <2> QED BY <1>12, <2>1
<1>14. IsFiniteSet(after) /\ Cardinality(after) <= Cardinality(before \union {b})
  BY <1>11, <1>13, FS_Subset
<1>15. Cardinality(after) \in Nat /\ Cardinality(before \union {b}) \in Nat
  BY <1>13, <1>14, FS_CardinalityType
<1>16. Cardinality(after) <= DayLimit
  BY <1>9, <1>12, <1>13, <1>14, <1>15, ConstantsOK
<1> QED BY <1>16 DEF after

\* Whatever step leaves an unmade booking with an entry in its log is a create.
LEMMA OnlyCreateLogs ==
  ASSUME IInv, [Next]_vars, NEW b \in BookingIds, ~ Exists(b), audit'[b] # << >>
  PROVE  \E w \in Workers : CommitCreate(w)
<1>1. audit[b] = << >> BY DEF IInv, LogOfMade
<1>2. audit' # audit BY <1>1
<1>3. PICK w \in Workers : CommitCreate(w) \/ CommitTransition(w)
  BY <1>2, ZenonT(60) DEF Next, vars, BeginCreate, BeginUpdate, BeginMove, BeginSplit, BeginTransition,
              CheckSlot, CheckLimits, Abandon, Start, Advance, CommitUpdate, CommitMove,
              CommitSplit
<1>4. ~ CommitTransition(w)
  <2> SUFFICES ASSUME CommitTransition(w) PROVE FALSE OBVIOUS
  <2>1. PICK j \in TransitionJob : j = jobs[w]
    BY JobKinds DEF IInv, TypeOK, CommitTransition
  <2>2. j.id \in BookingIds /\ Exists(j.id)
    BY <2>1 DEF TransitionJob, IInv, JobsKnown, JobKnown
  <2>3. audit'[b] = audit[b] BY <2>1, <2>2 DEF CommitTransition, IInv, TypeOK
  <2> QED BY <1>1, <2>3
<1> QED BY <1>3, <1>4

\* When requests do not overlap, a create never takes its primary person over the
\* daily limit.
THEOREM SerialWithinLimit == Spec /\ []OneAtATime => CreateWithinLimit
<1>1. IInv /\ SerialInv /\ AllChecked /\ [Next]_vars =>
        \A b \in BookingIds :
          (~ Exists(b) /\ audit'[b] # << >> /\ bookings'[b].lead # Guest) =>
            Cardinality(BookingsOnDay(bookings[b].lead, None, DayOf[bookings[b].time]))'
              <= DayLimit
  BY OnlyCreateLogs, CreateLimited
<1> QED BY <1>1, SerialChecks, SerialInvariance, Invariance, PTL DEF Spec, CreateWithinLimit

-------------------------------------------------------------------------------
(* Counting party sizes and counting rows is the same.                     *)

RowsIn(bs) == {r \in RowIds : IsRow(r) /\ rows[r].booking \in bs}

FirstOf(s) == CHOOSE x \in s : TRUE

\* A function that adds up the sizes of every set of bookings.
AddsUp(f, S) ==
  f = [s \in SUBSET S |->
         IF s = {} THEN 0
         ELSE bookings[FirstOf(s)].size + f[s \ {FirstOf(s)}]]

LEMMA SizesAddUp ==
  ASSUME NEW S
  PROVE  SizesOf(S) = (CHOOSE f : AddsUp(f, S))[S]
BY DEF SizesOf, MapThenSumSet, MapThenFoldSet, AddsUp, FirstOf

\* There is one such function at most.
LEMMA AddsUpOnce ==
  ASSUME NEW S, IsFiniteSet(S), NEW f, NEW g, AddsUp(f, S), AddsUp(g, S)
  PROVE  f[S] = g[S]
<1> DEFINE differ == {s \in SUBSET S : f[s] # g[s]}
<1> SUFFICES ASSUME differ # {} PROVE FALSE OBVIOUS
<1>1. FiniteSubsetsOf(S) = SUBSET S BY FS_FiniteSubsetsOfFinite
<1>2. IsWellFoundedOn(StrictSubsetOrdering(S), SUBSET S)
  BY <1>1, FS_StrictSubsetOrderingWellFounded
<1>3. differ \subseteq SUBSET S OBVIOUS
<1> HIDE DEF differ
<1>4. PICK s \in differ : \A t \in differ : <<t, s>> \notin StrictSubsetOrdering(S)
  BY <1>2, <1>3, WFMin, Zenon
<1> USE DEF differ
<1>5. s \in SUBSET S /\ f[s] # g[s] OBVIOUS
<1>6. CASE s = {} BY <1>5, <1>6 DEF AddsUp
<1>7. CASE s # {}
  <2> DEFINE x == FirstOf(s)
             rest == s \ {x}
  <2>1. x \in s BY <1>7 DEF FirstOf
  <2>2. rest \in SUBSET S /\ rest \subseteq s /\ rest # s BY <1>5, <2>1
  <2>3. <<rest, s>> \in StrictSubsetOrdering(S)
    BY <1>5, <2>2 DEF StrictSubsetOrdering
  <2>4. f[rest] = g[rest] BY <1>4, <2>2, <2>3
  <2>5. f[s] = bookings[x].size + f[rest] BY <1>5, <1>7 DEF AddsUp
  <2>6. g[s] = bookings[x].size + g[rest] BY <1>5, <1>7 DEF AddsUp
  <2> QED BY <1>5, <2>4, <2>5, <2>6
<1> QED BY <1>6, <1>7

\* The rows of a booking are told apart from those of the others.
LEMMA RowsOfOneMore ==
  ASSUME NEW bs, NEW b \in bs, b \in BookingIds
  PROVE  /\ PlayersIn(bs) = PlayersIn(bs \ {b}) + Cardinality(Participants(b))
         /\ PlayersIn(bs) \in Nat /\ PlayersIn(bs \ {b}) \in Nat
<1>1. /\ RowsIn(bs) = RowsIn(bs \ {b}) \union Participants(b)
      /\ RowsIn(bs \ {b}) \intersect Participants(b) = {}
  BY DEF RowsIn, Participants
<1>2. RowsIn(bs) \in SUBSET RowIds /\ RowsIn(bs \ {b}) \in SUBSET RowIds
      /\ Participants(b) \in SUBSET RowIds
  BY DEF RowsIn, Participants
<1>3. /\ IsFiniteSet(RowsIn(bs \ {b})) /\ IsFiniteSet(Participants(b))
      /\ Cardinality(RowsIn(bs)) \in Nat /\ Cardinality(RowsIn(bs \ {b})) \in Nat
      /\ Cardinality(Participants(b)) \in Nat
  BY <1>2, RowSetFinite
<1>4. Cardinality(RowsIn(bs \ {b}) \intersect Participants(b)) = 0
  BY <1>1, FS_EmptySet, Zenon
<1>5. Cardinality(RowsIn(bs \ {b}) \union Participants(b))
        = Cardinality(RowsIn(bs \ {b})) + Cardinality(Participants(b))
            - Cardinality(RowsIn(bs \ {b}) \intersect Participants(b))
  BY <1>3, FS_Union, Zenon
<1>6. PlayersIn(bs) = Cardinality(RowsIn(bs))
      /\ PlayersIn(bs \ {b}) = Cardinality(RowsIn(bs \ {b}))
  BY DEF PlayersIn, RowsIn
<1>7. Cardinality(RowsIn(bs)) = Cardinality(RowsIn(bs \ {b}) \union Participants(b))
  BY <1>1
<1> QED BY <1>3, <1>4, <1>5, <1>6, <1>7

\* What move adds up is what create and update count.
LEMMA SizesArePlayers ==
  ASSUME AllAgree, NEW S \in SUBSET BookingIds, \A b \in S : Exists(b)
  PROVE  SizesOf(S) = PlayersIn(S)
<1> DEFINE counted == [s \in SUBSET S |-> PlayersIn(s)]
<1>1. IsFiniteSet(S)
  <2>1. \A b \in S : Participants(b) # {} BY DEF AllAgree, Agrees
  <2> QED BY <2>1, FewBookings
<1>2. AddsUp(counted, S)
  <2> SUFFICES ASSUME NEW s \in SUBSET S
               PROVE  PlayersIn(s) = IF s = {} THEN 0
                                     ELSE bookings[FirstOf(s)].size + counted[s \ {FirstOf(s)}]
    BY DEF AddsUp
  <2>1. CASE s = {}
    <3>1. RowsIn({}) = {} BY DEF RowsIn
    <3> QED BY <2>1, <3>1, FS_EmptySet DEF PlayersIn, RowsIn
  <2>2. CASE s # {}
    <3> DEFINE x == FirstOf(s)
    <3>1. x \in s BY <2>2 DEF FirstOf
    <3>2. x \in BookingIds /\ bookings[x].size = Cardinality(Participants(x))
      BY <3>1 DEF AllAgree, Agrees
    <3> HIDE DEF x
    <3>3. /\ PlayersIn(s) = PlayersIn(s \ {x}) + Cardinality(Participants(x))
          /\ PlayersIn(s \ {x}) \in Nat
      BY <3>1, <3>2, RowsOfOneMore
    <3>4. Cardinality(Participants(x)) \in Nat BY RowSetFinite DEF Participants
    <3>5. counted[s \ {x}] = PlayersIn(s \ {x}) OBVIOUS
    <3>6. PlayersIn(s) = bookings[x].size + counted[s \ {x}] BY <3>2, <3>3, <3>4, <3>5
    <3> QED BY <2>2, <3>6 DEF x
  <2> QED BY <2>1, <2>2
<1>3. counted[S] = PlayersIn(S) OBVIOUS
<1> HIDE DEF counted
<1> DEFINE sums == CHOOSE f : AddsUp(f, S)
<1>4. AddsUp(sums, S) BY <1>2
<1>5. SizesOf(S) = sums[S] BY SizesAddUp
<1> HIDE DEF sums
<1>6. sums[S] = counted[S] BY <1>1, <1>2, <1>4, AddsUpOnce
<1> QED BY <1>3, <1>5, <1>6

-------------------------------------------------------------------------------
(* No slot is filled over its capacity, and none that is shut is entered.  *)

\* The participant rows that take up a slot.
RowsAt(line, time) == RowsIn(LiveAt(LineCourse[line], line, time))

RoomKept(line, time) ==
  Capacity[<<line, time>>] # None =>
    Cardinality(RowsAt(line, time)) <= Capacity[<<line, time>>]

\* A booking that is live is in an open slot.
InOpenSlot(b) ==
  IsLive(b) => SlotOpen(bookings[b].course, bookings[b].line, bookings[b].time)

LEMMA SlotsBySlot ==
  SlotsRespected <=> /\ \A b \in BookingIds : InOpenSlot(b)
                     /\ \A line \in Lines, time \in Times : RoomKept(line, time)
BY DEF SlotsRespected, ClosedSlotsEmpty, CapacityRespected, InOpenSlot, RoomKept, RowsAt,
       RowsIn, PlayersIn

LEMMA SlotsAfter ==
  ASSUME \A b \in BookingIds : InOpenSlot(b)',
         \A line \in Lines, time \in Times : RoomKept(line, time)'
  PROVE  SlotsRespected'
BY DEF SlotsRespected, ClosedSlotsEmpty, CapacityRespected, InOpenSlot, RoomKept, RowsAt,
       RowsIn, PlayersIn

LEMMA RowsAtAre ==
  ASSUME NEW line, NEW time, NEW r \in RowIds
  PROVE  r \in RowsAt(line, time) <=>
           /\ IsRow(r)
           /\ rows[r].booking \in BookingIds
           /\ IsLive(rows[r].booking)
           /\ bookings[rows[r].booking].course = LineCourse[line]
           /\ bookings[rows[r].booking].line = line
           /\ bookings[rows[r].booking].time = time
BY DEF RowsAt, RowsIn, LiveAt

\* A slot that gains no row keeps its room.
LEMMA KeepsRoom ==
  ASSUME NEW line \in Lines, NEW time \in Times, RoomKept(line, time),
         RowsAt(line, time)' \subseteq RowsAt(line, time)
  PROVE  RoomKept(line, time)'
<1> DEFINE before == RowsAt(line, time)
           after == RowsAt(line, time)'
<1>1. before \in SUBSET RowIds /\ after \in SUBSET RowIds BY DEF RowsAt, RowsIn
<1> HIDE DEF before, after
<1>2. IsFiniteSet(before) /\ Cardinality(before) \in Nat /\ Cardinality(after) \in Nat
  BY <1>1, RowSetFinite
<1>3. after \subseteq before BY DEF before, after
<1>4. Cardinality(after) <= Cardinality(before) BY <1>2, <1>3, FS_Subset
<1>5. Capacity[<<line, time>>] \in Nat \union {None} BY ConstantsOK
<1>6. Capacity[<<line, time>>] # None => Cardinality(after) <= Capacity[<<line, time>>]
  <2>1. Capacity[<<line, time>>] # None => Cardinality(before) <= Capacity[<<line, time>>]
    BY DEF before, RoomKept
  <2> QED BY <1>2, <1>4, <1>5, <2>1
<1> QED BY <1>6 DEF RoomKept, after

\* A slot that gains rows keeps its room when they were counted beside the others.
LEMMA TakesRoom ==
  ASSUME NEW line \in Lines, NEW time \in Times,
         NEW base \in SUBSET RowIds, NEW added \in SUBSET RowIds,
         RowsAt(line, time)' \subseteq base \union added,
         Capacity[<<line, time>>] # None =>
           Cardinality(base) + Cardinality(added) <= Capacity[<<line, time>>]
  PROVE  RoomKept(line, time)'
<1> DEFINE after == RowsAt(line, time)'
<1>1. /\ IsFiniteSet(base) /\ Cardinality(base) \in Nat
      /\ IsFiniteSet(added) /\ Cardinality(added) \in Nat
  BY RowSetFinite
<1>2. after \subseteq base \union added OBVIOUS
<1>3. after \subseteq RowIds BY <1>2
<1> HIDE DEF after
<1>4. IsFiniteSet(base \union added) /\ Cardinality(base \union added)
        = Cardinality(base) + Cardinality(added) - Cardinality(base \intersect added)
  BY <1>1, FS_Union, Zenon
<1>5. Cardinality(base \intersect added) \in Nat
  <2>1. base \intersect added \in SUBSET RowIds OBVIOUS
  <2> QED BY <2>1, RowSetFinite
<1>6. Cardinality(after) <= Cardinality(base \union added) BY <1>2, <1>4, FS_Subset
<1>7. Cardinality(after) \in Nat /\ Cardinality(base \union added) \in Nat
  BY <1>3, <1>4, RowSetFinite, FS_CardinalityType
<1>8. Capacity[<<line, time>>] \in Nat \union {None} BY ConstantsOK
<1>9. Capacity[<<line, time>>] # None => Cardinality(after) <= Capacity[<<line, time>>]
  BY <1>1, <1>4, <1>5, <1>6, <1>7, <1>8
<1> QED BY <1>9 DEF RoomKept, after

LEMMA CreateFits ==
  ASSUME IInv, SerialInv, AllChecked, SlotsRespected, NEW w \in Workers, CommitCreate(w)
  PROVE  SlotsRespected'
<1>1. PICK j \in CreateJob : j = jobs[w]
  BY JobKinds DEF IInv, TypeOK, CommitCreate
<1>2. j.party \in Parties /\ j.line \in Lines /\ j.time \in Times BY DEF CreateJob
<1> DEFINE made == [lead |-> j.party.lead, course |-> j.course, line |-> j.line,
                    time |-> j.time, status |-> "reserved",
                    size |-> PartySize(j.party), holes |-> j.holes]
<1>3. PICK b \in BookingIds :
        /\ ~ Exists(b)
        /\ Seat(b, j.party, {})
        /\ bookings' = [bookings EXCEPT ![b] = made]
  BY <1>1 DEF CommitCreate
<1>4. made.course = j.course /\ made.line = j.line /\ made.time = j.time OBVIOUS
<1> HIDE DEF made
<1>5. bookings'[b] = made /\ \A x \in BookingIds \ {b} : bookings'[x] = bookings[x]
  BY <1>3 DEF IInv, TypeOK
<1>6. RoomFor(j.party, j.course, j.line, j.time, {})
  <2>1. Checked(j) /\ j.op = "create" BY <1>1 DEF AllChecked, Job, CreateJob
  <2>2. j.stage = "commit" BY <1>1 DEF CommitCreate
  <2> QED BY <2>1, <2>2 DEF Checked
<1>7. PICK fresh \in SUBSET RowIds :
        /\ Cardinality(fresh) = PartySize(j.party)
        /\ \A r \in fresh : rows'[r].booking = b
        /\ \A r \in RowIds \ fresh : rows'[r] = rows[r]
  <2>1. TypeOK /\ Seat(b, j.party, {}) BY <1>3 DEF IInv
  <2> QED BY <1>2, <2>1, SeatRows
<1>8. Participants(b) = {} BY <1>3, NobodyYet DEF SerialInv
<1>9. ASSUME NEW x \in BookingIds PROVE InOpenSlot(x)'
  <2>1. CASE x = b
    <3>1. SlotOpen(j.course, j.line, j.time) BY <1>6 DEF RoomFor
    <3> QED BY <1>4, <1>5, <2>1, <3>1 DEF InOpenSlot, SlotOpen
  <2>2. CASE x # b
    BY <1>5, <2>2, SlotsBySlot DEF InOpenSlot, SlotOpen, IsLive, Exists
  <2> QED BY <2>1, <2>2
<1>10. ASSUME NEW line \in Lines, NEW time \in Times PROVE RoomKept(line, time)'
  <2>1. ASSUME NEW r \in RowsAt(line, time)', r \notin fresh
        PROVE  r \in RowsAt(line, time)
    <3>1. r \in RowIds BY DEF RowsAt, RowsIn
    <3>2. rows'[r] = rows[r] BY <1>7, <2>1, <3>1
    <3>3. /\ IsRow(r) /\ rows[r].booking \in BookingIds /\ IsLive(rows[r].booking)'
          /\ bookings'[rows[r].booking].course = LineCourse[line]
          /\ bookings'[rows[r].booking].line = line
          /\ bookings'[rows[r].booking].time = time
      BY <3>2 DEF RowsAt, RowsIn, LiveAt, IsRow, IsLive, Exists
    <3>4. rows[r].booking # b BY <1>8, <3>1, <3>3 DEF Participants
    <3> QED BY <1>5, <3>1, <3>2, <3>3, <3>4, RowsAtAre DEF IsLive, Exists
  <2>2. CASE <<line, time>> = <<j.line, j.time>>
    <3>1. /\ Capacity[<<line, time>>] # None /\ LineCourse[line] = j.course
          /\ PlayersIn(LiveAt(j.course, line, time) \ {}) + PartySize(j.party)
               <= Capacity[<<line, time>>]
      BY <1>6, <2>2 DEF RoomFor, SlotCapacity
    <3>2. LiveAt(j.course, line, time) \ {} = LiveAt(j.course, line, time) OBVIOUS
    <3>3. PlayersIn(LiveAt(j.course, line, time)) = Cardinality(RowsAt(line, time))
      BY <3>1 DEF PlayersIn, RowsAt, RowsIn
    <3>4. RowsAt(line, time) \in SUBSET RowIds BY DEF RowsAt, RowsIn
    <3>5. Cardinality(RowsAt(line, time)) + Cardinality(fresh) <= Capacity[<<line, time>>]
      BY <1>7, <3>1, <3>2, <3>3
    <3>6. RowsAt(line, time)' \subseteq RowsAt(line, time) \union fresh BY <2>1
    <3> QED BY <3>4, <3>5, <3>6, TakesRoom
  <2>3. CASE <<line, time>> # <<j.line, j.time>>
    <3>1. \A r \in RowsAt(line, time)' : r \notin fresh
      BY <1>4, <1>5, <1>7, <2>3 DEF RowsAt, RowsIn, LiveAt
    <3>2. RowsAt(line, time)' \subseteq RowsAt(line, time) BY <2>1, <3>1
    <3> QED BY <3>2, KeepsRoom, SlotsBySlot
  <2> QED BY <2>2, <2>3
<1> QED BY <1>9, <1>10, SlotsAfter

\* Where a booking counts: its slot, while it is live.
SameSlot(b) ==
  /\ bookings'[b].course = bookings[b].course
  /\ bookings'[b].line = bookings[b].line
  /\ bookings'[b].time = bookings[b].time

\* A row that was in its booking before is in the slot it was in, if the booking is.
LEMMA StaysInSlot ==
  ASSUME NEW line, NEW time, NEW x, NEW r \in RowsAt(line, time)',
         IsRow(r), rows[r].booking = x, rows'[r].booking = x,
         SameSlot(x), IsLive(x)' => IsLive(x)
  PROVE  r \in RowsAt(line, time)
<1>1. r \in RowIds /\ x \in BookingIds BY DEF RowsAt, RowsIn, LiveAt
<1>2. /\ IsLive(x)' /\ bookings'[x].course = LineCourse[line]
      /\ bookings'[x].line = line /\ bookings'[x].time = time
  BY DEF RowsAt, RowsIn, LiveAt, IsLive, Exists
<1>3. /\ IsLive(x) /\ bookings[x].course = LineCourse[line]
      /\ bookings[x].line = line /\ bookings[x].time = time
  BY <1>2 DEF SameSlot
<1>4. x \in LiveAt(LineCourse[line], line, time) BY <1>1, <1>3 DEF LiveAt
<1> QED BY <1>1, <1>4 DEF RowsAt, RowsIn

\* A booking that stays in its slot and is not more live than before is in an open
\* slot still.
LEMMA StaysOpen ==
  ASSUME NEW x \in BookingIds, InOpenSlot(x), SameSlot(x), IsLive(x)' => IsLive(x)
  PROVE  InOpenSlot(x)'
BY DEF InOpenSlot, SameSlot, SlotOpen

LEMMA UpdateFits ==
  ASSUME IInv, SerialInv, AllChecked, SlotsRespected, NEW w \in Workers, CommitUpdate(w)
  PROVE  SlotsRespected'
<1>1. PICK j \in UpdateJob : j = jobs[w]
  BY JobKinds DEF IInv, TypeOK, CommitUpdate
<1>2. PICK b \in BookingIds : b = j.id BY DEF UpdateJob
<1>3. /\ j.party \in Parties /\ j.op = "update"
      /\ j.loaded \subseteq RowIds /\ \A r \in j.loaded : IsRow(r)
      /\ Exists(b)
  BY <1>1, <1>2 DEF UpdateJob, IInv, JobsKnown, JobKnown
<1>4. j.seen = bookings[b] /\ j.loaded = Participants(b)
  BY <1>1, <1>2, <1>3 DEF SerialInv, Fresh
<1>5. bookings[b] \in Booking BY <1>3 DEF IInv, TypeOK, Exists
<1>6. /\ Seat(b, j.party, j.loaded)
      /\ bookings'[b] = UpdatedRow(j)
      /\ \A x \in BookingIds \ {b} : bookings'[x] = bookings[x]
  BY <1>1, <1>2 DEF CommitUpdate, IInv, TypeOK
<1>7. /\ UpdatedRow(j).course = bookings[b].course /\ UpdatedRow(j).line = bookings[b].line
      /\ UpdatedRow(j).time = bookings[b].time /\ UpdatedRow(j).status = bookings[b].status
  BY <1>2, <1>5 DEF UpdatedRow, Booking
<1>8. \A x \in BookingIds : SameSlot(x) /\ (IsLive(x)' => IsLive(x))
  BY <1>3, <1>6, <1>7 DEF SameSlot, IsLive, Exists
<1>9. RoomFor(j.party, bookings[b].course, bookings[b].line, bookings[b].time, {b})
  <2>1. Checked(j) BY <1>1 DEF AllChecked, Job
  <2>2. j.stage = "commit" BY <1>1 DEF CommitUpdate
  <2> QED BY <1>2, <1>3, <1>4, <2>1, <2>2 DEF Checked
<1>10. PICK fresh \in SUBSET RowIds :
         /\ Cardinality(fresh) = PartySize(j.party)
         /\ \A r \in fresh : rows'[r].booking = b
         /\ \A r \in Participants(b) : rows'[r].booking = None
         /\ \A r \in RowIds \ (fresh \union Participants(b)) : rows'[r] = rows[r]
  <2>1. TypeOK BY DEF IInv
  <2> QED BY <1>3, <1>4, <1>6, <2>1, SeatRows
<1>11. ASSUME NEW x \in BookingIds PROVE InOpenSlot(x)'
  BY <1>8, SlotsBySlot, StaysOpen
<1>12. ASSUME NEW line \in Lines, NEW time \in Times PROVE RoomKept(line, time)'
  <2>1. ASSUME NEW r \in RowsAt(line, time)', r \notin fresh
        PROVE  r \in RowsAt(line, time) /\ rows[r].booking # b
    <3>1. r \in RowIds /\ IsRow(r)' /\ rows'[r].booking \in BookingIds
      BY DEF RowsAt, RowsIn, LiveAt
    <3>2. r \notin Participants(b) /\ rows'[r] = rows[r]
      BY <1>10, <2>1, <3>1, NoneIsNothing
    <3>3. IsRow(r) /\ rows[r].booking \in BookingIds BY <3>1, <3>2 DEF IsRow
    <3>4. rows[r].booking # b BY <3>1, <3>2, <3>3 DEF Participants
    <3>5. PICK x \in BookingIds : x = rows[r].booking BY <3>3
    <3>6. SameSlot(x) /\ (IsLive(x)' => IsLive(x)) BY <1>8
    <3> QED BY <3>2, <3>3, <3>4, <3>5, <3>6, StaysInSlot
  <2>2. CASE <<line, time>> = <<bookings[b].line, bookings[b].time>>
    <3>1. /\ Capacity[<<line, time>>] # None /\ LineCourse[line] = bookings[b].course
          /\ PlayersIn(LiveAt(LineCourse[line], line, time) \ {b}) + PartySize(j.party)
               <= Capacity[<<line, time>>]
      BY <1>9, <2>2 DEF RoomFor, SlotCapacity
    <3> DEFINE base == RowsIn(LiveAt(LineCourse[line], line, time) \ {b})
    <3>2. base \in SUBSET RowIds BY DEF RowsIn
    <3>3. RowsAt(line, time)' \subseteq base \union fresh
      BY <2>1 DEF RowsAt, RowsIn
    <3>4. Cardinality(base) + Cardinality(fresh) <= Capacity[<<line, time>>]
      BY <1>10, <3>1 DEF PlayersIn, RowsIn
    <3> HIDE DEF base
    <3> QED BY <3>2, <3>3, <3>4, TakesRoom
  <2>3. CASE <<line, time>> # <<bookings[b].line, bookings[b].time>>
    <3>1. \A r \in RowsAt(line, time)' : r \notin fresh
      BY <1>8, <1>10, <2>3 DEF SameSlot, RowsAt, RowsIn, LiveAt
    <3>2. RowsAt(line, time)' \subseteq RowsAt(line, time) BY <2>1, <3>1
    <3> QED BY <3>2, KeepsRoom, SlotsBySlot
  <2> QED BY <2>2, <2>3
<1> QED BY <1>11, <1>12, SlotsAfter

\* A change of status empties the slot or leaves it.
LEMMA TransitionFits ==
  ASSUME IInv, SerialInv, SlotsRespected, NEW w \in Workers, CommitTransition(w)
  PROVE  SlotsRespected'
<1>1. PICK j \in TransitionJob : j = jobs[w]
  BY JobKinds DEF IInv, TypeOK, CommitTransition
<1>2. PICK b \in BookingIds : b = j.id BY DEF TransitionJob
<1>3. j.op = "transition" /\ Exists(b)
  BY <1>1, <1>2 DEF TransitionJob, IInv, JobsKnown, JobKnown
<1>4. IsLive(b)
  BY <1>1, <1>2, <1>3 DEF SerialInv, Fresh, From, IsLive, LiveStatuses
<1>5. bookings[b] \in Booking BY <1>3 DEF IInv, TypeOK, Exists
<1>6. /\ bookings'[b] = [bookings[b] EXCEPT !.status = j.to]
      /\ \A x \in BookingIds \ {b} : bookings'[x] = bookings[x]
      /\ rows' = rows
  BY <1>1, <1>2 DEF CommitTransition, IInv, TypeOK
<1>7. SameSlot(b) BY <1>5, <1>6 DEF SameSlot, Booking
<1>8. \A x \in BookingIds : SameSlot(x) /\ (IsLive(x)' => IsLive(x))
  BY <1>4, <1>6, <1>7 DEF SameSlot, IsLive, Exists
<1>9. ASSUME NEW x \in BookingIds PROVE InOpenSlot(x)'
  BY <1>8, SlotsBySlot, StaysOpen
<1>10. ASSUME NEW line \in Lines, NEW time \in Times PROVE RoomKept(line, time)'
  <2>1. ASSUME NEW r \in RowsAt(line, time)' PROVE r \in RowsAt(line, time)
    <3>1. IsRow(r) /\ rows[r].booking \in BookingIds
      BY <1>6 DEF RowsAt, RowsIn, LiveAt, IsRow
    <3>2. PICK x \in BookingIds : x = rows[r].booking BY <3>1
    <3>3. SameSlot(x) /\ (IsLive(x)' => IsLive(x)) /\ rows'[r].booking = x
      BY <1>6, <1>8, <3>2
    <3> QED BY <3>1, <3>2, <3>3, StaysInSlot
  <2> QED BY <2>1, KeepsRoom, SlotsBySlot
<1> QED BY <1>9, <1>10, SlotsAfter

\* What the check of a move adds up is the rows beside those of the booking it moves.
LEMMA RoomCounted ==
  ASSUME AllAgree, NEW size, NEW line, NEW time, NEW b,
         RoomToMove(size, LineCourse[line], line, time, {b})
  PROVE  Capacity[<<line, time>>] # None =>
           Cardinality(RowsIn(LiveAt(LineCourse[line], line, time) \ {b})) + size
             <= Capacity[<<line, time>>]
<1> DEFINE others == LiveAt(LineCourse[line], line, time) \ {b}
<1>1. others \in SUBSET BookingIds /\ \A x \in others : Exists(x)
  BY DEF LiveAt, IsLive
<1>2. Capacity[<<line, time>>] # None =>
        SizesOf(others) + size <= Capacity[<<line, time>>]
  BY DEF RoomToMove, SlotCapacity
<1> HIDE DEF others
<1>3. SizesOf(others) = PlayersIn(others) BY <1>1, SizesArePlayers
<1>4. PlayersIn(others) = Cardinality(RowsIn(others)) BY DEF PlayersIn, RowsIn
<1>5. Capacity[<<line, time>>] # None =>
        Cardinality(RowsIn(others)) + size <= Capacity[<<line, time>>]
  BY <1>2, <1>3, <1>4
<1> QED BY <1>5 DEF others

LEMMA MoveFits ==
  ASSUME IInv, SerialInv, AllChecked, SlotsRespected, NEW w \in Workers, CommitMove(w)
  PROVE  SlotsRespected'
<1>1. PICK j \in MoveJob : j = jobs[w]
  BY JobKinds DEF IInv, TypeOK, CommitMove
<1>2. PICK b \in BookingIds : b = j.id BY DEF MoveJob
<1>3. j.op = "move" /\ Exists(b)
  BY <1>1, <1>2 DEF MoveJob, IInv, JobsKnown, JobKnown
<1>4. j.seen = bookings[b] BY <1>1, <1>2, <1>3 DEF SerialInv, Fresh
<1>5. bookings[b] \in Booking BY <1>3 DEF IInv, TypeOK, Exists
<1>6. /\ bookings'[b] = MovedRow(j)
      /\ \A x \in BookingIds \ {b} : bookings'[x] = bookings[x]
      /\ rows' = rows
  BY <1>1, <1>2 DEF CommitMove, IInv, TypeOK
<1>7. /\ bookings'[b].course = bookings[b].course
      /\ bookings'[b].line = j.line /\ bookings'[b].time = j.time
      /\ bookings'[b].status = bookings[b].status
  BY <1>2, <1>4, <1>5, <1>6 DEF MovedRow, Written, Booking
<1>8. RoomToMove(bookings[b].size, bookings[b].course, j.line, j.time, {b})
  <2>1. Checked(j) BY <1>1 DEF AllChecked, Job
  <2>2. j.stage = "commit" BY <1>1 DEF CommitMove
  <2> QED BY <1>2, <1>3, <1>4, <2>1, <2>2 DEF Checked
<1>9. AllAgree /\ Agrees(b) BY <1>3 DEF SerialInv, AllAgree
<1>10. ASSUME NEW x \in BookingIds PROVE InOpenSlot(x)'
  <2>1. CASE x = b
    <3>1. SlotOpen(bookings[b].course, j.line, j.time) BY <1>8 DEF RoomToMove
    <3> QED BY <1>7, <2>1, <3>1 DEF InOpenSlot, SlotOpen
  <2>2. CASE x # b
    BY <1>6, <2>2, SlotsBySlot DEF InOpenSlot, SlotOpen, IsLive, Exists
  <2> QED BY <2>1, <2>2
<1>11. ASSUME NEW line \in Lines, NEW time \in Times PROVE RoomKept(line, time)'
  <2>1. ASSUME NEW r \in RowsAt(line, time)', r \notin Participants(b)
        PROVE  r \in RowsAt(line, time) /\ rows[r].booking # b
    <3>1. r \in RowIds /\ IsRow(r) /\ rows[r].booking \in BookingIds
      BY <1>6 DEF RowsAt, RowsIn, LiveAt, IsRow
    <3>2. rows[r].booking # b BY <2>1, <3>1 DEF Participants
    <3>3. PICK x \in BookingIds : x = rows[r].booking BY <3>1
    <3>4. bookings'[x] = bookings[x] /\ rows'[r].booking = x BY <1>6, <3>2, <3>3
    <3>5. SameSlot(x) /\ (IsLive(x)' => IsLive(x))
      BY <3>4 DEF SameSlot, IsLive, Exists
    <3> QED BY <3>1, <3>2, <3>3, <3>4, <3>5, StaysInSlot
  <2>2. CASE <<line, time>> = <<j.line, j.time>> /\ bookings[b].course = LineCourse[line]
    <3>1. Capacity[<<line, time>>] # None =>
            Cardinality(RowsIn(LiveAt(LineCourse[line], line, time) \ {b}))
              + bookings[b].size <= Capacity[<<line, time>>]
      BY <1>8, <1>9, <2>2, RoomCounted
    <3>2. bookings[b].size = Cardinality(Participants(b)) BY <1>9 DEF Agrees
    <3> DEFINE base == RowsIn(LiveAt(LineCourse[line], line, time) \ {b})
    <3>3. base \in SUBSET RowIds /\ Participants(b) \in SUBSET RowIds
      BY DEF RowsIn, Participants
    <3>4. RowsAt(line, time)' \subseteq base \union Participants(b)
      BY <2>1 DEF RowsAt, RowsIn
    <3>5. Capacity[<<line, time>>] # None =>
            Cardinality(base) + Cardinality(Participants(b)) <= Capacity[<<line, time>>]
      BY <3>1, <3>2
    <3> HIDE DEF base
    <3> QED BY <3>3, <3>4, <3>5, TakesRoom
  <2>3. CASE <<line, time>> # <<j.line, j.time>> \/ bookings[b].course # LineCourse[line]
    <3>1. \A r \in RowsAt(line, time)' : r \notin Participants(b)
      BY <1>6, <1>7, <2>3 DEF RowsAt, RowsIn, LiveAt, Participants
    <3>2. RowsAt(line, time)' \subseteq RowsAt(line, time) BY <2>1, <3>1
    <3> QED BY <3>2, KeepsRoom, SlotsBySlot
  <2> QED BY <2>2, <2>3
<1> QED BY <1>10, <1>11, SlotsAfter

LEMMA SplitFits ==
  ASSUME IInv, SerialInv, AllChecked, SlotsRespected, NEW w \in Workers, CommitSplit(w)
  PROVE  SlotsRespected'
<1>1. PICK j \in SplitJob : j = jobs[w] BY SplitRows
<1>2. PICK b \in BookingIds : b = j.id BY DEF SplitJob
<1>3. PICK player \in RowIds : player = j.player BY DEF SplitJob
<1>4. /\ j.op = "split" /\ Exists(b) /\ IsLive(b)
      /\ player \in Participants(b) /\ j.seen = bookings[b]
  BY <1>1, <1>2, <1>3, SplitRows
<1>5. PICK new \in BookingIds, first \in Participants(b) \ {player} :
        Splitting(b, player, SplitBooking(j), new, first)
  BY <1>1, <1>2, <1>3, SplitRows
<1>6. bookings[b] \in Booking BY <1>4 DEF IInv, TypeOK, Exists
<1>7. new # b /\ ~ Exists(new) BY <1>4, <1>5 DEF Splitting
<1>8. /\ bookings'[new].course = bookings[b].course
      /\ bookings'[new].line = j.line /\ bookings'[new].time = j.time
  BY <1>4, <1>5, <1>6 DEF Splitting, SplitBooking, Booking
<1>9. ASSUME NEW x \in BookingIds \ {new}
      PROVE  SameSlot(x) /\ (IsLive(x)' => IsLive(x))
  <2>1. CASE x = b BY <1>4, <1>5, <1>6, <2>1 DEF Splitting, SameSlot, Booking
  <2>2. CASE x # b
    <3>1. bookings'[x] = bookings[x] BY <1>5, <2>2 DEF Splitting
    <3> QED BY <3>1 DEF SameSlot, IsLive, Exists
  <2> QED BY <2>1, <2>2
<1>10. RoomToMove(1, bookings[b].course, j.line, j.time, {b})
  <2>1. Checked(j) BY <1>1 DEF AllChecked, Job
  <2>2. j.stage = "commit" BY <1>1 DEF CommitSplit
  <2> QED BY <1>2, <1>4, <2>1, <2>2 DEF Checked
<1>11. ASSUME NEW x \in BookingIds PROVE InOpenSlot(x)'
  <2>1. CASE x = new
    <3>1. SlotOpen(bookings[b].course, j.line, j.time) BY <1>10 DEF RoomToMove
    <3> QED BY <1>8, <2>1, <3>1 DEF InOpenSlot, SlotOpen
  <2>2. CASE x # new BY <1>9, <2>2, SlotsBySlot, StaysOpen
  <2> QED BY <2>1, <2>2
<1>12. ASSUME NEW line \in Lines, NEW time \in Times PROVE RoomKept(line, time)'
  <2>1. ASSUME NEW r \in RowsAt(line, time)', r # player
        PROVE  r \in RowsAt(line, time)
    <3>1. r \in RowIds /\ IsRow(r)' /\ rows'[r].booking \in BookingIds
      BY DEF RowsAt, RowsIn, LiveAt
    <3>2. IsRow(r) /\ rows'[r].booking = rows[r].booking
      BY <1>5, <2>1, <3>1 DEF Splitting, Participants, IsRow
    <3>3. PICK x \in BookingIds : x = rows[r].booking BY <3>1, <3>2
    <3>4. x # new
      <4>1. Participants(new) = {} BY <1>7, NobodyYet DEF SerialInv
      <4> QED BY <3>1, <3>2, <3>3, <4>1 DEF Participants
    <3>5. SameSlot(x) /\ (IsLive(x)' => IsLive(x)) BY <1>9, <3>4
    <3> QED BY <3>2, <3>3, <3>5, StaysInSlot
  <2>2. rows'[player].booking = new /\ rows[player].booking = b /\ IsRow(player)
    BY <1>4, <1>5 DEF Splitting, Participants
  <2>3. CASE /\ <<line, time>> = <<j.line, j.time>> /\ bookings[b].course = LineCourse[line]
             /\ <<line, time>> = <<bookings[b].line, bookings[b].time>>
    <3>1. player \in RowsAt(line, time) BY <1>4, <2>2, <2>3, RowsAtAre
    <3>2. RowsAt(line, time)' \subseteq RowsAt(line, time) BY <2>1, <3>1
    <3> QED BY <3>2, KeepsRoom, SlotsBySlot
  <2>4. CASE /\ <<line, time>> = <<j.line, j.time>> /\ bookings[b].course = LineCourse[line]
             /\ <<line, time>> # <<bookings[b].line, bookings[b].time>>
    <3>1. Capacity[<<line, time>>] # None =>
            Cardinality(RowsIn(LiveAt(LineCourse[line], line, time) \ {b})) + 1
              <= Capacity[<<line, time>>]
      BY <1>10, <2>4, RoomCounted DEF SerialInv
    <3> DEFINE base == RowsIn(LiveAt(LineCourse[line], line, time) \ {b})
    <3>2. base \in SUBSET RowIds /\ {player} \in SUBSET RowIds BY DEF RowsIn
    <3>3. b \notin LiveAt(LineCourse[line], line, time) BY <2>4 DEF LiveAt
    <3>4. RowsAt(line, time)' \subseteq base \union {player}
      BY <2>1, <3>3 DEF RowsAt, RowsIn
    <3>5. Cardinality({player}) = 1 BY FS_Singleton
    <3>6. Capacity[<<line, time>>] # None =>
            Cardinality(base) + Cardinality({player}) <= Capacity[<<line, time>>]
      BY <3>1, <3>5
    <3> HIDE DEF base
    <3> QED BY <3>2, <3>4, <3>6, TakesRoom
  <2>5. CASE <<line, time>> # <<j.line, j.time>> \/ bookings[b].course # LineCourse[line]
    <3>1. player \notin RowsAt(line, time)'
      BY <1>8, <2>2, <2>5 DEF RowsAt, RowsIn, LiveAt
    <3>2. RowsAt(line, time)' \subseteq RowsAt(line, time) BY <2>1, <3>1
    <3> QED BY <3>2, KeepsRoom, SlotsBySlot
  <2> QED BY <2>3, <2>4, <2>5
<1> QED BY <1>11, <1>12, SlotsAfter

LEMMA ReadFits ==
  ASSUME SlotsRespected, bookings' = bookings, rows' = rows
  PROVE  SlotsRespected'
BY DEF SlotsRespected, ClosedSlotsEmpty, CapacityRespected, PlayersIn, LiveAt, IsLive, Exists,
       IsRow, SlotOpen

LEMMA NextFits ==
  IInv /\ SerialInv /\ AllChecked /\ SlotsRespected /\ [Next]_vars => SlotsRespected'
<1> SUFFICES ASSUME IInv, SerialInv, AllChecked, SlotsRespected, [Next]_vars
             PROVE  SlotsRespected'
  OBVIOUS
<1>1. CASE UNCHANGED vars BY <1>1, ReadFits DEF vars
<1>2. ASSUME NEW w \in Workers,
             \/ BeginCreate(w) \/ BeginUpdate(w) \/ BeginMove(w)
             \/ BeginSplit(w) \/ BeginTransition(w)
             \/ CheckSlot(w) \/ CheckLimits(w) \/ Abandon(w)
      PROVE  SlotsRespected'
  BY <1>2, ReadFits DEF BeginCreate, BeginUpdate, BeginMove, BeginSplit,
     BeginTransition, CheckSlot, CheckLimits, Abandon, Start, Advance
<1> QED BY <1>1, <1>2, CreateFits, UpdateFits, MoveFits, SplitFits, TransitionFits DEF Next

LEMMA InitFits == Init => SlotsRespected
<1> SUFFICES ASSUME Init PROVE SlotsRespected OBVIOUS
<1>1. \A b \in BookingIds : InOpenSlot(b) BY DEF Init, InOpenSlot, IsLive, Exists
<1>2. ASSUME NEW line \in Lines, NEW time \in Times PROVE RoomKept(line, time)
  <2>1. RowsAt(line, time) = {} BY DEF Init, RowsAt, RowsIn, IsRow
  <2>2. Cardinality(RowsAt(line, time)) = 0 BY <2>1, FS_EmptySet
  <2> QED BY <2>2, ConstantsOK DEF RoomKept
<1> QED BY <1>1, <1>2, SlotsBySlot

\* When requests do not overlap, no slot ever holds more players than its capacity,
\* whether they were counted as rows or as party sizes, and no live booking is in a
\* slot that is shut.
THEOREM SerialSlots == Spec /\ []OneAtATime => []SlotsRespected
BY InitFits, NextFits, SerialChecks, SerialInvariance, Invariance, PTL DEF Spec
===============================================================================
