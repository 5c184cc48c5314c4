------------------------------- MODULE TeeSheet -------------------------------
(***************************************************************************)
(* Bookings on the tee sheet, as the booking services of the backend write *)
(* them: create, update, move (of a party or of one player), check-in,     *)
(* completion, cancellation and no-show.                                   *)
(*                                                                         *)
(* Every request is served by a worker thread with a session of its own.   *)
(* The session runs at READ COMMITTED, takes no lock and never flushes     *)
(* before it has decided, so a request is a sequence of reads of what is   *)
(* committed followed by ONE commit of what was decided on those reads.    *)
(* The reads of the booking, of the slot and of the player's other         *)
(* bookings are steps of their own: another worker may commit in between.  *)
(* With one worker the requests are serial; with two they race.            *)
(***************************************************************************)
EXTENDS Naturals, Sequences, FiniteSets, FiniteSetsExt

CONSTANTS
  Workers,      \* request threads
  BookingIds,   \* identifiers for rows of bookings (never reused)
  RowIds,       \* identifiers for rows of booking_participants (never reused)
  Persons,      \* people with an active membership
  Guest,        \* a participant without a person_id
  Lines,        \* a tee together with a start lane: a line of the sheet
  Times,        \* slot_datetime values
  Courses,
  CourseLines,  \* lines with no tee (tee_id IS NULL)
  LineCourse,   \* the course a line's tee belongs to
  DayOf,        \* the local date of a slot_datetime
  Capacity,     \* player_capacity of <<line, time>>, or None
  Closed,       \* <<line, time>> whose slot state has one of the five flags set
  CourseHoles,  \* 9 or 18, per course
  HolesAsked,   \* what a request may ask for
  Parties,      \* the participants a request may list
  DayLimit,     \* max_bookings_per_day of the rule set
  FutureLimit,  \* max_future_bookings of the rule set
  None          \* SQL NULL, and the absent row

Statuses == {"reserved", "checked_in", "completed", "cancelled", "no_show"}
LiveStatuses == {"reserved", "checked_in"}

\* A worker without a request.
Idle == [op |-> "idle"]

Booking == [lead: Persons \union {Guest}, course: Courses, line: Lines, time: Times,
            status: Statuses, size: Nat, holes: {9, 18}]
Row == [booking: BookingIds \union {None}, person: Persons \union {Guest},
        primary: BOOLEAN]
Party == [people: SUBSET Persons, guests: Nat, lead: Persons \union {Guest}]

ASSUME ConstantsOK ==
  /\ LineCourse \in [Lines -> Courses]
  /\ CourseLines \subseteq Lines
  /\ Capacity \in [Lines \X Times -> Nat \union {None}]
  /\ Closed \subseteq Lines \X Times
  /\ CourseHoles \in [Courses -> {9, 18}]
  /\ HolesAsked \subseteq {9, 18}
  /\ DayLimit \in Nat /\ FutureLimit \in Nat
  /\ Guest \notin Persons
  /\ None \notin Nat \union BookingIds \union Booking \union Row
  /\ IsFiniteSet(RowIds) /\ IsFiniteSet(Persons)

\* The participant resolver and the request schema: a person appears once, one
\* participant is the primary one.
ASSUME PartiesOK ==
  \A p \in Parties :
    /\ p \in Party
    /\ IF p.lead = Guest THEN p.guests > 0 ELSE p.lead \in p.people

VARIABLES
  bookings,  \* BookingIds -> Booking, or None
  rows,      \* RowIds -> Row (booking None: deleted), or None
  audit,     \* BookingIds -> the status changes domain_event_records tells of
  jobs       \* Workers -> the request being served

vars == <<bookings, rows, audit, jobs>>

PartySize(p) == Cardinality(p.people) + p.guests

-------------------------------------------------------------------------------
(* What the queries return.                                                *)

Exists(b) == bookings[b] # None
IsLive(b) == Exists(b) /\ bookings[b].status \in LiveStatuses
IsRow(r) == rows[r] # None
Participants(b) == {r \in RowIds : IsRow(r) /\ rows[r].booking = b}

\* Live bookings of one slot: equal course, tee, lane and time.
LiveAt(course, line, time) ==
  {b \in BookingIds : /\ IsLive(b)
                      /\ bookings[b].course = course
                      /\ bookings[b].line = line
                      /\ bookings[b].time = time}

\* Occupancy as create and update count it: participant rows.
PlayersIn(bs) == Cardinality({r \in RowIds : IsRow(r) /\ rows[r].booking \in bs})

\* Occupancy as move counts it: party_size columns.
SizesOf(bs) == MapThenSumSet(LAMBDA b : bookings[b].size, bs)

\* A slot state is looked up under the booking's course: it is found only when
\* that is the course of the tee.
SlotCapacity(course, line, time) ==
  IF LineCourse[line] = course THEN Capacity[<<line, time>>] ELSE None
SlotOpen(course, line, time) ==
  ~ (LineCourse[line] = course /\ <<line, time>> \in Closed)

\* Live bookings a person takes part in, other than b.
BookingsOf(person, b) ==
  {x \in BookingIds \ {b} :
     IsLive(x) /\ \E r \in Participants(x) : rows[r].person = person}
BookingsOnDay(person, b, day) ==
  {x \in BookingsOf(person, b) : DayOf[bookings[x].time] = day}

\* resolve_booking_holes: a course of nine holes takes no booking of eighteen.
HolesFit(course, holes) == CourseHoles[course] = 9 => holes = 9

-------------------------------------------------------------------------------
(* Requests in progress. A job records what its session has read so far.   *)

CreateJob == [op: {"create"}, course: Courses,
              line: Lines, time: Times, holes: {9, 18},
              stage: {"slot", "limits", "commit"}, party: Parties]
UpdateJob == [op: {"update"}, holes: {9, 18},
              stage: {"slot", "limits", "commit"}, party: Parties, id: BookingIds,
              seen: Booking, loaded: SUBSET RowIds]
MoveJob == [op: {"move"}, line: Lines,
            time: Times, stage: {"slot", "commit"}, id: BookingIds, seen: Booking]
SplitJob == [op: {"split"}, line: Lines,
             time: Times, stage: {"slot", "commit"}, id: BookingIds,
             seen: Booking, loaded: SUBSET RowIds,
             primaries: SUBSET RowIds, player: RowIds]
TransitionJob == [op: {"transition"}, id: BookingIds,
                  from: Statuses, to: Statuses \ {"reserved"}]

Job == {Idle} \union CreateJob \union UpdateJob \union MoveJob
              \union SplitJob \union TransitionJob

Init ==
  /\ bookings = [b \in BookingIds |-> None]
  /\ rows = [r \in RowIds |-> None]
  /\ audit = [b \in BookingIds |-> << >>]
  /\ jobs = [w \in Workers |-> Idle]

Start(w, job) ==
  /\ jobs[w] = Idle
  /\ jobs' = [jobs EXCEPT ![w] = job]
  /\ UNCHANGED <<bookings, rows, audit>>

Advance(w, stage) ==
  /\ jobs' = [jobs EXCEPT ![w].stage = stage]
  /\ UNCHANGED <<bookings, rows, audit>>

Finish(w) == jobs' = [jobs EXCEPT ![w] = Idle]

-------------------------------------------------------------------------------
(* The first read of each handler.                                         *)

\* The tee has to belong to the course asked for.
BeginCreate(w) ==
  \E line \in Lines, time \in Times, party \in Parties, holes \in HolesAsked :
    /\ HolesFit(LineCourse[line], holes)
    /\ Start(w, [op |-> "create", course |-> LineCourse[line], line |-> line,
                 time |-> time, holes |-> holes, stage |-> "slot", party |-> party])

\* Only reserved bookings are edited.
BeginUpdate(w) ==
  \E b \in BookingIds, party \in Parties, holes \in HolesAsked :
    /\ Exists(b)
    /\ bookings[b].status = "reserved"
    /\ HolesFit(bookings[b].course, holes)
    /\ Start(w, [op |-> "update", holes |-> holes, stage |-> "slot", party |-> party,
                 id |-> b, seen |-> bookings[b], loaded |-> Participants(b)])

\* Mutant: the same-day check is missing.
TargetOnAnyDay(b, line, time) == <<line, time>> # <<bookings[b].line, bookings[b].time>>

\* Conditions move_booking puts on the target: something changes, the local day
\* does not, and a line without a tee cannot be asked for (NULL means "keep").
TargetAllowed(b, line, time) ==
  /\ <<line, time>> # <<bookings[b].line, bookings[b].time>>
  /\ DayOf[time] = DayOf[bookings[b].time]
  /\ line \in CourseLines =>
       /\ bookings[b].line \in CourseLines
       /\ LineCourse[line] = LineCourse[bookings[b].line]

\* A whole party moves when no player is named or the named one is alone.
BeginMove(w) ==
  \E b \in BookingIds, line \in Lines, time \in Times :
    /\ IsLive(b)
    /\ TargetAllowed(b, line, time)
    /\ Start(w, [op |-> "move", line |-> line, time |-> time, stage |-> "slot",
                 id |-> b, seen |-> bookings[b]])

\* One player of several moves: the booking will be split.
BeginSplit(w) ==
  \E b \in BookingIds, line \in Lines, time \in Times :
    /\ IsLive(b)
    /\ TargetAllowed(b, line, time)
    /\ Cardinality(Participants(b)) > 1
    /\ \E player \in Participants(b) :
         Start(w, [op |-> "split", line |-> line, time |-> time, stage |-> "slot",
                   id |-> b, seen |-> bookings[b], loaded |-> Participants(b),
                   primaries |-> {r \in Participants(b) : rows[r].primary},
                   player |-> player])

\* Mutants: a blocked-status set that lacks one status.
NoShowAfterCheckIn(to) == IF to \in {"completed", "no_show"} THEN "checked_in" ELSE "reserved"
CompleteFromReserved(to) == "reserved"

\* The statuses each lifecycle service lets through to its transition.
From(to) == IF to = "completed" THEN "checked_in" ELSE "reserved"

BeginTransition(w) ==
  \E b \in BookingIds, to \in Statuses \ {"reserved"} :
    /\ Exists(b)
    /\ bookings[b].status = From(to)
    /\ Start(w, [op |-> "transition", id |-> b, from |-> bookings[b].status, to |-> to])

-------------------------------------------------------------------------------
(* The later reads: the slot, then the limits.                             *)

\* Mutant: the players who are there already are not counted.
RoomForPartyOnly(party, course, line, time, excluded) ==
  /\ SlotCapacity(course, line, time) # None
  /\ PartySize(party) <= SlotCapacity(course, line, time)

\* Availability of the slot for create and update: open, of known capacity, and
\* with room for the whole party next to the others' participant rows.
RoomFor(party, course, line, time, excluded) ==
  /\ SlotOpen(course, line, time)
  /\ SlotCapacity(course, line, time) # None
  /\ PlayersIn(LiveAt(course, line, time) \ excluded) + PartySize(party)
       <= SlotCapacity(course, line, time)

\* _check_target_capacity: an unknown capacity is no limit.
RoomToMove(size, course, line, time, excluded) ==
  /\ SlotOpen(course, line, time)
  /\ SlotCapacity(course, line, time) # None =>
       SizesOf(LiveAt(course, line, time) \ excluded) + size
         <= SlotCapacity(course, line, time)

CheckSlot(w) ==
  LET j == jobs[w] IN
  \/ /\ j.op = "create" /\ j.stage = "slot"
     /\ RoomFor(j.party, j.course, j.line, j.time, {})
     /\ Advance(w, "limits")
  \/ /\ j.op = "update" /\ j.stage = "slot"
     /\ RoomFor(j.party, j.seen.course, j.seen.line, j.seen.time, {j.id})
     /\ Advance(w, "limits")
  \/ /\ j.op = "move" /\ j.stage = "slot"
     /\ RoomToMove(j.seen.size, j.seen.course, j.line, j.time, {j.id})
     /\ Advance(w, "commit")
  \/ /\ j.op = "split" /\ j.stage = "slot"
     /\ RoomToMove(1, j.seen.course, j.line, j.time, {j.id})
     /\ Advance(w, "commit")

\* Mutant: at the limit instead of below it.
UpToLimits(party, time, excluded) ==
  party.lead # Guest =>
    Cardinality(BookingsOnDay(party.lead, excluded, DayOf[time])) <= DayLimit

\* The limits count the bookings of the primary person only; a guest has none.
WithinLimits(party, time, excluded) ==
  party.lead # Guest =>
    /\ Cardinality(BookingsOnDay(party.lead, excluded, DayOf[time])) < DayLimit
    /\ Cardinality(BookingsOf(party.lead, excluded)) < FutureLimit

CheckLimits(w) ==
  LET j == jobs[w] IN
  /\ \/ /\ j.op = "create" /\ j.stage = "limits"
        /\ WithinLimits(j.party, j.time, None)
     \/ /\ j.op = "update" /\ j.stage = "limits"
        /\ WithinLimits(j.party, j.seen.time, j.id)
  /\ Advance(w, "commit")

\* Every refusal leaves the database as it was: the ones above, those for reasons
\* that are not in this model (booking window, time restriction, pricing rules,
\* an inactive tee), an exception, and a crash before the commit.
Abandon(w) ==
  /\ jobs[w] # Idle
  /\ Finish(w)
  /\ UNCHANGED <<bookings, rows, audit>>

-------------------------------------------------------------------------------
(* The commits.                                                            *)

\* Fresh participant rows of booking b for a party, one of them primary.
Roster(b, party, fresh, who) ==
  /\ Cardinality(fresh) = PartySize(party)
  /\ who \in [fresh -> party.people \union {Guest}]
  /\ \A p \in party.people : Cardinality({r \in fresh : who[r] = p}) = 1

Seated(b, party, removed, fresh, who, first) ==
  [r \in RowIds |->
     IF r \in fresh
       THEN [booking |-> b, person |-> who[r], primary |-> r = first]
     ELSE IF r \in removed THEN [rows[r] EXCEPT !.booking = None]
     ELSE rows[r]]

Seat(b, party, removed) ==
  \E fresh \in kSubset(PartySize(party), {r \in RowIds : ~ IsRow(r)}) :
  \E who \in [fresh -> party.people \union {Guest}] :
  \E first \in fresh :
    /\ Roster(b, party, fresh, who)
    /\ who[first] = party.lead
    /\ rows' = Seated(b, party, removed, fresh, who, first)

CommitCreate(w) ==
  LET j == jobs[w] IN
  /\ j.op = "create" /\ j.stage = "commit"
  /\ \E b \in BookingIds :
       /\ ~ Exists(b)
       /\ Seat(b, j.party, {})
       /\ bookings' = [bookings EXCEPT ![b] =
            [lead |-> j.party.lead, course |-> j.course, line |-> j.line,
             time |-> j.time, status |-> "reserved",
             size |-> PartySize(j.party), holes |-> j.holes]]
       /\ audit' = [audit EXCEPT ![b] = Append(@, <<None, "reserved">>)]
  /\ Finish(w)

\* The unit of work writes a column only when the new value differs from the
\* value the session loaded.
Written(new, seen, current) == IF new = seen THEN current ELSE new

\* Mutant: the whole row is written back as it was loaded.
WholeRowUpdated(j) ==
  [j.seen EXCEPT !.size = PartySize(j.party), !.lead = j.party.lead, !.holes = j.holes]

UpdatedRow(j) ==
  [bookings[j.id] EXCEPT
     !.size = Written(PartySize(j.party), j.seen.size, @),
     !.lead = Written(j.party.lead, j.seen.lead, @),
     !.holes = Written(j.holes, j.seen.holes, @)]

\* The loaded participants are deleted by id, whatever booking they are in now.
CommitUpdate(w) ==
  LET j == jobs[w] IN
  /\ j.op = "update" /\ j.stage = "commit"
  /\ Seat(j.id, j.party, j.loaded)
  /\ bookings' = [bookings EXCEPT ![j.id] = UpdatedRow(j)]
  /\ Finish(w)
  /\ UNCHANGED audit

\* Mutant: the whole row is written back as it was loaded.
WholeRowMoved(j) == [j.seen EXCEPT !.line = j.line, !.time = j.time]

MovedRow(j) ==
  [bookings[j.id] EXCEPT !.line = Written(j.line, j.seen.line, @),
                         !.time = Written(j.time, j.seen.time, @)]

CommitMove(w) ==
  LET j == jobs[w] IN
  /\ j.op = "move" /\ j.stage = "commit"
  /\ bookings' = [bookings EXCEPT ![j.id] = MovedRow(j)]
  /\ Finish(w)
  /\ UNCHANGED <<rows, audit>>

\* Mutants: the copy keeps the party's size; the copy has no primary person.
SplitWithPartySize(j) ==
  [j.seen EXCEPT !.line = j.line, !.time = j.time, !.lead = rows[j.player].person]
SplitWithoutLead(j) ==
  [j.seen EXCEPT !.line = j.line, !.time = j.time, !.size = 1, !.lead = None]

\* The new booking of a player who is moved alone: a copy of what was loaded, but
\* holes is not among the copied columns and takes its default.
SplitBooking(j) ==
  [j.seen EXCEPT !.line = j.line, !.time = j.time, !.size = 1,
                 !.lead = rows[j.player].person, !.holes = 18]

\* The players who stay are renumbered and the first of them is made primary; the
\* order of a party is not in this model, so any of them may be first. A row to
\* write that is gone fails the flush (then the job is abandoned).
CommitSplit(w) ==
  LET j == jobs[w]
      staying == j.loaded \ {j.player}
  IN
  /\ j.op = "split" /\ j.stage = "commit"
  /\ rows[j.player].booking # None
  /\ \E new \in BookingIds, first \in staying :
       LET rewritten == (j.primaries \ {j.player, first}) \union ({first} \ j.primaries) IN
       /\ ~ Exists(new)
       /\ \A r \in rewritten : rows[r].booking # None
       /\ rows' = [r \in RowIds |->
            CASE r = j.player -> [rows[r] EXCEPT !.booking = new, !.primary = TRUE]
              [] r \in rewritten -> [rows[r] EXCEPT !.primary = r = first]
              [] OTHER -> rows[r]]
       /\ bookings' = [bookings EXCEPT
            ![new] = SplitBooking(j),
            ![j.id].size = Written(Cardinality(staying), j.seen.size, @),
            ![j.id].lead = Written(rows[first].person, j.seen.lead, @)]
  /\ Finish(w)
  /\ UNCHANGED audit

Logged(j) == <<j.from, j.to>>

CommitTransition(w) ==
  LET j == jobs[w] IN
  /\ j.op = "transition"
  /\ bookings' = [bookings EXCEPT ![j.id].status = j.to]
  /\ audit' = [audit EXCEPT ![j.id] = Append(@, Logged(j))]
  /\ Finish(w)
  /\ UNCHANGED rows

Next ==
  \E w \in Workers :
    \/ BeginCreate(w) \/ BeginUpdate(w) \/ BeginMove(w)
    \/ BeginSplit(w) \/ BeginTransition(w)
    \/ CheckSlot(w) \/ CheckLimits(w) \/ Abandon(w)
    \/ CommitCreate(w) \/ CommitUpdate(w) \/ CommitMove(w)
    \/ CommitSplit(w) \/ CommitTransition(w)

Spec == Init /\ [][Next]_vars

-------------------------------------------------------------------------------
(* What must hold of the tee sheet.                                        *)

\* Every variable keeps its type: in particular a row of bookings is never left
\* half written and a party_size is a count.
TypeOK ==
  /\ bookings \in [BookingIds -> Booking \union {None}]
  /\ rows \in [RowIds -> Row \union {None}]
  /\ audit \in [BookingIds -> Seq((Statuses \union {None}) \X Statuses)]
  /\ jobs \in [Workers -> Job]

\* The players of the live bookings of a slot never outnumber its capacity: what
\* the availability check of create and update and the check of move are for.
CapacityRespected ==
  \A line \in Lines, time \in Times :
    LET capacity == Capacity[<<line, time>>] IN
    capacity # None =>
      PlayersIn(LiveAt(LineCourse[line], line, time)) <= capacity

\* No live booking is in a slot of its course that is blocked, held for a
\* competition or an event, or unavailable: neither create nor move enters one.
ClosedSlotsEmpty ==
  \A b \in BookingIds : IsLive(b) =>
    SlotOpen(bookings[b].course, bookings[b].line, bookings[b].time)

\* What the availability checks are for: no slot over its capacity, none that is shut
\* entered.
SlotsRespected == ClosedSlotsEmpty /\ CapacityRespected

\* party_size, which move counts, and the participant rows, which create and
\* update count, agree in every booking; and no booking is without players.
PartySizeIsRows ==
  \A b \in BookingIds : Exists(b) =>
    /\ bookings[b].size = Cardinality(Participants(b))
    /\ bookings[b].size > 0

\* One participant of a booking is the primary one, and it is the person the
\* booking is under, through every edit and split.
OnePrimary ==
  \A b \in BookingIds : Exists(b) =>
    \E r \in Participants(b) :
      /\ rows[r].primary
      /\ rows[r].person = bookings[b].lead
      /\ \A x \in Participants(b) \ {r} : ~ rows[x].primary

\* A person placed by create is not taken over the daily limit, counting also the
\* bookings where they only came along.
CreateWithinLimit ==
  [][\A b \in BookingIds :
       (~ Exists(b) /\ audit'[b] # << >> /\ bookings'[b].lead # Guest) =>
         Cardinality(BookingsOnDay(bookings[b].lead, None, DayOf[bookings[b].time]))'
           <= DayLimit]_vars

\* A booking keeps the local day it was made for: moves stay within the day.
DayNeverChanges ==
  [][\A b \in BookingIds :
       Exists(b) => DayOf[bookings'[b].time] = DayOf[bookings[b].time]]_vars

\* A booking that left reserved does not become reserved again, so a second
\* worker can at most replace one outcome by another.
NeverReservedAgain ==
  [][\A b \in BookingIds :
       (Exists(b) /\ bookings[b].status # "reserved") =>
          bookings'[b].status # "reserved"]_vars

\* The last status change in the audit log is the status of the booking, however
\* the commits of several workers interleave.
LogEndsInStatus ==
  \A b \in BookingIds : (Exists(b) /\ audit[b] # << >>) =>
    audit[b][Len(audit[b])][2] = bookings[b].status

\* Each status change the log tells of starts where the one before it ended.
LogIsAChain ==
  \A b \in BookingIds : \A i \in 1 .. (Len(audit[b]) - 1) :
    audit[b][i][2] = audit[b][i + 1][1]

\* What a booking says of itself agrees, its size with its players, its lead with the
\* primary of them, its log with itself.
BookingsConsistent == PartySizeIsRows /\ OnePrimary /\ LogIsAChain

\* A round that is completed was checked in, in this booking or in the one it was
\* split from.
CompletedWasCheckedIn ==
  \A b \in BookingIds : (Exists(b) /\ bookings[b].status = "completed") =>
    \E i \in 1 .. Len(audit[b]) :
      audit[b][i][2] = "checked_in" \/ (i = 1 /\ audit[b][i][1] = "checked_in")

\* The statuses follow the lifecycle the services promise.
StatusOf == [b \in BookingIds |-> IF Exists(b) THEN bookings[b].status ELSE None]
Lifecycle == INSTANCE BookingLifecycle
  WITH Bookings <- BookingIds, NotMade <- None, status <- StatusOf
FollowsLifecycle == Lifecycle!LifecycleSpec
===============================================================================
