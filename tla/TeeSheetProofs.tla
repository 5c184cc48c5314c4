---------------------------- MODULE TeeSheetProofs ----------------------------
(***************************************************************************)
(* Proofs about TeeSheet for any number of workers, bookings, players and  *)
(* slots: type correctness and the properties that survive every           *)
(* interleaving of requests.                                               *)
(***************************************************************************)
EXTENDS TeeSheet, FiniteSetTheorems, TLAPS

\* What a request in progress may rely on although others commit meanwhile: rows
\* are never taken out of the tables, and a booking keeps its local day.
JobKnown(j) ==
  /\ j.op \in {"update", "move", "split", "transition"} => Exists(j.id)
  /\ j.op \in {"update", "split"} => \A r \in j.loaded : IsRow(r)
  /\ j.op = "split" => j.player \in j.loaded /\ j.primaries \subseteq j.loaded
  /\ j.op \in {"move", "split"} => DayOf[j.time] = DayOf[bookings[j.id].time]

JobsKnown == \A w \in Workers : JobKnown(jobs[w])

\* Nothing is logged of a booking that was not made.
LogOfMade == \A b \in BookingIds : ~ Exists(b) => audit[b] = << >>

IInv == TypeOK /\ JobsKnown /\ LogOfMade /\ LogEndsInStatus

-------------------------------------------------------------------------------
(* Facts about the data.                                                   *)

\* The size of a party a request may list is a number.
LEMMA PartySizeNat ==
  ASSUME NEW p \in Parties
  PROVE  PartySize(p) \in Nat
<1>1. p \in Party BY PartiesOK
<1>2. IsFiniteSet(p.people) BY <1>1, ConstantsOK, FS_Subset DEF Party
<1>3. Cardinality(p.people) \in Nat BY <1>2, FS_CardinalityType
<1> QED BY <1>1, <1>3 DEF PartySize, Party

\* The number of participant rows in a set is a number.
LEMMA RowCountNat ==
  ASSUME NEW S \in SUBSET RowIds
  PROVE  Cardinality(S) \in Nat
BY ConstantsOK, FS_Subset, FS_CardinalityType

\* The absent row is neither a booking nor a participant.
LEMMA NoneIsNothing == None \notin Booking /\ None \notin Row /\ None \notin BookingIds
BY ConstantsOK

\* The operation of a job tells which fields it has.
LEMMA JobKinds ==
  ASSUME NEW j \in Job
  PROVE  /\ j.op = "idle" => j = Idle
         /\ j.op = "create" => j \in CreateJob
         /\ j.op = "update" => j \in UpdateJob
         /\ j.op = "move" => j \in MoveJob
         /\ j.op = "split" => j \in SplitJob
         /\ j.op = "transition" => j \in TransitionJob
BY DEF Job, Idle, CreateJob, UpdateJob, MoveJob, SplitJob, TransitionJob

\* Seating a party leaves a row, or nothing, under every row id, and keeps the rows
\* that were there.
LEMMA SeatTyped ==
  ASSUME TypeOK, NEW b \in BookingIds, NEW party \in Parties,
         NEW removed \in SUBSET RowIds, \A r \in removed : IsRow(r),
         Seat(b, party, removed)
  PROVE  /\ rows' \in [RowIds -> Row \union {None}]
         /\ \A r \in RowIds : IsRow(r) => IsRow(r)'
<1>1. party \in Party BY PartiesOK
<1>2. PICK fresh \in kSubset(PartySize(party), {r \in RowIds : ~ IsRow(r)}) :
        \E who \in [fresh -> party.people \union {Guest}] : \E first \in fresh :
          rows' = Seated(b, party, removed, fresh, who, first)
  BY DEF Seat
<1>3. PICK who \in [fresh -> party.people \union {Guest}] : \E first \in fresh :
        rows' = Seated(b, party, removed, fresh, who, first)
  BY <1>2
<1>4. PICK first \in fresh : rows' = Seated(b, party, removed, fresh, who, first)
  BY <1>3
<1>5. fresh \subseteq RowIds BY DEF kSubset
<1>6. ASSUME NEW r \in RowIds
      PROVE  rows'[r] \in Row \union {None} /\ (IsRow(r) => rows'[r] \in Row)
  <2>1. CASE r \in fresh
    <3>1. who[r] \in Persons \union {Guest} BY <1>1, <2>1 DEF Party
    <3>2. rows'[r] = [booking |-> b, person |-> who[r], primary |-> r = first]
      BY <1>4, <2>1 DEF Seated
    <3>3. (r = first) \in BOOLEAN OBVIOUS
    <3> QED BY <3>1, <3>2, <3>3 DEF Row
  <2>2. CASE r \notin fresh /\ r \in removed
    <3>1. rows[r] \in Row BY <2>2 DEF TypeOK, IsRow
    <3>2. rows'[r] = [rows[r] EXCEPT !.booking = None] BY <1>4, <2>2 DEF Seated
    <3> QED BY <3>1, <3>2 DEF Row
  <2>3. CASE r \notin fresh /\ r \notin removed
    BY <1>4, <2>3 DEF Seated, TypeOK, IsRow
  <2> QED BY <2>1, <2>2, <2>3
<1>7. rows' = [r \in RowIds |-> rows'[r]] BY <1>4 DEF Seated
<1> QED BY <1>6, <1>7, NoneIsNothing DEF IsRow

-------------------------------------------------------------------------------
(* Requests that read: only jobs changes.                                  *)

\* What every step keeps of the tables: what is made stays, and so does the day of a
\* booking and that it has left reserved.
Kept ==
  /\ \A b \in BookingIds : Exists(b) =>
       /\ Exists(b)'
       /\ DayOf[bookings'[b].time] = DayOf[bookings[b].time]
       /\ bookings'[b].status = "reserved" => bookings[b].status = "reserved"
  /\ \A r \in RowIds : IsRow(r) => IsRow(r)'

\* A job whose reads are known stays known over any step that keeps the tables.
LEMMA KnownStays ==
  ASSUME Kept, NEW j \in Job, JobKnown(j)
  PROVE  JobKnown(j)'
<1>1. CASE j.op \notin {"update", "move", "split", "transition"}
  BY <1>1 DEF JobKnown
<1>2. CASE j.op = "update"
  <2>1. j.id \in BookingIds /\ j.loaded \subseteq RowIds
    BY <1>2, JobKinds DEF UpdateJob
  <2> QED BY <1>2, <2>1 DEF JobKnown, Kept
<1>3. CASE j.op = "move"
  <2>1. j.id \in BookingIds BY <1>3, JobKinds DEF MoveJob
  <2> QED BY <1>3, <2>1 DEF JobKnown, Kept
<1>4. CASE j.op = "split"
  <2>1. j.id \in BookingIds /\ j.loaded \subseteq RowIds
    BY <1>4, JobKinds DEF SplitJob
  <2> QED BY <1>4, <2>1 DEF JobKnown, Kept
<1>5. CASE j.op = "transition"
  <2>1. j.id \in BookingIds BY <1>5, JobKinds DEF TransitionJob
  <2> QED BY <1>5, <2>1 DEF JobKnown, Kept
<1> QED BY <1>1, <1>2, <1>3, <1>4, <1>5

\* When a step keeps the tables and gives one worker a known job, all are known.
LEMMA JobsStayKnown ==
  ASSUME TypeOK, JobsKnown, Kept, NEW w \in Workers, NEW job \in Job,
         JobKnown(job), jobs' = [jobs EXCEPT ![w] = job]
  PROVE  JobsKnown' /\ jobs' \in [Workers -> Job]
<1>1. ASSUME NEW v \in Workers PROVE JobKnown(jobs[v])'
  <2>1. CASE v = w
    <3>1. JobKnown(job)' BY KnownStays
    <3> QED BY <2>1, <3>1 DEF TypeOK, JobKnown
  <2>2. CASE v # w
    <3>1. jobs'[v] = jobs[v] BY <2>2 DEF TypeOK
    <3>2. JobKnown(jobs[v]) /\ jobs[v] \in Job BY DEF JobsKnown, TypeOK
    <3> DEFINE j == jobs[v]
    <3>3. \A k \in Job : JobKnown(k) => JobKnown(k)' BY KnownStays
    <3> QED BY <3>1, <3>2, <3>3 DEF JobKnown
  <2> QED BY <2>1, <2>2
<1> QED BY <1>1 DEF JobsKnown, TypeOK

\* A request that starts, goes on, or ends without a commit.
LEMMA ReadKeepsInv ==
  ASSUME IInv, NEW w \in Workers, NEW job \in Job, JobKnown(job),
         jobs' = [jobs EXCEPT ![w] = job], UNCHANGED <<bookings, rows, audit>>
  PROVE  IInv' /\ Kept
<1>1. Kept BY DEF Kept, Exists, IsRow
<1>2. JobsKnown' /\ jobs' \in [Workers -> Job]
  BY <1>1, JobsStayKnown DEF IInv
<1>3. TypeOK' BY <1>2 DEF IInv, TypeOK
<1> QED BY <1>1, <1>2, <1>3 DEF IInv, LogOfMade, LogEndsInStatus, Exists

LEMMA IdleKnown == Idle \in Job /\ JobKnown(Idle)
BY DEF Idle, Job, JobKnown

LEMMA StartKeepsInv ==
  ASSUME IInv, NEW w \in Workers, NEW job \in Job, JobKnown(job), Start(w, job)
  PROVE  IInv' /\ Kept
BY ReadKeepsInv DEF Start

LEMMA BeginCreateInv ==
  ASSUME IInv, NEW w \in Workers, BeginCreate(w)
  PROVE  IInv' /\ Kept
<1>1. PICK line \in Lines, time \in Times, party \in Parties, holes \in HolesAsked :
        Start(w, [op |-> "create", stage |-> "slot", course |-> LineCourse[line],
                  line |-> line, time |-> time, party |-> party, holes |-> holes])
  BY DEF BeginCreate
<1> DEFINE job == [op |-> "create", stage |-> "slot", course |-> LineCourse[line],
                   line |-> line, time |-> time, party |-> party, holes |-> holes]
<1>2. job \in Job BY ConstantsOK DEF Job, CreateJob
<1>3. JobKnown(job) BY DEF JobKnown
<1> HIDE DEF job
<1>4. Start(w, job) BY <1>1 DEF job
<1> QED BY <1>2, <1>3, <1>4, StartKeepsInv

LEMMA BeginUpdateInv ==
  ASSUME IInv, NEW w \in Workers, BeginUpdate(w)
  PROVE  IInv' /\ Kept
<1>1. PICK b \in BookingIds, party \in Parties, holes \in HolesAsked :
        /\ Exists(b)
        /\ Start(w, [op |-> "update", stage |-> "slot", id |-> b,
                     seen |-> bookings[b], loaded |-> Participants(b),
                     party |-> party, holes |-> holes])
  BY DEF BeginUpdate
<1> DEFINE job == [op |-> "update", stage |-> "slot", id |-> b,
                   seen |-> bookings[b], loaded |-> Participants(b),
                   party |-> party, holes |-> holes]
<1>2. bookings[b] \in Booking BY <1>1 DEF IInv, TypeOK, Exists
<1>3. job \in Job BY <1>2, ConstantsOK DEF Job, UpdateJob, Participants
<1>4. JobKnown(job) BY <1>1 DEF JobKnown, Participants
<1> HIDE DEF job
<1>5. Start(w, job) BY <1>1 DEF job
<1> QED BY <1>3, <1>4, <1>5, StartKeepsInv

LEMMA BeginMoveInv ==
  ASSUME IInv, NEW w \in Workers, BeginMove(w)
  PROVE  IInv' /\ Kept
<1>1. PICK b \in BookingIds, line \in Lines, time \in Times :
        /\ IsLive(b)
        /\ TargetAllowed(b, line, time)
        /\ Start(w, [op |-> "move", stage |-> "slot", id |-> b,
                     seen |-> bookings[b], line |-> line, time |-> time])
  BY DEF BeginMove
<1> DEFINE job == [op |-> "move", stage |-> "slot", id |-> b,
                   seen |-> bookings[b], line |-> line, time |-> time]
<1>2. Exists(b) /\ bookings[b] \in Booking BY <1>1 DEF IInv, TypeOK, Exists, IsLive
<1>3. job \in Job BY <1>2 DEF Job, MoveJob
<1>4. JobKnown(job) BY <1>1, <1>2 DEF JobKnown, TargetAllowed
<1> HIDE DEF job
<1>5. Start(w, job) BY <1>1 DEF job
<1> QED BY <1>3, <1>4, <1>5, StartKeepsInv

LEMMA BeginSplitInv ==
  ASSUME IInv, NEW w \in Workers, BeginSplit(w)
  PROVE  IInv' /\ Kept
<1>1. PICK b \in BookingIds, line \in Lines, time \in Times :
        /\ IsLive(b)
        /\ TargetAllowed(b, line, time)
        /\ \E player \in Participants(b) :
             Start(w, [op |-> "split", stage |-> "slot", id |-> b,
                       seen |-> bookings[b], loaded |-> Participants(b),
                       primaries |-> {r \in Participants(b) : rows[r].primary},
                       player |-> player, line |-> line, time |-> time])
  BY DEF BeginSplit
<1>2. PICK player \in Participants(b) :
        Start(w, [op |-> "split", stage |-> "slot", id |-> b,
                  seen |-> bookings[b], loaded |-> Participants(b),
                  primaries |-> {r \in Participants(b) : rows[r].primary},
                  player |-> player, line |-> line, time |-> time])
  BY <1>1
<1> DEFINE job == [op |-> "split", stage |-> "slot", id |-> b,
                   seen |-> bookings[b], loaded |-> Participants(b),
                   primaries |-> {r \in Participants(b) : rows[r].primary},
                   player |-> player, line |-> line, time |-> time]
<1>3. Exists(b) /\ bookings[b] \in Booking BY <1>1 DEF IInv, TypeOK, Exists, IsLive
<1>4. /\ Participants(b) \subseteq RowIds
      /\ \A r \in Participants(b) : IsRow(r)
  BY DEF Participants
<1>5. job \in Job
  <2>1. {r \in Participants(b) : rows[r].primary} \subseteq RowIds BY <1>4
  <2>2. player \in RowIds BY <1>4
  <2> QED BY <1>3, <1>4, <2>1, <2>2 DEF Job, SplitJob
<1>6. JobKnown(job)
  <2>1. DayOf[time] = DayOf[bookings[b].time] BY <1>1 DEF TargetAllowed
  <2> QED BY <1>3, <1>4, <2>1 DEF JobKnown
<1> HIDE DEF job
<1>7. Start(w, job) BY <1>2 DEF job
<1> QED BY <1>5, <1>6, <1>7, StartKeepsInv

LEMMA BeginTransitionInv ==
  ASSUME IInv, NEW w \in Workers, BeginTransition(w)
  PROVE  IInv' /\ Kept
<1>1. PICK b \in BookingIds, to \in Statuses \ {"reserved"} :
        /\ Exists(b)
        /\ Start(w, [op |-> "transition", id |-> b,
                     from |-> bookings[b].status, to |-> to])
  BY DEF BeginTransition
<1> DEFINE job == [op |-> "transition", id |-> b,
                   from |-> bookings[b].status, to |-> to]
<1>2. bookings[b] \in Booking BY <1>1 DEF IInv, TypeOK, Exists
<1>3. job \in Job BY <1>2 DEF Job, TransitionJob, Booking
<1>4. JobKnown(job) BY <1>1 DEF JobKnown
<1> HIDE DEF job
<1>5. Start(w, job) BY <1>1 DEF job
<1> QED BY <1>3, <1>4, <1>5, StartKeepsInv

\* A job that goes on to its next stage is still a job, and known.
LEMMA AdvanceInv ==
  ASSUME IInv, NEW w \in Workers, NEW stage \in {"limits", "commit"},
         jobs[w].op \in {"create", "update", "move", "split"},
         stage = "limits" => jobs[w].op \in {"create", "update"},
         Advance(w, stage)
  PROVE  IInv' /\ Kept
<1> DEFINE job == [jobs[w] EXCEPT !.stage = stage]
<1>1. jobs[w] \in Job /\ JobKnown(jobs[w]) BY DEF IInv, TypeOK, JobsKnown
<1>2. job \in Job /\ JobKnown(job)
  <2>1. CASE jobs[w].op = "create"
    <3>1. jobs[w] \in CreateJob BY <1>1, <2>1, JobKinds
    <3> QED BY <2>1, <3>1 DEF Job, CreateJob, JobKnown
  <2>2. CASE jobs[w].op = "update"
    <3>1. jobs[w] \in UpdateJob BY <1>1, <2>2, JobKinds
    <3> QED BY <1>1, <2>2, <3>1 DEF Job, UpdateJob, JobKnown
  <2>3. CASE jobs[w].op = "move"
    <3>1. jobs[w] \in MoveJob /\ stage = "commit" BY <1>1, <2>3, JobKinds
    <3> QED BY <1>1, <2>3, <3>1 DEF Job, MoveJob, JobKnown
  <2>4. CASE jobs[w].op = "split"
    <3>1. jobs[w] \in SplitJob /\ stage = "commit" BY <1>1, <2>4, JobKinds
    <3> QED BY <1>1, <2>4, <3>1 DEF Job, SplitJob, JobKnown
  <2> QED BY <2>1, <2>2, <2>3, <2>4
<1>3. jobs' = [jobs EXCEPT ![w] = job] BY DEF Advance, IInv, TypeOK
<1> HIDE DEF job
<1> QED BY <1>2, <1>3, ReadKeepsInv DEF Advance

LEMMA CheckSlotInv ==
  ASSUME IInv, NEW w \in Workers, CheckSlot(w)
  PROVE  IInv' /\ Kept
BY AdvanceInv DEF CheckSlot

LEMMA CheckLimitsInv ==
  ASSUME IInv, NEW w \in Workers, CheckLimits(w)
  PROVE  IInv' /\ Kept
BY AdvanceInv DEF CheckLimits

LEMMA AbandonInv ==
  ASSUME IInv, NEW w \in Workers, Abandon(w)
  PROVE  IInv' /\ Kept
BY IdleKnown, ReadKeepsInv DEF Abandon, Finish

-------------------------------------------------------------------------------
(* The commits.                                                            *)

\* A commit that keeps the tables and the log in order leaves the other jobs known.
LEMMA CommitKeepsInv ==
  ASSUME IInv, NEW w \in Workers, Finish(w), Kept,
         bookings' \in [BookingIds -> Booking \union {None}],
         rows' \in [RowIds -> Row \union {None}],
         audit' \in [BookingIds -> Seq((Statuses \union {None}) \X Statuses)],
         LogOfMade', LogEndsInStatus'
  PROVE  IInv' /\ Kept
<1>1. JobsKnown' /\ jobs' \in [Workers -> Job]
  BY IdleKnown, JobsStayKnown DEF Finish, IInv
<1> QED BY <1>1 DEF IInv, TypeOK

\* A log that gains an entry is typed and ends in the status of that entry.
LEMMA LogGrows ==
  ASSUME TypeOK, NEW b \in BookingIds, NEW from \in Statuses \union {None},
         NEW to \in Statuses, audit' = [audit EXCEPT ![b] = Append(@, <<from, to>>)]
  PROVE  /\ audit' \in [BookingIds -> Seq((Statuses \union {None}) \X Statuses)]
         /\ audit'[b][Len(audit'[b])][2] = to
         /\ audit'[b] # << >>
         /\ \A x \in BookingIds \ {b} : audit'[x] = audit[x]
<1> DEFINE E == (Statuses \union {None}) \X Statuses
<1>1. audit \in [BookingIds -> Seq(E)] BY DEF TypeOK
<1>2. <<from, to>> \in E OBVIOUS
<1>3. audit'[b] = Append(audit[b], <<from, to>>) BY <1>1
<1> HIDE DEF E
<1>4. audit[b] \in Seq(E) BY <1>1
<1>5. /\ Append(audit[b], <<from, to>>) \in Seq(E)
      /\ Len(Append(audit[b], <<from, to>>)) = Len(audit[b]) + 1
      /\ Append(audit[b], <<from, to>>)[Len(audit[b]) + 1] = <<from, to>>
      /\ Len(audit[b]) \in Nat
  BY <1>2, <1>4
<1>6. audit'[b] # << >> BY <1>3, <1>5
<1>7. audit' \in [BookingIds -> Seq(E)] BY <1>1, <1>3, <1>5
<1> QED BY <1>1, <1>3, <1>5, <1>6, <1>7 DEF E

LEMMA CommitCreateInv ==
  ASSUME IInv, NEW w \in Workers, CommitCreate(w)
  PROVE  IInv' /\ Kept
<1> DEFINE j == jobs[w]
<1>1. j \in CreateJob BY JobKinds DEF IInv, TypeOK, CommitCreate
<1>2. j.party \in Parties /\ j.party \in Party BY <1>1, PartiesOK DEF CreateJob
<1> DEFINE made == [course |-> j.course, line |-> j.line, time |-> j.time,
                    status |-> "reserved", size |-> PartySize(j.party),
                    lead |-> j.party.lead, holes |-> j.holes]
<1>3. PICK b \in BookingIds :
        /\ ~ Exists(b)
        /\ Seat(b, j.party, {})
        /\ bookings' = [bookings EXCEPT ![b] = made]
        /\ audit' = [audit EXCEPT ![b] = Append(@, <<None, "reserved">>)]
  BY DEF CommitCreate
<1>4. made \in Booking
  BY <1>1, <1>2, PartySizeNat DEF CreateJob, Party, Booking, Statuses
<1>5. made.status = "reserved" OBVIOUS
<1> HIDE DEF made
<1>6. bookings' \in [BookingIds -> Booking \union {None}]
  BY <1>3, <1>4 DEF IInv, TypeOK
<1>7. bookings'[b] = made /\ \A x \in BookingIds \ {b} : bookings'[x] = bookings[x]
  BY <1>3 DEF IInv, TypeOK
<1>8. /\ rows' \in [RowIds -> Row \union {None}]
      /\ \A r \in RowIds : IsRow(r) => IsRow(r)'
  BY <1>2, <1>3, SeatTyped DEF IInv
<1>9. /\ audit' \in [BookingIds -> Seq((Statuses \union {None}) \X Statuses)]
      /\ audit'[b][Len(audit'[b])][2] = "reserved"
      /\ \A x \in BookingIds \ {b} : audit'[x] = audit[x]
  BY <1>3, LogGrows DEF IInv, Statuses
<1>10. Kept BY <1>3, <1>7, <1>8 DEF Kept, Exists
<1>11. LogOfMade' BY <1>4, <1>7, <1>9, NoneIsNothing DEF IInv, LogOfMade, Exists
<1>12. LogEndsInStatus'
  BY <1>5, <1>7, <1>9 DEF IInv, LogEndsInStatus, Exists
<1>13. Finish(w) BY DEF CommitCreate
<1> QED BY <1>6, <1>8, <1>9, <1>10, <1>11, <1>12, <1>13, CommitKeepsInv

\* A booking that is rewritten in place, its status and its day kept, with the log
\* as it was.
LEMMA RewriteInv ==
  ASSUME IInv, NEW w \in Workers, Finish(w), UNCHANGED audit,
         NEW b \in BookingIds, Exists(b), NEW new \in Booking,
         bookings' = [bookings EXCEPT ![b] = new],
         new.status = bookings[b].status,
         DayOf[new.time] = DayOf[bookings[b].time],
         rows' \in [RowIds -> Row \union {None}],
         \A r \in RowIds : IsRow(r) => IsRow(r)'
  PROVE  IInv' /\ Kept
<1>1. bookings'[b] = new /\ \A x \in BookingIds \ {b} : bookings'[x] = bookings[x]
  BY DEF IInv, TypeOK
<1>2. bookings' \in [BookingIds -> Booking \union {None}] BY DEF IInv, TypeOK
<1>3. Kept BY <1>1, NoneIsNothing DEF Kept, Exists
<1>4. LogOfMade' BY <1>1, NoneIsNothing DEF IInv, LogOfMade, Exists
<1>5. LogEndsInStatus' BY <1>1 DEF IInv, LogEndsInStatus, Exists
<1>6. audit' \in [BookingIds -> Seq((Statuses \union {None}) \X Statuses)]
  BY DEF IInv, TypeOK
<1> QED BY <1>2, <1>3, <1>4, <1>5, <1>6, CommitKeepsInv

LEMMA CommitUpdateInv ==
  ASSUME IInv, NEW w \in Workers, CommitUpdate(w)
  PROVE  IInv' /\ Kept
<1> DEFINE j == jobs[w]
<1>1. j \in UpdateJob BY JobKinds DEF IInv, TypeOK, CommitUpdate
<1>2. j.party \in Parties /\ j.party \in Party BY <1>1, PartiesOK DEF UpdateJob
<1>3. Exists(j.id) /\ \A r \in j.loaded : IsRow(r)
  BY <1>1 DEF IInv, JobsKnown, JobKnown, UpdateJob
<1>4. j.id \in BookingIds /\ j.loaded \subseteq RowIds BY <1>1 DEF UpdateJob
<1>5. bookings[j.id] \in Booking BY <1>3, <1>4 DEF IInv, TypeOK, Exists
<1> DEFINE new == UpdatedRow(j)
<1>6. /\ new \in Booking
      /\ new.status = bookings[j.id].status
      /\ new.time = bookings[j.id].time
  BY <1>1, <1>2, <1>5, PartySizeNat
     DEF UpdatedRow, Written, Booking, UpdateJob, Party
<1> HIDE DEF new
<1>7. bookings' = [bookings EXCEPT ![j.id] = new] BY DEF CommitUpdate, new
<1>8. /\ rows' \in [RowIds -> Row \union {None}]
      /\ \A r \in RowIds : IsRow(r) => IsRow(r)'
  BY <1>2, <1>3, <1>4, SeatTyped DEF IInv, CommitUpdate
<1>9. Finish(w) /\ UNCHANGED audit BY DEF CommitUpdate
<1> HIDE DEF j
<1> QED BY <1>3, <1>4, <1>6, <1>7, <1>8, <1>9, RewriteInv

LEMMA CommitMoveInv ==
  ASSUME IInv, NEW w \in Workers, CommitMove(w)
  PROVE  IInv' /\ Kept
<1> DEFINE j == jobs[w]
<1>1. j \in MoveJob BY JobKinds DEF IInv, TypeOK, CommitMove
<1>2. Exists(j.id) /\ DayOf[j.time] = DayOf[bookings[j.id].time]
  BY <1>1 DEF IInv, JobsKnown, JobKnown, MoveJob
<1>3. j.id \in BookingIds BY <1>1 DEF MoveJob
<1>4. bookings[j.id] \in Booking BY <1>2, <1>3 DEF IInv, TypeOK, Exists
<1> DEFINE new == MovedRow(j)
<1>5. /\ new \in Booking
      /\ new.status = bookings[j.id].status
      /\ new.time = bookings[j.id].time \/ new.time = j.time
  BY <1>1, <1>4 DEF MovedRow, Written, Booking, MoveJob
<1> HIDE DEF new
<1>6. bookings' = [bookings EXCEPT ![j.id] = new] BY DEF CommitMove, new
<1>7. /\ rows' \in [RowIds -> Row \union {None}]
      /\ \A r \in RowIds : IsRow(r) => IsRow(r)'
  BY DEF IInv, TypeOK, CommitMove, IsRow
<1>8. Finish(w) /\ UNCHANGED audit BY DEF CommitMove
<1>9. DayOf[new.time] = DayOf[bookings[j.id].time] BY <1>2, <1>5
<1> HIDE DEF j
<1> QED BY <1>2, <1>3, <1>5, <1>6, <1>7, <1>8, <1>9, RewriteInv

LEMMA CommitSplitInv ==
  ASSUME IInv, NEW w \in Workers, CommitSplit(w)
  PROVE  IInv' /\ Kept
<1> DEFINE j == jobs[w]
           staying == j.loaded \ {j.player}
<1>1. j \in SplitJob BY JobKinds DEF IInv, TypeOK, CommitSplit
<1>2. /\ j.id \in BookingIds /\ j.loaded \subseteq RowIds
      /\ j.player \in RowIds
  BY <1>1 DEF SplitJob
<1>3. /\ Exists(j.id) /\ j.player \in j.loaded /\ j.primaries \subseteq j.loaded
      /\ \A r \in j.loaded : IsRow(r)
      /\ DayOf[j.time] = DayOf[bookings[j.id].time]
  BY <1>1 DEF IInv, JobsKnown, JobKnown, SplitJob
<1>4. PICK new \in BookingIds, first \in staying :
        LET rewritten == (j.primaries \ {j.player, first}) \union ({first} \ j.primaries) IN
        /\ ~ Exists(new)
        /\ rows' = [r \in RowIds |->
             CASE r = j.player -> [rows[r] EXCEPT !.booking = new, !.primary = TRUE]
               [] r \in rewritten -> [rows[r] EXCEPT !.primary = r = first]
               [] OTHER -> rows[r]]
        /\ bookings' = [bookings EXCEPT
             ![new] = SplitBooking(j),
             ![j.id].size = Written(Cardinality(staying), j.seen.size, @),
             ![j.id].lead = Written(rows[first].person, j.seen.lead, @)]
        /\ \A r \in rewritten : rows[r].booking # None
  BY DEF CommitSplit
<1>5. rows[j.player] \in Row /\ rows[first] \in Row
  BY <1>2, <1>3, <1>4 DEF IInv, TypeOK, IsRow
<1>6. bookings[j.id] \in Booking BY <1>2, <1>3 DEF IInv, TypeOK, Exists
<1>7. new # j.id BY <1>3, <1>4
<1>8. SplitBooking(j) \in Booking
  BY <1>1, <1>5 DEF SplitBooking, SplitJob, Booking, Row
<1> DEFINE kept == [bookings[j.id] EXCEPT
                      !.size = Written(Cardinality(staying), j.seen.size, @),
                      !.lead = Written(rows[first].person, j.seen.lead, @)]
<1>9. Cardinality(staying) \in Nat BY <1>2, RowCountNat
<1>10. /\ kept \in Booking
       /\ kept.status = bookings[j.id].status
       /\ kept.time = bookings[j.id].time
  BY <1>1, <1>5, <1>6, <1>9 DEF Written, Booking, Row
<1>11. /\ bookings'[new] = SplitBooking(j)
       /\ bookings'[j.id] = kept
       /\ \A x \in BookingIds \ {new, j.id} : bookings'[x] = bookings[x]
       /\ DOMAIN bookings' = BookingIds
       /\ bookings' = [x \in BookingIds |-> bookings'[x]]
  BY <1>2, <1>4, <1>7 DEF IInv, TypeOK
<1> HIDE DEF kept
<1>12. bookings' \in [BookingIds -> Booking \union {None}]
  <2>1. \A x \in BookingIds : bookings'[x] \in Booking \union {None}
    BY <1>8, <1>10, <1>11 DEF IInv, TypeOK
  <2> QED BY <1>11, <2>1
<1>13. ASSUME NEW r \in RowIds
       PROVE  rows'[r] \in Row \union {None} /\ (IsRow(r) => rows'[r] \in Row)
  <2> DEFINE rewritten == (j.primaries \ {j.player, first}) \union ({first} \ j.primaries)
  <2>1. CASE r = j.player
    <3>1. rows'[r] = [rows[r] EXCEPT !.booking = new, !.primary = TRUE]
      BY <1>4, <2>1
    <3> QED BY <1>5, <2>1, <3>1 DEF Row
  <2>2. CASE r # j.player /\ r \in rewritten
    <3>1. rows'[r] = [rows[r] EXCEPT !.primary = r = first] BY <1>4, <2>2
    <3>2. rows[r] \in Row \union {None} BY DEF IInv, TypeOK
    <3>3. (r = first) \in BOOLEAN OBVIOUS
    <3>4. rows[r] \in Row
      <4>1. CASE r = first BY <1>5, <4>1
      <4>2. CASE r # first BY <1>3, <2>2, <4>2 DEF IInv, TypeOK, IsRow
      <4> QED BY <4>1, <4>2
    <3> QED BY <3>1, <3>3, <3>4 DEF Row
  <2>3. CASE r # j.player /\ r \notin rewritten
    BY <1>4, <2>3 DEF IInv, TypeOK, IsRow
  <2> QED BY <2>1, <2>2, <2>3
<1>14. /\ rows' \in [RowIds -> Row \union {None}]
       /\ \A r \in RowIds : IsRow(r) => IsRow(r)'
  <2>1. rows' = [r \in RowIds |-> rows'[r]] BY <1>4
  <2> QED BY <1>13, <2>1, NoneIsNothing DEF IsRow
<1>15. Kept BY <1>4, <1>6, <1>8, <1>10, <1>11, <1>14, NoneIsNothing DEF Kept, Exists
<1>16. audit' = audit /\ audit[new] = << >>
  BY <1>4 DEF CommitSplit, IInv, LogOfMade
<1>17. LogOfMade'
  BY <1>3, <1>8, <1>10, <1>11, <1>16, NoneIsNothing DEF IInv, LogOfMade, Exists
<1>18. LogEndsInStatus'
  BY <1>3, <1>8, <1>10, <1>11, <1>16 DEF IInv, LogEndsInStatus, Exists
<1>19. Finish(w) BY DEF CommitSplit
<1>20. audit' \in [BookingIds -> Seq((Statuses \union {None}) \X Statuses)]
  BY <1>16 DEF IInv, TypeOK
<1> HIDE DEF j, staying
<1> QED BY <1>12, <1>14, <1>15, <1>17, <1>18, <1>19, <1>20, CommitKeepsInv

LEMMA CommitTransitionInv ==
  ASSUME IInv, NEW w \in Workers, CommitTransition(w)
  PROVE  IInv' /\ Kept
<1> DEFINE j == jobs[w]
<1>1. j \in TransitionJob BY JobKinds DEF IInv, TypeOK, CommitTransition
<1>2. j.id \in BookingIds /\ j.from \in Statuses /\ j.to \in Statuses
  BY <1>1 DEF TransitionJob
<1>3. Exists(j.id) BY <1>1 DEF IInv, JobsKnown, JobKnown, TransitionJob
<1>4. bookings[j.id] \in Booking BY <1>2, <1>3 DEF IInv, TypeOK, Exists
<1> DEFINE new == [bookings[j.id] EXCEPT !.status = j.to]
<1>5. new \in Booking /\ new.status = j.to /\ new.time = bookings[j.id].time
  BY <1>2, <1>4 DEF Booking
<1>6. bookings' = [bookings EXCEPT ![j.id] = new] BY DEF CommitTransition, IInv, TypeOK
<1> HIDE DEF new
<1>7. /\ bookings'[j.id] = new
      /\ \A x \in BookingIds \ {j.id} : bookings'[x] = bookings[x]
  BY <1>2, <1>6 DEF IInv, TypeOK
<1>8. bookings' \in [BookingIds -> Booking \union {None}]
  BY <1>2, <1>5, <1>6 DEF IInv, TypeOK
<1>9. rows' = rows /\ Finish(w) BY DEF CommitTransition
<1>10. audit' = [audit EXCEPT ![j.id] = Append(@, <<j.from, j.to>>)]
  BY DEF CommitTransition, Logged
<1>11. /\ audit' \in [BookingIds -> Seq((Statuses \union {None}) \X Statuses)]
       /\ audit'[j.id][Len(audit'[j.id])][2] = j.to
       /\ \A x \in BookingIds \ {j.id} : audit'[x] = audit[x]
  BY <1>2, <1>10, LogGrows DEF IInv, Statuses
<1> HIDE DEF j
<1>12. Kept BY <1>1, <1>5, <1>7, <1>9, NoneIsNothing
                DEF Kept, Exists, IsRow, TransitionJob
<1>13. LogOfMade' BY <1>3, <1>5, <1>7, <1>11, NoneIsNothing DEF IInv, LogOfMade, Exists
<1>14. LogEndsInStatus' BY <1>5, <1>7, <1>11 DEF IInv, LogEndsInStatus, Exists
<1>15. rows' \in [RowIds -> Row \union {None}] BY <1>9 DEF IInv, TypeOK
<1> QED BY <1>8, <1>9, <1>11, <1>12, <1>13, <1>14, <1>15, CommitKeepsInv

-------------------------------------------------------------------------------
(* The theorems.                                                           *)

\* The initial tables are empty and every worker is idle.
LEMMA InitInv == Init => IInv
<1> SUFFICES ASSUME Init PROVE IInv OBVIOUS
<1>1. TypeOK BY IdleKnown DEF Init, TypeOK
<1>2. JobsKnown BY IdleKnown DEF Init, JobsKnown
<1> QED BY <1>1, <1>2 DEF Init, IInv, LogOfMade, LogEndsInStatus, Exists

LEMMA NextInv == IInv /\ [Next]_vars => IInv' /\ Kept
<1> SUFFICES ASSUME IInv, [Next]_vars PROVE IInv' /\ Kept OBVIOUS
<1>1. CASE UNCHANGED vars
  BY <1>1 DEF vars, IInv, TypeOK, JobsKnown, JobKnown, LogOfMade, LogEndsInStatus,
              Exists, IsRow, Kept
<1>2. ASSUME NEW w \in Workers, BeginCreate(w) PROVE IInv' /\ Kept BY <1>2, BeginCreateInv
<1>3. ASSUME NEW w \in Workers, BeginUpdate(w) PROVE IInv' /\ Kept BY <1>3, BeginUpdateInv
<1>4. ASSUME NEW w \in Workers, BeginMove(w) PROVE IInv' /\ Kept BY <1>4, BeginMoveInv
<1>5. ASSUME NEW w \in Workers, BeginSplit(w) PROVE IInv' /\ Kept BY <1>5, BeginSplitInv
<1>6. ASSUME NEW w \in Workers, BeginTransition(w) PROVE IInv' /\ Kept
  BY <1>6, BeginTransitionInv
<1>7. ASSUME NEW w \in Workers, CheckSlot(w) PROVE IInv' /\ Kept BY <1>7, CheckSlotInv
<1>8. ASSUME NEW w \in Workers, CheckLimits(w) PROVE IInv' /\ Kept BY <1>8, CheckLimitsInv
<1>9. ASSUME NEW w \in Workers, Abandon(w) PROVE IInv' /\ Kept BY <1>9, AbandonInv
<1>10. ASSUME NEW w \in Workers, CommitCreate(w) PROVE IInv' /\ Kept BY <1>10, CommitCreateInv
<1>11. ASSUME NEW w \in Workers, CommitUpdate(w) PROVE IInv' /\ Kept BY <1>11, CommitUpdateInv
<1>12. ASSUME NEW w \in Workers, CommitMove(w) PROVE IInv' /\ Kept BY <1>12, CommitMoveInv
<1>13. ASSUME NEW w \in Workers, CommitSplit(w) PROVE IInv' /\ Kept BY <1>13, CommitSplitInv
<1>14. ASSUME NEW w \in Workers, CommitTransition(w) PROVE IInv' /\ Kept
  BY <1>14, CommitTransitionInv
<1> QED BY <1>1, <1>2, <1>3, <1>4, <1>5, <1>6, <1>7, <1>8, <1>9, <1>10, <1>11,
           <1>12, <1>13, <1>14 DEF Next

\* The inductive invariant holds of every execution.
THEOREM Invariance == Spec => []IInv
BY InitInv, NextInv, PTL DEF Spec

\* Type correctness: no interleaving of requests, and none that fails half way,
\* leaves a table with anything but whole rows of the types the models declare.
THEOREM TypeCorrect == Spec => []TypeOK
<1>1. IInv => TypeOK BY DEF IInv
<1> QED BY <1>1, Invariance, PTL

\* The status of a booking is what the last status event says, however many
\* workers commit transitions they decided on earlier reads.
THEOREM LogAgrees == Spec => []LogEndsInStatus
<1>1. IInv => LogEndsInStatus BY DEF IInv
<1> QED BY <1>1, Invariance, PTL

\* A booking stays on the local day it was made for, whatever moves race: each move
\* was checked against a day that no other request can change.
THEOREM DayKept == Spec => DayNeverChanges
<1>1. IInv /\ [Next]_vars =>
        \A b \in BookingIds :
          Exists(b) => DayOf[bookings'[b].time] = DayOf[bookings[b].time]
  BY NextInv DEF Kept
<1> QED BY <1>1, Invariance, PTL DEF Spec, DayNeverChanges

\* A booking that left reserved is never reserved again, although transitions of
\* other workers may replace its outcome.
THEOREM NotReopened == Spec => NeverReservedAgain
<1>1. IInv /\ [Next]_vars =>
        \A b \in BookingIds :
          (Exists(b) /\ bookings[b].status # "reserved") =>
             bookings'[b].status # "reserved"
  BY NextInv DEF Kept
<1> QED BY <1>1, Invariance, PTL DEF Spec, NeverReservedAgain

-------------------------------------------------------------------------------
(* A completed round was checked in.                                       *)

CheckInLogged(log) ==
  \E i \in 1 .. Len(log) :
    log[i][2] = "checked_in" \/ (i = 1 /\ log[i][1] = "checked_in")

\* Only the copy a split makes of a checked-in booking has an empty log: its
\* check-in is told of by the first entry it gets.
BookingRound(b) ==
  Exists(b) =>
    /\ bookings[b].status = "completed" => CheckInLogged(audit[b])
    /\ bookings[b].status = "checked_in" => CheckInLogged(audit[b]) \/ audit[b] = << >>

\* What a request may rely on: as long as the log is empty, the status it loaded is
\* still that of the booking.
JobRound(j) ==
  /\ j.op = "transition" =>
       /\ j.to = "completed" => j.from = "checked_in"
       /\ audit[j.id] = << >> => bookings[j.id].status = j.from
       /\ j.from = "checked_in" => CheckInLogged(audit[j.id]) \/ audit[j.id] = << >>
  /\ j.op = "split" => j.seen.status \in LiveStatuses

RoundInv ==
  /\ \A b \in BookingIds : BookingRound(b)
  /\ \A w \in Workers : JobRound(jobs[w])

\* A log that tells of a check-in goes on doing so, and one tells of it once a check-in
\* is written, or the first change from it.
LEMMA CheckInStaysLogged ==
  ASSUME NEW log \in Seq((Statuses \union {None}) \X Statuses),
         NEW from \in Statuses \union {None}, NEW to \in Statuses
  PROVE  LET longer == Append(log, <<from, to>>) IN
         /\ CheckInLogged(log) => CheckInLogged(longer)
         /\ to = "checked_in" => CheckInLogged(longer)
         /\ log = << >> /\ from = "checked_in" => CheckInLogged(longer)
<1> DEFINE E == (Statuses \union {None}) \X Statuses
           longer == Append(log, <<from, to>>)
<1>1. log \in Seq(E) /\ <<from, to>> \in E OBVIOUS
<1> HIDE DEF E
<1>2. /\ Len(log) \in Nat /\ Len(longer) = Len(log) + 1
      /\ longer[Len(log) + 1] = <<from, to>>
      /\ \A i \in 1 .. Len(log) : longer[i] = log[i]
  BY <1>1
<1>3. log = << >> => Len(log) = 0 OBVIOUS
<1> HIDE DEF longer
<1>4. CheckInLogged(log) => CheckInLogged(longer)
  <2> SUFFICES ASSUME NEW i \in 1 .. Len(log),
                      log[i][2] = "checked_in" \/ (i = 1 /\ log[i][1] = "checked_in")
               PROVE  CheckInLogged(longer)
    BY DEF CheckInLogged
  <2>1. i \in 1 .. Len(longer) /\ longer[i] = log[i] BY <1>2
  <2> QED BY <2>1 DEF CheckInLogged
<1>5. Len(log) + 1 \in 1 .. Len(longer) BY <1>2
<1>6. to = "checked_in" => CheckInLogged(longer) BY <1>2, <1>5 DEF CheckInLogged
<1>7. log = << >> /\ from = "checked_in" => CheckInLogged(longer)
  BY <1>2, <1>3, <1>5 DEF CheckInLogged
<1> QED BY <1>4, <1>6, <1>7 DEF longer

\* A step that starts, advances or ends one request and leaves the bookings alone.
LEMMA ReadKeepsRound ==
  ASSUME IInv, RoundInv, NEW w \in Workers, NEW job, JobRound(job),
         jobs' = [jobs EXCEPT ![w] = job], UNCHANGED <<bookings, audit>>
  PROVE  RoundInv'
<1>1. \A x \in Workers : JobRound(jobs'[x]) BY DEF IInv, TypeOK, RoundInv
<1> QED BY <1>1 DEF RoundInv, BookingRound, JobRound, Exists

LEMMA IdleRound == JobRound(Idle)
BY DEF JobRound, Idle

\* A commit that keeps log and status of the bookings there were.
LEMMA CommitKeepsRound ==
  ASSUME IInv, RoundInv, NEW w \in Workers, Finish(w),
         \A b \in BookingIds : Exists(b) =>
           Exists(b)' /\ audit'[b] = audit[b] /\ bookings'[b].status = bookings[b].status,
         \A b \in BookingIds : ~ Exists(b) => BookingRound(b)'
  PROVE  RoundInv'
<1>1. ASSUME NEW b \in BookingIds PROVE BookingRound(b)'
  BY <1>1 DEF RoundInv, BookingRound
<1>2. ASSUME NEW x \in Workers PROVE JobRound(jobs[x])'
  <2>1. CASE x = w
    <3>1. jobs'[x] = Idle BY <2>1 DEF Finish, IInv, TypeOK
    <3> QED BY <3>1 DEF JobRound, Idle
  <2>2. CASE x # w
    <3>1. jobs'[x] = jobs[x] /\ JobRound(jobs[x]) /\ JobKnown(jobs[x]) /\ jobs[x] \in Job
      BY <2>2 DEF Finish, IInv, TypeOK, RoundInv, JobsKnown
    <3>2. jobs[x].op = "transition" => jobs[x].id \in BookingIds /\ Exists(jobs[x].id)
      BY <3>1, JobKinds DEF TransitionJob, JobKnown
    <3> QED BY <3>1, <3>2 DEF JobRound
  <2> QED BY <2>1, <2>2
<1> QED BY <1>1, <1>2 DEF RoundInv

LEMMA BeginsKeepRound ==
  ASSUME IInv, RoundInv, NEW w \in Workers,
         BeginCreate(w) \/ BeginUpdate(w) \/ BeginMove(w) \/ BeginSplit(w)
  PROVE  RoundInv'
<1>1. ASSUME NEW job, Start(w, job), job.op \in {"create", "update", "move"}
      PROVE  RoundInv'
  BY <1>1, ReadKeepsRound DEF Start, JobRound
<1>2. CASE BeginCreate(w) \/ BeginUpdate(w) \/ BeginMove(w)
  BY <1>1, <1>2 DEF BeginCreate, BeginUpdate, BeginMove
<1>3. CASE BeginSplit(w)
  <2>1. PICK b \in BookingIds, line \in Lines, time \in Times : \E player \in Participants(b) :
          /\ IsLive(b)
          /\ Start(w, [op |-> "split", line |-> line, time |-> time, stage |-> "slot",
                       id |-> b, seen |-> bookings[b], loaded |-> Participants(b),
                       primaries |-> {r \in Participants(b) : rows[r].primary},
                       player |-> player])
    BY <1>3 DEF BeginSplit
  <2>2. PICK job : Start(w, job) /\ job.op = "split" /\ job.seen.status \in LiveStatuses
    BY <2>1 DEF IsLive
  <2> QED BY <2>2, ReadKeepsRound DEF Start, JobRound
<1> QED BY <1>2, <1>3

\* A booking is checked in before it is completed, as far as its own request looked.
LEMMA BeginTransitionRound ==
  ASSUME IInv, RoundInv, NEW w \in Workers, BeginTransition(w)
  PROVE  RoundInv'
<1>1. PICK b \in BookingIds, to \in Statuses \ {"reserved"} :
        /\ Exists(b)
        /\ bookings[b].status = From(to)
        /\ Start(w, [op |-> "transition", id |-> b, from |-> bookings[b].status, to |-> to])
  BY DEF BeginTransition
<1> DEFINE job == [op |-> "transition", id |-> b, from |-> bookings[b].status, to |-> to]
<1>2. BookingRound(b) BY DEF RoundInv
<1>3. JobRound(job) BY <1>1, <1>2 DEF JobRound, BookingRound, From
<1> HIDE DEF job
<1>4. Start(w, job) BY <1>1 DEF job
<1> QED BY <1>3, <1>4, ReadKeepsRound DEF Start

LEMMA ChecksKeepRound ==
  ASSUME IInv, RoundInv, NEW w \in Workers, CheckSlot(w) \/ CheckLimits(w)
  PROVE  RoundInv'
<1>1. PICK stage \in {"limits", "commit"} :
        Advance(w, stage) /\ jobs[w].op \in {"create", "update", "move", "split"}
  BY DEF CheckSlot, CheckLimits
<1> DEFINE job == [jobs[w] EXCEPT !.stage = stage]
<1>2. jobs[w] \in Job /\ JobRound(jobs[w]) BY DEF IInv, TypeOK, RoundInv
<1>3. job.op = jobs[w].op /\ (jobs[w].op = "split" => job.seen = jobs[w].seen)
  BY <1>1, <1>2, JobKinds DEF CreateJob, UpdateJob, MoveJob, SplitJob
<1>4. JobRound(job) BY <1>1, <1>2, <1>3 DEF JobRound
<1>5. jobs' = [jobs EXCEPT ![w] = job] BY <1>1 DEF Advance, IInv, TypeOK
<1> HIDE DEF job
<1> QED BY <1>1, <1>4, <1>5, ReadKeepsRound DEF Advance

LEMMA CreateRound ==
  ASSUME IInv, RoundInv, NEW w \in Workers, CommitCreate(w)
  PROVE  RoundInv'
<1> DEFINE j == jobs[w]
<1>1. PICK b, made :
        /\ b \in BookingIds
        /\ ~ Exists(b)
        /\ made.status = "reserved"
        /\ bookings' = [bookings EXCEPT ![b] = made]
        /\ audit' = [audit EXCEPT ![b] = Append(@, <<None, "reserved">>)]
  BY DEF CommitCreate
<1>2. Kept /\ Finish(w) BY CommitCreateInv DEF CommitCreate
<1>3. bookings'[b] = made /\ \A x \in BookingIds \ {b} :
        bookings'[x] = bookings[x] /\ audit'[x] = audit[x]
  BY <1>1 DEF IInv, TypeOK
<1>4. \A x \in BookingIds : ~ Exists(x) => BookingRound(x)'
  BY <1>1, <1>3 DEF BookingRound, Exists
<1>5. \A x \in BookingIds : Exists(x) =>
        Exists(x)' /\ audit'[x] = audit[x] /\ bookings'[x].status = bookings[x].status
  BY <1>1, <1>3 DEF Exists
<1> QED BY <1>2, <1>4, <1>5, CommitKeepsRound

\* An update or a move rewrites one booking and keeps its status.
LEMMA RewriteRound ==
  ASSUME IInv, RoundInv, NEW w \in Workers, CommitUpdate(w) \/ CommitMove(w)
  PROVE  RoundInv'
<1> DEFINE j == jobs[w]
<1>1. j \in UpdateJob \union MoveJob BY JobKinds DEF IInv, TypeOK, CommitUpdate, CommitMove
<1>2. j.id \in BookingIds BY <1>1 DEF UpdateJob, MoveJob
<1>3. Exists(j.id)
  BY <1>1 DEF IInv, JobsKnown, JobKnown, UpdateJob, MoveJob
<1>4. bookings[j.id] \in Booking BY <1>2, <1>3 DEF IInv, TypeOK, Exists
<1>5. PICK new : /\ bookings' = [bookings EXCEPT ![j.id] = new]
                 /\ new.status = bookings[j.id].status
  <2>1. UpdatedRow(j).status = bookings[j.id].status
    BY <1>4 DEF UpdatedRow, Booking
  <2>2. MovedRow(j).status = bookings[j.id].status
    BY <1>4 DEF MovedRow, Booking
  <2>3. \/ bookings' = [bookings EXCEPT ![j.id] = UpdatedRow(j)]
        \/ bookings' = [bookings EXCEPT ![j.id] = MovedRow(j)]
    BY DEF CommitUpdate, CommitMove
  <2> QED BY <2>1, <2>2, <2>3
<1>6. Kept /\ Finish(w) /\ audit' = audit
  BY CommitUpdateInv, CommitMoveInv DEF CommitUpdate, CommitMove
<1>7. \A x \in BookingIds :
        /\ x # j.id => bookings'[x] = bookings[x]
        /\ x = j.id => bookings'[x].status = bookings[x].status
  BY <1>2, <1>5 DEF IInv, TypeOK
<1>8. \A x \in BookingIds : ~ Exists(x) => BookingRound(x)'
  BY <1>3, <1>7 DEF BookingRound, Exists
<1>9. \A x \in BookingIds : Exists(x) =>
        Exists(x)' /\ audit'[x] = audit[x] /\ bookings'[x].status = bookings[x].status
  BY <1>6, <1>7 DEF Kept
<1> QED BY <1>6, <1>8, <1>9, CommitKeepsRound

\* The copy a split makes is reserved or checked in, with a log that is empty.
LEMMA SplitRound ==
  ASSUME IInv, RoundInv, NEW w \in Workers, CommitSplit(w)
  PROVE  RoundInv'
<1> DEFINE j == jobs[w]
<1>1. j \in SplitJob BY JobKinds DEF IInv, TypeOK, CommitSplit
<1>2. j.id \in BookingIds /\ Exists(j.id) /\ j.seen.status \in LiveStatuses
  BY <1>1 DEF IInv, JobsKnown, JobKnown, RoundInv, JobRound, SplitJob
<1> DEFINE staying == j.loaded \ {j.player}
<1>3. PICK new \in BookingIds, first \in staying :
        /\ ~ Exists(new)
        /\ bookings' = [bookings EXCEPT
             ![new] = SplitBooking(j),
             ![j.id].size = Written(Cardinality(staying), j.seen.size, @),
             ![j.id].lead = Written(rows[first].person, j.seen.lead, @)]
  BY DEF CommitSplit
<1> DEFINE kept == [bookings[j.id] EXCEPT
                      !.size = Written(Cardinality(staying), j.seen.size, @),
                      !.lead = Written(rows[first].person, j.seen.lead, @)]
<1>4. Kept /\ Finish(w) /\ audit' = audit BY CommitSplitInv DEF CommitSplit
<1>5. bookings[j.id] \in Booking BY <1>2 DEF IInv, TypeOK, Exists
<1>6. new # j.id BY <1>2, <1>3
<1>7. /\ bookings'[new] = SplitBooking(j)
      /\ bookings'[j.id] = kept
      /\ \A x \in BookingIds \ {new, j.id} : bookings'[x] = bookings[x]
  BY <1>2, <1>3, <1>6 DEF IInv, TypeOK
<1>8. bookings'[j.id].status = bookings[j.id].status BY <1>5, <1>7 DEF Booking
<1> HIDE DEF kept
<1>9. SplitBooking(j).status = j.seen.status BY <1>1 DEF SplitBooking, SplitJob, Booking
<1>10. audit'[new] = << >> BY <1>3, <1>4 DEF IInv, LogOfMade
<1>11. BookingRound(new)'
  BY <1>2, <1>7, <1>9, <1>10 DEF BookingRound, LiveStatuses
<1>12. \A x \in BookingIds : ~ Exists(x) => BookingRound(x)'
  BY <1>2, <1>7, <1>11 DEF BookingRound, Exists
<1>13. \A x \in BookingIds : Exists(x) =>
         Exists(x)' /\ audit'[x] = audit[x] /\ bookings'[x].status = bookings[x].status
  BY <1>3, <1>4, <1>7, <1>8 DEF Kept
<1> QED BY <1>4, <1>12, <1>13, CommitKeepsRound

\* A transition logs a check-in, or follows one.
LEMMA TransitionRound ==
  ASSUME IInv, RoundInv, NEW w \in Workers, CommitTransition(w)
  PROVE  RoundInv'
<1>1. PICK j \in TransitionJob : j = jobs[w]
  BY JobKinds DEF IInv, TypeOK, CommitTransition
<1>2. PICK b \in BookingIds : b = j.id BY DEF TransitionJob
<1>3. Exists(b) /\ j.from \in Statuses /\ j.to \in Statuses
  BY <1>1, <1>2 DEF IInv, JobsKnown, JobKnown, TransitionJob
<1>4. JobRound(j) /\ j.op = "transition" BY <1>1 DEF RoundInv, TransitionJob
<1>5. bookings[b] \in Booking BY <1>2, <1>3 DEF IInv, TypeOK, Exists
<1>6. /\ bookings'[b] = [bookings[b] EXCEPT !.status = j.to]
      /\ audit'[b] = Append(audit[b], <<j.from, j.to>>)
      /\ \A x \in BookingIds \ {b} : bookings'[x] = bookings[x] /\ audit'[x] = audit[x]
  BY <1>1, <1>2 DEF CommitTransition, Logged, IInv, TypeOK
<1>7. bookings'[b].status = j.to BY <1>5, <1>6 DEF Booking
<1>8. audit[b] \in Seq((Statuses \union {None}) \X Statuses)
  BY <1>2 DEF IInv, TypeOK
<1>9. /\ CheckInLogged(audit[b]) => CheckInLogged(audit'[b])
      /\ j.to = "checked_in" => CheckInLogged(audit'[b])
      /\ audit[b] = << >> /\ j.from = "checked_in" => CheckInLogged(audit'[b])
      /\ audit'[b] # << >>
  <2>1. <<j.from, j.to>> \in (Statuses \union {None}) \X Statuses BY <1>3
  <2>2. Append(audit[b], <<j.from, j.to>>) # << >> BY <1>8, <2>1
  <2>3. j.from \in Statuses \union {None} BY <1>3
  <2> QED BY <1>3, <1>6, <1>8, <2>2, <2>3, CheckInStaysLogged
<1>10. Kept /\ Finish(w) BY CommitTransitionInv DEF CommitTransition
<1>11. BookingRound(b)' BY <1>2, <1>4, <1>7, <1>9 DEF BookingRound, JobRound, TransitionJob
<1>12. ASSUME NEW x \in BookingIds PROVE BookingRound(x)'
  <2>1. CASE x # b BY <1>6, <2>1 DEF RoundInv, BookingRound, Exists
  <2> QED BY <1>11, <2>1
<1>13. ASSUME NEW x \in Workers PROVE JobRound(jobs[x])'
  <2>1. CASE x = w
    <3>1. jobs'[x] = Idle BY <1>10, <2>1 DEF Finish, IInv, TypeOK
    <3> QED BY <3>1 DEF JobRound, Idle
  <2>2. CASE x # w
    <3>1. jobs'[x] = jobs[x] /\ JobRound(jobs[x])
      BY <1>10, <2>2 DEF Finish, IInv, TypeOK, RoundInv
    <3>2. CASE jobs[x].op = "transition" /\ jobs[x].id = b
      <4>1. jobs[x].from = "checked_in" =>
              CheckInLogged(audit[b]) \/ (audit[b] = << >> /\ j.from = "checked_in")
        BY <1>2, <1>4, <3>1, <3>2 DEF JobRound
      <4> QED BY <1>9, <3>1, <3>2, <4>1 DEF JobRound
    <3>3. CASE jobs[x].op = "transition" /\ jobs[x].id # b
      <4>1. jobs[x].id \in BookingIds
        BY <3>3, JobKinds DEF IInv, TypeOK, TransitionJob
      <4> QED BY <1>6, <3>1, <3>3, <4>1 DEF JobRound
    <3>4. CASE jobs[x].op # "transition" BY <3>1, <3>4 DEF JobRound
    <3> QED BY <3>2, <3>3, <3>4
  <2> QED BY <2>1, <2>2
<1> QED BY <1>12, <1>13 DEF RoundInv

LEMMA NextRound == IInv /\ RoundInv /\ [Next]_vars => RoundInv'
<1> SUFFICES ASSUME IInv, RoundInv, [Next]_vars PROVE RoundInv' OBVIOUS
<1>1. CASE UNCHANGED vars
  BY <1>1 DEF vars, RoundInv, BookingRound, JobRound, Exists
<1>2. ASSUME NEW w \in Workers, Abandon(w) PROVE RoundInv'
  BY <1>2, IdleRound, ReadKeepsRound DEF Abandon, Finish
<1> QED BY <1>1, <1>2, BeginsKeepRound, BeginTransitionRound, ChecksKeepRound, CreateRound,
           RewriteRound, SplitRound, TransitionRound DEF Next

\* No booking, and no copy a split made of one, is completed that was not checked in,
\* whatever requests decide on a status that others have changed since.
THEOREM CompletedAfterCheckIn == Spec => []CompletedWasCheckedIn
<1>1. Init => RoundInv
  BY DEF Init, RoundInv, BookingRound, JobRound, Idle, Exists
<1>2. RoundInv => CompletedWasCheckedIn
  BY DEF RoundInv, BookingRound, CheckInLogged, CompletedWasCheckedIn
<1> QED BY <1>1, <1>2, NextRound, Invariance, PTL DEF Spec
===============================================================================
