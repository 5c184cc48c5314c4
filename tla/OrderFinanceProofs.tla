--------------------------- MODULE OrderFinanceProofs ---------------------------
(***************************************************************************)
(* Proofs about OrderFinance for any number of workers, orders, bookings   *)
(* and accounts and a ledger of any length: orders share the ledger and    *)
(* the workers with the requests of bookings, and requests overlap, are    *)
(* refused and stop between their commits.                                 *)
(***************************************************************************)
EXTENDS OrderFinance, BookingFinanceProofs

-------------------------------------------------------------------------------
(* The ledger grows by one entry, or not at all.                           *)

\* Posting an entry adds it to the entries of its reference and kind, and only there.
LEMMA PostAdds ==
  ASSUME FinanceTypeOK, NEW kind \in Kinds, NEW ref \in References,
         NEW account \in Accounts, NEW amount \in Int,
         Post(kind, ref, account, amount)
  PROVE  /\ Len(ledger) \in Nat /\ DOMAIN ledger = 1 .. Len(ledger)
         /\ ledger' \in Seq(Entry) /\ Len(ledger') = Len(ledger) + 1
         /\ DOMAIN ledger' = 1 .. (Len(ledger) + 1)
         /\ Len(ledger') <= MaxEntries
         /\ Grows
         /\ ledger'[Len(ledger) + 1].ref = ref /\ ledger'[Len(ledger) + 1].kind = kind
         /\ Entries(ref, kind)' = Entries(ref, kind) \union {Len(ledger) + 1}
         /\ \A r, k : r # ref \/ k # kind => Entries(r, k)' = Entries(r, k)
<1> DEFINE n == Len(ledger)
           entry == [account |-> account, amount |-> amount, kind |-> kind, ref |-> ref]
<1>1. entry \in Entry /\ entry.kind = kind /\ entry.ref = ref BY DEF Entry
<1>2. ledger \in Seq(Entry) /\ ledger' = Append(ledger, entry) /\ n < MaxEntries
  BY DEF Post, FinanceTypeOK
<1> HIDE DEF entry
<1>3. /\ n \in Nat /\ DOMAIN ledger = 1 .. n
      /\ ledger' \in Seq(Entry) /\ Len(ledger') = n + 1 /\ DOMAIN ledger' = 1 .. (n + 1)
      /\ \A i \in 1 .. n : ledger'[i] = ledger[i]
      /\ ledger'[n + 1] = entry
  BY <1>1, <1>2
<1>4. Grows BY <1>3 DEF Grows
<1>5. Entries(ref, kind)' = Entries(ref, kind) \union {n + 1}
  BY <1>1, <1>3 DEF Entries
<1>6. \A r, k : r # ref \/ k # kind => Entries(r, k)' = Entries(r, k)
  BY <1>1, <1>3 DEF Entries
<1>7. n + 1 <= MaxEntries BY <1>2, <1>3, FinanceConstantsOK
<1> QED BY <1>1, <1>3, <1>4, <1>5, <1>6, <1>7

\* What a request of a booking does to the ledger, seen from the orders.
BookingsOnly ==
  /\ Grows
  /\ ledger' \in Seq(Entry) /\ Len(ledger) <= Len(ledger') /\ Len(ledger') <= MaxEntries
  /\ \A o \in OrderIds, kind \in Kinds : Entries(o, kind)' = Entries(o, kind)
  /\ \A i \in DOMAIN ledger' \ DOMAIN ledger : ledger'[i].ref \notin OrderIds

LEMMA SameLedger ==
  ASSUME FinanceTypeOK, Len(ledger) <= MaxEntries, UNCHANGED ledger
  PROVE  BookingsOnly
<1>1. ledger \in Seq(Entry) /\ Len(ledger) \in Nat BY DEF FinanceTypeOK
<1> QED BY <1>1 DEF BookingsOnly, Grows, Entries

LEMMA TypesStay ==
  ASSUME FinanceTypeOK, NEW w \in Workers, NEW job \in DeskJob, Serve(w, job),
         ledger' \in Seq(Entry), payment' \in [Bookings -> PaymentStatuses \union {None}],
         raced' \subseteq Bookings, cut' \subseteq Bookings
  PROVE  FinanceTypeOK'
BY DEF FinanceTypeOK, Serve

\* A step of a booking's request keeps the types and leaves the entries of orders alone.
LEMMA BookingStep ==
  ASSUME FinanceTypeOK, Len(ledger) <= MaxEntries, NEW w \in Workers, FinanceStep(w)
  PROVE  FinanceTypeOK' /\ BookingsOnly
<1> USE DEF FinanceTypeOK
<1>1. CASE BeginStatus(w)
  <2>1. PICK b \in Bookings, to \in PaymentStatuses \ {"paid"} :
          Begins(w, b) /\ Serve(w, [op |-> "status", id |-> b, to |-> to])
    BY <1>1 DEF BeginStatus
  <2>2. [op |-> "status", id |-> b, to |-> to] \in DeskJob BY DEF DeskJob, StatusJob
  <2>3. UNCHANGED <<ledger, payment, cut>> /\ raced' \subseteq Bookings BY <2>1 DEF Begins
  <2> QED BY <2>1, <2>2, <2>3, TypesStay, SameLedger
<1>2. CASE CommitStatus(w)
  <2>1. desk[w] \in StatusJob BY <1>2, DeskKinds DEF CommitStatus
  <2>2. payment' \in [Bookings -> PaymentStatuses \union {None}]
    BY <1>2, <2>1 DEF CommitStatus, StatusJob
  <2> QED BY <1>2, <2>2, FreeIsJob, TypesStay, SameLedger DEF CommitStatus
<1>3. CASE BeginEntry(w)
  <2>1. PICK b \in Bookings, kind \in Kinds :
          /\ Begins(w, b)
          /\ Serve(w, [op |-> kind, id |-> b, stage |-> "look", seen |-> payment[b]])
    BY <1>3 DEF BeginEntry
  <2>2. [op |-> kind, id |-> b, stage |-> "look", seen |-> payment[b]] \in DeskJob
    BY DEF DeskJob, LookJob
  <2>3. UNCHANGED <<ledger, payment, cut>> /\ raced' \subseteq Bookings BY <2>1 DEF Begins
  <2> QED BY <2>1, <2>2, <2>3, TypesStay, SameLedger
<1>4. CASE LookUp(w)
  <2>1. desk[w] \in LookJob BY <1>4, DeskKinds DEF LookUp
  <2>2. PICK account \in Accounts, amount \in Prices :
          Serve(w, [account |-> account, amount |-> amount, op |-> desk[w].op,
                    id |-> desk[w].id, stage |-> "post", seen |-> desk[w].seen])
    BY <1>4 DEF LookUp
  <2>3. amount \in Int BY FinanceConstantsOK DEF Prices
  <2>4. [account |-> account, amount |-> amount, op |-> desk[w].op,
         id |-> desk[w].id, stage |-> "post", seen |-> desk[w].seen] \in DeskJob
    BY <2>1, <2>3 DEF DeskJob, LookJob, PostJob
  <2>5. UNCHANGED <<ledger, payment, raced, cut>> BY <1>4 DEF LookUp
  <2> QED BY <2>2, <2>4, <2>5, TypesStay, SameLedger
<1>5. CASE PostEntry(w)
  <2>1. PICK j \in DeskJob : j = desk[w] OBVIOUS
  <2>2. j \in PostJob BY <1>5, <2>1, DeskKinds DEF PostEntry
  <2>3. j.op \in Kinds /\ j.id \in Bookings /\ j.account \in Accounts /\ j.amount \in Int
    BY <2>2 DEF PostJob
  <2>4. Post(j.op, j.id, j.account, j.amount) BY <1>5, <2>1 DEF PostEntry
  <2>5. j.id \in References /\ j.id \notin OrderIds
    BY <2>3, FinanceConstantsOK, OrderConstantsOK
  <2>6. [j EXCEPT !.stage = "mark"] \in DeskJob BY <2>2 DEF DeskJob, PostJob
  <2>7. /\ Serve(w, [j EXCEPT !.stage = "mark"])
        /\ UNCHANGED <<payment, raced, cut>>
    BY <1>5, <2>1 DEF PostEntry
  <2>8. BookingsOnly /\ ledger' \in Seq(Entry)
    BY <2>3, <2>4, <2>5, PostAdds DEF BookingsOnly
  <2> QED BY <2>6, <2>7, <2>8, TypesStay
<1>6. CASE MarkBooking(w)
  <2>1. PICK j \in DeskJob : j = desk[w] OBVIOUS
  <2>2. j \in PostJob BY <1>6, <2>1, DeskKinds DEF MarkBooking
  <2>3. PICK new : new = Stored(StatusAfter(j.op), j.seen, payment[j.id]) OBVIOUS
  <2>4. j.id \in Bookings BY <2>2 DEF PostJob
  <2>5. new \in PaymentStatuses \union {None}
    BY <2>3, <2>4 DEF Stored, StatusAfter, PaymentStatuses
  <2>6. payment' = [payment EXCEPT ![j.id] = new] BY <1>6, <2>1, <2>3 DEF MarkBooking
  <2>7. payment' \in [Bookings -> PaymentStatuses \union {None}] BY <2>4, <2>5, <2>6
  <2> QED BY <1>6, <2>7, FreeIsJob, TypesStay, SameLedger DEF MarkBooking
<1>7. CASE Refuse(w)
  BY <1>7, FreeIsJob, TypesStay, SameLedger DEF Refuse
<1>8. CASE CrashBetween(w)
  <2>1. desk[w].id \in Bookings BY <1>8, DeskKinds DEF CrashBetween, PostJob
  <2> QED BY <1>8, <2>1, FreeIsJob, TypesStay, SameLedger DEF CrashBetween
<1> QED BY <1>1, <1>2, <1>3, <1>4, <1>5, <1>6, <1>7, <1>8 DEF FinanceStep

-------------------------------------------------------------------------------
(* What holds however the requests of orders overlap and stop.             *)

\* What a request may rely on: its order, its charge, its payment and tender are there.
OrderJobKnown(j) ==
  /\ j.op \in {"transition", "charge", "settle"} => Placed(j.id)
  /\ j.op = "charge" /\ j.entry # 0 => j.entry \in Entries(j.id, "charge")
  /\ j.op = "settle" =>
       /\ j.charge \in Entries(j.id, "charge")
       /\ j.entry # 0 => j.entry \in Entries(j.id, "payment") /\ tenders[j.charge] # None

OrderJobsKnown == \A w \in Workers : OrderJobKnown(counter[w])

\* The links of an order are to entries of its own.
Linked(o) ==
  Placed(o) =>
    /\ orders[o].charge \in Entries(o, "charge") \union {0}
    /\ orders[o].payment \in Entries(o, "payment") \union {0}
    /\ orders[o].tender \in Entries(o, "charge") \union {0}

OrdersLinked == \A o \in OrderIds : Linked(o)

EntriesOfPlaced ==
  \A i \in DOMAIN ledger : ledger[i].ref \in OrderIds => Placed(ledger[i].ref)

\* The charges of o that have a tender; a payment is posted together with one.
Tendered(o) == {c \in Entries(o, "charge") : tenders[c] # None}

TendersInLedger ==
  /\ Len(ledger) <= MaxEntries
  /\ \A c \in 1 .. MaxEntries : tenders[c] # None => c <= Len(ledger)

PaymentsTendered ==
  \A o \in OrderIds : Cardinality(Entries(o, "payment")) <= Cardinality(Tendered(o))

OrderTypes ==
  /\ FinanceTypeOK
  /\ orders \in [OrderIds -> Order \union {None}]
  /\ tenders \in [1 .. MaxEntries -> Tender \union {None}]
  /\ counter \in [Workers -> CounterJob]
  /\ rushed \subseteq OrderIds \union Requests /\ halved \subseteq OrderIds

ClubInv ==
  /\ OrderTypes /\ OrderJobsKnown /\ OrdersLinked /\ EntriesOfPlaced
  /\ TendersInLedger /\ PaymentsTendered

\* The operation of a request tells which fields it has.
LEMMA CounterKinds ==
  ASSUME NEW j \in CounterJob
  PROVE  /\ j.op \in {"free", "create", "transition", "charge", "settle"}
         /\ j.op = "free" <=> j = Free
         /\ j.op = "create" => j \in CreateOrderJob
         /\ j.op = "transition" => j \in TransitionJob
         /\ j.op = "charge" => j \in ChargeJob
         /\ j.op = "settle" => j \in SettleJob
         /\ j.op \in {"transition", "charge", "settle"} => j.id \in OrderIds
BY DEF CounterJob, Free, CreateOrderJob, TransitionJob, ChargeJob, SettleJob

LEMMA EntriesInLedger ==
  ASSUME FinanceTypeOK, NEW ref, NEW kind
  PROVE  /\ Len(ledger) \in Nat /\ Entries(ref, kind) \subseteq 1 .. Len(ledger)
         /\ IsFiniteSet(Entries(ref, kind))
         /\ Cardinality(Entries(ref, kind)) \in Nat
<1>1. ledger \in Seq(Entry) /\ Len(ledger) \in Nat BY DEF FinanceTypeOK
<1>2. Entries(ref, kind) \subseteq 1 .. Len(ledger) BY <1>1 DEF Entries
<1>3. IsFiniteSet(1 .. Len(ledger)) BY <1>1, FS_Interval
<1> QED BY <1>1, <1>2, <1>3, FS_Subset, FS_CardinalityType

LEMMA PlacedIsOrder ==
  ASSUME OrderTypes, NEW o \in OrderIds
  PROVE  Placed(o) <=> orders[o] \in Order
BY OrderConstantsOK DEF OrderTypes, Placed

\* The invariant gives the types, the links included.
LEMMA ClubIsTyped == ClubInv => OrderTypeOK
<1> SUFFICES ASSUME ClubInv PROVE OrderTypeOK OBVIOUS
<1>1. ASSUME NEW o \in OrderIds, Placed(o)
      PROVE  {orders[o].charge, orders[o].payment, orders[o].tender} \subseteq 0 .. Len(ledger)
  <2>1. /\ Len(ledger) \in Nat
        /\ \A kind : Entries(o, kind) \subseteq 1 .. Len(ledger)
    BY EntriesInLedger DEF ClubInv, OrderTypes
  <2> QED BY <1>1, <2>1 DEF ClubInv, OrdersLinked, Linked
<1> QED BY <1>1 DEF ClubInv, OrderTypes, OrderTypeOK

LEMMA InitClub == OrderInit => ClubInv
<1> SUFFICES ASSUME OrderInit PROVE ClubInv OBVIOUS
<1>1. FinanceTypeOK BY InitLedger DEF OrderInit, LedgerInv
<1>2. ledger = << >> /\ DOMAIN ledger = {} /\ Len(ledger) = 0
  BY DEF OrderInit, FinanceInit
<1>3. OrderTypes BY <1>1 DEF OrderInit, OrderTypes, CounterJob
<1>4. \A o, kind : Entries(o, kind) = {} BY <1>2 DEF Entries
<1>5. PaymentsTendered BY <1>4, FS_EmptySet DEF PaymentsTendered, Tendered
<1>6. OrderJobsKnown BY DEF OrderInit, OrderJobsKnown, OrderJobKnown, Free
<1>7. TendersInLedger BY <1>2, FinanceConstantsOK DEF OrderInit, TendersInLedger
<1>8. OrdersLinked /\ EntriesOfPlaced
  BY <1>2 DEF OrderInit, OrdersLinked, Linked, EntriesOfPlaced, Placed
<1> QED BY <1>3, <1>5, <1>6, <1>7, <1>8 DEF ClubInv

\* Entries, orders and tenders stay, so that what a request knows it goes on knowing.
OrdersStay == \A o \in OrderIds : Placed(o) => Placed(o)'
TendersStay == \A c \in 1 .. MaxEntries : tenders[c] # None => tenders'[c] # None

LEMMA KnownStays ==
  ASSUME ClubInv, Grows, OrdersStay, TendersStay, NEW j \in CounterJob, OrderJobKnown(j)
  PROVE  OrderJobKnown(j)'
<1>1. \A o, kind : Entries(o, kind) \subseteq Entries(o, kind)'
  BY DEF Grows, Entries
<1>2. j.op \in {"transition", "charge", "settle"} => Placed(j.id)'
  BY CounterKinds DEF OrderJobKnown, OrdersStay
<1>3. j.op = "charge" /\ j.entry # 0 => j.entry \in Entries(j.id, "charge")'
  BY <1>1 DEF OrderJobKnown
<1>4. ASSUME j.op = "settle" PROVE j.charge \in Entries(j.id, "charge")'
  BY <1>1, <1>4 DEF OrderJobKnown
<1>5. ASSUME j.op = "settle", j.entry # 0
      PROVE  j.entry \in Entries(j.id, "payment")' /\ tenders'[j.charge] # None
  <2>1. /\ j.charge \in Entries(j.id, "charge") /\ tenders[j.charge] # None
        /\ j.entry \in Entries(j.id, "payment")
    BY <1>5 DEF OrderJobKnown
  <2>2. j.charge \in 1 .. Len(ledger) BY <2>1, EntriesInLedger DEF ClubInv, OrderTypes
  <2>3. Len(ledger) \in Nat /\ Len(ledger) <= MaxEntries
    BY EntriesInLedger DEF ClubInv, OrderTypes, TendersInLedger
  <2>4. j.charge \in 1 .. MaxEntries BY <2>2, <2>3, FinanceConstantsOK
  <2> QED BY <1>1, <2>1, <2>4 DEF TendersStay
<1> QED BY <1>2, <1>3, <1>4, <1>5 DEF OrderJobKnown

LEMMA JobsStayKnown ==
  ASSUME ClubInv, Grows, OrdersStay, TendersStay,
         NEW w \in Workers, NEW job \in CounterJob, counter' = [counter EXCEPT ![w] = job], OrderJobKnown(job)'
  PROVE  counter' \in [Workers -> CounterJob] /\ OrderJobsKnown'
<1>1. counter' \in [Workers -> CounterJob] BY DEF ClubInv, OrderTypes
<1>2. SUFFICES ASSUME NEW v \in Workers, NEW j \in CounterJob, j = counter'[v]
               PROVE  OrderJobKnown(j)'
  BY <1>1 DEF OrderJobsKnown
<1>3. CASE v = w
  <2>1. j = job BY <1>2, <1>3 DEF ClubInv, OrderTypes
  <2> QED BY <2>1
<1>4. CASE v # w
  <2>1. j = counter[v] BY <1>2, <1>4 DEF ClubInv, OrderTypes
  <2>2. OrderJobKnown(j) BY <2>1 DEF ClubInv, OrderJobsKnown
  <2> QED BY <2>2, KnownStays
<1> QED BY <1>3, <1>4

\* A step of an order's request that leaves the ledger alone.
LEMMA NothingPosted ==
  ASSUME ClubInv, NEW w \in Workers, NEW job \in CounterJob,
         UNCHANGED <<ledger, desk, raced, cut>>,
         payment' \in [Bookings -> PaymentStatuses \union {None}],
         orders' \in [OrderIds -> Order \union {None}],
         tenders' \in [1 .. MaxEntries -> Tender \union {None}],
         rushed' \subseteq OrderIds \union Requests, halved' \subseteq OrderIds,
         counter' = [counter EXCEPT ![w] = job],
         OrderJobKnown(job),
         OrdersStay,
         \A o \in OrderIds : Linked(o)',
         TendersStay,
         \A c \in 1 .. MaxEntries :
           tenders'[c] # None => tenders[c] # None \/ c <= Len(ledger)
  PROVE  ClubInv'
<1>1. FinanceTypeOK' BY DEF ClubInv, OrderTypes, FinanceTypeOK
<1>2. Grows BY DEF Grows
<1>3. \A o, kind : Entries(o, kind)' = Entries(o, kind) BY DEF Entries
<1>4. counter' \in [Workers -> CounterJob] /\ OrderJobsKnown'
  BY <1>2, KnownStays, JobsStayKnown
<1>5. OrdersLinked' BY DEF OrdersLinked
<1>6. EntriesOfPlaced' BY DEF ClubInv, EntriesOfPlaced, OrdersStay
<1>7. TendersInLedger' BY DEF ClubInv, TendersInLedger
<1>8. PaymentsTendered'
  <2> SUFFICES ASSUME NEW o \in OrderIds
               PROVE  Cardinality(Entries(o, "payment")') <= Cardinality(Tendered(o)')
    BY DEF PaymentsTendered
  <2>1. /\ IsFiniteSet(Entries(o, "charge")) /\ Entries(o, "charge") \subseteq 1 .. Len(ledger)
        /\ Cardinality(Entries(o, "payment")) \in Nat
        /\ Len(ledger) \in Nat /\ Len(ledger) <= MaxEntries
    BY EntriesInLedger DEF ClubInv, OrderTypes, TendersInLedger
  <2>2. Tendered(o) \subseteq Tendered(o)' /\ Tendered(o)' \subseteq Entries(o, "charge")
    BY <1>3, <2>1, FinanceConstantsOK DEF Tendered, TendersStay
  <2>3. /\ Cardinality(Tendered(o)) \in Nat /\ Cardinality(Tendered(o)') \in Nat
        /\ Cardinality(Tendered(o)) <= Cardinality(Tendered(o)')
    BY <2>1, <2>2, FS_Subset, FS_CardinalityType
  <2>4. Cardinality(Entries(o, "payment")) <= Cardinality(Tendered(o))
    BY DEF ClubInv, PaymentsTendered
  <2> QED BY <1>3, <2>1, <2>3, <2>4
<1> QED BY <1>1, <1>4, <1>5, <1>6, <1>7, <1>8 DEF ClubInv, OrderTypes

\* A step that leaves orders and tenders alone too.
LEMMA OnlyCounter ==
  ASSUME ClubInv, NEW w \in Workers, NEW job \in CounterJob,
         UNCHANGED <<ledger, desk, raced, cut, payment, orders, tenders>>,
         rushed' \subseteq OrderIds \union Requests, halved' \subseteq OrderIds,
         counter' = [counter EXCEPT ![w] = job],
         OrderJobKnown(job)
  PROVE  ClubInv'
<1>1. OrdersStay BY DEF OrdersStay, Placed
<1>2. \A o \in OrderIds : Linked(o)'
  BY DEF ClubInv, OrdersLinked, Linked, Placed, Entries
<1> QED BY <1>1, <1>2, NothingPosted DEF ClubInv, OrderTypes, FinanceTypeOK, TendersStay

LEMMA FreeIsKnown == Free \in CounterJob /\ OrderJobKnown(Free)
BY DEF CounterJob, OrderJobKnown, Free

\* The rest of the server does not take part in a request of an order.
Apart == UNCHANGED <<desk, raced, cut>>

LEMMA TakeClub ==
  ASSUME ClubInv, Apart, NEW w \in Workers, NEW job \in CounterJob, Take(w, job),
         Subject(job) \in OrderIds \union Requests, OrderJobKnown(job)
  PROVE  ClubInv'
<1>1. rushed' \subseteq OrderIds \union Requests BY DEF Take, ClubInv, OrderTypes
<1> QED BY <1>1, OnlyCounter DEF Take, Apart, ClubInv, OrderTypes

\* What the four kinds of requests begin with.
LEMMA BeginsKnown ==
  ASSUME ClubInv, NEW w \in Workers,
         BeginOrder(w) \/ BeginOrderTransition(w) \/ BeginOrderCharge(w) \/ BeginSettle(w)
  PROVE  \E job \in CounterJob :
           /\ Take(w, job) /\ Subject(job) \in OrderIds \union Requests /\ OrderJobKnown(job)
           /\ job # Free
           /\ \/ /\ job \in CreateOrderJob /\ NewRequest(job.request)
              \/ /\ job \in TransitionJob /\ Placed(job.id)
                 /\ AllowedFrom(orders[job.id].status, job.to)
              \/ job \in ChargeJob /\ MayCharge(job.id) /\ job.entry = 0
              \/ /\ job \in SettleJob /\ Placed(job.id) /\ job.entry = 0
                 /\ orders[job.id].status = "collected"
                 /\ job.charge = orders[job.id].charge
<1>1. CASE BeginOrder(w)
  <2>1. PICK request \in Requests :
          NewRequest(request) /\ Take(w, [request |-> request, op |-> "create"])
    BY <1>1 DEF BeginOrder
  <2> DEFINE job == [request |-> request, op |-> "create"]
  <2>2. job \in CreateOrderJob /\ job \in CounterJob /\ job # Free
    BY DEF CreateOrderJob, CounterJob, Free
  <2>3. job.op = "create" /\ job.request = request OBVIOUS
  <2>4. Subject(job) = request BY DEF Subject
  <2>5. OrderJobKnown(job) BY DEF OrderJobKnown
  <2> QED BY <2>1, <2>2, <2>3, <2>4, <2>5
<1>2. CASE BeginOrderTransition(w)
  <2>1. PICK o \in OrderIds, to \in OrderStatuses \ {"placed"} :
          /\ Placed(o) /\ AllowedFrom(orders[o].status, to)
          /\ Take(w, [op |-> "transition", id |-> o, to |-> to])
    BY <1>2 DEF BeginOrderTransition
  <2> DEFINE job == [op |-> "transition", id |-> o, to |-> to]
  <2>2. job \in TransitionJob /\ job \in CounterJob /\ job # Free
    BY DEF TransitionJob, CounterJob, Free
  <2>3. Subject(job) = o BY DEF Subject
  <2>4. OrderJobKnown(job) BY <2>1 DEF OrderJobKnown
  <2> QED BY <2>1, <2>2, <2>3, <2>4
<1>3. CASE BeginOrderCharge(w)
  <2>1. PICK o \in OrderIds : MayCharge(o) /\ Take(w, [op |-> "charge", id |-> o, entry |-> 0])
    BY <1>3 DEF BeginOrderCharge
  <2> DEFINE job == [op |-> "charge", id |-> o, entry |-> 0]
  <2>2. job \in ChargeJob /\ job \in CounterJob /\ job # Free
    BY DEF ChargeJob, CounterJob, Free
  <2>3. Subject(job) = o BY DEF Subject
  <2>4. OrderJobKnown(job) BY <2>1 DEF OrderJobKnown, MayCharge
  <2> QED BY <2>1, <2>2, <2>3, <2>4
<1>4. CASE BeginSettle(w)
  <2>1. PICK o \in OrderIds, type \in TenderTypes :
          /\ Placed(o) /\ orders[o].status = "collected" /\ orders[o].charge # 0
          /\ Take(w, [charge |-> orders[o].charge, type |-> type, op |-> "settle",
                      id |-> o, entry |-> 0])
    BY <1>4 DEF BeginSettle
  <2> DEFINE job == [charge |-> orders[o].charge, type |-> type, op |-> "settle",
                     id |-> o, entry |-> 0]
  <2>2. orders[o].charge \in Entries(o, "charge")
    BY <2>1 DEF ClubInv, OrdersLinked, Linked
  <2>3. orders[o].charge \in Nat
    BY <2>1, PlacedIsOrder DEF ClubInv, Order
  <2>4. job \in SettleJob /\ job \in CounterJob /\ job # Free
    BY <2>3 DEF SettleJob, CounterJob, Free
  <2>5. Subject(job) = o BY DEF Subject
  <2>6. OrderJobKnown(job) BY <2>1, <2>2 DEF OrderJobKnown
  <2> QED BY <2>1, <2>4, <2>5, <2>6
<1> QED BY <1>1, <1>2, <1>3, <1>4

LEMMA WritesOrder ==
  ASSUME ClubInv, UNCHANGED ledger, NEW o \in OrderIds, NEW new \in Order,
         orders' = [orders EXCEPT ![o] = new],
         new.charge \in Entries(o, "charge") \union {0},
         new.payment \in Entries(o, "payment") \union {0},
         new.tender \in Entries(o, "charge") \union {0}
  PROVE  /\ orders' \in [OrderIds -> Order \union {None}] /\ orders'[o] = new
         /\ \A p \in OrderIds : p # o => orders'[p] = orders[p]
         /\ OrdersStay /\ \A p \in OrderIds : Linked(p)'
<1>1. /\ orders' \in [OrderIds -> Order \union {None}] /\ orders'[o] = new
      /\ \A p \in OrderIds : p # o => orders'[p] = orders[p]
  BY DEF ClubInv, OrderTypes
<1>2. new # None BY OrderConstantsOK
<1>3. OrdersStay BY <1>1, <1>2 DEF OrdersStay, Placed
<1>4. ASSUME NEW p \in OrderIds PROVE Linked(p)'
  <2>1. CASE p = o BY <1>1, <2>1 DEF Linked, Entries
  <2>2. CASE p # o
    <3>1. Linked(p) BY DEF ClubInv, OrdersLinked
    <3> QED BY <1>1, <2>2, <3>1 DEF Linked, Entries, Placed
  <2> QED BY <2>1, <2>2
<1> QED BY <1>1, <1>3, <1>4

LEMMA MarkTyped ==
  ASSUME FinanceTypeOK, NEW o \in OrderIds, orders[o] \in Order,
         NEW status \in PaymentStatuses, MarkLinked(o, status)
  PROVE  payment' \in [Bookings -> PaymentStatuses \union {None}]
<1>1. orders[o].booking \in Bookings \union {None} BY DEF Order
<1> QED BY <1>1 DEF MarkLinked, FinanceTypeOK

\* What is known of the request a worker serves, and of its order.
LEMMA JobAtHand ==
  ASSUME ClubInv, NEW w \in Workers
  PROVE  /\ counter[w] \in CounterJob /\ OrderJobKnown(counter[w])
         /\ counter[w].op \in {"transition", "charge", "settle"} =>
              /\ counter[w].id \in OrderIds
              /\ Placed(counter[w].id) /\ orders[counter[w].id] \in Order
              /\ Linked(counter[w].id)
<1>1. counter[w] \in CounterJob /\ OrderJobKnown(counter[w])
  BY DEF ClubInv, OrderTypes, OrderJobsKnown
<1> QED BY <1>1, CounterKinds, PlacedIsOrder
        DEF OrderJobKnown, ClubInv, OrdersLinked

LEMMA CommitOrderClub ==
  ASSUME ClubInv, Apart, NEW w \in Workers, CommitOrder(w)
  PROVE  ClubInv'
<1>1. PICK o \in OrderIds, account \in Customers, link \in Links, total \in Totals :
        /\ ~ Placed(o)
        /\ orders' = [orders EXCEPT ![o] =
             [request |-> counter[w].request, status |-> "placed",
              account |-> account, booking |-> link, total |-> total,
              charge |-> 0, payment |-> 0, tender |-> 0]]
  BY DEF CommitOrder
<1> DEFINE new == [request |-> counter[w].request, status |-> "placed",
                   account |-> account, booking |-> link, total |-> total,
                   charge |-> 0, payment |-> 0, tender |-> 0]
<1>2. counter[w] \in CreateOrderJob BY CounterKinds, JobAtHand DEF CommitOrder
<1>3. new \in Order /\ new.charge = 0 /\ new.payment = 0 /\ new.tender = 0
  BY <1>2, OrderConstantsOK DEF Order, CreateOrderJob, OrderStatuses
<1>4. orders' = [orders EXCEPT ![o] = new] /\ UNCHANGED ledger BY <1>1 DEF CommitOrder
<1> HIDE DEF new
<1>5. /\ orders' \in [OrderIds -> Order \union {None}]
      /\ OrdersStay /\ \A p \in OrderIds : Linked(p)'
  BY <1>3, <1>4, WritesOrder
<1> QED BY <1>5, FreeIsKnown, NothingPosted
        DEF CommitOrder, Done, Apart, ClubInv, OrderTypes, FinanceTypeOK, TendersStay

LEMMA CommitOrderTransitionClub ==
  ASSUME ClubInv, Apart, NEW w \in Workers, CommitOrderTransition(w)
  PROVE  ClubInv'
<1>1. PICK j \in CounterJob : j = counter[w] BY JobAtHand
<1>2. j \in TransitionJob BY <1>1, CounterKinds DEF CommitOrderTransition
<1>3. j.id \in OrderIds /\ j.to \in OrderStatuses BY <1>2 DEF TransitionJob
<1>4. orders[j.id] \in Order /\ Linked(j.id) /\ Placed(j.id)
  BY <1>1, JobAtHand DEF CommitOrderTransition
<1> DEFINE new == [orders[j.id] EXCEPT !.status = j.to]
<1>5. /\ new \in Order /\ new.charge = orders[j.id].charge
      /\ new.payment = orders[j.id].payment /\ new.tender = orders[j.id].tender
  BY <1>3, <1>4 DEF Order
<1>6. orders' = [orders EXCEPT ![j.id] = new] /\ UNCHANGED ledger
  BY <1>1 DEF CommitOrderTransition
<1> HIDE DEF new
<1>7. /\ orders' \in [OrderIds -> Order \union {None}]
      /\ OrdersStay /\ \A p \in OrderIds : Linked(p)'
  BY <1>3, <1>4, <1>5, <1>6, WritesOrder DEF Linked
<1> QED BY <1>7, FreeIsKnown, NothingPosted
        DEF CommitOrderTransition, Done, Apart, ClubInv, OrderTypes, FinanceTypeOK, TendersStay

LEMMA LinkOrderChargeClub ==
  ASSUME ClubInv, Apart, NEW w \in Workers, LinkOrderCharge(w)
  PROVE  ClubInv'
<1>1. PICK j \in CounterJob : j = counter[w] BY JobAtHand
<1>2. j \in ChargeJob /\ j.op = "charge" /\ j.entry # 0
  BY <1>1, CounterKinds DEF LinkOrderCharge
<1>3. j.id \in OrderIds /\ j.entry \in Nat BY <1>2 DEF ChargeJob
<1>4. /\ orders[j.id] \in Order /\ Linked(j.id) /\ Placed(j.id)
      /\ j.entry \in Entries(j.id, "charge")
  BY <1>1, <1>2, JobAtHand DEF OrderJobKnown
<1> DEFINE new == [orders[j.id] EXCEPT !.charge = j.entry]
<1>5. /\ new \in Order /\ new.charge = j.entry
      /\ new.payment = orders[j.id].payment /\ new.tender = orders[j.id].tender
  BY <1>3, <1>4 DEF Order
<1>6. orders' = [orders EXCEPT ![j.id] = new] /\ UNCHANGED ledger
  BY <1>1 DEF LinkOrderCharge, WithCharge
<1> HIDE DEF new
<1>7. /\ orders' \in [OrderIds -> Order \union {None}]
      /\ OrdersStay /\ \A p \in OrderIds : Linked(p)'
  BY <1>3, <1>4, <1>5, <1>6, WritesOrder DEF Linked
<1>8. payment' \in [Bookings -> PaymentStatuses \union {None}]
  BY <1>1, <1>3, <1>4, MarkTyped DEF LinkOrderCharge, PaymentStatuses, ClubInv, OrderTypes
<1> QED BY <1>7, <1>8, FreeIsKnown, NothingPosted
        DEF LinkOrderCharge, Done, Apart, ClubInv, OrderTypes, FinanceTypeOK, TendersStay

LEMMA SettleOnAccountClub ==
  ASSUME ClubInv, Apart, NEW w \in Workers, SettleOnAccount(w)
  PROVE  ClubInv'
<1>1. PICK j \in CounterJob : j = counter[w] BY JobAtHand
<1>2. j \in SettleJob /\ j.op = "settle" BY <1>1, CounterKinds DEF SettleOnAccount
<1>3. j.id \in OrderIds /\ j.charge \in Nat /\ j.type \in TenderTypes BY <1>2 DEF SettleJob
<1>4. /\ orders[j.id] \in Order /\ Linked(j.id) /\ Placed(j.id)
      /\ j.charge \in Entries(j.id, "charge")
  BY <1>1, <1>2, JobAtHand DEF OrderJobKnown
<1> DEFINE new == [orders[j.id] EXCEPT !.tender = j.charge]
           tender == [type |-> j.type, settlement |-> 0]
<1>5. /\ new \in Order /\ new.tender = j.charge
      /\ new.payment = orders[j.id].payment /\ new.charge = orders[j.id].charge
  BY <1>3, <1>4 DEF Order
<1>6. tender \in Tender /\ tender # None
  <2>1. tender \in Tender BY <1>3 DEF Tender
  <2> HIDE DEF tender
  <2> QED BY <2>1, OrderConstantsOK
<1>7. /\ orders' = [orders EXCEPT ![j.id] = new] /\ UNCHANGED ledger
      /\ tenders' = [tenders EXCEPT ![j.charge] = tender]
  BY <1>1 DEF SettleOnAccount
<1> HIDE DEF new, tender
<1>8. /\ orders' \in [OrderIds -> Order \union {None}]
      /\ OrdersStay /\ \A p \in OrderIds : Linked(p)'
  BY <1>3, <1>4, <1>5, <1>7, WritesOrder DEF Linked
<1>9. payment' \in [Bookings -> PaymentStatuses \union {None}]
  BY <1>1, <1>3, <1>4, MarkTyped DEF SettleOnAccount, PaymentStatuses, ClubInv, OrderTypes
<1>10. j.charge <= Len(ledger)
  BY <1>4, EntriesInLedger DEF ClubInv, OrderTypes
<1>11. /\ tenders' \in [1 .. MaxEntries -> Tender \union {None}]
       /\ TendersStay
       /\ \A c \in 1 .. MaxEntries :
            tenders'[c] # None => tenders[c] # None \/ c <= Len(ledger)
  BY <1>6, <1>7, <1>10 DEF ClubInv, OrderTypes, TendersStay
<1> QED BY <1>8, <1>9, <1>11, FreeIsKnown, NothingPosted
        DEF SettleOnAccount, Done, Apart, ClubInv, OrderTypes, FinanceTypeOK

LEMMA LinkSettlementClub ==
  ASSUME ClubInv, Apart, NEW w \in Workers, LinkSettlement(w)
  PROVE  ClubInv'
<1>1. PICK j \in CounterJob : j = counter[w] BY JobAtHand
<1>2. j \in SettleJob /\ j.op = "settle" /\ j.entry # 0
  BY <1>1, CounterKinds DEF LinkSettlement
<1>3. j.id \in OrderIds /\ j.charge \in Nat /\ j.entry \in Nat BY <1>2 DEF SettleJob
<1>4. /\ orders[j.id] \in Order /\ Linked(j.id) /\ Placed(j.id)
      /\ j.charge \in Entries(j.id, "charge") /\ j.entry \in Entries(j.id, "payment")
      /\ tenders[j.charge] # None
  BY <1>1, <1>2, JobAtHand DEF OrderJobKnown
<1> DEFINE new == [orders[j.id] EXCEPT !.payment = j.entry, !.tender = j.charge]
<1>5. /\ new \in Order /\ new.tender = j.charge
      /\ new.payment = j.entry /\ new.charge = orders[j.id].charge
  BY <1>3, <1>4 DEF Order
<1>6. /\ orders' = [orders EXCEPT ![j.id] = new] /\ UNCHANGED ledger
      /\ tenders' = [tenders EXCEPT ![j.charge].settlement = j.entry]
  BY <1>1 DEF LinkSettlement, WithSettlement
<1> HIDE DEF new
<1>7. /\ orders' \in [OrderIds -> Order \union {None}]
      /\ OrdersStay /\ \A p \in OrderIds : Linked(p)'
  BY <1>3, <1>4, <1>5, <1>6, WritesOrder DEF Linked
<1>8. payment' \in [Bookings -> PaymentStatuses \union {None}]
  BY <1>1, <1>3, <1>4, MarkTyped DEF LinkSettlement, PaymentStatuses, ClubInv, OrderTypes
<1>9. /\ tenders' \in [1 .. MaxEntries -> Tender \union {None}]
      /\ TendersStay
      /\ \A c \in 1 .. MaxEntries :
           tenders'[c] # None => tenders[c] # None \/ c <= Len(ledger)
  <2>1. j.charge \in 1 .. MaxEntries
    BY <1>4, EntriesInLedger, FinanceConstantsOK DEF ClubInv, OrderTypes, TendersInLedger
  <2>2. tenders[j.charge] \in Tender BY <1>4, <2>1 DEF ClubInv, OrderTypes
  <2> DEFINE t == [tenders[j.charge] EXCEPT !.settlement = j.entry]
  <2>3. t \in Tender BY <1>3, <2>2 DEF Tender
  <2>4. tenders' = [tenders EXCEPT ![j.charge] = t] BY <1>6
  <2> HIDE DEF t
  <2>5. t # None BY <2>3, OrderConstantsOK
  <2> QED BY <1>4, <2>3, <2>4, <2>5 DEF ClubInv, OrderTypes, TendersStay
<1> QED BY <1>7, <1>8, <1>9, FreeIsKnown, NothingPosted
        DEF LinkSettlement, Done, Apart, ClubInv, OrderTypes, FinanceTypeOK

\* A step that posts an entry of an order; a payment comes with a new tender.
LEMMA OrderPosted ==
  ASSUME ClubInv, Apart, NEW w \in Workers, NEW job \in CounterJob,
         NEW kind \in {"charge", "payment"}, NEW o \in OrderIds, Placed(o),
         NEW account \in Accounts, NEW amount \in Int, Post(kind, o, account, amount),
         UNCHANGED <<payment, orders, rushed, halved>>,
         counter' = [counter EXCEPT ![w] = job], OrderJobKnown(job)',
         tenders' \in [1 .. MaxEntries -> Tender \union {None}], TendersStay,
         \A c \in 1 .. MaxEntries :
           tenders'[c] # None => tenders[c] # None \/ c <= Len(ledger),
         kind = "payment" =>
           \E c \in Entries(o, "charge") : tenders[c] = None /\ tenders'[c] # None
  PROVE  ClubInv'
<1>1. o \in References /\ kind \in Kinds BY OrderConstantsOK DEF Kinds
<1>2. /\ Len(ledger) \in Nat /\ DOMAIN ledger = 1 .. Len(ledger)
      /\ ledger' \in Seq(Entry) /\ Len(ledger') = Len(ledger) + 1
      /\ DOMAIN ledger' = 1 .. (Len(ledger) + 1)
      /\ Len(ledger') <= MaxEntries
      /\ Grows
      /\ ledger'[Len(ledger) + 1].ref = o
      /\ Entries(o, kind)' = Entries(o, kind) \union {Len(ledger) + 1}
      /\ \A r, k : r # o \/ k # kind => Entries(r, k)' = Entries(r, k)
  BY <1>1, PostAdds DEF ClubInv, OrderTypes
<1>3. OrdersStay /\ \A p \in OrderIds : Placed(p)' = Placed(p) BY DEF OrdersStay, Placed
<1>4. FinanceTypeOK' BY <1>2 DEF Apart, ClubInv, OrderTypes, FinanceTypeOK
<1>5. counter' \in [Workers -> CounterJob] /\ OrderJobsKnown' BY <1>2, <1>3, JobsStayKnown
<1>6. OrdersLinked'
  <2> SUFFICES ASSUME NEW p \in OrderIds, Placed(p) PROVE Linked(p)'
    BY <1>3 DEF OrdersLinked, Linked
  <2>1. \A k : Entries(p, k) \subseteq Entries(p, k)' BY <1>2 DEF Grows, Entries
  <2>2. Linked(p) BY DEF ClubInv, OrdersLinked
  <2> QED BY <2>1, <2>2 DEF Linked
<1>7. EntriesOfPlaced'
  BY <1>2, <1>3 DEF ClubInv, EntriesOfPlaced, Grows
<1>8. TendersInLedger' BY <1>2 DEF ClubInv, TendersInLedger
<1>9. PaymentsTendered'
  <2> SUFFICES ASSUME NEW p \in OrderIds
               PROVE  Cardinality(Entries(p, "payment")') <= Cardinality(Tendered(p)')
    BY DEF PaymentsTendered
  <2>1. /\ IsFiniteSet(Entries(p, "charge")) /\ IsFiniteSet(Entries(p, "charge")')
        /\ IsFiniteSet(Entries(p, "payment"))
        /\ Entries(p, "charge") \subseteq 1 .. Len(ledger)
        /\ Entries(p, "payment") \subseteq 1 .. Len(ledger)
        /\ Cardinality(Entries(p, "payment")) \in Nat
    <3>1. Entries(p, "charge")' \subseteq 1 .. (Len(ledger) + 1) BY <1>2 DEF Entries
    <3>2. IsFiniteSet(1 .. (Len(ledger) + 1)) BY <1>2, FS_Interval
    <3> QED BY <3>1, <3>2, FS_Subset, EntriesInLedger DEF ClubInv, OrderTypes
  <2>2. Entries(p, "charge") \subseteq 1 .. MaxEntries
    BY <1>2, <2>1, FinanceConstantsOK
  <2>3. Tendered(p) \subseteq Tendered(p)'
    BY <1>2, <2>2 DEF Tendered, TendersStay
  <2>4. /\ IsFiniteSet(Tendered(p)) /\ IsFiniteSet(Tendered(p)')
        /\ Cardinality(Tendered(p)) \in Nat /\ Cardinality(Tendered(p)') \in Nat
        /\ Cardinality(Tendered(p)) <= Cardinality(Tendered(p)')
    <3>1. Tendered(p) \subseteq Entries(p, "charge") /\ Tendered(p)' \subseteq Entries(p, "charge")'
      BY DEF Tendered
    <3> QED BY <2>1, <2>3, <3>1, FS_Subset, FS_CardinalityType
  <2>5. Cardinality(Entries(p, "payment")) <= Cardinality(Tendered(p))
    BY DEF ClubInv, PaymentsTendered
  <2>6. CASE p = o /\ kind = "payment"
    <3>1. PICK c \in Entries(o, "charge") : tenders[c] = None /\ tenders'[c] # None BY <2>6
    <3>2. c \notin Tendered(p) /\ Tendered(p) \union {c} \subseteq Tendered(p)'
      BY <1>2, <2>3, <2>6, <3>1 DEF Tendered
    <3>3. Cardinality(Tendered(p) \union {c}) = Cardinality(Tendered(p)) + 1
      BY <2>4, <3>2, FS_AddElement
    <3>4. Cardinality(Tendered(p) \union {c}) <= Cardinality(Tendered(p)')
      BY <2>4, <3>2, FS_Subset
    <3>5. Len(ledger) + 1 \notin Entries(p, "payment") BY <1>2, <2>1
    <3>6. PICK paid : paid = Entries(p, "payment") OBVIOUS
    <3>7. Entries(p, "payment")' = paid \union {Len(ledger) + 1} BY <1>2, <2>6, <3>6
    <3>8. Cardinality(paid \union {Len(ledger) + 1}) = Cardinality(paid) + 1
      BY <2>1, <3>5, <3>6, FS_AddElement
    <3>9. Cardinality(Entries(p, "payment")') = Cardinality(Entries(p, "payment")) + 1
      BY <3>6, <3>7, <3>8
    <3> QED BY <2>1, <2>4, <2>5, <3>3, <3>4, <3>9
  <2>7. CASE ~ (p = o /\ kind = "payment")
    <3>1. Entries(p, "payment")' = Entries(p, "payment") BY <1>2, <2>7
    <3> QED BY <2>1, <2>4, <2>5, <3>1
  <2> QED BY <2>6, <2>7
<1> QED BY <1>4, <1>5, <1>6, <1>7, <1>8, <1>9 DEF ClubInv, OrderTypes

LEMMA PostOrderChargeClub ==
  ASSUME ClubInv, Apart, NEW w \in Workers, PostOrderCharge(w)
  PROVE  ClubInv'
<1>1. PICK j \in CounterJob : j = counter[w] BY JobAtHand
<1>2. j \in ChargeJob /\ j.op = "charge" BY <1>1, CounterKinds DEF PostOrderCharge
<1>3. j.id \in OrderIds BY <1>2 DEF ChargeJob
<1>4. orders[j.id] \in Order /\ Placed(j.id) BY <1>1, <1>2, JobAtHand
<1>5. PICK account, amount :
        /\ account = orders[j.id].account /\ amount = -orders[j.id].total
        /\ Post("charge", j.id, account, amount)
  BY <1>1 DEF PostOrderCharge
<1>6. account \in Accounts /\ amount \in Int BY <1>4, <1>5 DEF Order
<1>7. /\ j.id \in References /\ "charge" \in Kinds BY <1>3, OrderConstantsOK DEF Kinds
<1>8. /\ Len(ledger) \in Nat /\ Len(ledger') = Len(ledger) + 1
      /\ Entries(j.id, "charge")' = Entries(j.id, "charge") \union {Len(ledger) + 1}
  BY <1>5, <1>6, <1>7, PostAdds DEF ClubInv, OrderTypes
<1> DEFINE job == [j EXCEPT !.entry = Len(ledger) + 1]
<1>9. job \in ChargeJob /\ job.op = "charge" /\ job.id = j.id /\ job.entry = Len(ledger) + 1
  BY <1>2, <1>8 DEF ChargeJob
<1>10. job \in CounterJob BY <1>9 DEF CounterJob
<1>11. counter' = [counter EXCEPT ![w] = job] BY <1>1, <1>8 DEF PostOrderCharge
<1>12. UNCHANGED <<payment, orders, tenders, rushed, halved>> BY DEF PostOrderCharge
<1>13. PICK k \in CounterJob : k = job BY <1>10
<1> HIDE DEF job
<1>14. OrderJobKnown(k)'
  BY <1>4, <1>8, <1>9, <1>12, <1>13 DEF OrderJobKnown, Placed
<1>15. /\ tenders' \in [1 .. MaxEntries -> Tender \union {None}] /\ TendersStay
       /\ \A c \in 1 .. MaxEntries :
            tenders'[c] # None => tenders[c] # None \/ c <= Len(ledger)
  BY <1>12 DEF ClubInv, OrderTypes, TendersStay
<1> QED BY <1>3, <1>4, <1>5, <1>6, <1>11, <1>12, <1>13, <1>14, <1>15, OrderPosted

\* What a settlement posts, and with which tender.
LEMMA SettlementPosted ==
  ASSUME ClubInv, NEW w \in Workers, NEW j, j = counter[w], PostSettlement(w)
  PROVE  /\ j \in SettleJob /\ j.op = "settle" /\ j.entry = 0 /\ j.type # "member_account"
         /\ j.id \in OrderIds /\ orders[j.id] \in Order /\ Placed(j.id)
         /\ j.charge \in Entries(j.id, "charge") /\ tenders[j.charge] = None
         /\ j.charge \in 1 .. MaxEntries
         /\ tenders' = [tenders EXCEPT ![j.charge] = [type |-> j.type, settlement |-> 0]]
         /\ [type |-> j.type, settlement |-> 0] \in Tender
         /\ [type |-> j.type, settlement |-> 0] # None
         /\ \E account \in Accounts, amount \in Int : Post("payment", j.id, account, amount)
<1>1. /\ j \in SettleJob /\ j.op = "settle" /\ j.entry = 0 /\ j.type # "member_account"
      /\ tenders[j.charge] = None
      /\ tenders' = [tenders EXCEPT ![j.charge] = [type |-> j.type, settlement |-> 0]]
      /\ Post("payment", j.id, orders[j.id].account, SettlementAmount(j.charge))
  BY JobAtHand, CounterKinds DEF PostSettlement, NoTenderYet
<1>2. /\ j.id \in OrderIds /\ orders[j.id] \in Order /\ Placed(j.id)
      /\ j.charge \in Entries(j.id, "charge")
  BY <1>1, JobAtHand DEF OrderJobKnown
<1>3. /\ j.charge \in 1 .. Len(ledger) /\ Len(ledger) \in Nat /\ Len(ledger) <= MaxEntries
  BY <1>2, EntriesInLedger DEF ClubInv, OrderTypes, TendersInLedger
<1>4. j.charge \in 1 .. MaxEntries BY <1>3, FinanceConstantsOK
<1>5. j.charge \in DOMAIN ledger BY <1>2 DEF Entries
<1>6. ledger[j.charge] \in Entry BY <1>5, EntryTyped DEF ClubInv, OrderTypes
<1>7. SettlementAmount(j.charge) \in Int BY <1>6 DEF SettlementAmount, Entry
<1>8. orders[j.id].account \in Accounts BY <1>2 DEF Order
<1>9. PICK tender : tender = [type |-> j.type, settlement |-> 0] OBVIOUS
<1>10. tender \in Tender BY <1>1, <1>9 DEF SettleJob, Tender
<1>11. tender # None BY <1>10, OrderConstantsOK
<1> QED BY <1>1, <1>2, <1>4, <1>7, <1>8, <1>9, <1>10, <1>11

LEMMA PostSettlementClub ==
  ASSUME ClubInv, Apart, NEW w \in Workers, PostSettlement(w)
  PROVE  ClubInv'
<1>1. PICK j \in CounterJob : j = counter[w] BY JobAtHand
<1>2. PICK tender : tender = [type |-> j.type, settlement |-> 0] OBVIOUS
<1>3. /\ j \in SettleJob /\ j.op = "settle" /\ j.entry = 0
      /\ j.id \in OrderIds /\ orders[j.id] \in Order /\ Placed(j.id)
      /\ j.charge \in Entries(j.id, "charge") /\ tenders[j.charge] = None
      /\ j.charge \in 1 .. MaxEntries
      /\ tenders' = [tenders EXCEPT ![j.charge] = tender]
      /\ tender \in Tender /\ tender # None
  BY <1>1, <1>2, SettlementPosted
<1>4. PICK account \in Accounts, amount \in Int : Post("payment", j.id, account, amount)
  BY <1>1, SettlementPosted
<1>5. j.id \in References /\ "payment" \in Kinds BY <1>3, OrderConstantsOK DEF Kinds
<1>6. /\ Len(ledger) \in Nat /\ Len(ledger') = Len(ledger) + 1 /\ Grows
      /\ Entries(j.id, "payment")' = Entries(j.id, "payment") \union {Len(ledger) + 1}
      /\ \A r, k : r # j.id \/ k # "payment" => Entries(r, k)' = Entries(r, k)
  BY <1>4, <1>5, PostAdds DEF ClubInv, OrderTypes
<1>7. Entries(j.id, "charge")' = Entries(j.id, "charge") BY <1>6
<1> DEFINE job == [j EXCEPT !.entry = Len(ledger) + 1]
<1>8. /\ job \in SettleJob /\ job.op = "settle" /\ job.id = j.id
      /\ job.charge = j.charge /\ job.entry = Len(ledger) + 1
  BY <1>3, <1>6 DEF SettleJob
<1>9. job \in CounterJob BY <1>8 DEF CounterJob
<1>10. counter' = [counter EXCEPT ![w] = job] BY <1>1, <1>6 DEF PostSettlement
<1>11. UNCHANGED <<payment, orders, rushed, halved>> BY DEF PostSettlement
<1>12. PICK k \in CounterJob : k = job BY <1>9
<1> HIDE DEF job
<1>13. tenders' \in [1 .. MaxEntries -> Tender \union {None}] /\ tenders'[j.charge] # None
  BY <1>3 DEF ClubInv, OrderTypes
<1>14. j.charge <= Len(ledger) BY <1>3, EntriesInLedger DEF ClubInv, OrderTypes
<1>15. /\ TendersStay
       /\ \A c \in 1 .. MaxEntries :
            tenders'[c] # None => tenders[c] # None \/ c <= Len(ledger)
  BY <1>3, <1>14 DEF ClubInv, OrderTypes, TendersStay
<1>16. OrderJobKnown(k)'
  BY <1>3, <1>6, <1>7, <1>8, <1>11, <1>12, <1>13 DEF OrderJobKnown, Placed
<1> QED BY <1>3, <1>4, <1>10, <1>11, <1>12, <1>13, <1>15, <1>16, OrderPosted

LEMMA EndOrderClub ==
  ASSUME ClubInv, Apart, NEW w \in Workers, RefuseOrder(w) \/ CrashHalfway(w)
  PROVE  ClubInv'
<1>1. Halfway(w) => counter[w].id \in OrderIds BY JobAtHand DEF Halfway
<1>2. CASE RefuseOrder(w)
  BY <1>2, FreeIsKnown, OnlyCounter DEF RefuseOrder, Done, Apart, ClubInv, OrderTypes
<1>3. CASE CrashHalfway(w)
  BY <1>1, <1>3, FreeIsKnown, OnlyCounter DEF CrashHalfway, Done, Apart, ClubInv, OrderTypes
<1> QED BY <1>2, <1>3

\* What bookings do does not concern orders, beyond a ledger that has grown.
LEMMA BookingsClub ==
  ASSUME ClubInv, FinanceTypeOK', BookingsOnly, UNCHANGED orderVars
  PROVE  ClubInv'
<1>1. /\ OrderTypes' /\ OrdersStay /\ TendersStay /\ \A o : Placed(o)' = Placed(o)
  BY DEF ClubInv, OrderTypes, orderVars, OrdersStay, TendersStay, Placed
<1>2. Grows /\ \A o \in OrderIds : /\ Entries(o, "charge")' = Entries(o, "charge")
                                   /\ Entries(o, "payment")' = Entries(o, "payment")
  BY DEF BookingsOnly, Kinds
<1>3. OrderJobsKnown'
  <2> SUFFICES ASSUME NEW w \in Workers, NEW j \in CounterJob, j = counter[w]
               PROVE  OrderJobKnown(j)'
    BY DEF OrderJobsKnown, orderVars, ClubInv, OrderTypes
  <2> QED BY <1>1, <1>2, KnownStays DEF ClubInv, OrderJobsKnown
<1>4. OrdersLinked' BY <1>1, <1>2 DEF ClubInv, OrdersLinked, Linked, orderVars
<1>5. EntriesOfPlaced'
  BY <1>1 DEF ClubInv, EntriesOfPlaced, BookingsOnly, Grows
<1>6. TendersInLedger'
  <2>1. Len(ledger) \in Nat /\ Len(ledger') \in Nat
    BY DEF FinanceTypeOK, ClubInv, OrderTypes, BookingsOnly
  <2>2. \A c \in 1 .. MaxEntries : c <= Len(ledger) => c <= Len(ledger')
    BY <2>1 DEF BookingsOnly
  <2> QED BY <2>2 DEF ClubInv, TendersInLedger, BookingsOnly, orderVars
<1>7. PaymentsTendered'
  BY <1>2 DEF ClubInv, PaymentsTendered, Tendered, orderVars
<1> QED BY <1>1, <1>3, <1>4, <1>5, <1>6, <1>7 DEF ClubInv

\* Every step of an order's request keeps the invariant.
LEMMA OrderStepClub ==
  ASSUME ClubInv, Apart, NEW w \in Workers, OrderStep(w)
  PROVE  ClubInv'
<1>1. CASE BeginOrder(w) \/ BeginOrderTransition(w) \/ BeginOrderCharge(w) \/ BeginSettle(w)
  BY <1>1, BeginsKnown, TakeClub
<1> QED BY <1>1, CommitOrderClub, CommitOrderTransitionClub, PostOrderChargeClub,
           LinkOrderChargeClub, SettleOnAccountClub, PostSettlementClub,
           LinkSettlementClub, EndOrderClub DEF OrderStep

LEMMA NextClub == ClubInv /\ [ClubNext]_clubVars => ClubInv'
<1> SUFFICES ASSUME ClubInv, [ClubNext]_clubVars PROVE ClubInv' OBVIOUS
<1>1. ASSUME NEW w \in Workers, FinanceStep(w), UNCHANGED orderVars PROVE ClubInv'
  BY <1>1, BookingStep, BookingsClub DEF ClubInv, OrderTypes, TendersInLedger
<1>2. ASSUME NEW w \in Workers, OrderStep(w), UNCHANGED <<desk, raced, cut>> PROVE ClubInv'
  BY <1>2, OrderStepClub DEF Apart
<1>3. CASE UNCHANGED clubVars
  <2>1. FinanceTypeOK' /\ BookingsOnly /\ UNCHANGED orderVars
    BY <1>3, SameLedger DEF clubVars, orderVars, ClubInv, OrderTypes, FinanceTypeOK,
                            TendersInLedger
  <2> QED BY <2>1, BookingsClub
<1> QED BY <1>1, <1>2, <1>3 DEF ClubNext

\* Whatever requests of bookings and orders overlap or stop, what a request at work may
\* rely on stays true, and payments of an order stay within its tendered charges.
THEOREM ClubInvariance == ClubSpec => []ClubInv
BY InitClub, NextClub, PTL DEF ClubSpec

-------------------------------------------------------------------------------
(* The theorems that hold however requests overlap.                        *)

\* Orders, tenders and the requests at work keep their types, and no order is linked
\* to an entry that is not in the ledger.
THEOREM OrderTypeCorrect == ClubSpec => []OrderTypeOK
BY ClubInvariance, ClubIsTyped, PTL

LEMMA TenderedBounds == ClubInv => NeverOverpaid
<1> SUFFICES ASSUME ClubInv, NEW o \in OrderIds
             PROVE  Cardinality(Entries(o, "payment")) <= Cardinality(Entries(o, "charge"))
  BY DEF NeverOverpaid
<1>1. /\ IsFiniteSet(Entries(o, "charge")) /\ Cardinality(Entries(o, "charge")) \in Nat
      /\ Cardinality(Entries(o, "payment")) \in Nat
  BY EntriesInLedger DEF ClubInv, OrderTypes
<1>2. Tendered(o) \subseteq Entries(o, "charge") BY DEF Tendered
<1>3. /\ Cardinality(Tendered(o)) \in Nat
      /\ Cardinality(Tendered(o)) <= Cardinality(Entries(o, "charge"))
  BY <1>1, <1>2, FS_Subset, FS_CardinalityType
<1>4. Cardinality(Entries(o, "payment")) <= Cardinality(Tendered(o))
  BY DEF ClubInv, PaymentsTendered
<1> QED BY <1>1, <1>3, <1>4

-------------------------------------------------------------------------------
(* One request at a time is at work on what is not rushed.                 *)

AloneAtCounter ==
  \A v, w \in Workers :
    ( /\ counter[v] # Free /\ counter[w] # Free
      /\ Subject(counter[v]) = Subject(counter[w])
      /\ Subject(counter[v]) \notin rushed ) => v = w

\* A request goes on with the same subject until it ends.
GoesOn(w) ==
  /\ rushed' = rushed
  /\ counter'[w] # Free =>
       /\ counter[w] # Free /\ Subject(counter'[w]) = Subject(counter[w])
       /\ counter'[w].op = counter[w].op
       /\ counter'[w].op \in {"charge", "settle"}

LEMMA StepGoesOn ==
  ASSUME ClubInv, NEW w \in Workers, OrderStep(w)
  PROVE  /\ rushed \subseteq rushed' /\ halved \subseteq halved'
         /\ \A v \in Workers : v # w => counter'[v] = counter[v]
         /\ \/ \E job \in CounterJob : Take(w, job) /\ counter'[w] = job
            \/ GoesOn(w)
<1> USE DEF ClubInv, OrderTypes
<1>1. CASE BeginOrder(w) \/ BeginOrderTransition(w) \/ BeginOrderCharge(w) \/ BeginSettle(w)
  <2>1. PICK job \in CounterJob : Take(w, job) BY <1>1, BeginsKnown
  <2> QED BY <2>1 DEF Take
<1>2. CASE \/ CommitOrder(w) \/ CommitOrderTransition(w) \/ LinkOrderCharge(w)
           \/ SettleOnAccount(w) \/ LinkSettlement(w) \/ RefuseOrder(w) \/ CrashHalfway(w)
  <2>1. Done(w) /\ rushed' = rushed /\ halved \subseteq halved'
    BY <1>2 DEF CommitOrder, CommitOrderTransition, LinkOrderCharge, SettleOnAccount,
                LinkSettlement, RefuseOrder, CrashHalfway
  <2> QED BY <2>1 DEF Done, GoesOn
<1>3. CASE PostOrderCharge(w) \/ PostSettlement(w)
  <2>1. /\ counter' = [counter EXCEPT ![w].entry = Len(ledger')]
        /\ rushed' = rushed /\ halved' = halved
        /\ counter[w].op \in {"charge", "settle"}
    BY <1>3 DEF PostOrderCharge, PostSettlement
  <2>2. PICK j \in ChargeJob \union SettleJob : j = counter[w] BY <2>1, CounterKinds
  <2>3. /\ [j EXCEPT !.entry = Len(ledger')].op = j.op
        /\ [j EXCEPT !.entry = Len(ledger')].id = j.id
    BY <2>2 DEF ChargeJob, SettleJob
  <2>4. counter'[w] = [j EXCEPT !.entry = Len(ledger')] BY <2>1, <2>2
  <2> QED BY <2>1, <2>2, <2>3, <2>4 DEF GoesOn, Subject, Free
<1> QED BY <1>1, <1>2, <1>3 DEF OrderStep

LEMMA NextAloneAtCounter ==
  ClubInv /\ AloneAtCounter /\ [ClubNext]_clubVars => AloneAtCounter'
<1> SUFFICES ASSUME ClubInv, AloneAtCounter, [ClubNext]_clubVars PROVE AloneAtCounter'
  OBVIOUS
<1>1. CASE UNCHANGED <<counter, rushed>> BY <1>1 DEF AloneAtCounter
<1>2. ASSUME NEW w \in Workers, OrderStep(w) PROVE AloneAtCounter'
  <2>1. /\ rushed \subseteq rushed'
        /\ \A v \in Workers : v # w => counter'[v] = counter[v]
    BY <1>2, StepGoesOn
  <2>2. CASE \E job \in CounterJob : Take(w, job) /\ counter'[w] = job
    <3>1. PICK job \in CounterJob : Take(w, job) /\ counter'[w] = job BY <2>2
    <3>2. rushed' = rushed \union
            {x \in {Subject(job)} :
               \E v \in Workers : counter[v] # Free /\ Subject(counter[v]) = x}
      BY <3>1 DEF Take
    <3>3. \A v \in Workers :
            (v # w /\ counter[v] # Free /\ Subject(counter[v]) = Subject(job))
              => Subject(job) \in rushed'
      BY <3>2
    <3>4. ASSUME NEW v \in Workers, NEW u \in Workers,
                 counter'[v] # Free, counter'[u] # Free,
                 Subject(counter'[v]) = Subject(counter'[u]),
                 Subject(counter'[v]) \notin rushed'
          PROVE  v = u
      <4>1. CASE v = w /\ u # w BY <2>1, <3>1, <3>3, <3>4, <4>1
      <4>2. CASE u = w /\ v # w BY <2>1, <3>1, <3>3, <3>4, <4>2
      <4>3. CASE u # w /\ v # w BY <2>1, <3>4, <4>3 DEF AloneAtCounter
      <4> QED BY <4>1, <4>2, <4>3
    <3>5. \A v : Subject(counter[v])' = Subject(counter'[v]) BY DEF Subject
    <3> QED BY <3>4, <3>5 DEF AloneAtCounter
  <2>3. CASE GoesOn(w)
    <3>1. ASSUME NEW v \in Workers, NEW u \in Workers,
                 counter'[v] # Free, counter'[u] # Free,
                 Subject(counter'[v]) = Subject(counter'[u]),
                 Subject(counter'[v]) \notin rushed'
          PROVE  v = u
      <4>1. \A x \in Workers : counter'[x] # Free =>
              counter[x] # Free /\ Subject(counter[x]) = Subject(counter'[x])
        BY <2>1, <2>3 DEF GoesOn
      <4> QED BY <2>1, <3>1, <4>1 DEF AloneAtCounter
    <3>2. \A v : Subject(counter[v])' = Subject(counter'[v]) BY DEF Subject
    <3> QED BY <3>1, <3>2 DEF AloneAtCounter
  <2> QED BY <1>2, <2>2, <2>3, StepGoesOn
<1> QED BY <1>1, <1>2 DEF ClubNext, clubVars, orderVars

-------------------------------------------------------------------------------
(* One order of a request.                                                 *)

\* Where creates of r did not overlap, it has one order at most, and none while one of
\* them is at work.
RequestRight(r) ==
  r \notin rushed =>
    /\ \A o, p \in OrderIds :
         (Placed(o) /\ Placed(p) /\ orders[o].request = r /\ orders[p].request = r) => o = p
    /\ \A w \in Workers :
         (counter[w].op = "create" /\ counter[w].request = r) => NewRequest(r)

\* The worker serves a request about the order o.
About(w, o) == counter[w].op \in {"transition", "charge", "settle"} /\ counter[w].id = o

LEMMA Rewritten ==
  ASSUME ClubInv, NEW id \in OrderIds, orders[id] \in Order, NEW new \in Order,
         new.request = orders[id].request, orders' = [orders EXCEPT ![id] = new],
         NEW o \in OrderIds
  PROVE  /\ Placed(o)' = Placed(o)
         /\ Placed(o) => orders'[o].request = orders[o].request
         /\ o # id => orders'[o] = orders[o]
BY OrderConstantsOK DEF ClubInv, OrderTypes, Placed

\* A request writes to its own order, and never to its correlation id.
LEMMA WritesOwnOrder ==
  ASSUME ClubInv, NEW w \in Workers, OrderStep(w), ~ CommitOrder(w), NEW o \in OrderIds
  PROVE  /\ Placed(o)' = Placed(o)
         /\ Placed(o) => orders'[o].request = orders[o].request
         /\ ~ About(w, o) => orders'[o] = orders[o]
<1> DEFINE Goal == /\ Placed(o)' = Placed(o)
                   /\ Placed(o) => orders'[o].request = orders[o].request
                   /\ ~ About(w, o) => orders'[o] = orders[o]
<1>1. CASE UNCHANGED orders BY <1>1 DEF Placed
<1>2. PICK j \in CounterJob : j = counter[w] BY JobAtHand
<1>3. PICK order : order = orders[j.id] OBVIOUS
<1>4. ASSUME j.op \in {"transition", "charge", "settle"}, NEW new \in Order,
             new.request = order.request, orders' = [orders EXCEPT ![j.id] = new]
      PROVE  Goal
  <2>1. j.id \in OrderIds /\ orders[j.id] \in Order BY <1>2, <1>4, JobAtHand
  <2>2. ~ About(w, o) => o # j.id BY <1>2, <1>4 DEF About
  <2> QED BY <1>3, <1>4, <2>1, <2>2, Rewritten
<1>5. CASE CommitOrderTransition(w)
  <2>1. j \in TransitionJob /\ order \in Order
    BY <1>2, <1>3, <1>5, JobAtHand, CounterKinds DEF CommitOrderTransition
  <2>2. /\ [order EXCEPT !.status = j.to] \in Order
        /\ [order EXCEPT !.status = j.to].request = order.request
    BY <2>1 DEF TransitionJob, Order
  <2>3. orders' = [orders EXCEPT ![j.id] = [order EXCEPT !.status = j.to]]
    BY <1>2, <1>3, <1>5 DEF CommitOrderTransition
  <2> QED BY <1>2, <1>4, <1>5, <2>2, <2>3 DEF CommitOrderTransition
<1>6. CASE LinkOrderCharge(w)
  <2>1. j \in ChargeJob /\ order \in Order
    BY <1>2, <1>3, <1>6, JobAtHand, CounterKinds DEF LinkOrderCharge
  <2>2. /\ [order EXCEPT !.charge = j.entry] \in Order
        /\ [order EXCEPT !.charge = j.entry].request = order.request
    BY <2>1 DEF ChargeJob, Order
  <2>3. orders' = [orders EXCEPT ![j.id] = [order EXCEPT !.charge = j.entry]]
    BY <1>2, <1>3, <1>6 DEF LinkOrderCharge, WithCharge
  <2> QED BY <1>2, <1>4, <1>6, <2>2, <2>3 DEF LinkOrderCharge
<1>7. CASE SettleOnAccount(w)
  <2>1. j \in SettleJob /\ order \in Order
    BY <1>2, <1>3, <1>7, JobAtHand, CounterKinds DEF SettleOnAccount
  <2>2. /\ [order EXCEPT !.tender = j.charge] \in Order
        /\ [order EXCEPT !.tender = j.charge].request = order.request
    BY <2>1 DEF SettleJob, Order
  <2>3. orders' = [orders EXCEPT ![j.id] = [order EXCEPT !.tender = j.charge]]
    BY <1>2, <1>3, <1>7 DEF SettleOnAccount
  <2> QED BY <1>2, <1>4, <1>7, <2>2, <2>3 DEF SettleOnAccount
<1>8. CASE LinkSettlement(w)
  <2>1. j \in SettleJob /\ order \in Order
    BY <1>2, <1>3, <1>8, JobAtHand, CounterKinds DEF LinkSettlement
  <2>2. /\ [order EXCEPT !.payment = j.entry, !.tender = j.charge] \in Order
        /\ [order EXCEPT !.payment = j.entry, !.tender = j.charge].request = order.request
    BY <2>1 DEF SettleJob, Order
  <2>3. orders' = [orders EXCEPT ![j.id] =
                     [order EXCEPT !.payment = j.entry, !.tender = j.charge]]
    BY <1>2, <1>3, <1>8 DEF LinkSettlement, WithSettlement
  <2> QED BY <1>2, <1>4, <1>8, <2>2, <2>3 DEF LinkSettlement
<1> QED BY <1>1, <1>5, <1>6, <1>7, <1>8
        DEF OrderStep, BeginOrder, BeginOrderTransition, BeginOrderCharge, BeginSettle, Take,
            PostOrderCharge, PostSettlement, RefuseOrder, CrashHalfway

LEMMA RequestStays ==
  ASSUME NEW r \in Requests, RequestRight(r), rushed \subseteq rushed',
         \A o \in OrderIds : /\ Placed(o)' = Placed(o)
                             /\ Placed(o) => orders'[o].request = orders[o].request,
         r \notin rushed' =>
           \A v \in Workers : (counter'[v].op = "create" /\ counter'[v].request = r) =>
             (counter[v].op = "create" /\ counter[v].request = r) \/ NewRequest(r)
  PROVE  RequestRight(r)'
<1> SUFFICES ASSUME r \notin rushed' PROVE RequestRight(r)' BY DEF RequestRight
<1>1. NewRequest(r) => NewRequest(r)' BY DEF NewRequest
<1>2. ASSUME NEW v \in Workers, counter'[v].op = "create", counter'[v].request = r
      PROVE  NewRequest(r)'
  BY <1>1, <1>2 DEF RequestRight
<1> QED BY <1>2 DEF RequestRight

LEMMA CommitOrderRequest ==
  ASSUME ClubInv, AloneAtCounter, NEW w \in Workers, CommitOrder(w),
         NEW r \in Requests, RequestRight(r)
  PROVE  RequestRight(r)'
<1>1. PICK j \in CounterJob : j = counter[w] BY JobAtHand
<1>2. j \in CreateOrderJob /\ j.op = "create" /\ j # Free
  BY <1>1, CounterKinds DEF CommitOrder, Free
<1>3. PICK o \in OrderIds : \E new :
        /\ ~ Placed(o) /\ new.request = j.request
        /\ orders' = [orders EXCEPT ![o] = new]
  BY <1>1 DEF CommitOrder
<1>4. /\ rushed' = rushed /\ counter' = [counter EXCEPT ![w] = Free]
  BY DEF CommitOrder, Done
<1>5. \A p \in OrderIds : p # o => orders'[p] = orders[p] /\ Placed(p)' = Placed(p)
  BY <1>3 DEF ClubInv, OrderTypes, Placed
<1>6. orders'[o].request = j.request BY <1>3 DEF ClubInv, OrderTypes
<1> SUFFICES ASSUME r \notin rushed PROVE RequestRight(r)' BY <1>4 DEF RequestRight
<1>7. \A v \in Workers : (counter'[v].op = "create") =>
         v # w /\ counter'[v] = counter[v] /\ counter[v].op = "create"
  BY <1>4 DEF Free, ClubInv, OrderTypes
<1>8. CASE j.request = r
  <2>1. NewRequest(r) BY <1>1, <1>2, <1>8 DEF RequestRight
  <2>2. \A v \in Workers : counter[v].op = "create" /\ counter[v].request = r => v = w
    <3> SUFFICES ASSUME NEW v \in Workers, counter[v].op = "create", counter[v].request = r
                 PROVE  v = w
      OBVIOUS
    <3>1. Subject(counter[v]) = r /\ Subject(counter[w]) = r
      BY <1>1, <1>2, <1>8 DEF Subject
    <3>2. counter[v] # Free BY DEF Free
    <3> QED BY <1>1, <1>2, <3>1, <3>2 DEF AloneAtCounter
  <2>3. \A p \in OrderIds : Placed(p)' /\ orders'[p].request = r => p = o
    BY <1>5, <2>1 DEF NewRequest
  <2> QED BY <1>7, <2>2, <2>3 DEF RequestRight
<1>9. CASE j.request # r
  <2>1. \A p \in OrderIds : (Placed(p)' /\ orders'[p].request = r) =>
          p # o /\ Placed(p) /\ orders[p].request = r
    BY <1>5, <1>6, <1>9
  <2>2. NewRequest(r) => NewRequest(r)' BY <2>1 DEF NewRequest
  <2> QED BY <1>7, <2>1, <2>2 DEF RequestRight
<1> QED BY <1>8, <1>9

LEMMA NextRequest ==
  ASSUME ClubInv, AloneAtCounter, [ClubNext]_clubVars, NEW r \in Requests, RequestRight(r)
  PROVE  RequestRight(r)'
<1>1. CASE UNCHANGED <<orders, counter, rushed>>
  BY <1>1 DEF RequestRight, Placed, NewRequest
<1>2. ASSUME NEW w \in Workers, OrderStep(w) PROVE RequestRight(r)'
  <2>1. CASE CommitOrder(w) BY <2>1, CommitOrderRequest
  <2>2. CASE ~ CommitOrder(w)
    <3>1. \A o \in OrderIds : /\ Placed(o)' = Placed(o)
                              /\ Placed(o) => orders'[o].request = orders[o].request
      BY <1>2, <2>2, WritesOwnOrder
    <3>2. rushed \subseteq rushed' /\ \A v \in Workers : v # w => counter'[v] = counter[v]
      BY <1>2, StepGoesOn
    <3>3. (counter'[w].op = "create" /\ counter'[w].request = r) => NewRequest(r)
      <4>1. CASE \/ BeginOrder(w) \/ BeginOrderTransition(w)
                 \/ BeginOrderCharge(w) \/ BeginSettle(w)
        <5>1. PICK job \in CounterJob :
                /\ Take(w, job)
                /\ \/ job \in CreateOrderJob /\ NewRequest(job.request)
                   \/ job \in TransitionJob \/ job \in ChargeJob \/ job \in SettleJob
          BY <4>1, BeginsKnown
        <5>2. counter'[w] = job BY <5>1 DEF Take, ClubInv, OrderTypes
        <5>3. job.op = "create" => NewRequest(job.request)
          BY <5>1 DEF TransitionJob, ChargeJob, SettleJob
        <5> QED BY <5>2, <5>3
      <4>2. CASE ~ \E job \in CounterJob : Take(w, job)
        <5>1. GoesOn(w) BY <1>2, <4>2, StepGoesOn
        <5>2. counter'[w].op # "create" BY <5>1 DEF GoesOn, Free
        <5> QED BY <5>2
      <4>3. CASE /\ \E job \in CounterJob : Take(w, job)
                 /\ ~ (\/ BeginOrder(w) \/ BeginOrderTransition(w)
                       \/ BeginOrderCharge(w) \/ BeginSettle(w))
        <5>1. counter[w] = Free BY <4>3 DEF Take
        <5> QED BY <1>2, <2>2, <4>3, <5>1
                DEF OrderStep, CommitOrderTransition, PostOrderCharge, LinkOrderCharge,
                    SettleOnAccount, PostSettlement, LinkSettlement, RefuseOrder,
                    CrashHalfway, Halfway, Free
      <4> QED BY <4>1, <4>2, <4>3
    <3> QED BY <3>1, <3>2, <3>3, RequestStays
  <2> QED BY <2>1, <2>2
<1> QED BY <1>1, <1>2 DEF ClubNext, clubVars, orderVars

-------------------------------------------------------------------------------
(* What an order and the ledger say of one another.                        *)

\* What a request found of an order that is not rushed is still so.
OrderJobRight(j, order) ==
  /\ j.op = "transition" => AllowedFrom(order.status, j.to)
  /\ j.op = "charge" => order.status = "collected" /\ order.charge = 0
  /\ j.op = "settle" => order.status = "collected" /\ j.charge = order.charge

\* Stopped requests included, such an order is charged once it is collected, and paid
\* once, by the tender of the charge it is linked to.
OrderRight(o) ==
  o \notin rushed =>
    /\ Posted(o, "charge") => orders[o].status = "collected"
    /\ \A i, k \in Entries(o, "payment") : i = k
    /\ Posted(o, "payment") => orders[o].charge # 0 /\ tenders[orders[o].charge] # None
    /\ \A w \in Workers : About(w, o) => OrderJobRight(counter[w], orders[o])

LinkedTender(order, c) ==
  /\ tenders[c] # None <=> order.tender = c
  /\ tenders[c] # None =>
       /\ tenders[c].settlement = order.payment
       /\ order.payment = 0 <=> tenders[c].type = "member_account"

Charging(w, o) == About(w, o) /\ counter[w].op = "charge" /\ counter[w].entry # 0
Settling(w, o) == About(w, o) /\ counter[w].op = "settle" /\ counter[w].entry # 0

\* Where no request stopped either, the order shows what the ledger has, but for the
\* entry that a request at work has posted and not yet linked.
OrderShown(o) ==
  (o \notin rushed \union halved /\ Placed(o)) =>
    /\ (\A w \in Workers : ~ Charging(w, o)) =>
         Entries(o, "charge") = {orders[o].charge} \ {0}
    /\ \A w \in Workers : Charging(w, o) => Entries(o, "charge") = {counter[w].entry}
    /\ (\A w \in Workers : ~ Settling(w, o)) =>
         /\ Entries(o, "payment") = {orders[o].payment} \ {0}
         /\ \A c \in Entries(o, "charge") : LinkedTender(orders[o], c)
    /\ \A w \in Workers : Settling(w, o) =>
         /\ Entries(o, "payment") = {counter[w].entry}
         /\ orders[o].payment = 0 /\ counter[w].type # "member_account"
         /\ tenders[counter[w].charge] = [type |-> counter[w].type, settlement |-> 0]

OrdersRight == \A o \in OrderIds : OrderRight(o) /\ OrderShown(o)

\* Nothing happens to o, unless a request for it ends.
Elsewhere(o) ==
  /\ orders'[o] = orders[o]
  /\ \A kind \in {"charge", "payment"} : Entries(o, kind)' = Entries(o, kind)
  /\ \A c \in Entries(o, "charge") : tenders'[c] = tenders[c]
  /\ rushed \subseteq rushed' /\ halved \subseteq halved'
  /\ \A v \in Workers : About(v, o)' => About(v, o) /\ counter'[v] = counter[v]
  /\ \A v \in Workers :
       (Charging(v, o) \/ Settling(v, o)) => counter'[v] = counter[v] \/ o \in halved'

LEMMA ElsewhereRight ==
  ASSUME ClubInv, NEW o \in OrderIds, Elsewhere(o), OrderRight(o)
  PROVE  OrderRight(o)'
<1> SUFFICES ASSUME o \notin rushed, o \notin rushed' PROVE OrderRight(o)'
  BY DEF OrderRight, Elsewhere
<1>1. Posted(o, "charge")' = Posted(o, "charge") /\ Posted(o, "payment")' = Posted(o, "payment")
  BY DEF Elsewhere, Posted
<1>2. ASSUME Posted(o, "payment")
      PROVE  orders'[o].charge # 0 /\ tenders'[orders'[o].charge] # None
  <2>1. orders[o].charge # 0 /\ tenders[orders[o].charge] # None BY <1>2 DEF OrderRight
  <2>2. Placed(o)
    <3>1. PICK i \in DOMAIN ledger : ledger[i].ref = o BY <1>2 DEF Posted, Entries
    <3> QED BY <3>1 DEF ClubInv, EntriesOfPlaced
  <2>3. orders[o].charge \in Entries(o, "charge")
    BY <2>1, <2>2 DEF ClubInv, OrdersLinked, Linked
  <2> QED BY <2>1, <2>3 DEF Elsewhere
<1>3. ASSUME NEW v \in Workers, About(v, o)'
      PROVE  OrderJobRight(counter'[v], orders'[o])
  <2>1. About(v, o) /\ counter'[v] = counter[v] /\ orders'[o] = orders[o]
    BY <1>3 DEF Elsewhere
  <2>2. OrderJobRight(counter[v], orders[o]) BY <2>1 DEF OrderRight
  <2> QED BY <2>1, <2>2
<1>4. \A v : OrderJobRight(counter[v], orders[o])' = OrderJobRight(counter'[v], orders'[o])
  BY DEF OrderJobRight, AllowedFrom
<1> QED BY <1>1, <1>2, <1>3, <1>4 DEF OrderRight, Elsewhere

LEMMA ElsewhereShown ==
  ASSUME ClubInv, NEW o \in OrderIds, Elsewhere(o), OrderShown(o)
  PROVE  OrderShown(o)'
<1> SUFFICES ASSUME o \notin rushed \union halved, o \notin halved', Placed(o), Placed(o)'
             PROVE  OrderShown(o)'
  BY DEF OrderShown, Elsewhere, Placed
<1>1. ASSUME NEW v \in Workers
      PROVE  /\ Charging(v, o)' <=> Charging(v, o)
             /\ Settling(v, o)' <=> Settling(v, o)
             /\ Charging(v, o) \/ Settling(v, o) => counter'[v] = counter[v]
  BY DEF Elsewhere, Charging, Settling, About
<1>2. /\ orders'[o] = orders[o]
      /\ Entries(o, "charge")' = Entries(o, "charge")
      /\ Entries(o, "payment")' = Entries(o, "payment")
      /\ \A c \in Entries(o, "charge") : tenders'[c] = tenders[c]
  BY DEF Elsewhere
<1>3. \A c \in Entries(o, "charge") :
        LinkedTender(orders[o], c) => LinkedTender(orders[o], c)'
  BY <1>2 DEF LinkedTender
<1>4. ASSUME NEW v \in Workers, Settling(v, o)
      PROVE  tenders'[counter[v].charge] = tenders[counter[v].charge]
  <2>1. counter[v].charge \in Entries(o, "charge")
    BY <1>4, JobAtHand DEF Settling, About, OrderJobKnown
  <2> QED BY <1>2, <2>1
<1> QED BY <1>1, <1>2, <1>3, <1>4 DEF OrderShown

\* A step about another order leaves o alone.
LEMMA OthersElsewhere ==
  ASSUME ClubInv, NEW w \in Workers, OrderStep(w), NEW o \in OrderIds,
         ~ About(w, o), ~ About(w, o)', CommitOrder(w) => Placed(o)
  PROVE  Elsewhere(o)
<1>1. PICK j \in CounterJob : j = counter[w] BY JobAtHand
<1>2. /\ rushed \subseteq rushed' /\ halved \subseteq halved'
      /\ \A v \in Workers : v # w => counter'[v] = counter[v]
  BY StepGoesOn
<1>3. orders'[o] = orders[o]
  <2>1. CASE CommitOrder(w)
    BY <2>1 DEF CommitOrder, ClubInv, OrderTypes
  <2>2. CASE ~ CommitOrder(w) BY <2>2, WritesOwnOrder
  <2> QED BY <2>1, <2>2
<1>4. ASSUME PostOrderCharge(w) \/ PostSettlement(w)
      PROVE  \A kind \in {"charge", "payment"} : Entries(o, kind)' = Entries(o, kind)
  <2>1. CASE PostOrderCharge(w)
    <3>1. j.op = "charge" BY <1>1, <2>1 DEF PostOrderCharge
    <3>2. j.id \in OrderIds /\ orders[j.id] \in Order /\ j.id # o
      BY <1>1, <3>1, JobAtHand DEF About
    <3>3. orders[j.id].account \in Accounts /\ -orders[j.id].total \in Int
      BY <3>2 DEF Order
    <3>4. j.id \in References /\ "charge" \in Kinds BY <3>2, OrderConstantsOK DEF Kinds
    <3>5. Post("charge", j.id, orders[j.id].account, -orders[j.id].total)
      BY <1>1, <2>1 DEF PostOrderCharge
    <3> QED BY <3>2, <3>3, <3>4, <3>5, PostAdds DEF ClubInv, OrderTypes
  <2>2. CASE PostSettlement(w)
    <3>1. PICK account \in Accounts, amount \in Int : Post("payment", j.id, account, amount)
      BY <1>1, <2>2, SettlementPosted
    <3>2. j.id \in OrderIds /\ j.op = "settle" BY <1>1, <2>2, SettlementPosted
    <3>3. j.id # o BY <1>1, <3>2 DEF About
    <3>4. j.id \in References /\ "payment" \in Kinds BY <3>2, OrderConstantsOK DEF Kinds
    <3> QED BY <3>1, <3>3, <3>4, PostAdds DEF ClubInv, OrderTypes
  <2> QED BY <1>4, <2>1, <2>2
<1>5. ASSUME ~ PostOrderCharge(w), ~ PostSettlement(w) PROVE UNCHANGED ledger
  BY <1>5 DEF OrderStep, BeginOrder, BeginOrderTransition, BeginOrderCharge, BeginSettle,
              Take, CommitOrder, CommitOrderTransition, LinkOrderCharge, SettleOnAccount,
              LinkSettlement, RefuseOrder, CrashHalfway
<1>6. \A kind \in {"charge", "payment"} : Entries(o, kind)' = Entries(o, kind)
  BY <1>4, <1>5 DEF Entries
<1>7. ASSUME NEW c \in Entries(o, "charge") PROVE tenders'[c] = tenders[c]
  <2>1. CASE SettleOnAccount(w) \/ PostSettlement(w) \/ LinkSettlement(w)
    <3>1. j.op = "settle" BY <1>1, <2>1 DEF SettleOnAccount, PostSettlement, LinkSettlement
    <3>2. j.charge \in Entries(j.id, "charge") /\ j.id # o
      BY <1>1, <3>1, JobAtHand DEF OrderJobKnown, About
    <3>3. c # j.charge BY <3>2 DEF Entries
    <3>4. \E t : tenders' = [tenders EXCEPT ![j.charge] = t]
      BY <1>1, <2>1 DEF SettleOnAccount, PostSettlement, LinkSettlement
    <3>5. c \in 1 .. MaxEntries
      BY EntriesInLedger, FinanceConstantsOK DEF ClubInv, OrderTypes, TendersInLedger
    <3> QED BY <3>3, <3>4, <3>5 DEF ClubInv, OrderTypes
  <2>2. CASE ~ (SettleOnAccount(w) \/ PostSettlement(w) \/ LinkSettlement(w))
    BY <2>2 DEF OrderStep, BeginOrder, BeginOrderTransition, BeginOrderCharge, BeginSettle,
                Take, CommitOrder, CommitOrderTransition, PostOrderCharge, LinkOrderCharge,
                RefuseOrder, CrashHalfway
  <2> QED BY <2>1, <2>2
<1>8. \A v \in Workers : About(v, o)' => About(v, o) /\ counter'[v] = counter[v]
  BY <1>2 DEF About
<1>9. \A v \in Workers : Charging(v, o) \/ Settling(v, o) => counter'[v] = counter[v]
  BY <1>2 DEF Charging, Settling
<1> QED BY <1>2, <1>3, <1>6, <1>7, <1>8, <1>9 DEF Elsewhere

-------------------------------------------------------------------------------
(* The steps of a request, seen from its own order.                        *)

Right(o) == OrderRight(o) /\ OrderShown(o)

\* Only the one request is about its order, unless the order is rushed.
LEMMA OnlyRequest ==
  ASSUME AloneAtCounter, NEW w \in Workers, NEW o \in OrderIds, o \notin rushed, About(w, o),
         NEW v \in Workers, About(v, o)
  PROVE  v = w
<1>1. counter[v] # Free /\ counter[w] # Free BY DEF About, Free
<1>2. Subject(counter[v]) = o /\ Subject(counter[w]) = o BY DEF About, Subject
<1> QED BY <1>1, <1>2 DEF AloneAtCounter

\* After the request of o has ended no request is about o.
LEMMA NoneAfterwards ==
  ASSUME ClubInv, AloneAtCounter, NEW w \in Workers, NEW o \in OrderIds, o \notin rushed,
         About(w, o), Done(w), NEW v \in Workers
  PROVE  ~ About(v, o)'
<1>1. CASE v = w BY <1>1 DEF Done, About, Free, ClubInv, OrderTypes
<1>2. CASE v # w
  <2>1. counter'[v] = counter[v] BY <1>2 DEF Done, ClubInv, OrderTypes
  <2>2. ~ About(v, o) BY <1>2, OnlyRequest
  <2> QED BY <2>1, <2>2 DEF About
<1> QED BY <1>1, <1>2

LEMMA RushedStays ==
  ASSUME NEW o \in OrderIds, o \in rushed, rushed \subseteq rushed'
  PROVE  Right(o)'
BY DEF Right, OrderRight, OrderShown

\* A payment of an order that is not rushed is of the charge the order is linked to.
LEMMA PaidIsCharged ==
  ASSUME ClubInv, NEW o \in OrderIds, o \notin rushed, OrderRight(o), Posted(o, "payment")
  PROVE  /\ orders[o].charge # 0 /\ orders[o].charge \in Entries(o, "charge")
         /\ Posted(o, "charge") /\ orders[o].status = "collected"
<1>1. orders[o].charge # 0 BY DEF OrderRight
<1>2. PICK i \in DOMAIN ledger : ledger[i].ref = o BY DEF Posted, Entries
<1>3. Placed(o) BY <1>2 DEF ClubInv, EntriesOfPlaced
<1>4. orders[o].charge \in Entries(o, "charge")
  BY <1>1, <1>3 DEF ClubInv, OrdersLinked, Linked
<1>5. Posted(o, "charge") BY <1>4 DEF Posted
<1> QED BY <1>1, <1>4, <1>5 DEF OrderRight

\* What there is to show of an order no request is about any more.
LEMMA RightAtRest ==
  ASSUME NEW o \in OrderIds, \A v \in Workers : ~ About(v, o)',
         Posted(o, "charge")' => orders'[o].status = "collected",
         \A i, k \in Entries(o, "payment")' : i = k,
         Posted(o, "payment")' =>
           orders'[o].charge # 0 /\ tenders'[orders'[o].charge] # None,
         o \notin rushed' \union halved' =>
           /\ Entries(o, "charge")' = {orders'[o].charge} \ {0}
           /\ Entries(o, "payment")' = {orders'[o].payment} \ {0}
           /\ \A c \in Entries(o, "charge")' : LinkedTender(orders[o], c)'
  PROVE  Right(o)'
<1>1. OrderRight(o)' BY DEF OrderRight
<1>2. \A v \in Workers : ~ Charging(v, o)' /\ ~ Settling(v, o)'
  BY DEF Charging, Settling
<1>3. OrderShown(o)' BY <1>2 DEF OrderShown
<1> QED BY <1>1, <1>3 DEF Right

\* What an order shows while its one request has posted nothing.
LEMMA ShownBefore ==
  ASSUME ClubInv, AloneAtCounter, NEW w \in Workers, NEW o \in OrderIds, About(w, o),
         o \notin rushed \union halved, Right(o),
         counter[w].op = "transition" \/ counter[w].entry = 0
  PROVE  /\ Entries(o, "charge") = {orders[o].charge} \ {0}
         /\ Entries(o, "payment") = {orders[o].payment} \ {0}
         /\ \A c \in Entries(o, "charge") : LinkedTender(orders[o], c)
<1>1. \A v \in Workers : ~ Charging(v, o) /\ ~ Settling(v, o)
  BY OnlyRequest DEF Charging, Settling
<1>2. Placed(o) BY JobAtHand DEF About
<1> QED BY <1>1, <1>2 DEF Right, OrderShown

LEMMA TransitionRight ==
  ASSUME ClubInv, AloneAtCounter, NEW w \in Workers, NEW o \in OrderIds, About(w, o),
         o \notin rushed, CommitOrderTransition(w), Right(o)
  PROVE  Right(o)'
<1>1. PICK j \in CounterJob : j = counter[w] BY JobAtHand
<1>2. j.op = "transition" /\ j.id = o BY <1>1 DEF CommitOrderTransition, About
<1>3. orders[o] \in Order BY <1>1, <1>2, JobAtHand
<1>4. /\ Done(w) /\ UNCHANGED <<ledger, tenders, rushed, halved>>
      /\ orders' = [orders EXCEPT ![o] = [orders[o] EXCEPT !.status = j.to]]
  BY <1>1, <1>2 DEF CommitOrderTransition
<1>5. /\ orders'[o].charge = orders[o].charge /\ orders'[o].payment = orders[o].payment
      /\ orders'[o].tender = orders[o].tender
  BY <1>3, <1>4 DEF ClubInv, OrderTypes, Order
<1>6. AllowedFrom(orders[o].status, j.to)
  <2>1. OrderJobRight(counter[w], orders[o]) BY DEF Right, OrderRight
  <2> QED BY <1>1, <1>2, <2>1 DEF OrderJobRight
<1>7. ~ Posted(o, "charge") /\ ~ Posted(o, "payment")
  BY <1>6, PaidIsCharged DEF AllowedFrom, Right, OrderRight
<1>8. \A v \in Workers : ~ About(v, o)' BY <1>4, NoneAfterwards
<1>9. Entries(o, "charge")' = {} /\ Entries(o, "payment")' = {}
  BY <1>4, <1>7 DEF Posted, Entries
<1>10. o \notin halved =>
         {orders[o].charge} \ {0} = {} /\ {orders[o].payment} \ {0} = {}
  BY <1>1, <1>2, <1>7, ShownBefore DEF Posted
<1> QED BY <1>4, <1>5, <1>8, <1>9, <1>10, RightAtRest DEF Posted

LEMMA PostChargeRight ==
  ASSUME ClubInv, AloneAtCounter, NEW w \in Workers, NEW o \in OrderIds, About(w, o),
         o \notin rushed, PostOrderCharge(w), Right(o)
  PROVE  Right(o)'
<1>1. PICK j \in CounterJob : j = counter[w] BY JobAtHand
<1>2. j \in ChargeJob /\ j.op = "charge" /\ j.id = o /\ j.entry = 0
  BY <1>1, CounterKinds DEF PostOrderCharge, About
<1>3. orders[o] \in Order /\ Placed(o) BY <1>1, <1>2, JobAtHand
<1>4. PICK account \in Accounts, amount \in Int : Post("charge", o, account, amount)
  BY <1>1, <1>2, <1>3 DEF PostOrderCharge, Order
<1>5. o \in References /\ "charge" \in Kinds BY OrderConstantsOK DEF Kinds
<1>6. /\ Len(ledger) \in Nat /\ Len(ledger') = Len(ledger) + 1 /\ Len(ledger') <= MaxEntries
      /\ Entries(o, "charge")' = Entries(o, "charge") \union {Len(ledger) + 1}
      /\ \A r, k : r # o \/ k # "charge" => Entries(r, k)' = Entries(r, k)
  BY <1>4, <1>5, PostAdds DEF ClubInv, OrderTypes
<1>7. Entries(o, "payment")' = Entries(o, "payment") BY <1>6
<1> DEFINE job == [j EXCEPT !.entry = Len(ledger) + 1]
<1>8. job.op = "charge" /\ job.id = o /\ job.entry = Len(ledger) + 1
  BY <1>2 DEF ChargeJob
<1>9. /\ counter' = [counter EXCEPT ![w] = job]
      /\ UNCHANGED <<payment, orders, tenders, rushed, halved>>
  BY <1>1, <1>6 DEF PostOrderCharge
<1> HIDE DEF job
<1>10. counter'[w] = job /\ \A v \in Workers : v # w => counter'[v] = counter[v]
  BY <1>9 DEF ClubInv, OrderTypes
<1>11. \A v \in Workers : About(v, o)' => v = w
  BY <1>10, OnlyRequest DEF About
<1>12. orders[o].status = "collected" /\ orders[o].charge = 0
  <2>1. OrderJobRight(counter[w], orders[o]) BY DEF Right, OrderRight
  <2> QED BY <1>1, <1>2, <2>1 DEF OrderJobRight
<1>13. ~ Posted(o, "payment") BY <1>12, PaidIsCharged DEF Right
<1>14. OrderRight(o)'
  <2>1. OrderJobRight(counter'[w], orders'[o])
    BY <1>8, <1>9, <1>10, <1>12 DEF OrderJobRight
  <2>2. OrderJobRight(counter[w], orders[o])' = OrderJobRight(counter'[w], orders'[o])
    BY DEF OrderJobRight, AllowedFrom
  <2> QED BY <1>7, <1>9, <1>11, <1>12, <1>13, <2>1, <2>2 DEF OrderRight, Posted
<1>15. OrderShown(o)'
  <2> SUFFICES ASSUME o \notin halved PROVE OrderShown(o)' BY <1>9 DEF OrderShown
  <2>1. /\ Entries(o, "charge") = {} /\ Entries(o, "payment") = {orders[o].payment} \ {0}
    BY <1>1, <1>2, <1>12, ShownBefore
  <2>2. Entries(o, "charge")' = {Len(ledger) + 1} BY <1>6, <2>1
  <2>3. tenders[Len(ledger) + 1] = None
    BY <1>6, FinanceConstantsOK DEF ClubInv, TendersInLedger
  <2>4. orders[o].tender = 0 BY <1>3, <2>1 DEF ClubInv, OrdersLinked, Linked
  <2>5. \A c \in Entries(o, "charge")' : LinkedTender(orders[o], c)'
    BY <1>6, <1>9, <2>2, <2>3, <2>4 DEF LinkedTender
  <2>6. Charging(w, o)' /\ counter'[w].entry = Len(ledger) + 1
    BY <1>6, <1>8, <1>10 DEF Charging, About
  <2>7. \A v \in Workers : Charging(v, o)' => v = w BY <1>11 DEF Charging
  <2>8. \A v \in Workers : ~ Settling(v, o)'
    BY <1>8, <1>10, <1>11 DEF Settling
  <2> QED BY <1>7, <1>9, <2>1, <2>2, <2>5, <2>6, <2>7, <2>8 DEF OrderShown
<1> QED BY <1>14, <1>15 DEF Right

LEMMA LinkChargeRight ==
  ASSUME ClubInv, AloneAtCounter, NEW w \in Workers, NEW o \in OrderIds, About(w, o),
         o \notin rushed, LinkOrderCharge(w), Right(o)
  PROVE  Right(o)'
<1>1. PICK j \in CounterJob : j = counter[w] BY JobAtHand
<1>2. j \in ChargeJob /\ j.op = "charge" /\ j.id = o /\ j.entry # 0
  BY <1>1, CounterKinds DEF LinkOrderCharge, About
<1>3. orders[o] \in Order /\ Placed(o) BY <1>1, <1>2, JobAtHand
<1>4. /\ Done(w) /\ UNCHANGED <<ledger, tenders, rushed, halved>>
      /\ orders' = [orders EXCEPT ![o] = [orders[o] EXCEPT !.charge = j.entry]]
  BY <1>1, <1>2 DEF LinkOrderCharge, WithCharge
<1>5. /\ orders'[o].charge = j.entry /\ orders'[o].payment = orders[o].payment
      /\ orders'[o].tender = orders[o].tender /\ orders'[o].status = orders[o].status
  BY <1>3, <1>4 DEF ClubInv, OrderTypes, Order
<1>6. orders[o].status = "collected" /\ orders[o].charge = 0
  <2>1. OrderJobRight(counter[w], orders[o]) BY DEF Right, OrderRight
  <2> QED BY <1>1, <1>2, <2>1 DEF OrderJobRight
<1>7. ~ Posted(o, "payment") BY <1>6, PaidIsCharged DEF Right
<1>8. \A v \in Workers : ~ About(v, o)' BY <1>4, NoneAfterwards
<1>9. /\ Entries(o, "charge")' = Entries(o, "charge")
      /\ Entries(o, "payment")' = Entries(o, "payment")
  BY <1>4 DEF Entries
<1>10. ASSUME o \notin halved
       PROVE  /\ Entries(o, "charge") = {j.entry}
              /\ Entries(o, "payment") = {orders[o].payment} \ {0}
              /\ \A c \in Entries(o, "charge") : LinkedTender(orders[o], c)
  <2>1. Charging(w, o) BY <1>1, <1>2 DEF Charging
  <2>2. \A v \in Workers : ~ Settling(v, o)
    BY <1>1, <1>2, OnlyRequest DEF Settling
  <2> QED BY <1>1, <1>3, <1>10, <2>1, <2>2 DEF Right, OrderShown
<1>11. \A c : LinkedTender(orders[o], c) => LinkedTender(orders[o], c)'
  BY <1>4, <1>5 DEF LinkedTender
<1> QED BY <1>2, <1>4, <1>5, <1>6, <1>7, <1>8, <1>9, <1>10, <1>11, RightAtRest DEF Posted

\* Where no tender was there yet for the charge of the order, nothing was paid.
LEMMA NothingPaid ==
  ASSUME ClubInv, NEW o \in OrderIds, o \notin rushed, OrderRight(o),
         tenders[orders[o].charge] = None
  PROVE  ~ Posted(o, "payment")
BY DEF OrderRight

LEMMA OnAccountRight ==
  ASSUME ClubInv, AloneAtCounter, NEW w \in Workers, NEW o \in OrderIds, About(w, o),
         o \notin rushed, SettleOnAccount(w), Right(o)
  PROVE  Right(o)'
<1>1. PICK j \in CounterJob : j = counter[w] BY JobAtHand
<1>2. j \in SettleJob /\ j.op = "settle" /\ j.id = o /\ j.type = "member_account"
  BY <1>1, CounterKinds DEF SettleOnAccount, About
<1>3. /\ orders[o] \in Order /\ Placed(o) /\ j.charge \in Entries(o, "charge")
      /\ j.entry # 0 => tenders[j.charge] # None
  BY <1>1, <1>2, JobAtHand DEF OrderJobKnown
<1>4. PICK tender : tender = [type |-> "member_account", settlement |-> 0] OBVIOUS
<1>5. /\ Done(w) /\ UNCHANGED <<ledger, rushed, halved>>
      /\ tenders[j.charge] = None
      /\ tenders' = [tenders EXCEPT ![j.charge] = tender]
      /\ orders' = [orders EXCEPT ![o] = [orders[o] EXCEPT !.tender = j.charge]]
  BY <1>1, <1>2, <1>4 DEF SettleOnAccount, NoTenderYet
<1>6. tender # None
  <2>1. tender \in Tender BY <1>4 DEF Tender, TenderTypes
  <2> QED BY <2>1, OrderConstantsOK
<1>7. /\ orders'[o].charge = orders[o].charge /\ orders'[o].payment = orders[o].payment
      /\ orders'[o].tender = j.charge /\ orders'[o].status = orders[o].status
  BY <1>3, <1>5 DEF ClubInv, OrderTypes, Order
<1>8. orders[o].status = "collected" /\ j.charge = orders[o].charge
  <2>1. OrderJobRight(counter[w], orders[o]) BY DEF Right, OrderRight
  <2> QED BY <1>1, <1>2, <2>1 DEF OrderJobRight
<1>9. ~ Posted(o, "payment") BY <1>5, <1>8, NothingPaid DEF Right
<1>10. \A v \in Workers : ~ About(v, o)' BY <1>5, NoneAfterwards
<1>11. /\ Entries(o, "charge")' = Entries(o, "charge")
       /\ Entries(o, "payment")' = Entries(o, "payment")
  BY <1>5 DEF Entries
<1>12. j.charge \in 1 .. MaxEntries
  BY <1>3, EntriesInLedger, FinanceConstantsOK DEF ClubInv, OrderTypes, TendersInLedger
<1>13. tenders'[j.charge] = tender BY <1>5, <1>12 DEF ClubInv, OrderTypes
<1>14. ASSUME o \notin halved
       PROVE  /\ Entries(o, "charge") = {orders[o].charge} \ {0}
              /\ Entries(o, "payment") = {orders[o].payment} \ {0}
              /\ \A c \in Entries(o, "charge") : LinkedTender(orders[o], c)'
  <2>1. j.entry = 0 BY <1>3, <1>5
  <2>2. /\ Entries(o, "charge") = {orders[o].charge} \ {0}
        /\ Entries(o, "payment") = {orders[o].payment} \ {0}
    BY <1>1, <1>14, <2>1, ShownBefore
  <2>3. orders[o].payment = 0 BY <1>9, <2>2 DEF Posted
  <2>4. \A c \in Entries(o, "charge") : c = j.charge BY <1>8, <2>2
  <2>5. LinkedTender(orders[o], j.charge)'
    BY <1>4, <1>6, <1>7, <1>13, <2>3 DEF LinkedTender
  <2>6. \A c : c = j.charge => LinkedTender(orders[o], c)'
    BY <1>4, <1>6, <1>7, <1>13, <2>3 DEF LinkedTender
  <2> QED BY <2>2, <2>4, <2>6
<1> QED BY <1>5, <1>7, <1>8, <1>9, <1>10, <1>11, <1>14, RightAtRest DEF Posted

LEMMA PostSettlementRight ==
  ASSUME ClubInv, AloneAtCounter, NEW w \in Workers, NEW o \in OrderIds, About(w, o),
         o \notin rushed, PostSettlement(w), Right(o)
  PROVE  Right(o)'
<1>1. PICK j \in CounterJob : j = counter[w] BY JobAtHand
<1>2. PICK tender : tender = [type |-> j.type, settlement |-> 0] OBVIOUS
<1>3. /\ j \in SettleJob /\ j.op = "settle" /\ j.entry = 0 /\ j.type # "member_account"
      /\ orders[j.id] \in Order /\ Placed(j.id)
      /\ j.charge \in Entries(j.id, "charge") /\ tenders[j.charge] = None
      /\ j.charge \in 1 .. MaxEntries
      /\ tenders' = [tenders EXCEPT ![j.charge] = tender]
      /\ tender # None
  BY <1>1, <1>2, SettlementPosted
<1>4. j.id = o BY <1>1 DEF About
<1>5. PICK account \in Accounts, amount \in Int : Post("payment", o, account, amount)
  BY <1>1, <1>4, SettlementPosted
<1>6. o \in References /\ "payment" \in Kinds BY OrderConstantsOK DEF Kinds
<1>7. /\ Len(ledger) \in Nat /\ Len(ledger') = Len(ledger) + 1
      /\ Entries(o, "payment")' = Entries(o, "payment") \union {Len(ledger) + 1}
      /\ \A r, k : r # o \/ k # "payment" => Entries(r, k)' = Entries(r, k)
  BY <1>5, <1>6, PostAdds DEF ClubInv, OrderTypes
<1>8. Entries(o, "charge")' = Entries(o, "charge") BY <1>7
<1>9. orders[o].status = "collected" /\ j.charge = orders[o].charge
  <2>1. OrderJobRight(counter[w], orders[o]) BY DEF Right, OrderRight
  <2> QED BY <1>1, <1>3, <2>1 DEF OrderJobRight
<1>10. ~ Posted(o, "payment") BY <1>3, <1>9, NothingPaid DEF Right
<1>11. Entries(o, "payment")' = {Len(ledger) + 1} BY <1>7, <1>10 DEF Posted
<1> DEFINE job == [j EXCEPT !.entry = Len(ledger) + 1]
<1>12. /\ job.op = "settle" /\ job.id = o /\ job.entry = Len(ledger) + 1
       /\ job.charge = j.charge /\ job.type = j.type
  BY <1>3, <1>4 DEF SettleJob
<1>13. /\ counter' = [counter EXCEPT ![w] = job] /\ UNCHANGED <<payment, orders, rushed, halved>>
  BY <1>1, <1>7 DEF PostSettlement
<1> HIDE DEF job
<1>14. counter'[w] = job /\ \A v \in Workers : v # w => counter'[v] = counter[v]
  BY <1>13 DEF ClubInv, OrderTypes
<1>15. \A v \in Workers : About(v, o)' => v = w
  BY <1>14, OnlyRequest DEF About
<1>16. tenders'[j.charge] = tender BY <1>3 DEF ClubInv, OrderTypes
<1>17. j.charge # 0 BY <1>3
<1>18. OrderRight(o)'
  <2>1. OrderJobRight(counter'[w], orders'[o])
    BY <1>9, <1>12, <1>13, <1>14 DEF OrderJobRight
  <2>2. OrderJobRight(counter[w], orders[o])' = OrderJobRight(counter'[w], orders'[o])
    BY DEF OrderJobRight, AllowedFrom
  <2> QED BY <1>3, <1>9, <1>11, <1>13, <1>15, <1>16, <1>17, <2>1, <2>2
          DEF OrderRight, Posted
<1>19. OrderShown(o)'
  <2> SUFFICES ASSUME o \notin halved PROVE OrderShown(o)' BY <1>13 DEF OrderShown
  <2>1. /\ Entries(o, "charge") = {orders[o].charge} \ {0}
        /\ Entries(o, "payment") = {orders[o].payment} \ {0}
    BY <1>1, <1>3, ShownBefore
  <2>2. orders[o].payment = 0 BY <1>10, <2>1 DEF Posted
  <2>3. Settling(w, o)' /\ counter'[w].entry = Len(ledger) + 1
    BY <1>7, <1>12, <1>14 DEF Settling, About
  <2>4. \A v \in Workers : Settling(v, o)' => v = w BY <1>15 DEF Settling
  <2>5. \A v \in Workers : ~ Charging(v, o)'
    BY <1>12, <1>14, <1>15 DEF Charging
  <2>6. /\ counter'[w].type # "member_account"
        /\ tenders'[counter'[w].charge] = [type |-> counter'[w].type, settlement |-> 0]
    BY <1>2, <1>3, <1>12, <1>14, <1>16
  <2> QED BY <1>8, <1>11, <1>13, <2>1, <2>2, <2>3, <2>4, <2>5, <2>6 DEF OrderShown
<1> QED BY <1>18, <1>19 DEF Right

LEMMA LinkSettlementRight ==
  ASSUME ClubInv, AloneAtCounter, NEW w \in Workers, NEW o \in OrderIds, About(w, o),
         o \notin rushed, LinkSettlement(w), Right(o)
  PROVE  Right(o)'
<1>1. PICK j \in CounterJob : j = counter[w] BY JobAtHand
<1>2. j \in SettleJob /\ j.op = "settle" /\ j.id = o /\ j.entry # 0
  BY <1>1, CounterKinds DEF LinkSettlement, About
<1>3. /\ orders[o] \in Order /\ Placed(o) /\ j.charge \in Entries(o, "charge")
      /\ j.entry \in Entries(o, "payment") /\ tenders[j.charge] # None
  BY <1>1, <1>2, JobAtHand DEF OrderJobKnown
<1>4. j.charge \in 1 .. MaxEntries
  BY <1>3, EntriesInLedger, FinanceConstantsOK DEF ClubInv, OrderTypes, TendersInLedger
<1>5. tenders[j.charge] \in Tender BY <1>3, <1>4 DEF ClubInv, OrderTypes
<1>6. PICK tender : tender = [tenders[j.charge] EXCEPT !.settlement = j.entry] OBVIOUS
<1>7. /\ tender \in Tender /\ tender.settlement = j.entry
      /\ tender.type = tenders[j.charge].type
  BY <1>2, <1>5, <1>6 DEF SettleJob, Tender
<1>8. tender # None BY <1>7, OrderConstantsOK
<1>9. /\ Done(w) /\ UNCHANGED <<ledger, rushed, halved>>
      /\ tenders' = [tenders EXCEPT ![j.charge] = tender]
      /\ orders' = [orders EXCEPT ![o] =
                      [orders[o] EXCEPT !.payment = j.entry, !.tender = j.charge]]
  BY <1>1, <1>2, <1>6 DEF LinkSettlement, WithSettlement
<1>10. /\ orders'[o].charge = orders[o].charge /\ orders'[o].payment = j.entry
       /\ orders'[o].tender = j.charge /\ orders'[o].status = orders[o].status
  BY <1>3, <1>9 DEF ClubInv, OrderTypes, Order
<1>11. orders[o].status = "collected" /\ j.charge = orders[o].charge
  <2>1. OrderJobRight(counter[w], orders[o]) BY DEF Right, OrderRight
  <2> QED BY <1>1, <1>2, <2>1 DEF OrderJobRight
<1>12. \A v \in Workers : ~ About(v, o)' BY <1>9, NoneAfterwards
<1>13. /\ Entries(o, "charge")' = Entries(o, "charge")
       /\ Entries(o, "payment")' = Entries(o, "payment")
  BY <1>9 DEF Entries
<1>14. tenders'[j.charge] = tender BY <1>4, <1>9 DEF ClubInv, OrderTypes
<1>15. \A i, k \in Entries(o, "payment")' : i = k BY <1>13 DEF Right, OrderRight
<1>16. ASSUME o \notin halved
       PROVE  /\ Entries(o, "charge") = {orders[o].charge} \ {0}
              /\ Entries(o, "payment") = {j.entry}
              /\ \A c \in Entries(o, "charge") : LinkedTender(orders[o], c)'
  <2>1. Settling(w, o) BY <1>1, <1>2 DEF Settling
  <2>2. \A v \in Workers : ~ Charging(v, o)
    BY <1>1, <1>2, OnlyRequest DEF Charging
  <2>3. /\ Entries(o, "charge") = {orders[o].charge} \ {0}
        /\ Entries(o, "payment") = {j.entry} /\ j.type # "member_account"
        /\ tenders[j.charge] = [type |-> j.type, settlement |-> 0]
    BY <1>1, <1>3, <1>16, <2>1, <2>2 DEF Right, OrderShown
  <2>4. \A c \in Entries(o, "charge") : c = j.charge BY <1>11, <2>3
  <2>5. tender.type # "member_account" BY <1>7, <2>3
  <2>6. \A c : c = j.charge => LinkedTender(orders[o], c)'
    BY <1>2, <1>7, <1>8, <1>10, <1>14, <2>5 DEF LinkedTender
  <2> QED BY <2>3, <2>4, <2>6
<1>17. j.charge # 0 BY <1>4
<1>18. orders'[o].charge # 0 /\ tenders'[orders'[o].charge] # None
  BY <1>8, <1>10, <1>11, <1>14, <1>17
<1>19. o \notin rushed' \union halved' =>
         /\ Entries(o, "charge")' = {orders'[o].charge} \ {0}
         /\ Entries(o, "payment")' = {orders'[o].payment} \ {0}
         /\ \A c \in Entries(o, "charge")' : LinkedTender(orders[o], c)'
  <2>1. {j.entry} = {j.entry} \ {0} BY <1>2
  <2> QED BY <1>9, <1>10, <1>13, <1>16, <2>1
<1> QED BY <1>10, <1>11, <1>12, <1>15, <1>18, <1>19, RightAtRest

LEMMA TakeRight ==
  ASSUME ClubInv, NEW w \in Workers, NEW o \in OrderIds, NEW job \in CounterJob,
         Take(w, job), job.op \in {"transition", "charge", "settle"}, job.id = o,
         job.op # "transition" => job.entry = 0,
         OrderJobRight(job, orders[o]), Right(o)
  PROVE  Right(o)'
<1>1. /\ counter[w] = Free /\ counter' = [counter EXCEPT ![w] = job]
      /\ UNCHANGED <<ledger, payment, orders, tenders, halved>>
      /\ rushed' = rushed \union
           {x \in {o} : \E v \in Workers : counter[v] # Free /\ Subject(counter[v]) = x}
  BY DEF Take, Subject
<1>2. \A v \in Workers : About(v, o) => counter[v] # Free /\ Subject(counter[v]) = o
  BY DEF About, Free, Subject
<1> SUFFICES ASSUME o \notin rushed' PROVE Right(o)'
  BY DEF Right, OrderRight, OrderShown
<1>3. o \notin rushed /\ \A v \in Workers : ~ About(v, o) BY <1>1, <1>2
<1>4. counter'[w] = job /\ \A v \in Workers : v # w => counter'[v] = counter[v]
  BY <1>1 DEF ClubInv, OrderTypes
<1>5. \A v \in Workers : About(v, o)' => v = w BY <1>3, <1>4 DEF About
<1>6. /\ Entries(o, "charge")' = Entries(o, "charge")
      /\ Entries(o, "payment")' = Entries(o, "payment")
  BY <1>1 DEF Entries
<1>7. OrderRight(o)'
  <2>1. OrderJobRight(counter'[w], orders'[o]) BY <1>1, <1>4
  <2>2. OrderJobRight(counter[w], orders[o])' = OrderJobRight(counter'[w], orders'[o])
    BY DEF OrderJobRight, AllowedFrom
  <2> QED BY <1>1, <1>3, <1>5, <1>6, <2>1, <2>2 DEF Right, OrderRight, Posted
<1>8. OrderShown(o)'
  <2>1. \A v \in Workers : ~ Charging(v, o) /\ ~ Settling(v, o)
    BY <1>3 DEF Charging, Settling
  <2>2. \A v \in Workers : ~ Charging(v, o)' /\ ~ Settling(v, o)'
    BY <1>4, <1>5 DEF Charging, Settling
  <2>3. \A c : LinkedTender(orders[o], c) => LinkedTender(orders[o], c)'
    BY <1>1 DEF LinkedTender
  <2> QED BY <1>1, <1>3, <1>6, <2>1, <2>2, <2>3 DEF Right, OrderShown, Placed
<1> QED BY <1>7, <1>8 DEF Right

\* A new order has no money yet.
LEMMA CreatedRight ==
  ASSUME ClubInv, NEW w \in Workers, NEW o \in OrderIds, CommitOrder(w), ~ Placed(o)
  PROVE  Right(o)' \/ orders'[o] = orders[o]
<1>1. PICK p \in OrderIds : \E new :
        /\ new.charge = 0 /\ new.payment = 0
        /\ orders' = [orders EXCEPT ![p] = new]
  BY DEF CommitOrder
<1>2. CASE p # o BY <1>1, <1>2 DEF ClubInv, OrderTypes
<1>3. CASE p = o
  <2>1. orders'[o].charge = 0 /\ orders'[o].payment = 0
    BY <1>1, <1>3 DEF ClubInv, OrderTypes
  <2>2. Done(w) /\ UNCHANGED <<ledger, tenders>> BY DEF CommitOrder
  <2>3. ASSUME NEW v \in Workers PROVE ~ About(v, o)'
    <3>1. ~ About(v, o) BY JobAtHand DEF About
    <3> QED BY <2>2, <3>1 DEF Done, About, Free, ClubInv, OrderTypes
  <2>4. \A kind : Entries(o, kind)' = {}
    BY <2>2 DEF Entries, ClubInv, EntriesOfPlaced
  <2>5. {orders'[o].charge} \ {0} = {} /\ {orders'[o].payment} \ {0} = {} BY <2>1
  <2> QED BY <2>3, <2>4, <2>5, RightAtRest DEF Posted
<1> QED BY <1>2, <1>3

\* Where nothing is placed there is nothing to show.
LEMMA UnplacedRight ==
  ASSUME ClubInv, ClubInv', AloneAtCounter, NEW o \in OrderIds, ~ Placed(o)'
  PROVE  Right(o)'
<1>1. \A v \in Workers : ~ About(v, o)'
  <2> SUFFICES ASSUME NEW v \in Workers, NEW j \in CounterJob, j = counter'[v],
                      j.op \in {"transition", "charge", "settle"}, j.id = o
               PROVE  FALSE
    BY DEF About, ClubInv, OrderTypes
  <2>1. \A i \in CounterJob : i = counter'[v] => OrderJobKnown(i)'
    BY DEF ClubInv, OrderJobsKnown, OrderJobKnown
  <2>2. OrderJobKnown(j)' BY <2>1
  <2> QED BY <2>2 DEF OrderJobKnown
<1>2. \A kind : Entries(o, kind)' = {}
  BY DEF ClubInv, EntriesOfPlaced, Entries
<1>3. OrderRight(o)' BY <1>1, <1>2 DEF OrderRight, Posted
<1>4. OrderShown(o)' BY DEF OrderShown
<1> QED BY <1>3, <1>4 DEF Right

\* What ends without a commit, or after the first of two, leaves the order as it shows.
LEMMA EndRight ==
  ASSUME ClubInv, NEW w \in Workers, NEW o \in OrderIds, About(w, o),
         RefuseOrder(w) \/ CrashHalfway(w), Right(o)
  PROVE  Right(o)'
<1>1. /\ Done(w) /\ UNCHANGED <<ledger, orders, tenders, rushed>>
      /\ halved \subseteq halved'
  BY DEF RefuseOrder, CrashHalfway
<1>2. counter'[w] = Free /\ \A v \in Workers : v # w => counter'[v] = counter[v]
  BY <1>1 DEF Done, ClubInv, OrderTypes
<1>3. ~ About(w, o)' BY <1>2 DEF About, Free
<1>4. \A v \in Workers : About(v, o)' => About(v, o) /\ counter'[v] = counter[v]
  BY <1>2, <1>3 DEF About
<1>5. \A v \in Workers :
        (Charging(v, o) \/ Settling(v, o)) => counter'[v] = counter[v] \/ o \in halved'
  BY <1>2 DEF Charging, Settling, About, RefuseOrder, CrashHalfway, Halfway
<1>6. Elsewhere(o) BY <1>1, <1>4, <1>5 DEF Elsewhere, Entries
<1> QED BY <1>6, ElsewhereRight, ElsewhereShown DEF Right

\* A step of a request about o keeps o right.
LEMMA OwnStepRight ==
  ASSUME ClubInv, AloneAtCounter, NEW w \in Workers, OrderStep(w), NEW o \in OrderIds,
         About(w, o), Right(o)
  PROVE  Right(o)'
<1>1. CASE o \in rushed BY <1>1, StepGoesOn, RushedStays
<1>2. CASE o \notin rushed
  <2>1. ~ \E job : Take(w, job) BY DEF Take, About, Free
  <2>2. ~ CommitOrder(w) BY DEF CommitOrder, About
  <2> QED BY <1>2, <2>1, <2>2, TransitionRight, PostChargeRight, LinkChargeRight,
             OnAccountRight, PostSettlementRight, LinkSettlementRight, EndRight
          DEF OrderStep, BeginOrder, BeginOrderTransition, BeginOrderCharge, BeginSettle
<1> QED BY <1>1, <1>2

\* A request that begins about o found it as it is.
LEMMA BegunRight ==
  ASSUME ClubInv, NEW w \in Workers, OrderStep(w), NEW o \in OrderIds,
         ~ About(w, o), About(w, o)', Right(o)
  PROVE  Right(o)'
<1>1. ~ GoesOn(w)
  <2> SUFFICES ASSUME GoesOn(w) PROVE FALSE OBVIOUS
  <2>1. counter'[w] # Free BY DEF About, Free
  <2>2. /\ counter'[w].op = counter[w].op /\ counter'[w].op \in {"charge", "settle"}
        /\ Subject(counter'[w]) = Subject(counter[w])
    BY <2>1 DEF GoesOn
  <2> QED BY <2>2 DEF Subject, About
<1>2. PICK job \in CounterJob : Take(w, job) /\ counter'[w] = job BY <1>1, StepGoesOn
<1>3. job.op \in {"transition", "charge", "settle"} /\ job.id = o BY <1>2 DEF About
<1>4. counter[w] = Free BY <1>2 DEF Take
<1>5. job # Free BY <1>3 DEF Free
<1>6. BeginOrder(w) \/ BeginOrderTransition(w) \/ BeginOrderCharge(w) \/ BeginSettle(w)
  BY <1>2, <1>4, <1>5
     DEF OrderStep, CommitOrder, CommitOrderTransition, PostOrderCharge, LinkOrderCharge,
         SettleOnAccount, PostSettlement, LinkSettlement, RefuseOrder, CrashHalfway,
         Halfway, Free
<1>7. PICK begun \in CounterJob :
        /\ Take(w, begun)
        /\ \/ begun \in CreateOrderJob
           \/ /\ begun \in TransitionJob
              /\ AllowedFrom(orders[begun.id].status, begun.to)
           \/ begun \in ChargeJob /\ MayCharge(begun.id) /\ begun.entry = 0
           \/ /\ begun \in SettleJob /\ begun.entry = 0
              /\ orders[begun.id].status = "collected"
              /\ begun.charge = orders[begun.id].charge
  BY <1>6, BeginsKnown
<1>8. begun = job BY <1>2, <1>7 DEF Take, ClubInv, OrderTypes
<1>9. /\ job.op # "transition" => job.entry = 0
      /\ OrderJobRight(job, orders[o])
  BY <1>3, <1>7, <1>8
     DEF CreateOrderJob, TransitionJob, ChargeJob, SettleJob, MayCharge, OrderJobRight
<1> QED BY <1>2, <1>3, <1>9, TakeRight

LEMMA OrderStepRight ==
  ASSUME ClubInv, ClubInv', AloneAtCounter, NEW w \in Workers, OrderStep(w),
         NEW o \in OrderIds, Right(o)
  PROVE  Right(o)'
<1>1. CASE About(w, o) BY <1>1, OwnStepRight
<1>2. CASE ~ About(w, o) /\ About(w, o)' BY <1>2, BegunRight
<1>3. CASE ~ About(w, o) /\ ~ About(w, o)' /\ (CommitOrder(w) => Placed(o))
  BY <1>3, OthersElsewhere, ElsewhereRight, ElsewhereShown DEF Right
<1>4. CASE CommitOrder(w) /\ ~ Placed(o)
  <2>1. CASE orders'[o] = orders[o]
    <3>1. ~ Placed(o)' BY <1>4, <2>1 DEF Placed
    <3> QED BY <3>1, UnplacedRight
  <2>2. CASE orders'[o] # orders[o] BY <1>4, <2>2, CreatedRight
  <2> QED BY <2>1, <2>2
<1> QED BY <1>1, <1>2, <1>3, <1>4

CounterInv ==
  /\ AloneAtCounter
  /\ \A r \in Requests : RequestRight(r)
  /\ \A o \in OrderIds : Right(o)

LEMMA NextCounter == ClubInv /\ CounterInv /\ [ClubNext]_clubVars => CounterInv'
<1> SUFFICES ASSUME ClubInv, CounterInv, [ClubNext]_clubVars PROVE CounterInv' OBVIOUS
<1>1. ClubInv' BY NextClub
<1>2. AloneAtCounter' BY NextAloneAtCounter DEF CounterInv
<1>3. ASSUME NEW r \in Requests PROVE RequestRight(r)'
  BY NextRequest DEF CounterInv
<1>4. ASSUME NEW o \in OrderIds PROVE Right(o)'
  <2>1. Right(o) BY DEF CounterInv
  <2>2. ASSUME NEW w \in Workers, OrderStep(w) PROVE Right(o)'
    BY <1>1, <2>1, <2>2, OrderStepRight DEF CounterInv
  <2>3. ASSUME BookingsOnly, UNCHANGED orderVars PROVE Right(o)'
    <3>1. Elsewhere(o)
      BY <2>3 DEF Elsewhere, BookingsOnly, orderVars, About, Kinds
    <3> QED BY <2>1, <3>1, ElsewhereRight, ElsewhereShown DEF Right
  <2>4. FinanceTypeOK /\ Len(ledger) <= MaxEntries
    BY DEF ClubInv, OrderTypes, TendersInLedger
  <2>5. ASSUME NEW w \in Workers, FinanceStep(w), UNCHANGED orderVars PROVE Right(o)'
    BY <2>3, <2>4, <2>5, BookingStep
  <2>6. CASE UNCHANGED clubVars
    BY <2>3, <2>4, <2>6, SameLedger DEF clubVars, orderVars
  <2> QED BY <2>2, <2>5, <2>6 DEF ClubNext
<1> QED BY <1>2, <1>3, <1>4 DEF CounterInv

LEMMA InitCounter == OrderInit => CounterInv
<1> SUFFICES ASSUME OrderInit PROVE CounterInv OBVIOUS
<1>1. \A w \in Workers : counter[w] = Free BY DEF OrderInit
<1>2. \A o \in OrderIds : ~ Placed(o) BY DEF OrderInit, Placed
<1>3. \A o, kind : Entries(o, kind) = {} BY DEF OrderInit, FinanceInit, Entries
<1>4. AloneAtCounter BY <1>1 DEF AloneAtCounter
<1>5. \A r \in Requests : RequestRight(r) BY <1>1, <1>2 DEF RequestRight, Free
<1>6. \A o \in OrderIds : Right(o)
  BY <1>1, <1>2, <1>3 DEF Right, OrderRight, OrderShown, Posted, About, Free
<1> QED BY <1>4, <1>5, <1>6 DEF CounterInv

LEMMA EachOnce == ClubInv /\ CounterInv => OnceEach
<1> SUFFICES ASSUME ClubInv, CounterInv PROVE OnceEach OBVIOUS
<1>1. OneOrderPerRequest
  <2>1. \A o \in OrderIds : Placed(o) => orders[o].request \in Requests
    BY PlacedIsOrder DEF ClubInv, Order
  <2> QED BY <2>1 DEF CounterInv, RequestRight, OneOrderPerRequest
<1>2. ASSUME NEW o \in OrderIds \ (rushed \union halved)
      PROVE  Cardinality(Entries(o, "charge")) <= 1
  <2>1. \A i, k \in Entries(o, "charge") : i = k
    <3>1. CASE Placed(o)
      BY <1>2, <3>1 DEF CounterInv, Right, OrderShown
    <3>2. CASE ~ Placed(o)
      BY <1>2, <3>2 DEF ClubInv, EntriesOfPlaced, Entries
    <3> QED BY <3>1, <3>2
  <2> QED BY <2>1, AtMostOne
<1>3. ASSUME NEW o \in OrderIds \ rushed
      PROVE  Cardinality(Entries(o, "payment")) <= 1
  <2>1. \A i, k \in Entries(o, "payment") : i = k
    BY <1>3 DEF CounterInv, Right, OrderRight
  <2> QED BY <2>1, AtMostOne
<1> QED BY <1>1, <1>2, <1>3, TenderedBounds DEF OnceEach, OrderChargedOnce, OrderPaidOnce

LEMMA CounterAgrees == ClubInv /\ CounterInv => OrderAgrees
<1> SUFFICES ASSUME ClubInv, CounterInv PROVE OrderAgrees OBVIOUS
<1>1. ChargedIsCollected BY DEF CounterInv, Right, OrderRight, ChargedIsCollected
<1>2. ASSUME NEW o \in OrderIds \ (rushed \union halved), Placed(o), AtRest(o)
      PROVE  /\ Entries(o, "charge") = {orders[o].charge} \ {0}
             /\ Entries(o, "payment") = {orders[o].payment} \ {0}
             /\ \A c \in Entries(o, "charge") : LinkedTender(orders[o], c)
  <2>1. \A w \in Workers : ~ Charging(w, o) /\ ~ Settling(w, o)
    BY <1>2 DEF AtRest, Halfway, Charging, Settling, About
  <2> QED BY <1>2, <2>1 DEF CounterInv, Right, OrderShown
<1>3. OrderShowsLedger BY <1>2 DEF OrderShowsLedger, LinkedTender
<1> QED BY <1>1, <1>3 DEF OrderAgrees

-------------------------------------------------------------------------------
(* The theorems about orders whose requests do not overlap.                *)

\* create_order finds the order of a correlation id that is sent again; post-charge and
\* record-payment charge and pay an order once, whatever is retried; and no order ever
\* has more payments than charges, overlaps included.
THEOREM OrdersOnceEach == ClubSpec => []OnceEach
<1>1. ClubInv /\ CounterInv /\ [ClubNext]_clubVars => CounterInv' BY NextCounter
<1> QED BY <1>1, InitCounter, ClubInvariance, EachOnce, PTL DEF ClubSpec

\* An order that is charged was collected, and its links, its tender and the ledger
\* agree whenever none of its requests is between its commits.
THEOREM OrdersAgree == ClubSpec => []OrderAgrees
<1>1. ClubInv /\ CounterInv /\ [ClubNext]_clubVars => CounterInv' BY NextCounter
<1> QED BY <1>1, InitCounter, ClubInvariance, CounterAgrees, PTL DEF ClubSpec

\* Orders are placed, charged and paid once each and agree with the ledger.
THEOREM OrdersAlwaysSound == ClubSpec => []OrdersSound
<1>1. OnceEach /\ OrderAgrees => OrdersSound BY DEF OrdersSound
<1> QED BY <1>1, OrdersOnceEach, OrdersAgree, PTL

-------------------------------------------------------------------------------
(* The life of an order: OrderFinance implements OrderLifecycle.           *)

\* A charge with a tender is the one the order is linked to, so that none is posted any
\* more; and only an order there is can have had two requests at work.
LifeRight(o) ==
  /\ o \notin rushed => \A c \in Tendered(o) : c = orders[o].charge
  /\ o \in rushed => Placed(o)
LifeInv == \A o \in OrderIds : LifeRight(o)

LEMMA LifeAt ==
  ASSUME NEW o \in OrderIds
  PROVE  /\ ~ Placed(o) => LifeOf[o] = Lifecycle!Unborn
         /\ Placed(o) /\ o \in rushed => LifeOf[o] = Lifecycle!Contended
         /\ Placed(o) /\ o \notin rushed =>
              LifeOf[o] = [stage |-> orders[o].status, bill |-> BillOf(o)]
BY DEF LifeOf, Lifecycle!Unborn, Lifecycle!Contended
LEMMA LifeAfter ==
  ASSUME NEW o \in OrderIds
  PROVE  /\ ~ Placed(o)' => LifeOf'[o] = Lifecycle!Unborn
         /\ Placed(o)' /\ o \in rushed' => LifeOf'[o] = Lifecycle!Contended
         /\ Placed(o)' /\ o \notin rushed' =>
              LifeOf'[o] = [stage |-> orders'[o].status, bill |-> BillOf(o)']
BY DEF LifeOf, Lifecycle!Unborn, Lifecycle!Contended

LEMMA OnlyLife ==
  ASSUME NEW o \in OrderIds, \A p \in OrderIds : p # o => LifeOf'[p] = LifeOf[p]
  PROVE  LifeOf' = [LifeOf EXCEPT ![o] = LifeOf'[o]]
<1>1. LifeOf = [p \in OrderIds |-> LifeOf[p]] /\ LifeOf' = [p \in OrderIds |-> LifeOf'[p]]
  BY DEF LifeOf
<1> QED BY <1>1

LEMMA Unchanged ==
  ASSUME \A p \in OrderIds : LifeOf'[p] = LifeOf[p]
  PROVE  LifeOf' = LifeOf
<1>1. LifeOf = [p \in OrderIds |-> LifeOf[p]] /\ LifeOf' = [p \in OrderIds |-> LifeOf'[p]]
  BY DEF LifeOf
<1> QED BY <1>1

\* What moves nothing of o leaves its life as it is.
LEMMA ElsewhereLife ==
  ASSUME NEW o \in OrderIds, Elsewhere(o), o \in rushed' => o \in rushed, LifeRight(o)
  PROVE  LifeOf'[o] = LifeOf[o] /\ LifeRight(o)'
<1>1. /\ Placed(o)' = Placed(o) /\ (o \in rushed' <=> o \in rushed)
      /\ Posted(o, "charge")' = Posted(o, "charge")
      /\ Posted(o, "payment")' = Posted(o, "payment")
  BY DEF Elsewhere, Placed, Posted
<1>2. HasTender(o)' = HasTender(o) BY DEF Elsewhere, HasTender
<1>3. BillOf(o)' = BillOf(o) BY <1>1, <1>2 DEF BillOf
<1>4. orders'[o] = orders[o] BY DEF Elsewhere
<1>5. LifeRight(o)' BY <1>1, <1>4 DEF LifeRight, Elsewhere, Tendered
<1> QED BY <1>1, <1>3, <1>4, <1>5, LifeAt, LifeAfter

\* A request at work leaves the other orders alone.
LEMMA OthersLive ==
  ASSUME ClubInv, LifeInv, NEW w \in Workers, NEW o \in OrderIds, OrderStep(w), About(w, o),
         NEW p \in OrderIds, p # o
  PROVE  /\ LifeOf'[p] = LifeOf[p] /\ LifeRight(p)'
         /\ rushed' = rushed /\ halved \subseteq halved'
<1>1. ~ \E job : Take(w, job) BY DEF Take, About, Free
<1>2. GoesOn(w) BY <1>1, StepGoesOn
<1>3. ~ About(w, p) BY DEF About
<1>4. ~ About(w, p)'
  <2> SUFFICES ASSUME About(w, p)' PROVE FALSE OBVIOUS
  <2>1. counter'[w] # Free BY DEF About, Free
  <2>2. Subject(counter'[w]) = Subject(counter[w]) /\ counter'[w].op = counter[w].op
    BY <1>2, <2>1 DEF GoesOn
  <2> QED BY <2>2 DEF Subject, About
<1>5. ~ CommitOrder(w) BY DEF CommitOrder, About
<1>6. Elsewhere(p) BY <1>3, <1>4, <1>5, OthersElsewhere
<1> QED BY <1>2, <1>6, ElsewhereLife, StepGoesOn DEF GoesOn, LifeInv

BillGoes(from, to) ==
  \/ from = "none" /\ to = "open"
  \/ from = "open" /\ to \in {"paid", "on account"}

\* What may become of the life of an order by a request for it.
Follows(a, b) ==
  \/ b = a
  \/ \E from, to \in OrderStatuses :
       /\ AllowedFrom(from, to)
       /\ a = [stage |-> from, bill |-> "none"] /\ b = [stage |-> to, bill |-> "none"]
  \/ \E from, to :
       /\ BillGoes(from, to)
       /\ a = [stage |-> "collected", bill |-> from]
       /\ b = [stage |-> "collected", bill |-> to]

LEMMA FollowsIsStep ==
  ASSUME NEW o \in OrderIds, Follows(LifeOf[o], LifeOf'[o]),
         \A p \in OrderIds : p # o => LifeOf'[p] = LifeOf[p]
  PROVE  [Lifecycle!LifeNext]_LifeOf
<1>1. PICK b : b = LifeOf'[o] OBVIOUS
<1>2. LifeOf' = [LifeOf EXCEPT ![o] = b] BY <1>1, OnlyLife
<1>3. CASE b = LifeOf[o] BY <1>1, <1>3, Unchanged
<1>4. CASE \E from, to \in OrderStatuses :
             /\ AllowedFrom(from, to) /\ LifeOf[o] = [stage |-> from, bill |-> "none"]
             /\ b = [stage |-> to, bill |-> "none"]
  <2>1. PICK from, to \in OrderStatuses :
          /\ AllowedFrom(from, to) /\ LifeOf[o] = [stage |-> from, bill |-> "none"]
          /\ b = [stage |-> to, bill |-> "none"]
    BY <1>4
  <2>2. Lifecycle!Advance(o, from, to) BY <1>2, <2>1 DEF Lifecycle!Advance
  <2>3. \/ Lifecycle!Prepare(o) \/ Lifecycle!MakeReady(o)
        \/ Lifecycle!Collect(o) \/ Lifecycle!Cancel(o)
    BY <2>1, <2>2 DEF AllowedFrom, Lifecycle!Prepare, Lifecycle!MakeReady,
                      Lifecycle!Collect, Lifecycle!Cancel
  <2> QED BY <2>3 DEF Lifecycle!LifeNext
<1>5. CASE \E from, to :
             /\ BillGoes(from, to)
             /\ LifeOf[o] = [stage |-> "collected", bill |-> from]
             /\ b = [stage |-> "collected", bill |-> to]
  <2>1. PICK from, to :
          /\ BillGoes(from, to)
          /\ LifeOf[o] = [stage |-> "collected", bill |-> from]
          /\ b = [stage |-> "collected", bill |-> to]
    BY <1>5
  <2>2. Lifecycle!Bill(o, from, to) BY <1>2, <2>1 DEF Lifecycle!Bill
  <2>3. Lifecycle!Charge(o) \/ Lifecycle!Settle(o)
    BY <2>1, <2>2 DEF BillGoes, Lifecycle!Charge, Lifecycle!Settle
  <2> QED BY <2>3 DEF Lifecycle!LifeNext
<1> QED BY <1>1, <1>3, <1>4, <1>5 DEF Follows

LEMMA StaysPlaced ==
  ASSUME ClubInv, NEW w \in Workers, NEW o \in OrderIds, OrderStep(w), About(w, o)
  PROVE  Placed(o) /\ Placed(o)'
<1>1. Placed(o) BY JobAtHand DEF About
<1>2. ~ CommitOrder(w) BY DEF CommitOrder, About
<1> QED BY <1>1, <1>2, WritesOwnOrder

\* An order that two requests were at work on stays so.
LEMMA ContendedStays ==
  ASSUME ClubInv, LifeInv, NEW w \in Workers, NEW o \in OrderIds, OrderStep(w), About(w, o),
         o \in rushed
  PROVE  LifeOf'[o] = LifeOf[o] /\ LifeRight(o)'
<1>1. o \in rushed' BY StepGoesOn
<1>2. Placed(o) /\ Placed(o)' BY StaysPlaced
<1> QED BY <1>1, <1>2, LifeAt, LifeAfter DEF LifeRight

\* The bill, by what is posted and tendered.
LEMMA BillAt ==
  ASSUME NEW o
  PROVE  /\ ~ Posted(o, "charge") => BillOf(o) = "none"
         /\ Posted(o, "charge") /\ Posted(o, "payment") => BillOf(o) = "paid"
         /\ Posted(o, "charge") /\ ~ Posted(o, "payment") =>
              BillOf(o) = IF HasTender(o) THEN "on account" ELSE "open"
BY DEF BillOf
LEMMA BillAfter ==
  ASSUME NEW o
  PROVE  /\ ~ Posted(o, "charge")' => BillOf(o)' = "none"
         /\ Posted(o, "charge")' /\ Posted(o, "payment")' => BillOf(o)' = "paid"
         /\ Posted(o, "charge")' /\ ~ Posted(o, "payment")' =>
              BillOf(o)' = IF HasTender(o)' THEN "on account" ELSE "open"
BY DEF BillOf

\* What is there of o, before and after a step of its request.
LEMMA LivesOn ==
  ASSUME NEW o \in OrderIds, Placed(o), Placed(o)', o \notin rushed, rushed' = rushed,
         \/ /\ orders'[o].status = orders[o].status /\ BillOf(o)' = BillOf(o)
         \/ /\ AllowedFrom(orders[o].status, orders'[o].status)
            /\ orders[o].status \in OrderStatuses /\ orders'[o].status \in OrderStatuses
            /\ BillOf(o) = "none" /\ BillOf(o)' = "none"
         \/ /\ orders[o].status = "collected" /\ orders'[o].status = "collected"
            /\ BillGoes(BillOf(o), BillOf(o)')
  PROVE  Follows(LifeOf[o], LifeOf'[o])
<1>1. /\ LifeOf[o] = [stage |-> orders[o].status, bill |-> BillOf(o)]
      /\ LifeOf'[o] = [stage |-> orders'[o].status, bill |-> BillOf(o)']
  BY LifeAt, LifeAfter
<1> QED BY <1>1 DEF Follows

LEMMA TransitionLife ==
  ASSUME ClubInv, CounterInv, LifeInv, NEW w \in Workers, NEW o \in OrderIds, About(w, o),
         o \notin rushed, CommitOrderTransition(w)
  PROVE  Follows(LifeOf[o], LifeOf'[o]) /\ LifeRight(o)'
<1>1. PICK j \in CounterJob : j = counter[w] BY JobAtHand
<1>2. j \in TransitionJob /\ j.op = "transition" /\ j.id = o
  BY <1>1, CounterKinds DEF CommitOrderTransition, About
<1>3. orders[o] \in Order /\ Placed(o) BY <1>1, <1>2, JobAtHand
<1>4. /\ UNCHANGED <<ledger, tenders, rushed, halved>>
      /\ orders' = [orders EXCEPT ![o] = [orders[o] EXCEPT !.status = j.to]]
  BY <1>1, <1>2 DEF CommitOrderTransition
<1>5. orders'[o] = [orders[o] EXCEPT !.status = j.to] BY <1>4 DEF ClubInv, OrderTypes
<1>6. /\ orders'[o].status = j.to /\ j.to \in OrderStatuses
      /\ orders[o].status \in OrderStatuses /\ orders'[o].charge = orders[o].charge
  BY <1>2, <1>3, <1>5 DEF Order, TransitionJob
<1>7. AllowedFrom(orders[o].status, j.to)
  <2>1. OrderJobRight(counter[w], orders[o]) BY DEF CounterInv, Right, OrderRight
  <2> QED BY <1>1, <1>2, <2>1 DEF OrderJobRight
<1>8. ~ Posted(o, "charge") BY <1>7 DEF AllowedFrom, CounterInv, Right, OrderRight
<1>9. ~ Posted(o, "charge")' BY <1>4, <1>8 DEF Posted, Entries
<1>10. BillOf(o) = "none" /\ BillOf(o)' = "none" BY <1>8, <1>9, BillAt, BillAfter
<1>11. Placed(o)' BY StaysPlaced DEF OrderStep
<1>12. LifeRight(o)' BY <1>4, <1>6, <1>9 DEF LifeRight, Tendered, Posted
<1> QED BY <1>3, <1>4, <1>6, <1>7, <1>10, <1>11, <1>12, LivesOn

LEMMA PostChargeLife ==
  ASSUME ClubInv, CounterInv, LifeInv, NEW w \in Workers, NEW o \in OrderIds, About(w, o),
         o \notin rushed, PostOrderCharge(w)
  PROVE  Follows(LifeOf[o], LifeOf'[o]) /\ LifeRight(o)'
<1>1. PICK j \in CounterJob : j = counter[w] BY JobAtHand
<1>2. j \in ChargeJob /\ j.op = "charge" /\ j.id = o /\ j.entry = 0
  BY <1>1, CounterKinds DEF PostOrderCharge, About
<1>3. orders[o] \in Order /\ Placed(o) BY <1>1, <1>2, JobAtHand
<1>4. PICK account \in Accounts, amount \in Int : Post("charge", o, account, amount)
  BY <1>1, <1>2, <1>3 DEF PostOrderCharge, Order
<1>5. o \in References /\ "charge" \in Kinds BY OrderConstantsOK DEF Kinds
<1>6. /\ Len(ledger) \in Nat /\ Len(ledger') = Len(ledger) + 1 /\ Len(ledger') <= MaxEntries
      /\ Entries(o, "charge")' = Entries(o, "charge") \union {Len(ledger) + 1}
      /\ \A r, k : r # o \/ k # "charge" => Entries(r, k)' = Entries(r, k)
  BY <1>4, <1>5, PostAdds DEF ClubInv, OrderTypes
<1>7. UNCHANGED <<orders, tenders, rushed, halved>> BY DEF PostOrderCharge
<1>8. orders[o].status = "collected" /\ orders[o].charge = 0
  <2>1. OrderJobRight(counter[w], orders[o]) BY DEF CounterInv, Right, OrderRight
  <2> QED BY <1>1, <1>2, <2>1 DEF OrderJobRight
<1>9. ~ Posted(o, "payment") /\ ~ Posted(o, "payment")'
  <2>1. ~ Posted(o, "payment") BY <1>8, PaidIsCharged DEF CounterInv, Right
  <2> QED BY <1>6, <2>1 DEF Posted
<1>10. Posted(o, "charge")' BY <1>6 DEF Posted
<1>11. tenders[Len(ledger) + 1] = None
  BY <1>6, FinanceConstantsOK DEF ClubInv, TendersInLedger
<1>12. \A c \in Entries(o, "charge") : c # 0
  BY EntriesInLedger DEF ClubInv, OrderTypes
<1>13. Tendered(o) = {}
  BY <1>8, <1>12 DEF LifeInv, LifeRight, Tendered
<1>14. Tendered(o)' = {} BY <1>6, <1>7, <1>11, <1>13 DEF Tendered
<1>15. ~ HasTender(o) /\ ~ HasTender(o)' BY <1>13, <1>14 DEF HasTender, Tendered
<1>16. BillOf(o) \in {"none", "open"} /\ BillOf(o)' = "open"
  BY <1>9, <1>10, <1>15, BillAt, BillAfter
<1>17. Placed(o)' BY <1>3, <1>7 DEF Placed
<1>18. LifeRight(o)' BY <1>14, <1>17 DEF LifeRight
<1> QED BY <1>3, <1>7, <1>8, <1>16, <1>17, <1>18, LivesOn DEF BillGoes

LEMMA LinkChargeLife ==
  ASSUME ClubInv, CounterInv, LifeInv, NEW w \in Workers, NEW o \in OrderIds, About(w, o),
         o \notin rushed, LinkOrderCharge(w)
  PROVE  Follows(LifeOf[o], LifeOf'[o]) /\ LifeRight(o)'
<1>1. PICK j \in CounterJob : j = counter[w] BY JobAtHand
<1>2. j \in ChargeJob /\ j.op = "charge" /\ j.id = o
  BY <1>1, CounterKinds DEF LinkOrderCharge, About
<1>3. orders[o] \in Order /\ Placed(o) BY <1>1, <1>2, JobAtHand
<1>4. /\ UNCHANGED <<ledger, tenders, rushed, halved>>
      /\ orders' = [orders EXCEPT ![o] = [orders[o] EXCEPT !.charge = j.entry]]
  BY <1>1, <1>2 DEF LinkOrderCharge, WithCharge
<1>5. orders'[o] = [orders[o] EXCEPT !.charge = j.entry] BY <1>4 DEF ClubInv, OrderTypes
<1>6. orders'[o].status = orders[o].status BY <1>3, <1>5 DEF Order
<1>7. orders[o].charge = 0
  <2>1. OrderJobRight(counter[w], orders[o]) BY DEF CounterInv, Right, OrderRight
  <2> QED BY <1>1, <1>2, <2>1 DEF OrderJobRight
<1>8. \A c \in Entries(o, "charge") : c # 0
  BY EntriesInLedger DEF ClubInv, OrderTypes
<1>9. Tendered(o) = {} BY <1>7, <1>8 DEF LifeInv, LifeRight, Tendered
<1>10. Tendered(o)' = {} BY <1>4, <1>9 DEF Tendered, Entries
<1>11. /\ Posted(o, "charge")' = Posted(o, "charge")
       /\ Posted(o, "payment")' = Posted(o, "payment") /\ HasTender(o)' = HasTender(o)
  BY <1>4 DEF Posted, Entries, HasTender
<1>12. BillOf(o)' = BillOf(o) BY <1>11 DEF BillOf
<1>13. Placed(o)' BY StaysPlaced DEF OrderStep
<1>14. LifeRight(o)' BY <1>10, <1>13 DEF LifeRight
<1> QED BY <1>3, <1>4, <1>6, <1>12, <1>13, <1>14, LivesOn

\* A charge that is about to be settled is the one the order is linked to, and unsettled.
LEMMA SettledOnce ==
  ASSUME ClubInv, CounterInv, LifeInv, NEW w \in Workers, NEW o \in OrderIds, About(w, o),
         o \notin rushed, counter[w].op = "settle", NoTenderYet(counter[w].charge)
  PROVE  /\ orders[o].status = "collected" /\ orders[o] \in Order /\ Placed(o)
         /\ counter[w].charge = orders[o].charge
         /\ counter[w].charge \in Entries(o, "charge") /\ counter[w].charge \in 1 .. MaxEntries
         /\ BillOf(o) = "open"
<1>1. PICK j \in CounterJob : j = counter[w] BY JobAtHand
<1>2. j.op = "settle" /\ j.id = o BY <1>1 DEF About
<1>3. orders[o] \in Order /\ Placed(o) /\ j.charge \in Entries(o, "charge")
  BY <1>1, <1>2, JobAtHand DEF OrderJobKnown
<1>4. j.charge \in 1 .. MaxEntries
  BY <1>3, EntriesInLedger, FinanceConstantsOK DEF ClubInv, OrderTypes, TendersInLedger
<1>5. orders[o].status = "collected" /\ j.charge = orders[o].charge
  <2>1. OrderJobRight(counter[w], orders[o]) BY DEF CounterInv, Right, OrderRight
  <2> QED BY <1>1, <1>2, <2>1 DEF OrderJobRight
<1>6. ~ Posted(o, "payment")
  BY <1>1, <1>5, NothingPaid DEF CounterInv, Right, NoTenderYet
<1>7. ~ HasTender(o)
  BY <1>1, <1>5 DEF LifeInv, LifeRight, Tendered, HasTender, NoTenderYet
<1>8. Posted(o, "charge") BY <1>3 DEF Posted
<1> QED BY <1>1, <1>3, <1>4, <1>5, <1>6, <1>7, <1>8, BillAt

\* Its tender is the only one of the order afterwards.
LEMMA TenderSettles ==
  ASSUME ClubInv, CounterInv, LifeInv, NEW w \in Workers, NEW o \in OrderIds, About(w, o),
         o \notin rushed, counter[w].op = "settle", NoTenderYet(counter[w].charge),
         NEW tender \in Tender, tenders' = [tenders EXCEPT ![counter[w].charge] = tender],
         Entries(o, "charge")' = Entries(o, "charge"),
         Placed(o)', orders'[o].charge = orders[o].charge
  PROVE  HasTender(o)' /\ LifeRight(o)'
<1>1. PICK c : c = counter[w].charge OBVIOUS
<1>2. /\ c \in Entries(o, "charge") /\ c \in 1 .. MaxEntries /\ c = orders[o].charge
  BY <1>1, SettledOnce
<1>3. /\ tenders'[c] = tender /\ \A d \in 1 .. MaxEntries : d # c => tenders'[d] = tenders[d]
  BY <1>1, <1>2 DEF ClubInv, OrderTypes
<1>4. tender # None BY OrderConstantsOK
<1>5. Entries(o, "charge") \subseteq 1 .. MaxEntries
  BY EntriesInLedger, FinanceConstantsOK DEF ClubInv, OrderTypes, TendersInLedger
<1>6. \A d \in Tendered(o)' : d = c
  <2>1. \A d \in Tendered(o) : d = c BY <1>2 DEF LifeInv, LifeRight
  <2> QED BY <1>3, <1>5, <2>1 DEF Tendered
<1> QED BY <1>2, <1>3, <1>4, <1>6 DEF HasTender, LifeRight

LEMMA OnAccountLife ==
  ASSUME ClubInv, CounterInv, LifeInv, NEW w \in Workers, NEW o \in OrderIds, About(w, o),
         o \notin rushed, SettleOnAccount(w)
  PROVE  Follows(LifeOf[o], LifeOf'[o]) /\ LifeRight(o)'
<1>1. PICK j \in CounterJob : j = counter[w] BY JobAtHand
<1>2. j.op = "settle" /\ j.id = o /\ NoTenderYet(j.charge) /\ j.type = "member_account"
  BY <1>1 DEF SettleOnAccount, About
<1>3. /\ orders[o].status = "collected" /\ orders[o] \in Order /\ Placed(o)
      /\ BillOf(o) = "open" /\ j.charge \in Entries(o, "charge") /\ j.charge = orders[o].charge
  BY <1>1, <1>2, SettledOnce
<1>4. PICK tender : tender = [type |-> "member_account", settlement |-> 0] OBVIOUS
<1>5. tender \in Tender BY <1>4 DEF Tender, TenderTypes
<1>6. /\ UNCHANGED <<ledger, rushed, halved>>
      /\ tenders' = [tenders EXCEPT ![j.charge] = tender]
      /\ orders' = [orders EXCEPT ![o] = [orders[o] EXCEPT !.tender = j.charge]]
  BY <1>1, <1>2, <1>4 DEF SettleOnAccount
<1>7. orders'[o] = [orders[o] EXCEPT !.tender = j.charge] BY <1>6 DEF ClubInv, OrderTypes
<1>8. orders'[o].charge = orders[o].charge /\ orders'[o].status = "collected"
  BY <1>3, <1>7 DEF Order
<1>9. Placed(o)' BY StaysPlaced DEF OrderStep
<1>10. /\ Entries(o, "charge")' = Entries(o, "charge")
       /\ Entries(o, "payment")' = Entries(o, "payment")
  BY <1>6 DEF Entries
<1>11. HasTender(o)' /\ LifeRight(o)' BY <1>1, <1>2, <1>5, <1>6, <1>8, <1>9, <1>10, TenderSettles
<1>12. ~ Posted(o, "payment") BY <1>3, BillAt DEF BillOf
<1>13. BillOf(o)' = "on account"
  BY <1>3, <1>10, <1>11, <1>12, BillAfter DEF Posted
<1> QED BY <1>3, <1>6, <1>8, <1>9, <1>11, <1>13, LivesOn DEF BillGoes

LEMMA PostSettlementLife ==
  ASSUME ClubInv, CounterInv, LifeInv, NEW w \in Workers, NEW o \in OrderIds, About(w, o),
         o \notin rushed, PostSettlement(w)
  PROVE  Follows(LifeOf[o], LifeOf'[o]) /\ LifeRight(o)'
<1>1. PICK j \in CounterJob : j = counter[w] BY JobAtHand
<1>2. j.op = "settle" /\ j.id = o /\ NoTenderYet(j.charge)
  BY <1>1 DEF PostSettlement, About
<1>3. /\ orders[o].status = "collected" /\ orders[o] \in Order /\ Placed(o)
      /\ BillOf(o) = "open" /\ j.charge \in Entries(o, "charge")
  BY <1>1, <1>2, SettledOnce
<1>4. PICK account \in Accounts, amount \in Int : Post("payment", o, account, amount)
  BY <1>1, <1>2, SettlementPosted
<1>5. o \in References /\ "payment" \in Kinds BY OrderConstantsOK DEF Kinds
<1>6. /\ Entries(o, "payment")' = Entries(o, "payment") \union {Len(ledger) + 1}
      /\ \A r, k : r # o \/ k # "payment" => Entries(r, k)' = Entries(r, k)
  BY <1>4, <1>5, PostAdds DEF ClubInv, OrderTypes
<1>7. Entries(o, "charge")' = Entries(o, "charge") BY <1>6
<1>8. PICK tender : tender = [type |-> j.type, settlement |-> 0] OBVIOUS
<1>9. j \in SettleJob BY <1>2, CounterKinds
<1>10. tender \in Tender BY <1>8, <1>9 DEF Tender, SettleJob
<1>11. /\ UNCHANGED <<orders, rushed, halved>>
       /\ tenders' = [tenders EXCEPT ![j.charge] = tender]
  BY <1>1, <1>8 DEF PostSettlement
<1>12. Placed(o)' BY <1>3, <1>11 DEF Placed
<1>13. HasTender(o)' /\ LifeRight(o)' BY <1>1, <1>2, <1>7, <1>10, <1>11, <1>12, TenderSettles
<1>14. Posted(o, "charge")' /\ Posted(o, "payment")' BY <1>3, <1>6, <1>7 DEF Posted
<1>15. BillOf(o)' = "paid" BY <1>14, BillAfter
<1> QED BY <1>3, <1>11, <1>12, <1>13, <1>15, LivesOn DEF BillGoes

LEMMA LinkSettlementLife ==
  ASSUME ClubInv, CounterInv, LifeInv, NEW w \in Workers, NEW o \in OrderIds, About(w, o),
         o \notin rushed, LinkSettlement(w)
  PROVE  Follows(LifeOf[o], LifeOf'[o]) /\ LifeRight(o)'
<1>1. PICK j \in CounterJob : j = counter[w] BY JobAtHand
<1>2. j.op = "settle" /\ j.id = o /\ j.entry # 0 /\ j \in SettleJob
  BY <1>1, CounterKinds DEF LinkSettlement, About
<1>3. /\ orders[o] \in Order /\ Placed(o) /\ j.charge \in Entries(o, "charge")
      /\ tenders[j.charge] # None
  BY <1>1, <1>2, JobAtHand DEF OrderJobKnown
<1>4. /\ UNCHANGED <<ledger, rushed, halved>>
      /\ tenders' = [tenders EXCEPT ![j.charge].settlement = j.entry]
      /\ orders' = [orders EXCEPT ![o] =
                      [orders[o] EXCEPT !.payment = j.entry, !.tender = j.charge]]
  BY <1>1, <1>2 DEF LinkSettlement, WithSettlement
<1>5. orders'[o] = [orders[o] EXCEPT !.payment = j.entry, !.tender = j.charge]
  BY <1>4 DEF ClubInv, OrderTypes
<1>6. orders'[o].charge = orders[o].charge /\ orders'[o].status = orders[o].status
  BY <1>3, <1>5 DEF Order
<1>7. Placed(o)' BY StaysPlaced DEF OrderStep
<1>8. /\ Entries(o, "charge")' = Entries(o, "charge")
      /\ Entries(o, "payment")' = Entries(o, "payment")
      /\ Entries(o, "charge") \subseteq 1 .. MaxEntries
  BY <1>4, EntriesInLedger, FinanceConstantsOK
     DEF Entries, ClubInv, OrderTypes, TendersInLedger
<1>9. \A c \in 1 .. MaxEntries : tenders'[c] # None <=> tenders[c] # None
  <2>1. j.charge \in 1 .. MaxEntries /\ tenders[j.charge] \in Tender
    BY <1>3, <1>8 DEF ClubInv, OrderTypes
  <2>2. [tenders[j.charge] EXCEPT !.settlement = j.entry] \in Tender
    BY <1>2, <2>1 DEF Tender, SettleJob
  <2>3. /\ tenders'[j.charge] = [tenders[j.charge] EXCEPT !.settlement = j.entry]
        /\ \A c \in 1 .. MaxEntries : c # j.charge => tenders'[c] = tenders[c]
    BY <1>4, <2>1 DEF ClubInv, OrderTypes
  <2> QED BY <2>1, <2>2, <2>3, OrderConstantsOK
<1>10. HasTender(o)' = HasTender(o) /\ Tendered(o)' = Tendered(o)
  BY <1>8, <1>9 DEF HasTender, Tendered
<1>11. BillOf(o)' = BillOf(o) BY <1>8, <1>10 DEF BillOf, Posted
<1>12. LifeRight(o)' BY <1>4, <1>6, <1>7, <1>10 DEF LifeInv, LifeRight
<1> QED BY <1>3, <1>4, <1>6, <1>7, <1>11, <1>12, LivesOn

\* What leaves ledger, orders, tenders and overlaps alone leaves every order alone.
LEMMA NothingLives ==
  ASSUME LifeInv, UNCHANGED <<ledger, orders, tenders, rushed>>
  PROVE  /\ LifeInv' /\ LifeOf' = LifeOf
         /\ \A o \in OrderIds : LifeOf'[o] = LifeOf[o] /\ LifeRight(o)'
<1>1. ASSUME NEW o \in OrderIds PROVE LifeOf'[o] = LifeOf[o] /\ LifeRight(o)'
  <2>1. /\ Placed(o)' = Placed(o) /\ Tendered(o)' = Tendered(o) /\ BillOf(o)' = BillOf(o)
    BY DEF Placed, Tendered, Entries, BillOf, Posted, HasTender
  <2>2. LifeOf'[o] = LifeOf[o] BY <2>1, LifeAt, LifeAfter
  <2> QED BY <2>1, <2>2 DEF LifeInv, LifeRight
<1> QED BY <1>1, Unchanged DEF LifeInv

\* A step of a request for an order is one step of that order's life.
LEMMA OwnStepLife ==
  ASSUME ClubInv, CounterInv, LifeInv, NEW w \in Workers, NEW o \in OrderIds, OrderStep(w),
         About(w, o)
  PROVE  [Lifecycle!LifeNext]_LifeOf /\ LifeInv'
<1>1. \A p \in OrderIds : p # o => LifeOf'[p] = LifeOf[p] /\ LifeRight(p)' BY OthersLive
<1>2. Follows(LifeOf[o], LifeOf'[o]) /\ LifeRight(o)'
  <2>1. CASE o \in rushed BY <2>1, ContendedStays DEF Follows
  <2>2. CASE RefuseOrder(w) \/ CrashHalfway(w)
    <3>1. UNCHANGED <<ledger, orders, tenders, rushed>>
      BY <2>2 DEF RefuseOrder, CrashHalfway
    <3> QED BY <3>1, NothingLives DEF Follows
  <2>3. ~ \E job : Take(w, job) BY DEF Take, About, Free
  <2>4. ~ CommitOrder(w) BY DEF CommitOrder, About
  <2> QED
    BY <2>1, <2>2, <2>3, <2>4, TransitionLife, PostChargeLife, LinkChargeLife, OnAccountLife,
       PostSettlementLife, LinkSettlementLife
    DEF OrderStep, BeginOrder, BeginOrderTransition, BeginOrderCharge, BeginSettle
<1>3. LifeInv' BY <1>1, <1>2 DEF LifeInv
<1> QED BY <1>1, <1>2, <1>3, FollowsIsStep

\* An order is placed by the commit of its create.
LEMMA CreateLife ==
  ASSUME ClubInv, LifeInv, NEW w \in Workers, CommitOrder(w)
  PROVE  [Lifecycle!LifeNext]_LifeOf /\ LifeInv'
<1>1. PICK o \in OrderIds, account \in Customers, link \in Links, total \in Totals :
        /\ ~ Placed(o)
        /\ orders' = [orders EXCEPT ![o] =
             [request |-> counter[w].request, status |-> "placed",
              account |-> account, booking |-> link, total |-> total,
              charge |-> 0, payment |-> 0, tender |-> 0]]
  BY DEF CommitOrder
<1>2. PICK new : new = [request |-> counter[w].request, status |-> "placed",
                        account |-> account, booking |-> link, total |-> total,
                        charge |-> 0, payment |-> 0, tender |-> 0]
  OBVIOUS
<1>3. counter[w] \in CreateOrderJob BY CounterKinds, JobAtHand DEF CommitOrder
<1>4. new \in Order /\ new.status = "placed"
  BY <1>2, <1>3, OrderConstantsOK DEF Order, CreateOrderJob, OrderStatuses
<1>5. /\ orders'[o] = new /\ \A p \in OrderIds : p # o => orders'[p] = orders[p]
  BY <1>1, <1>2 DEF ClubInv, OrderTypes
<1>6. UNCHANGED <<ledger, tenders, rushed>> BY DEF CommitOrder
<1>7. ASSUME NEW p \in OrderIds, p # o PROVE LifeOf'[p] = LifeOf[p] /\ LifeRight(p)'
  <2>1. /\ Placed(p)' = Placed(p) /\ Tendered(p)' = Tendered(p) /\ BillOf(p)' = BillOf(p)
    BY <1>5, <1>6, <1>7 DEF Placed, Tendered, Entries, BillOf, Posted, HasTender
  <2>2. LifeOf'[p] = LifeOf[p] BY <1>5, <1>6, <1>7, <2>1, LifeAt, LifeAfter
  <2> QED BY <1>5, <1>6, <1>7, <2>1, <2>2 DEF LifeInv, LifeRight
<1>8. o \notin rushed /\ Placed(o)' /\ \A kind : Entries(o, kind)' = {}
  BY <1>1, <1>4, <1>5, <1>6, OrderConstantsOK
     DEF LifeInv, LifeRight, Placed, Entries, ClubInv, EntriesOfPlaced
<1>9. BillOf(o)' = "none" BY <1>8, BillAfter DEF Posted
<1>10. /\ LifeOf[o] = [stage |-> "unborn", bill |-> "none"]
       /\ LifeOf'[o] = [stage |-> "placed", bill |-> "none"]
  BY <1>1, <1>4, <1>5, <1>6, <1>8, <1>9, LifeAt, LifeAfter DEF Lifecycle!Unborn
<1>11. Lifecycle!Place(o)
  BY <1>7, <1>10, OnlyLife DEF Lifecycle!Place, Lifecycle!Advance
<1>12. LifeRight(o)' BY <1>6, <1>8 DEF LifeRight, Tendered
<1> QED BY <1>7, <1>11, <1>12 DEF LifeInv, Lifecycle!LifeNext

\* A request that begins contends for its order, or changes nothing of it.
LEMMA BeginLife ==
  ASSUME ClubInv, LifeInv, NEW w \in Workers,
         BeginOrder(w) \/ BeginOrderTransition(w) \/ BeginOrderCharge(w) \/ BeginSettle(w)
  PROVE  [Lifecycle!LifeNext]_LifeOf /\ LifeInv'
<1>1. PICK job \in CounterJob :
        /\ Take(w, job)
        /\ \/ job \in CreateOrderJob
           \/ job \in TransitionJob /\ Placed(job.id)
           \/ job \in ChargeJob /\ MayCharge(job.id)
           \/ job \in SettleJob /\ Placed(job.id)
  BY BeginsKnown
<1>2. PICK x : x = Subject(job) OBVIOUS
<1>3. x \in Requests \/ (x \in OrderIds /\ Placed(x))
  <2>1. CASE job \in CreateOrderJob
    BY <1>2, <2>1 DEF Subject, CreateOrderJob
  <2>2. CASE job \notin CreateOrderJob
    <3>1. Placed(job.id) /\ job.id \in OrderIds /\ job.op # "create"
      BY <1>1, <2>2 DEF TransitionJob, ChargeJob, SettleJob, MayCharge
    <3> QED BY <1>2, <3>1 DEF Subject
  <2> QED BY <2>1, <2>2
<1>4. x \in OrderIds => Placed(x) BY <1>3, OrderConstantsOK
<1>5. /\ UNCHANGED <<ledger, orders, tenders>>
      /\ rushed \subseteq rushed' /\ rushed' \subseteq rushed \union {x}
  BY <1>1, <1>2 DEF Take
<1>6. ASSUME NEW p \in OrderIds
      PROVE  /\ Placed(p)' = Placed(p) /\ Tendered(p)' = Tendered(p) /\ BillOf(p)' = BillOf(p)
             /\ orders'[p] = orders[p] /\ LifeRight(p)'
  <2>1. /\ Placed(p)' = Placed(p) /\ Tendered(p)' = Tendered(p) /\ BillOf(p)' = BillOf(p)
        /\ orders'[p] = orders[p]
    BY <1>5 DEF Placed, Tendered, Entries, BillOf, Posted, HasTender
  <2> QED BY <1>4, <1>5, <2>1 DEF LifeInv, LifeRight
<1>7. ASSUME NEW p \in OrderIds, p \in rushed' => p \in rushed PROVE LifeOf'[p] = LifeOf[p]
  BY <1>5, <1>6, <1>7, LifeAt, LifeAfter
<1>8. CASE \A p \in OrderIds : p \in rushed' => p \in rushed
  BY <1>6, <1>7, <1>8, Unchanged DEF LifeInv
<1>9. CASE \E p \in OrderIds : p \in rushed' /\ p \notin rushed
  <2>1. x \in OrderIds /\ x \in rushed' /\ x \notin rushed /\ Placed(x)
    BY <1>4, <1>5, <1>9
  <2>2. \A p \in OrderIds : p # x => LifeOf'[p] = LifeOf[p] BY <1>5, <1>7
  <2>3. LifeOf'[x] = Lifecycle!Contended BY <1>6, <2>1, LifeAfter
  <2>4. LifeOf[x] # Lifecycle!Unborn
    <3>1. LifeOf[x] = [stage |-> orders[x].status, bill |-> BillOf(x)] BY <2>1, LifeAt
    <3>2. orders[x].status \in OrderStatuses
      BY <2>1, PlacedIsOrder DEF ClubInv, Order
    <3>3. LifeOf[x].stage = orders[x].status BY <3>1
    <3>4. Lifecycle!Unborn.stage = "unborn" BY DEF Lifecycle!Unborn
    <3> QED BY <3>2, <3>3, <3>4 DEF OrderStatuses
  <2>5. Lifecycle!Contend(x) BY <2>1, <2>2, <2>3, <2>4, OnlyLife DEF Lifecycle!Contend
  <2> QED BY <1>6, <2>1, <2>5 DEF LifeInv, Lifecycle!LifeNext
<1> QED BY <1>8, <1>9

LEMMA OrderStepLife ==
  ASSUME ClubInv, CounterInv, LifeInv, NEW w \in Workers, OrderStep(w)
  PROVE  [Lifecycle!LifeNext]_LifeOf /\ LifeInv'
<1>1. CASE \E o \in OrderIds : About(w, o) BY <1>1, OwnStepLife
<1>2. CASE CommitOrder(w) BY <1>2, CreateLife
<1>3. CASE BeginOrder(w) \/ BeginOrderTransition(w) \/ BeginOrderCharge(w) \/ BeginSettle(w)
  BY <1>3, BeginLife
<1>4. CASE /\ counter[w].op \notin {"transition", "charge", "settle"}
           /\ RefuseOrder(w) \/ CrashHalfway(w)
  <2>1. UNCHANGED <<ledger, orders, tenders, rushed>> BY <1>4 DEF RefuseOrder, CrashHalfway
  <2> QED BY <2>1, NothingLives
<1>5. counter[w].op \in {"transition", "charge", "settle"} => \E o \in OrderIds : About(w, o)
  BY JobAtHand DEF About
<1> QED BY <1>1, <1>2, <1>3, <1>4, <1>5
        DEF OrderStep, CommitOrderTransition, PostOrderCharge, LinkOrderCharge,
            SettleOnAccount, PostSettlement, LinkSettlement

LEMMA LifeStarts == OrderInit => Lifecycle!LifeInit /\ LifeInv
<1> SUFFICES ASSUME OrderInit PROVE Lifecycle!LifeInit /\ LifeInv OBVIOUS
<1>1. \A o \in OrderIds : ~ Placed(o) /\ o \notin rushed BY DEF OrderInit, Placed
<1>2. \A o \in OrderIds : LifeOf[o] = Lifecycle!Unborn BY <1>1, LifeAt
<1>3. LifeOf = [o \in OrderIds |-> LifeOf[o]] BY DEF LifeOf
<1>4. \A o \in OrderIds : Tendered(o) = {} BY DEF OrderInit, FinanceInit, Tendered, Entries
<1> QED BY <1>1, <1>2, <1>3, <1>4 DEF LifeInv, LifeRight, Lifecycle!LifeInit

\* The services of an order implement its life as the abstract specification has it:
\* from placed to collected, or cancelled while it is only placed; charged once it is
\* collected and settled once, in money or on account, whichever commit a request stops
\* before and however often it is tried again. The other requests of the club leave it
\* alone; of an order that two requests were at work on at a time it promises nothing.
THEOREM OrderRefinesLifecycle == ClubSpec => OrderFollowsLifecycle
<1>1. ClubInv /\ CounterInv /\ LifeInv /\ [ClubNext]_clubVars =>
        [Lifecycle!LifeNext]_LifeOf /\ LifeInv'
  <2> SUFFICES ASSUME ClubInv, CounterInv, LifeInv, [ClubNext]_clubVars
               PROVE  [Lifecycle!LifeNext]_LifeOf /\ LifeInv'
    OBVIOUS
  <2>1. ASSUME NEW w \in Workers, OrderStep(w)
        PROVE  [Lifecycle!LifeNext]_LifeOf /\ LifeInv'
    BY <2>1, OrderStepLife
  <2>2. ASSUME BookingsOnly, UNCHANGED orderVars
        PROVE  [Lifecycle!LifeNext]_LifeOf /\ LifeInv'
    <3>1. \A o \in OrderIds : Elsewhere(o)
      BY <2>2 DEF Elsewhere, BookingsOnly, orderVars, About, Kinds
    <3>2. \A o \in OrderIds : LifeOf'[o] = LifeOf[o] /\ LifeRight(o)'
      BY <2>2, <3>1, ElsewhereLife DEF LifeInv, orderVars
    <3> QED BY <3>2, Unchanged DEF LifeInv
  <2>3. FinanceTypeOK /\ Len(ledger) <= MaxEntries
    BY DEF ClubInv, OrderTypes, TendersInLedger
  <2>4. ASSUME NEW w \in Workers, FinanceStep(w), UNCHANGED orderVars
        PROVE  [Lifecycle!LifeNext]_LifeOf /\ LifeInv'
    BY <2>2, <2>3, <2>4, BookingStep
  <2>5. CASE UNCHANGED clubVars BY <2>2, <2>3, <2>5, SameLedger DEF clubVars, orderVars
  <2> QED BY <2>1, <2>4, <2>5 DEF ClubNext
<1>2. ClubInv /\ CounterInv /\ [ClubNext]_clubVars => CounterInv' BY NextCounter
<1> QED BY <1>1, <1>2, LifeStarts, InitCounter, ClubInvariance, PTL
        DEF ClubSpec, OrderFollowsLifecycle, Lifecycle!LifeSpec

===============================================================================
