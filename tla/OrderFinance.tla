----------------------------- MODULE OrderFinance -----------------------------
(***************************************************************************)
(* Food and beverage orders: create, preparing, ready, collected, cancel,  *)
(* post-charge and record-payment (the settlement).  They share the ledger *)
(* and the payment status of bookings with BookingFinance, whose requests  *)
(* are served by the same workers.                                         *)
(*                                                                         *)
(* A charge is two commits (entry, then order and booking), a cash or card *)
(* settlement too (tender and entry, then the links and the booking).      *)
(***************************************************************************)
EXTENDS BookingFinance

CONSTANTS
  OrderIds,   \* identifiers for rows of orders (never reused)
  Requests,   \* X-Correlation-Id of create requests: a retry repeats it
  Customers,  \* accounts of the people who order
  Links,      \* the booking an order may be for, or None
  Totals      \* order totals

OrderStatuses == {"placed", "preparing", "ready", "collected", "cancelled"}
TenderTypes == {"cash", "card", "member_account"}

\* References to the ledger are positions in it; 0 is SQL NULL. A tender is known by
\* the charge it is for: charge_transaction_id is unique.
Order == [request: Requests, status: OrderStatuses, account: Accounts,
          booking: Bookings \union {None}, total: Nat \ {0},
          charge: Nat, payment: Nat, tender: Nat]
Tender == [type: TenderTypes, settlement: Nat]

ASSUME OrderConstantsOK ==
  /\ OrderIds \subseteq References /\ OrderIds \intersect Bookings = {}
  /\ Requests \intersect OrderIds = {}
  /\ Customers \subseteq Accounts
  /\ Links \subseteq Bookings \union {None}
  /\ Totals \subseteq Nat \ {0}
  /\ None \notin Order \union Tender

VARIABLES
  orders,   \* OrderIds -> Order, or None
  tenders,  \* finance_tender_records: charge -> Tender, or None
  counter,  \* Workers -> the order request being served
  rushed,   \* history: orders and creates that two requests were at work on at a time
  halved    \* history: orders of which a request stopped between its commits

orderVars == <<orders, tenders, counter, rushed, halved>>
clubVars == <<ledger, payment, desk, raced, cut, orders, tenders, counter, rushed, halved>>

Placed(o) == orders[o] # None

SettlementAmount(charge) == -ledger[charge].amount

CreateOrderJob == [request: Requests, op: {"create"}]
TransitionJob == [op: {"transition"}, id: OrderIds, to: OrderStatuses \ {"placed"}]
\* entry: where the ledger entry was posted, 0 before the first commit.
ChargeJob == [op: {"charge"}, id: OrderIds, entry: Nat]
SettleJob == [charge: Nat, type: TenderTypes, op: {"settle"}, id: OrderIds, entry: Nat]
CounterJob ==
  {Free} \union CreateOrderJob \union TransitionJob \union ChargeJob \union SettleJob

OrderInit ==
  /\ FinanceInit
  /\ orders = [o \in OrderIds |-> None]
  /\ tenders = [c \in 1 .. MaxEntries |-> None]
  /\ counter = [w \in Workers |-> Free]
  /\ rushed = {} /\ halved = {}

\* What a request is about: an order, or the correlation id of the one it creates.
Subject(job) == IF job.op = "create" THEN job.request ELSE job.id

\* A request begins; another one on the same subject may be under way.
Take(w, job) ==
  /\ counter[w] = Free
  /\ counter' = [counter EXCEPT ![w] = job]
  /\ rushed' = rushed \union
       {x \in {Subject(job)} : \E v \in Workers : counter[v] # Free /\ Subject(counter[v]) = x}
  /\ UNCHANGED <<ledger, payment, orders, tenders, halved>>

Done(w) == counter' = [counter EXCEPT ![w] = Free]

-------------------------------------------------------------------------------
(* The life of an order.                                                   *)

\* Mutant: the correlation id is not looked up.
AlwaysNew(request) == TRUE

\* No order.created event has this correlation id.
NewRequest(request) == \A o \in OrderIds : Placed(o) => orders[o].request # request

BeginOrder(w) ==
  \E request \in Requests :
    /\ NewRequest(request)
    /\ Take(w, [request |-> request, op |-> "create"])

\* The order, its items and its event are one commit.
CommitOrder(w) ==
  /\ counter[w].op = "create"
  /\ \E o \in OrderIds, account \in Customers, link \in Links, total \in Totals :
       /\ ~ Placed(o)
       /\ orders' = [orders EXCEPT ![o] =
            [request |-> counter[w].request, status |-> "placed",
             account |-> account, booking |-> link, total |-> total,
             charge |-> 0, payment |-> 0, tender |-> 0]]
  /\ Done(w)
  /\ UNCHANGED <<ledger, payment, tenders, rushed, halved>>

\* Mutant: an order that is being prepared can still be cancelled.
CancelledLate(from, to) ==
  \/ to = "preparing" /\ from = "placed"
  \/ to = "ready" /\ from = "preparing"
  \/ to = "collected" /\ from = "ready"
  \/ to = "cancelled" /\ from \in {"placed", "preparing"}

\* allowed_from of the four transitions.
AllowedFrom(from, to) ==
  \/ to = "preparing" /\ from = "placed"
  \/ to = "ready" /\ from = "preparing"
  \/ to = "collected" /\ from = "ready"
  \/ to = "cancelled" /\ from = "placed"

BeginOrderTransition(w) ==
  \E o \in OrderIds, to \in OrderStatuses \ {"placed"} :
    /\ Placed(o)
    /\ AllowedFrom(orders[o].status, to)
    /\ Take(w, [op |-> "transition", id |-> o, to |-> to])

CommitOrderTransition(w) ==
  /\ counter[w].op = "transition"
  /\ orders' = [orders EXCEPT ![counter[w].id].status = counter[w].to]
  /\ Done(w)
  /\ UNCHANGED <<ledger, payment, tenders, rushed, halved>>

-------------------------------------------------------------------------------
(* The charge of an order.                                                 *)

MayCharge(o) ==
  /\ Placed(o)
  /\ orders[o].charge = 0
  /\ orders[o].status = "collected"
  /\ orders[o].account \in Active

BeginOrderCharge(w) ==
  \E o \in OrderIds :
    /\ MayCharge(o)
    /\ Take(w, [op |-> "charge", id |-> o, entry |-> 0])

PostOrderCharge(w) ==
  LET j == counter[w] IN
  /\ j.op = "charge" /\ j.entry = 0
  /\ Post("charge", j.id, orders[j.id].account, -orders[j.id].total)
  /\ counter' = [counter EXCEPT ![w].entry = Len(ledger')]
  /\ UNCHANGED <<payment, orders, tenders, rushed, halved>>

\* The booking of an order takes a new payment status, whatever it had.
MarkLinked(o, status) ==
  payment' = IF orders[o].booking = None THEN payment
             ELSE [payment EXCEPT ![orders[o].booking] = status]

\* Mutant: the order is linked to the next entry.
NextEntryLinked(o, entry) == [orders EXCEPT ![o].charge = entry + 1]

WithCharge(o, entry) == [orders EXCEPT ![o].charge = entry]

LinkOrderCharge(w) ==
  LET j == counter[w] IN
  /\ j.op = "charge" /\ j.entry # 0
  /\ orders' = WithCharge(j.id, j.entry)
  /\ MarkLinked(j.id, "pending")
  /\ Done(w)
  /\ UNCHANGED <<ledger, tenders, rushed, halved>>

-------------------------------------------------------------------------------
(* The settlement of an order.                                             *)

BeginSettle(w) ==
  \E o \in OrderIds, type \in TenderTypes :
    /\ Placed(o)
    /\ orders[o].tender = 0
    /\ orders[o].status = "collected"
    /\ orders[o].charge # 0
    /\ orders[o].account \in Active
    /\ Take(w, [charge |-> orders[o].charge, type |-> type, op |-> "settle",
                id |-> o, entry |-> 0])

\* The unique constraint: a second tender for a charge fails when it is flushed.
NoTenderYet(charge) == tenders[charge] = None

\* On the member's account the tender only notes that nothing was paid: one commit.
SettleOnAccount(w) ==
  LET j == counter[w] IN
  /\ j.op = "settle" /\ j.type = "member_account"
  /\ NoTenderYet(j.charge)
  /\ tenders' = [tenders EXCEPT ![j.charge] = [type |-> j.type, settlement |-> 0]]
  /\ orders' = [orders EXCEPT ![j.id].tender = j.charge]
  /\ MarkLinked(j.id, "pending")
  /\ Done(w)
  /\ UNCHANGED <<ledger, rushed, halved>>

\* The ledger's commit takes the tender that was flushed before it along.
PostSettlement(w) ==
  LET j == counter[w] IN
  /\ j.op = "settle" /\ j.type # "member_account" /\ j.entry = 0
  /\ NoTenderYet(j.charge)
  /\ Post("payment", j.id, orders[j.id].account, SettlementAmount(j.charge))
  /\ tenders' = [tenders EXCEPT ![j.charge] = [type |-> j.type, settlement |-> 0]]
  /\ counter' = [counter EXCEPT ![w].entry = Len(ledger')]
  /\ UNCHANGED <<payment, orders, rushed, halved>>

WithSettlement(j) ==
  [orders EXCEPT ![j.id].payment = j.entry, ![j.id].tender = j.charge]

LinkSettlement(w) ==
  LET j == counter[w] IN
  /\ j.op = "settle" /\ j.entry # 0
  /\ tenders' = [tenders EXCEPT ![j.charge].settlement = j.entry]
  /\ orders' = WithSettlement(j)
  /\ MarkLinked(j.id, "paid")
  /\ Done(w)
  /\ UNCHANGED <<ledger, rushed, halved>>

\* The job has made its first commit.
Halfway(w) == counter[w].op \in {"charge", "settle"} /\ counter[w].entry # 0

\* A refusal, an error or a crash before anything is committed.
RefuseOrder(w) ==
  /\ counter[w] # Free /\ ~ Halfway(w)
  /\ Done(w)
  /\ UNCHANGED <<ledger, payment, orders, tenders, rushed, halved>>

\* An error or a crash between the two commits.
CrashHalfway(w) ==
  /\ Halfway(w)
  /\ Done(w)
  /\ halved' = halved \union {counter[w].id}
  /\ UNCHANGED <<ledger, payment, orders, tenders, rushed>>

OrderStep(w) ==
  \/ BeginOrder(w) \/ CommitOrder(w)
  \/ BeginOrderTransition(w) \/ CommitOrderTransition(w)
  \/ BeginOrderCharge(w) \/ PostOrderCharge(w) \/ LinkOrderCharge(w)
  \/ BeginSettle(w) \/ SettleOnAccount(w) \/ PostSettlement(w) \/ LinkSettlement(w)
  \/ RefuseOrder(w) \/ CrashHalfway(w)

\* A worker serves one request, of a booking or of an order.
ClubNext ==
  \E w \in Workers :
    \/ counter[w] = Free /\ FinanceStep(w) /\ UNCHANGED orderVars
    \/ desk[w] = Free /\ OrderStep(w) /\ UNCHANGED <<desk, raced, cut>>

ClubSpec == OrderInit /\ [][ClubNext]_clubVars

-------------------------------------------------------------------------------
(* What must hold of the money of orders.                                  *)

\* Every variable keeps its type; in particular no link leads outside the ledger.
OrderTypeOK ==
  /\ FinanceTypeOK
  /\ orders \in [OrderIds -> Order \union {None}]
  /\ tenders \in [1 .. MaxEntries -> Tender \union {None}]
  /\ counter \in [Workers -> CounterJob]
  /\ rushed \subseteq OrderIds \union Requests /\ halved \subseteq OrderIds
  /\ \A o \in OrderIds : Placed(o) =>
       {orders[o].charge, orders[o].payment, orders[o].tender} \subseteq 0 .. Len(ledger)

\* No request of o is between its commits.
AtRest(o) == \A w \in Workers : Halfway(w) => counter[w].id # o

\* A create that is retried with its correlation id, and does not overlap with the
\* first one, finds the order: there is one order of a request.
OneOrderPerRequest ==
  \A o, p \in OrderIds :
    (Placed(o) /\ Placed(p) /\ orders[o].request = orders[p].request
      /\ orders[o].request \notin rushed) => o = p

\* Repeating post-charge for an order leaves one charge in the ledger, unless the
\* requests overlap or one stops before it has linked its charge.
OrderChargedOnce ==
  \A o \in OrderIds \ (rushed \union halved) : Cardinality(Entries(o, "charge")) <= 1

\* An order is charged only when it was collected, and stays collected, crash or not.
ChargedIsCollected ==
  \A o \in OrderIds \ rushed : Posted(o, "charge") => orders[o].status = "collected"

\* An order whose requests neither overlap nor are cut short shows between them what
\* the ledger has: its charge, its payment and a tender that points at both.
OrderShowsLedger ==
  \A o \in OrderIds \ (rushed \union halved) : (Placed(o) /\ AtRest(o)) =>
    LET order == orders[o] IN
    /\ Entries(o, "charge") = {order.charge} \ {0}
    /\ Entries(o, "payment") = {order.payment} \ {0}
    /\ \A c \in Entries(o, "charge") :
         /\ tenders[c] # None <=> order.tender = c
         /\ tenders[c] # None =>
              /\ tenders[c].settlement = order.payment
              /\ order.payment = 0 <=> tenders[c].type = "member_account"

\* A settlement that is retried after a crash does not pay the order again.
OrderPaidOnce ==
  \A o \in OrderIds \ rushed : Cardinality(Entries(o, "payment")) <= 1

\* However requests race or fail, an order has no more payments than charges.
NeverOverpaid ==
  \A o \in OrderIds : Cardinality(Entries(o, "payment")) <= Cardinality(Entries(o, "charge"))

\* An order is placed, charged and paid once.
OnceEach == OneOrderPerRequest /\ OrderChargedOnce /\ OrderPaidOnce /\ NeverOverpaid
\* What an order says of its money is what the ledger has.
OrderAgrees == ChargedIsCollected /\ OrderShowsLedger
\* Orders and the ledger, whatever requests overlap, stop and are tried again.
OrdersSound == OnceEach /\ OrderAgrees

\* The bill of an order is what the ledger and the tenders of its charges say, from the
\* commit of the ledger on, whether or not the order is linked to them yet.
HasTender(o) == \E c \in Entries(o, "charge") : tenders[c] # None
BillOf(o) ==
  CASE ~ Posted(o, "charge") -> "none"
    [] Posted(o, "charge") /\ Posted(o, "payment") -> "paid"
    [] Posted(o, "charge") /\ ~ Posted(o, "payment") /\ HasTender(o) -> "on account"
    [] OTHER -> "open"
LifeOf == [o \in OrderIds |->
  IF ~ Placed(o) THEN [stage |-> "unborn", bill |-> "none"]
  ELSE IF o \in rushed THEN [stage |-> "contended", bill |-> "unknown"]
  ELSE [stage |-> orders[o].status, bill |-> BillOf(o)]]

Lifecycle == INSTANCE OrderLifecycle WITH Orders <- OrderIds, life <- LifeOf

\* The two commits of a charge and of a settlement, stopped, retried and mixed with the
\* requests of other orders and of bookings, are each one step of the order's life.
OrderFollowsLifecycle == Lifecycle!LifeSpec
===============================================================================
