---------------------------- MODULE BookingFinance ----------------------------
(***************************************************************************)
(* The payment status of bookings and the ledger of the club's accounts,   *)
(* as the finance endpoints of a booking write them: payment-status,       *)
(* post-charge, record-payment and post-refund.                            *)
(*                                                                         *)
(* The ledger service commits the entry it makes by itself.  A request     *)
(* that moves money is therefore TWO commits: the entry, then the booking. *)
(* Between them the process may stop and other requests are served.        *)
(***************************************************************************)
EXTENDS Integers, Sequences, FiniteSets, FiniteSetsExt

CONSTANTS
  Workers,     \* request threads
  Bookings,
  References,  \* what an entry may be for: a booking, or another kind of sale
  Accounts,
  Active,      \* accounts that are not closed (no service closes one)
  Payers,      \* the accounts of the people a booking may be under, per booking
  Amounts,     \* amounts a request may override the price with, or prices
  MaxEntries,  \* bound on the length of the ledger
  None         \* SQL NULL

Kinds == {"charge", "payment", "refund"}
PaymentStatuses == {"pending", "paid", "complimentary", "waived"}
Entry == [account: Accounts, amount: Int, kind: Kinds, ref: References]

ASSUME FinanceConstantsOK ==
  /\ Bookings \subseteq References
  /\ Active \subseteq Accounts
  /\ Payers \in [Bookings -> SUBSET Accounts]
  /\ Amounts \subseteq Nat \ {0}
  /\ MaxEntries \in Nat
  /\ None \notin PaymentStatuses

VARIABLES
  ledger,   \* finance_transactions in the order of created_at
  payment,  \* Bookings -> payment_status, or None
  desk,     \* Workers -> the booking finance request being served
  raced,    \* history: bookings that two requests were at work on at a time
  cut       \* history: bookings of which a request stopped between its commits

financeVars == <<ledger, payment, desk, raced, cut>>

-------------------------------------------------------------------------------
(* The ledger.                                                             *)

Entries(ref, kind) == {i \in DOMAIN ledger : ledger[i].ref = ref /\ ledger[i].kind = kind}
Posted(ref, kind) == Entries(ref, kind) # {}

\* The newest entry of a kind, which is the one the lookups return.
Latest(ref, kind) == ledger[Max(Entries(ref, kind))]

\* create_transaction: append and commit.
Post(kind, ref, account, amount) ==
  /\ Len(ledger) < MaxEntries
  /\ ledger' = Append(ledger, [account |-> account, amount |-> amount,
                               kind |-> kind, ref |-> ref])

-------------------------------------------------------------------------------
(* Requests in progress.                                                   *)

Free == [op |-> "free"]

StatusJob == [op: {"status"}, id: Bookings, to: PaymentStatuses \ {"paid"}]

\* A request that moves money: which booking and the status it had when loaded.
LookJob == [op: Kinds, id: Bookings, stage: {"look"},
            seen: PaymentStatuses \union {None}]
PostJob == [account: Accounts, amount: Int, op: Kinds,
            id: Bookings, stage: {"post", "mark"}, seen: PaymentStatuses \union {None}]

DeskJob == {Free} \union StatusJob \union LookJob \union PostJob

FinanceInit ==
  /\ ledger = << >>
  /\ payment = [b \in Bookings |-> None]
  /\ desk = [w \in Workers |-> Free]
  /\ raced = {} /\ cut = {}

\* A request for b begins; another one for b may be under way.
Begins(w, b) ==
  /\ desk[w] = Free
  /\ raced' = raced \union {x \in {b} : \E v \in Workers : desk[v] # Free /\ desk[v].id = x}
  /\ UNCHANGED <<ledger, payment, cut>>

Serve(w, job) == desk' = [desk EXCEPT ![w] = job]

\* A column is written only when the new value differs from the one loaded.
Stored(new, seen, current) == IF new = seen THEN current ELSE new

\* Mutant: a paid booking may be reclassified.
ReclassifyPaid(from, to) == from # to

\* update_payment_status: a change, not to paid, and not away from paid.
MayReclassify(from, to) == from # to /\ from # "paid"

BeginStatus(w) ==
  \E b \in Bookings, to \in PaymentStatuses \ {"paid"} :
    /\ Begins(w, b)
    /\ MayReclassify(payment[b], to)
    /\ Serve(w, [op |-> "status", id |-> b, to |-> to])

CommitStatus(w) ==
  /\ desk[w].op = "status"
  /\ payment' = [payment EXCEPT ![desk[w].id] = desk[w].to]
  /\ Serve(w, Free)
  /\ UNCHANGED <<ledger, raced, cut>>

\* The statuses in which the three services go on with a booking.
StatusAllows(kind, status) ==
  CASE kind = "charge"  -> status \notin {"complimentary", "waived", "paid"}
    [] kind = "payment" -> status \notin {"complimentary", "waived"}
    [] kind = "refund"  -> status = "paid"

BeginEntry(w) ==
  \E b \in Bookings, kind \in Kinds :
    /\ Begins(w, b)
    /\ StatusAllows(kind, payment[b])
    /\ Serve(w, [op |-> kind, id |-> b, stage |-> "look", seen |-> payment[b]])

\* A booking has one charge and one payment; a request for another one gets the one
\* there is. Refunds are not looked up.
NotYet(kind, b) == kind \in {"charge", "payment"} => ~ Posted(b, kind)

\* Mutant: the amount asked for is paid.
PaidAsAsked(kind, b, account, amount) ==
  IF kind = "charge"
    THEN account \in Payers[b] \intersect Active /\ -amount \in Amounts
    ELSE /\ Posted(b, "charge")
         /\ account = Latest(b, "charge").account
         /\ amount \in Amounts

\* The entry a request will post: a charge of some price to an active account of the
\* primary person, the payment of the charge, or a refund of any amount.
EntryFor(kind, b, account, amount) ==
  IF kind = "charge"
    THEN account \in Payers[b] \intersect Active /\ -amount \in Amounts
    ELSE /\ Posted(b, "charge")
         /\ account = Latest(b, "charge").account
         /\ kind = "payment" =>
              account \in Active /\ amount = -Latest(b, "charge").amount
         /\ kind = "refund" =>
              amount \in Amounts \union {-Latest(b, "charge").amount}

Prices == Amounts \union {-a : a \in Amounts}

LookUp(w) ==
  LET j == desk[w] IN
  /\ j.op \in Kinds /\ j.stage = "look"
  /\ NotYet(j.op, j.id)
  /\ \E account \in Accounts, amount \in Prices :
       /\ EntryFor(j.op, j.id, account, amount)
       /\ Serve(w, [account |-> account, amount |-> amount, op |-> j.op, id |-> j.id,
                    stage |-> "post", seen |-> j.seen])
  /\ UNCHANGED <<ledger, payment, raced, cut>>

\* The first commit.
PostEntry(w) ==
  LET j == desk[w] IN
  /\ j.op \in Kinds /\ j.stage = "post"
  /\ Post(j.op, j.id, j.account, j.amount)
  /\ Serve(w, [j EXCEPT !.stage = "mark"])
  /\ UNCHANGED <<payment, raced, cut>>

\* Mutants: a refund leaves the booking paid; the status is named after the entry.
StatusNamedByKind(kind) == IF kind = "payment" THEN "paid" ELSE kind
StillPaid(kind) == IF kind = "charge" THEN "pending" ELSE "paid"

\* The status after each entry: a refund reopens the booking.
StatusAfter(kind) == IF kind = "payment" THEN "paid" ELSE "pending"

\* The second commit.
MarkBooking(w) ==
  LET j == desk[w] IN
  /\ j.op \in Kinds /\ j.stage = "mark"
  /\ payment' = [payment EXCEPT ![j.id] = Stored(StatusAfter(j.op), j.seen, @)]
  /\ Serve(w, Free)
  /\ UNCHANGED <<ledger, raced, cut>>

\* A refusal, an error or a crash before anything is committed.
Refuse(w) ==
  /\ desk[w].op = "status" \/ (desk[w].op \in Kinds /\ desk[w].stage # "mark")
  /\ Serve(w, Free)
  /\ UNCHANGED <<ledger, payment, raced, cut>>

\* An error or a crash after the ledger's commit.
CrashBetween(w) ==
  /\ desk[w].op \in Kinds /\ desk[w].stage = "mark"
  /\ Serve(w, Free)
  /\ cut' = cut \union {desk[w].id}
  /\ UNCHANGED <<ledger, payment, raced>>

FinanceStep(w) ==
  \/ BeginStatus(w) \/ CommitStatus(w)
  \/ BeginEntry(w) \/ LookUp(w) \/ PostEntry(w) \/ MarkBooking(w)
  \/ Refuse(w) \/ CrashBetween(w)

FinanceNext == \E w \in Workers : FinanceStep(w)

FinanceSpec == FinanceInit /\ [][FinanceNext]_financeVars

-------------------------------------------------------------------------------
(* What must hold of a booking's money.                                    *)

\* Every variable keeps its type.
FinanceTypeOK ==
  /\ ledger \in Seq(Entry)
  /\ payment \in [Bookings -> PaymentStatuses \union {None}]
  /\ desk \in [Workers -> DeskJob]
  /\ raced \subseteq Bookings /\ cut \subseteq Bookings

\* No request has posted an entry for b and not yet marked b.
Settled(b) ==
  \A w \in Workers : desk[w].op \in Kinds =>
    ~ (desk[w].id = b /\ desk[w].stage = "mark")

Undisturbed(b) == b \notin raced \union cut

\* As long as the requests of a booking do not overlap and none is cut short, it is
\* marked paid exactly while a payment of it is in the ledger that no refund has
\* reversed, whatever happens to other bookings.
PaidIsPaid ==
  \A b \in Bookings : (Settled(b) /\ Undisturbed(b)) =>
    (payment[b] = "paid" <=> Posted(b, "payment") /\ ~ Posted(b, "refund"))

\* A booking is charged once and paid once, however often the requests are retried
\* after a crash, unless they overlap.
ChargedAndPaidOnce ==
  \A b \in Bookings \ raced, kind \in {"charge", "payment"} :
    Cardinality(Entries(b, kind)) <= 1

\* What the status of a booking and the counts of its entries say of one another.
PaidAsPosted == PaidIsPaid /\ ChargedAndPaidOnce

\* A payment pays off, on the same account and to the cent, a charge that was posted
\* before it; with two charges by racing requests, one of them.
PaymentOffsetsCharge ==
  \A i \in DOMAIN ledger : ledger[i].kind = "payment" =>
    \E k \in 1 .. (i - 1) :
      /\ ledger[k].kind = "charge"
      /\ ledger[k].ref = ledger[i].ref
      /\ ledger[k].account = ledger[i].account
      /\ ledger[k].amount = -ledger[i].amount

\* "Refunds can only be posted against paid bookings": a refund of a booking comes
\* after a payment of that booking, however requests overlap and fail.
RefundFollowsPayment ==
  \A i \in DOMAIN ledger : (ledger[i].kind = "refund" /\ ledger[i].ref \in Bookings) =>
    \E k \in 1 .. (i - 1) :
      ledger[k].kind = "payment" /\ ledger[k].ref = ledger[i].ref

\* Every payment and every refund in the ledger has what it answers to before it.
EntriesAnswer == PaymentOffsetsCharge /\ RefundFollowsPayment

\* "Paid bookings cannot be reclassified in this phase": unless its requests overlap,
\* a booking stops being paid only by a refund of it.
PaidUntilRefunded ==
  [][\A b \in Bookings \ raced :
       (payment[b] = "paid" /\ payment'[b] # "paid") => Posted(b, "refund")]_financeVars
===============================================================================
