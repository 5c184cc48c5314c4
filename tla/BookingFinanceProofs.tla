------------------------ MODULE BookingFinanceProofs ------------------------
(***************************************************************************)
(* Proofs about BookingFinance for any number of workers, bookings and     *)
(* accounts and a ledger of any length: what the ledger says of payments   *)
(* and refunds under every interleaving of requests and every crash.       *)
(***************************************************************************)
EXTENDS BookingFinance, WellFoundedInduction, FiniteSetTheorems, TLAPS

-------------------------------------------------------------------------------
(* The newest entry exists.                                                *)

Below == OpToRel(<, Nat)

LEMMA BelowIsLess ==
  ASSUME NEW x \in Nat, NEW y \in Nat, x < y
  PROVE  <<x, y>> \in Below
BY DEF Below, OpToRel

LEMMA BelowFounded == IsWellFoundedOn(Below, Nat)
BY NatLessThanWellFounded DEF Below

\* A set of positions in the ledger has a largest member, and Max is it.
LEMMA MaxOfIndices ==
  ASSUME NEW n \in Nat, NEW S \in SUBSET (1 .. n), S # {}
  PROVE  Max(S) \in S
<1> DEFINE Gap == {n - i : i \in S}
<1>1. \A i \in S : i \in Nat /\ i <= n OBVIOUS
<1>2. Gap \subseteq Nat /\ Gap # {}
  <2>1. \A i \in S : n - i \in Nat BY <1>1
  <2> QED BY <2>1
<1>3. PICK g \in Gap : \A y \in Gap : ~ (<<y, g>> \in Below)
  <2> HIDE DEF Gap
  <2> QED BY <1>2, BelowFounded, WFMin
<1>4. \A y \in Gap : g <= y
  <2> HIDE DEF Gap
  <2>1. ASSUME NEW y \in Gap, y < g PROVE FALSE
    <3>1. y \in Nat /\ g \in Nat BY <1>2
    <3> QED BY <2>1, <3>1, <1>3, BelowIsLess
  <2> QED BY <1>2, <2>1
<1>5. PICK m \in S : g = n - m OBVIOUS
<1>6. \A i \in S : m >= i
  <2> SUFFICES ASSUME NEW i \in S PROVE m >= i OBVIOUS
  <2>1. g <= n - i BY <1>4
  <2> QED BY <1>1, <1>5, <2>1
<1> QED BY <1>6 DEF Max

\* What is in the ledger is an entry.
LEMMA EntryTyped ==
  ASSUME FinanceTypeOK, NEW k \in DOMAIN ledger
  PROVE  ledger[k] \in Entry
<1>1. ledger \in Seq(Entry) BY DEF FinanceTypeOK
<1> QED BY <1>1

\* The newest entry of a kind is an entry of that kind, and is in the ledger.
LEMMA LatestIsEntry ==
  ASSUME FinanceTypeOK, NEW ref, NEW kind, Posted(ref, kind)
  PROVE  \E k \in DOMAIN ledger :
           /\ Latest(ref, kind) = ledger[k]
           /\ ledger[k].ref = ref /\ ledger[k].kind = kind
<1>1. Len(ledger) \in Nat /\ DOMAIN ledger = 1 .. Len(ledger) BY DEF FinanceTypeOK
<1>2. Entries(ref, kind) \in SUBSET (1 .. Len(ledger)) BY <1>1 DEF Entries
<1>3. Max(Entries(ref, kind)) \in Entries(ref, kind)
  BY <1>1, <1>2, MaxOfIndices DEF Posted
<1> QED BY <1>3 DEF Latest, Entries

-------------------------------------------------------------------------------
(* The invariant.                                                          *)

\* The charge that a payment of ref from the account would pay off is in the ledger.
Charged(ref, account, amount) ==
  \E k \in DOMAIN ledger :
    /\ ledger[k].kind = "charge" /\ ledger[k].ref = ref
    /\ ledger[k].account = account /\ ledger[k].amount = -amount

\* What a request at work may rely on: the charge it is about to pay, the payment it
\* has posted, and the payment behind a booking it found paid.
RequestBacked(j) ==
  /\ j.op = "payment" /\ j.stage = "post" => Charged(j.id, j.account, j.amount)
  /\ j.op = "payment" /\ j.stage = "mark" => Posted(j.id, "payment")
  /\ j.op = "refund" => Posted(j.id, "payment")

RequestsBacked == \A w \in Workers : desk[w].op \in Kinds => RequestBacked(desk[w])

\* A paid booking has a payment, though perhaps a refund as well.
PaidIsPosted == \A b \in Bookings : payment[b] = "paid" => Posted(b, "payment")

LedgerInv ==
  /\ FinanceTypeOK /\ RequestsBacked /\ PaidIsPosted
  /\ PaymentOffsetsCharge /\ RefundFollowsPayment

\* The operation of a request tells which fields it has.
LEMMA DeskKinds ==
  ASSUME NEW j \in DeskJob
  PROVE  /\ j.op = "free" => j = Free
         /\ j.op = "status" => j \in StatusJob
         /\ j.op \in Kinds /\ j.stage = "look" => j \in LookJob
         /\ j.op \in Kinds /\ j.stage # "look" => j \in PostJob /\ j.stage \in {"post", "mark"}
BY DEF DeskJob, Free, StatusJob, LookJob, PostJob, Kinds

\* The entries there are stay where they are.
Grows ==
  \A i \in DOMAIN ledger : i \in DOMAIN ledger' /\ ledger'[i] = ledger[i]

LEMMA BackedStays ==
  ASSUME Grows, NEW j, RequestBacked(j)
  PROVE  RequestBacked(j)'
BY DEF Grows, RequestBacked, Charged, Posted, Entries

LEMMA InitLedger == FinanceInit => LedgerInv
<1> SUFFICES ASSUME FinanceInit PROVE LedgerInv OBVIOUS
<1>1. None \notin {"paid"} BY FinanceConstantsOK DEF PaymentStatuses
<1> QED BY <1>1 DEF FinanceInit, LedgerInv, FinanceTypeOK, RequestsBacked, PaidIsPosted,
                    PaymentOffsetsCharge, RefundFollowsPayment, DeskJob, Free, Kinds

-------------------------------------------------------------------------------
(* The steps.                                                              *)

\* A step of a request that leaves the ledger alone: its new state must be backed,
\* and so must every status it sets to paid.
LEMMA LedgerStays ==
  ASSUME LedgerInv, NEW w \in Workers, NEW job \in DeskJob, Serve(w, job),
         UNCHANGED ledger,
         job.op \in Kinds => RequestBacked(job),
         payment' \in [Bookings -> PaymentStatuses \union {None}],
         \A b \in Bookings : payment'[b] = "paid" => Posted(b, "payment"),
         raced' \subseteq Bookings, cut' \subseteq Bookings
  PROVE  LedgerInv'
<1>1. desk' \in [Workers -> DeskJob] BY DEF LedgerInv, FinanceTypeOK, Serve
<1>2. FinanceTypeOK' BY <1>1 DEF LedgerInv, FinanceTypeOK
<1>3. RequestsBacked'
  <2> SUFFICES ASSUME NEW v \in Workers, NEW j, j = desk'[v], j.op \in Kinds
               PROVE  RequestBacked(j)'
    BY DEF RequestsBacked
  <2>1. CASE v = w
    <3>1. j = job BY <2>1 DEF Serve, LedgerInv, FinanceTypeOK
    <3> QED BY <3>1 DEF RequestBacked, Charged, Posted, Entries
  <2>2. CASE v # w
    <3>1. j = desk[v] BY <2>2 DEF Serve, LedgerInv, FinanceTypeOK
    <3>2. RequestBacked(j) BY <3>1 DEF LedgerInv, RequestsBacked
    <3> QED BY <3>2 DEF RequestBacked, Charged, Posted, Entries
  <2> QED BY <2>1, <2>2
<1>4. PaidIsPosted' BY DEF PaidIsPosted, Posted, Entries
<1>5. PaymentOffsetsCharge' /\ RefundFollowsPayment'
  BY DEF LedgerInv, PaymentOffsetsCharge, RefundFollowsPayment
<1> QED BY <1>2, <1>3, <1>4, <1>5 DEF LedgerInv

LEMMA FreeIsJob == Free \in DeskJob /\ Free.op \notin Kinds
BY DEF DeskJob, Free, Kinds

LEMMA BeginStatusInv ==
  ASSUME LedgerInv, NEW w \in Workers, BeginStatus(w)
  PROVE  LedgerInv'
<1>1. PICK b \in Bookings, to \in PaymentStatuses \ {"paid"} :
        Begins(w, b) /\ Serve(w, [op |-> "status", id |-> b, to |-> to])
  BY DEF BeginStatus
<1>2. [op |-> "status", id |-> b, to |-> to] \in DeskJob BY DEF DeskJob, StatusJob
<1>3. UNCHANGED <<ledger, payment, cut>> /\ raced' \subseteq Bookings
  BY <1>1 DEF Begins, LedgerInv, FinanceTypeOK
<1> QED BY <1>1, <1>2, <1>3, LedgerStays
        DEF Kinds, LedgerInv, FinanceTypeOK, PaidIsPosted

LEMMA CommitStatusInv ==
  ASSUME LedgerInv, NEW w \in Workers, CommitStatus(w)
  PROVE  LedgerInv'
<1>1. desk[w] \in StatusJob
  BY DeskKinds DEF CommitStatus, LedgerInv, FinanceTypeOK
<1>2. desk[w].id \in Bookings /\ desk[w].to \in PaymentStatuses \ {"paid"}
  BY <1>1 DEF StatusJob
<1>3. payment' \in [Bookings -> PaymentStatuses \union {None}]
  BY <1>2 DEF CommitStatus, LedgerInv, FinanceTypeOK
<1>4. \A b \in Bookings : payment'[b] = "paid" => Posted(b, "payment")
  BY <1>2 DEF CommitStatus, LedgerInv, FinanceTypeOK, PaidIsPosted
<1> QED BY <1>3, <1>4, FreeIsJob, LedgerStays DEF CommitStatus, LedgerInv, FinanceTypeOK

LEMMA BeginEntryInv ==
  ASSUME LedgerInv, NEW w \in Workers, BeginEntry(w)
  PROVE  LedgerInv'
<1>1. PICK b \in Bookings, kind \in Kinds :
        /\ Begins(w, b) /\ StatusAllows(kind, payment[b])
        /\ Serve(w, [op |-> kind, stage |-> "look", id |-> b, seen |-> payment[b]])
  BY DEF BeginEntry
<1> DEFINE job == [op |-> kind, stage |-> "look", id |-> b, seen |-> payment[b]]
<1>2. job \in DeskJob
  BY DEF LedgerInv, FinanceTypeOK, DeskJob, LookJob
<1>3. kind = "refund" => payment[b] = "paid" BY <1>1 DEF StatusAllows
<1>4. RequestBacked(job)
  BY <1>3 DEF RequestBacked, LedgerInv, PaidIsPosted
<1>5. /\ UNCHANGED <<ledger, payment, cut>> /\ raced' \subseteq Bookings
      /\ Serve(w, job)
  BY <1>1 DEF Begins, LedgerInv, FinanceTypeOK
<1> HIDE DEF job
<1> QED BY <1>2, <1>4, <1>5, LedgerStays DEF LedgerInv, FinanceTypeOK, PaidIsPosted

LEMMA LookUpInv ==
  ASSUME LedgerInv, NEW w \in Workers, LookUp(w)
  PROVE  LedgerInv'
<1>1. desk[w] \in LookJob /\ RequestBacked(desk[w])
  BY DeskKinds DEF LookUp, LedgerInv, FinanceTypeOK, RequestsBacked
<1>2. PICK account \in Accounts, amount \in Prices :
        /\ EntryFor(desk[w].op, desk[w].id, account, amount)
        /\ Serve(w, [op |-> desk[w].op, stage |-> "post", id |-> desk[w].id,
                     seen |-> desk[w].seen, account |-> account, amount |-> amount])
  BY DEF LookUp
<1> DEFINE job == [op |-> desk[w].op, stage |-> "post", id |-> desk[w].id,
                   seen |-> desk[w].seen, account |-> account, amount |-> amount]
<1>3. amount \in Int BY FinanceConstantsOK DEF Prices
<1>4. job \in DeskJob BY <1>1, <1>3 DEF DeskJob, LookJob, PostJob
<1>5. ASSUME desk[w].op = "payment"
      PROVE  Charged(desk[w].id, account, amount)
  <2>1. /\ Posted(desk[w].id, "charge")
        /\ account = Latest(desk[w].id, "charge").account
        /\ amount = -Latest(desk[w].id, "charge").amount
    BY <1>2, <1>5 DEF EntryFor
  <2>2. PICK k \in DOMAIN ledger :
          /\ Latest(desk[w].id, "charge") = ledger[k]
          /\ ledger[k].ref = desk[w].id /\ ledger[k].kind = "charge"
    BY <2>1, LatestIsEntry DEF LedgerInv
  <2>3. ledger[k].amount \in Int BY <2>2, EntryTyped DEF LedgerInv, Entry
  <2>4. amount = -ledger[k].amount BY <2>1, <2>2
  <2>5. ledger[k].amount = -amount BY <2>3, <2>4
  <2> QED BY <2>1, <2>2, <2>5 DEF Charged
<1>6. RequestBacked(job) BY <1>1, <1>5 DEF RequestBacked
<1>7. UNCHANGED <<ledger, payment, raced, cut>> /\ Serve(w, job) BY <1>2 DEF LookUp
<1> HIDE DEF job
<1> QED BY <1>4, <1>6, <1>7, LedgerStays DEF LedgerInv, FinanceTypeOK, PaidIsPosted

\* The one step that writes the ledger.
LEMMA PostEntryInv ==
  ASSUME LedgerInv, NEW w \in Workers, PostEntry(w)
  PROVE  LedgerInv'
<1> DEFINE n == Len(ledger)
           j == desk[w]
           entry == [kind |-> j.op, ref |-> j.id, account |-> j.account, amount |-> j.amount]
<1>1. j \in PostJob /\ j.op \in Kinds /\ j.stage = "post" /\ RequestBacked(j)
  BY DeskKinds DEF PostEntry, LedgerInv, FinanceTypeOK, RequestsBacked
<1>2. entry \in Entry BY <1>1, FinanceConstantsOK DEF PostJob, Entry
<1>3. ledger \in Seq(Entry) /\ ledger' = Append(ledger, entry)
  BY DEF PostEntry, Post, LedgerInv, FinanceTypeOK
<1>4. /\ n \in Nat /\ DOMAIN ledger = 1 .. n
      /\ ledger' \in Seq(Entry) /\ DOMAIN ledger' = 1 .. (n + 1)
      /\ \A i \in 1 .. n : ledger'[i] = ledger[i]
      /\ ledger'[n + 1] = entry
  <2> HIDE DEF entry
  <2> QED BY <1>2, <1>3
<1>5. Grows BY <1>4 DEF Grows
<1>6. \A b, kind : Posted(b, kind) => Posted(b, kind)'
  BY <1>5 DEF Grows, Posted, Entries
<1>7. FinanceTypeOK'
  <2>1. [j EXCEPT !.stage = "mark"] \in DeskJob BY <1>1 DEF DeskJob, PostJob
  <2> QED BY <1>4, <2>1 DEF PostEntry, Serve, LedgerInv, FinanceTypeOK
<1>8. RequestsBacked'
  <2> SUFFICES ASSUME NEW v \in Workers, NEW k, k = desk'[v], k.op \in Kinds
               PROVE  RequestBacked(k)'
    BY DEF RequestsBacked
  <2>1. CASE v = w
    <3>1. k = [j EXCEPT !.stage = "mark"]
      BY <2>1 DEF PostEntry, Serve, LedgerInv, FinanceTypeOK
    <3>2. k.op = j.op /\ k.id = j.id /\ k.stage = "mark" BY <1>1, <3>1 DEF PostJob
    <3>3. k.op = "payment" => Posted(k.id, "payment")'
      BY <1>4, <3>2 DEF Posted, Entries
    <3>4. k.op = "refund" => Posted(k.id, "payment")'
      BY <1>1, <1>6, <3>2 DEF RequestBacked
    <3> QED BY <3>2, <3>3, <3>4 DEF RequestBacked
  <2>2. CASE v # w
    <3>1. k = desk[v]
      BY <2>2 DEF PostEntry, Serve, LedgerInv, FinanceTypeOK
    <3>2. RequestBacked(k) BY <3>1 DEF LedgerInv, RequestsBacked
    <3> QED BY <1>5, <3>2, BackedStays
  <2> QED BY <2>1, <2>2
<1>9. PaidIsPosted'
  BY <1>6 DEF PostEntry, LedgerInv, PaidIsPosted
<1>10. PaymentOffsetsCharge'
  <2> SUFFICES ASSUME NEW i \in 1 .. (n + 1), ledger'[i].kind = "payment"
               PROVE  \E k \in 1 .. (i - 1) :
                        /\ ledger'[k].kind = "charge"
                        /\ ledger'[k].ref = ledger'[i].ref
                        /\ ledger'[k].account = ledger'[i].account
                        /\ ledger'[k].amount = -ledger'[i].amount
    BY <1>4 DEF PaymentOffsetsCharge
  <2>1. CASE i \in 1 .. n
    <3>1. PICK k \in 1 .. (i - 1) :
            /\ ledger[k].kind = "charge"
            /\ ledger[k].ref = ledger[i].ref
            /\ ledger[k].account = ledger[i].account
            /\ ledger[k].amount = -ledger[i].amount
      BY <1>4, <2>1 DEF LedgerInv, PaymentOffsetsCharge
    <3>2. k \in 1 .. n BY <1>4, <2>1
    <3> QED BY <1>4, <2>1, <3>1, <3>2
  <2>2. CASE i = n + 1
    <3>1. j.op = "payment" BY <1>4, <2>2
    <3>2. PICK k \in 1 .. n :
            /\ ledger[k].kind = "charge" /\ ledger[k].ref = j.id
            /\ ledger[k].account = j.account /\ ledger[k].amount = -j.amount
      BY <1>1, <1>4, <3>1 DEF RequestBacked, Charged
    <3>3. k \in 1 .. (i - 1) BY <1>4, <2>2
    <3> QED BY <1>4, <2>2, <3>2, <3>3
  <2> QED BY <1>4, <2>1, <2>2
<1>11. RefundFollowsPayment'
  <2> SUFFICES ASSUME NEW i \in 1 .. (n + 1), ledger'[i].kind = "refund",
                      ledger'[i].ref \in Bookings
               PROVE  \E k \in 1 .. (i - 1) :
                        ledger'[k].kind = "payment" /\ ledger'[k].ref = ledger'[i].ref
    BY <1>4 DEF RefundFollowsPayment
  <2>1. CASE i \in 1 .. n
    <3>1. PICK k \in 1 .. (i - 1) :
            ledger[k].kind = "payment" /\ ledger[k].ref = ledger[i].ref
      BY <1>4, <2>1 DEF LedgerInv, RefundFollowsPayment
    <3>2. k \in 1 .. n BY <1>4, <2>1
    <3> QED BY <1>4, <2>1, <3>1, <3>2
  <2>2. CASE i = n + 1
    <3>1. j.op = "refund" BY <1>4, <2>2
    <3>2. PICK k \in 1 .. n : ledger[k].kind = "payment" /\ ledger[k].ref = j.id
      BY <1>1, <1>4, <3>1 DEF RequestBacked, Posted, Entries
    <3>3. k \in 1 .. (i - 1) BY <1>4, <2>2
    <3> QED BY <1>4, <2>2, <3>2, <3>3
  <2> QED BY <1>4, <2>1, <2>2
<1> QED BY <1>7, <1>8, <1>9, <1>10, <1>11 DEF LedgerInv

LEMMA MarkBookingInv ==
  ASSUME LedgerInv, NEW w \in Workers, MarkBooking(w)
  PROVE  LedgerInv'
<1> DEFINE j == desk[w]
<1>1. j \in PostJob /\ j.op \in Kinds /\ j.stage = "mark" /\ RequestBacked(j)
  BY DeskKinds DEF MarkBooking, LedgerInv, FinanceTypeOK, RequestsBacked
<1>2. PICK new : new = Stored(StatusAfter(j.op), j.seen, payment[j.id]) OBVIOUS
<1>3. j.id \in Bookings BY <1>1 DEF PostJob
<1>4. payment' = [payment EXCEPT ![j.id] = new] BY <1>2 DEF MarkBooking
<1>5. new = payment[j.id] \/ new = StatusAfter(j.op) BY <1>2 DEF Stored
<1>6. StatusAfter(j.op) \in PaymentStatuses BY DEF StatusAfter, PaymentStatuses
<1>7. payment' \in [Bookings -> PaymentStatuses \union {None}]
  BY <1>3, <1>4, <1>5, <1>6 DEF LedgerInv, FinanceTypeOK
<1>8. new = "paid" => Posted(j.id, "payment")
  <2>1. CASE new = payment[j.id] BY <1>3, <2>1 DEF LedgerInv, PaidIsPosted
  <2>2. CASE new = StatusAfter(j.op)
    <3>1. new = "paid" => j.op = "payment" BY <2>2 DEF StatusAfter
    <3> QED BY <1>1, <3>1 DEF RequestBacked
  <2> QED BY <1>5, <2>1, <2>2
<1>9. \A b \in Bookings : payment'[b] = "paid" => Posted(b, "payment")
  BY <1>3, <1>4, <1>8 DEF LedgerInv, FinanceTypeOK, PaidIsPosted
<1> QED BY <1>7, <1>9, FreeIsJob, LedgerStays DEF MarkBooking, LedgerInv, FinanceTypeOK

\* A refusal, an error and a crash only end the request.
LEMMA EndInv ==
  ASSUME LedgerInv, NEW w \in Workers, Refuse(w) \/ CrashBetween(w)
  PROVE  LedgerInv'
<1>1. /\ Serve(w, Free) /\ UNCHANGED <<ledger, payment>>
      /\ \A b \in Bookings : payment[b] = "paid" => Posted(b, "payment")
  BY DEF Refuse, CrashBetween, LedgerInv, PaidIsPosted
<1>2. CASE Refuse(w)
  BY <1>1, <1>2, FreeIsJob, LedgerStays DEF Refuse, LedgerInv, FinanceTypeOK
<1>3. CASE CrashBetween(w)
  <2>1. desk[w].id \in Bookings
    BY <1>3, DeskKinds DEF CrashBetween, LedgerInv, FinanceTypeOK, PostJob
  <2> QED BY <1>1, <1>3, <2>1, FreeIsJob, LedgerStays
          DEF CrashBetween, LedgerInv, FinanceTypeOK
<1> QED BY <1>2, <1>3

LEMMA NextLedger == LedgerInv /\ [FinanceNext]_financeVars => LedgerInv'
<1> SUFFICES ASSUME LedgerInv, [FinanceNext]_financeVars PROVE LedgerInv' OBVIOUS
<1>1. ASSUME NEW w \in Workers, FinanceStep(w) PROVE LedgerInv'
  BY <1>1, BeginStatusInv, CommitStatusInv, BeginEntryInv, LookUpInv, PostEntryInv,
     MarkBookingInv, EndInv DEF FinanceStep
<1>2. CASE UNCHANGED financeVars
  BY <1>2 DEF financeVars, LedgerInv, FinanceTypeOK, RequestsBacked, RequestBacked,
              Charged, Posted, Entries, PaidIsPosted, PaymentOffsetsCharge,
              RefundFollowsPayment
<1> QED BY <1>1, <1>2 DEF FinanceNext

-------------------------------------------------------------------------------
(* The theorems.                                                           *)

\* The ledger and the requests over it keep the invariant, whatever the interleaving
\* and wherever a request stops.
THEOREM LedgerInvariance == FinanceSpec => []LedgerInv
BY InitLedger, NextLedger, PTL DEF FinanceSpec

\* The bookings' money keeps its type.
THEOREM FinanceTypeCorrect == FinanceSpec => []FinanceTypeOK
BY LedgerInvariance, PTL DEF LedgerInv

\* record_payment pays, on the same account and to the cent, a charge that is in the
\* ledger: requests that race and requests that stop cannot make it pay anything else.
THEOREM PaymentsOffsetCharges == FinanceSpec => []PaymentOffsetsCharge
BY LedgerInvariance, PTL DEF LedgerInv

\* post_refund refunds only what was paid at some time: the status it checks cannot
\* have been set to paid by anything but a payment.
THEOREM RefundsFollowPayments == FinanceSpec => []RefundFollowsPayment
BY LedgerInvariance, PTL DEF LedgerInv

\* The two together: what the entries of the ledger answer to is before them.
THEOREM LedgerAnswers == FinanceSpec => []EntriesAnswer
BY PaymentsOffsetCharges, RefundsFollowPayments, PTL DEF EntriesAnswer

-------------------------------------------------------------------------------
(* A paid booking is unmarked by its refund.                               *)

BusyWith(w, b) == desk[w] # Free /\ desk[w].id = b

\* One request at a time is at work on a booking whose requests never overlapped,
Alone ==
  \A b \in Bookings \ raced, v \in Workers, w \in Workers :
    BusyWith(v, b) /\ BusyWith(w, b) => v = w

\* so that what it loaded is still so; and what a refund is about to mark, it posted.
StillAsSeen(j) ==
  (j # Free /\ j.id \notin raced) =>
    /\ j.op \in Kinds => j.seen = payment[j.id] /\ StatusAllows(j.op, j.seen)
    /\ j.op = "status" => payment[j.id] # "paid"
    /\ j.op = "refund" /\ j.stage = "mark" => Posted(j.id, "refund")

AloneInv == Alone /\ \A w \in Workers : StillAsSeen(desk[w])

\* A request begins with what it has just loaded, or the booking is raced for.
LEMMA BeginsAlone ==
  ASSUME LedgerInv, AloneInv, NEW w \in Workers, NEW b \in Bookings, NEW job,
         Begins(w, b), Serve(w, job), job # Free, job.id = b,
         \/ job.op = "status" /\ payment[b] # "paid"
         \/ /\ job.op \in Kinds /\ job.stage = "look"
            /\ job.seen = payment[b] /\ StatusAllows(job.op, job.seen)
  PROVE  AloneInv'
<1>1. /\ desk'[w] = job
      /\ \A v \in Workers \ {w} : desk'[v] = desk[v]
      /\ payment' = payment /\ ledger' = ledger
  BY DEF Serve, Begins, LedgerInv, FinanceTypeOK
<1>2. raced \subseteq raced' BY DEF Begins
<1>3. b \notin raced' => \A v \in Workers : ~ BusyWith(v, b)
  BY DEF Begins, BusyWith
<1>4. Alone'
  <2> SUFFICES ASSUME NEW x \in Bookings \ raced', NEW u \in Workers, NEW v \in Workers,
                      BusyWith(u, x)', BusyWith(v, x)'
               PROVE  u = v
    BY DEF Alone
  <2>1. x \in Bookings \ raced BY <1>2
  <2>2. \A y \in Workers \ {w} : BusyWith(y, x)' => BusyWith(y, x) BY <1>1 DEF BusyWith
  <2>3. BusyWith(w, x)' => x = b BY <1>1 DEF BusyWith
  <2>4. CASE u # w /\ v # w BY <2>1, <2>2, <2>4 DEF AloneInv, Alone
  <2>5. CASE u = w \/ v = w BY <1>3, <2>2, <2>3, <2>5
  <2> QED BY <2>4, <2>5
<1>5. ASSUME NEW v \in Workers PROVE StillAsSeen(desk[v])'
  <2>1. CASE v = w
    <3>1. "status" \notin Kinds BY DEF Kinds
    <3> QED BY <1>1, <2>1, <3>1 DEF StillAsSeen
  <2>2. CASE v # w
    <3>1. StillAsSeen(desk[v]) BY DEF AloneInv
    <3> QED BY <1>1, <1>2, <2>2, <3>1 DEF StillAsSeen, Posted, Entries
  <2> QED BY <2>1, <2>2
<1> QED BY <1>4, <1>5 DEF AloneInv

\* A request goes on, or ends; only its own booking can be marked.
LEMMA GoesOnAlone ==
  ASSUME LedgerInv, AloneInv, NEW w \in Workers, NEW job, Serve(w, job),
         desk[w] # Free, raced' = raced,
         job = Free \/ job.id = desk[w].id,
         StillAsSeen(job)',
         \A b \in Bookings : b # desk[w].id => payment'[b] = payment[b],
         \A b \in Bookings, kind \in Kinds : Posted(b, kind) => Posted(b, kind)'
  PROVE  AloneInv'
<1>1. desk'[w] = job /\ \A v \in Workers \ {w} : desk'[v] = desk[v]
  BY DEF Serve, LedgerInv, FinanceTypeOK
<1>2. \A v \in Workers, b \in Bookings : BusyWith(v, b)' => BusyWith(v, b)
  BY <1>1 DEF BusyWith
<1>3. Alone' BY <1>2 DEF AloneInv, Alone
<1>4. ASSUME NEW v \in Workers PROVE StillAsSeen(desk[v])'
  <2>1. CASE v = w BY <1>1, <2>1 DEF StillAsSeen
  <2>2. CASE v # w
    <3> SUFFICES ASSUME desk[v] # Free, desk[v].id \notin raced
                 PROVE  StillAsSeen(desk[v])'
      BY <1>1, <2>2 DEF StillAsSeen
    <3>1. desk[v] \in DeskJob /\ StillAsSeen(desk[v])
      BY DEF LedgerInv, FinanceTypeOK, AloneInv
    <3>2. desk[v].id \in Bookings
      BY <3>1 DEF DeskJob, StatusJob, LookJob, PostJob
    <3>3. desk[v].id # desk[w].id BY <2>2, <3>2 DEF AloneInv, Alone, BusyWith
    <3>4. "refund" \in Kinds BY DEF Kinds
    <3> QED BY <1>1, <2>2, <3>1, <3>2, <3>3, <3>4 DEF StillAsSeen
  <2> QED BY <2>1, <2>2
<1> QED BY <1>3, <1>4 DEF AloneInv

LEMMA BeginAlone ==
  ASSUME LedgerInv, AloneInv, NEW w \in Workers, BeginStatus(w) \/ BeginEntry(w)
  PROVE  AloneInv'
<1>1. CASE BeginStatus(w)
  <2>1. PICK b \in Bookings, to \in PaymentStatuses \ {"paid"} :
          /\ Begins(w, b) /\ MayReclassify(payment[b], to)
          /\ Serve(w, [op |-> "status", id |-> b, to |-> to])
    BY <1>1 DEF BeginStatus
  <2>2. payment[b] # "paid" BY <2>1 DEF MayReclassify
  <2>3. [op |-> "status", id |-> b, to |-> to] # Free BY DEF Free
  <2> QED BY <2>1, <2>2, <2>3, BeginsAlone
<1>2. CASE BeginEntry(w)
  <2>1. PICK b, kind, seen, job :
          /\ b \in Bookings /\ kind \in Kinds
          /\ seen = payment[b] /\ job = [op |-> kind, id |-> b, stage |-> "look", seen |-> seen]
          /\ Begins(w, b) /\ StatusAllows(kind, seen) /\ Serve(w, job)
    BY <1>2 DEF BeginEntry
  <2>2. job # Free /\ job.op = kind /\ job.id = b /\ job.stage = "look" /\ job.seen = seen
    BY <2>1 DEF Free
  <2> QED BY <2>1, <2>2, BeginsAlone
<1> QED BY <1>1, <1>2

\* A request ends without marking its booking.
LEMMA EndAlone ==
  ASSUME LedgerInv, AloneInv, NEW w \in Workers, Refuse(w) \/ CrashBetween(w)
  PROVE  AloneInv'
<1>1. /\ Serve(w, Free) /\ UNCHANGED <<ledger, payment, raced>>
      /\ desk[w].op = "status" \/ desk[w].op \in Kinds
  BY DEF Refuse, CrashBetween
<1>2. desk[w] # Free BY <1>1 DEF Free, Kinds
<1>3. StillAsSeen(Free)' BY DEF StillAsSeen
<1> QED BY <1>1, <1>2, <1>3, GoesOnAlone DEF Posted, Entries

\* What a request that is alone decides on, and posts, is about the status it loaded.
LEMMA EntryAlone ==
  ASSUME LedgerInv, AloneInv, NEW w \in Workers, LookUp(w) \/ PostEntry(w)
  PROVE  AloneInv'
<1>1. PICK j \in DeskJob : j = desk[w] BY DEF LedgerInv, FinanceTypeOK
<1>2. j # Free /\ j.op \in Kinds /\ payment' = payment /\ raced' = raced
  BY <1>1 DEF LookUp, PostEntry, Free, Kinds
<1>3. StillAsSeen(j) BY <1>1 DEF AloneInv
<1>4. "status" \notin Kinds BY DEF Kinds
<1>5. CASE LookUp(w)
  <2>1. PICK job : /\ Serve(w, job) /\ job.op = j.op /\ job.id = j.id
                   /\ job.seen = j.seen /\ job.stage = "post"
    BY <1>1, <1>5 DEF LookUp
  <2>2. ledger' = ledger BY <1>5 DEF LookUp
  <2>3. StillAsSeen(job)' BY <1>2, <1>3, <1>4, <2>1 DEF StillAsSeen
  <2> QED BY <1>1, <1>2, <2>1, <2>2, <2>3, GoesOnAlone DEF Posted, Entries
<1>6. CASE PostEntry(w)
  <2>1. j \in PostJob BY <1>1, <1>6, DeskKinds DEF PostEntry
  <2>2. PICK job : job = [j EXCEPT !.stage = "mark"] OBVIOUS
  <2>3. /\ Serve(w, job) /\ job.op = j.op /\ job.id = j.id
        /\ job.seen = j.seen /\ job.stage = "mark"
    BY <1>1, <1>6, <2>1, <2>2 DEF PostEntry, PostJob
  <2>4. PICK entry : entry = [account |-> j.account, amount |-> j.amount,
                              kind |-> j.op, ref |-> j.id]
    OBVIOUS
  <2>5. /\ ledger \in Seq(Entry) /\ entry \in Entry
        /\ ledger' = Append(ledger, entry)
    BY <1>1, <1>2, <1>6, <2>1, <2>4, FinanceConstantsOK
       DEF PostEntry, Post, LedgerInv, FinanceTypeOK, PostJob, Entry
  <2>6. /\ \A i \in DOMAIN ledger : i \in DOMAIN ledger' /\ ledger'[i] = ledger[i]
        /\ Len(ledger) + 1 \in DOMAIN ledger' /\ ledger'[Len(ledger) + 1] = entry
    BY <2>5
  <2>7. \A b \in Bookings, kind \in Kinds : Posted(b, kind) => Posted(b, kind)'
    BY <2>6 DEF Posted, Entries
  <2>8. Posted(j.id, j.op)' BY <2>4, <2>6 DEF Posted, Entries
  <2>9. StillAsSeen(job)' BY <1>2, <1>3, <1>4, <2>3, <2>8 DEF StillAsSeen
  <2> QED BY <1>1, <1>2, <2>3, <2>7, <2>9, GoesOnAlone
<1> QED BY <1>5, <1>6

\* A commit that marks a booking ends its request, which is the only one there is.
LEMMA MarkAlone ==
  ASSUME LedgerInv, AloneInv, NEW w \in Workers, CommitStatus(w) \/ MarkBooking(w)
  PROVE  AloneInv'
<1>1. /\ Serve(w, Free) /\ UNCHANGED <<ledger, raced>>
      /\ desk[w].op = "status" \/ desk[w].op \in Kinds
      /\ \E to : payment' = [payment EXCEPT ![desk[w].id] = to]
  BY DEF CommitStatus, MarkBooking
<1>2. desk[w] # Free BY <1>1 DEF Free, Kinds
<1>3. \A b \in Bookings : b # desk[w].id => payment'[b] = payment[b]
  BY <1>1 DEF LedgerInv, FinanceTypeOK
<1>4. StillAsSeen(Free)' BY DEF StillAsSeen
<1> QED BY <1>1, <1>2, <1>3, <1>4, GoesOnAlone DEF Posted, Entries

LEMMA NextAlone == LedgerInv /\ AloneInv /\ [FinanceNext]_financeVars => AloneInv'
<1> SUFFICES ASSUME LedgerInv, AloneInv, [FinanceNext]_financeVars PROVE AloneInv'
  OBVIOUS
<1>1. ASSUME NEW w \in Workers, FinanceStep(w) PROVE AloneInv'
  BY <1>1, BeginAlone, EndAlone, EntryAlone, MarkAlone DEF FinanceStep
<1>2. CASE UNCHANGED financeVars
  BY <1>2 DEF financeVars, AloneInv, Alone, BusyWith, StillAsSeen, Posted, Entries
<1> QED BY <1>1, <1>2 DEF FinanceNext

\* Only two commits write a status. A reclassification found the booking unpaid, and
\* so did a charge; a payment makes it paid; what is left is a refund that was posted.
LEMMA UnmarkedByRefund ==
  ASSUME LedgerInv, AloneInv, FinanceNext,
         NEW b \in Bookings \ raced, payment[b] = "paid", payment'[b] # "paid"
  PROVE  Posted(b, "refund")
<1>1. PICK w \in Workers : CommitStatus(w) \/ MarkBooking(w)
  BY DEF FinanceNext, FinanceStep, BeginStatus, BeginEntry, Begins, LookUp, PostEntry,
         Refuse, CrashBetween
<1>2. desk[w] # Free BY <1>1 DEF CommitStatus, MarkBooking, Free, Kinds
<1>3. desk[w].id = b
  BY <1>1 DEF CommitStatus, MarkBooking, LedgerInv, FinanceTypeOK
<1>4. StillAsSeen(desk[w]) BY DEF AloneInv
<1>5. ~ CommitStatus(w) BY <1>2, <1>3, <1>4 DEF CommitStatus, StillAsSeen
<1>6. /\ desk[w].op \in Kinds /\ desk[w].stage = "mark"
      /\ desk[w].seen = "paid" /\ StatusAllows(desk[w].op, "paid")
  BY <1>1, <1>2, <1>3, <1>4, <1>5 DEF MarkBooking, StillAsSeen
<1>7. desk[w].op \in {"payment", "refund"} BY <1>6 DEF StatusAllows, Kinds
<1>8. desk[w].op # "payment"
  BY <1>1, <1>3, <1>5 DEF MarkBooking, StatusAfter, Stored, LedgerInv, FinanceTypeOK
<1> QED BY <1>2, <1>3, <1>4, <1>6, <1>7, <1>8 DEF StillAsSeen

\* "Paid bookings cannot be reclassified in this phase": a booking whose requests never
\* overlapped stops being paid only once its refund is in the ledger, wherever requests
\* stop and whatever is done to other bookings.
THEOREM UnpaidByRefundOnly == FinanceSpec => PaidUntilRefunded
<1>1. FinanceInit => AloneInv
  BY DEF FinanceInit, AloneInv, Alone, BusyWith, StillAsSeen
<1>2. LedgerInv /\ AloneInv /\ [FinanceNext]_financeVars =>
        [\A b \in Bookings \ raced :
           (payment[b] = "paid" /\ payment'[b] # "paid") => Posted(b, "refund")]_financeVars
  BY UnmarkedByRefund
<1> QED BY <1>1, <1>2, NextAlone, LedgerInvariance, PTL DEF FinanceSpec, PaidUntilRefunded

-------------------------------------------------------------------------------
(* The status and the entries of a booking agree.                          *)

PaidOff(b) == Posted(b, "payment") /\ ~ Posted(b, "refund")

Marking(w, b) == BusyWith(w, b) /\ desk[w].op \in Kinds /\ desk[w].stage = "mark"

\* A request about to post a charge or a payment found that there is none.
AboutToPost(w, b) ==
  BusyWith(w, b) /\ desk[w].op \in {"charge", "payment"} /\ desk[w].stage = "post"

\* As long as requests for b do not overlap: there is one charge and one payment, the
\* next one is posted only where there is none, and, unless a request of b was cut
\* short, b is paid exactly when it is paid off, now or once the posted entry is marked.
MoneyRight(b) ==
  b \notin raced =>
    /\ \A kind \in {"charge", "payment"} : \A i, k \in Entries(b, kind) : i = k
    /\ \A w \in Workers : AboutToPost(w, b) => ~ Posted(b, desk[w].op)
    /\ b \notin cut =>
         /\ Settled(b) => (payment[b] = "paid" <=> PaidOff(b))
         /\ \A w \in Workers :
              Marking(w, b) => (StatusAfter(desk[w].op) = "paid" <=> PaidOff(b))

MoneyInv == \A b \in Bookings : MoneyRight(b)

\* A set without two members has at most one.
LEMMA AtMostOne ==
  ASSUME NEW S, \A i, k \in S : i = k
  PROVE  Cardinality(S) <= 1
<1>1. CASE S = {} BY <1>1, FS_EmptySet
<1>2. CASE S # {}
  <2>1. PICK x \in S : S = {x} BY <1>2
  <2> QED BY <2>1, FS_Singleton
<1> QED BY <1>1, <1>2

LEMMA MoneyIsAsPosted == MoneyInv => PaidAsPosted
<1> SUFFICES ASSUME MoneyInv PROVE PaidAsPosted OBVIOUS
<1>1. PaidIsPaid
  BY DEF MoneyInv, MoneyRight, PaidIsPaid, Undisturbed, PaidOff
<1>2. ChargedAndPaidOnce
  BY AtMostOne DEF MoneyInv, MoneyRight, ChargedAndPaidOnce
<1> QED BY <1>1, <1>2 DEF PaidAsPosted

\* What a request does to its own booking is nothing to another one.
LEMMA OthersRight ==
  ASSUME LedgerInv, MoneyInv, NEW w \in Workers, NEW job, Serve(w, job),
         NEW b \in Bookings,
         desk[w] = Free \/ desk[w].id # b, job = Free \/ job.id # b,
         payment'[b] = payment[b],
         \A kind \in Kinds : Entries(b, kind)' = Entries(b, kind),
         raced \subseteq raced', cut \subseteq cut'
  PROVE  MoneyRight(b)'
<1>1. desk'[w] = job /\ \A v \in Workers \ {w} : desk'[v] = desk[v]
  BY DEF Serve, LedgerInv, FinanceTypeOK
<1>2. {"charge", "payment", "refund"} = Kinds /\ Free.op \notin Kinds BY DEF Kinds, Free
<1>3. \A kind \in Kinds : Posted(b, kind)' = Posted(b, kind) BY DEF Posted
<1>4. PaidOff(b)' = PaidOff(b) BY <1>2, <1>3 DEF PaidOff
<1>5. \A v \in Workers : BusyWith(v, b)' => desk'[v] = desk[v] /\ BusyWith(v, b)
  BY <1>1 DEF BusyWith
<1>6. Settled(b)' => Settled(b)
  <2> SUFFICES ASSUME Settled(b)', NEW v \in Workers, desk[v].op \in Kinds,
                      desk[v].id = b, desk[v].stage = "mark"
               PROVE  FALSE
    BY DEF Settled
  <2>1. v # w BY <1>2
  <2> QED BY <1>1, <2>1 DEF Settled
<1>7. \A v \in Workers : AboutToPost(v, b)' => AboutToPost(v, b) /\ desk'[v] = desk[v]
  BY <1>5 DEF AboutToPost
<1>8. \A v \in Workers : Marking(v, b)' => Marking(v, b) /\ desk'[v] = desk[v]
  BY <1>5 DEF Marking
<1>9. \A v \in Workers : AboutToPost(v, b) => desk[v].op \in Kinds
  BY <1>2 DEF AboutToPost
<1>10. MoneyRight(b) BY DEF MoneyInv
<1> QED BY <1>2, <1>3, <1>4, <1>6, <1>7, <1>8, <1>9, <1>10 DEF MoneyRight

\* A step of a request for b, the only one there is for b.
LEMMA OwnRight ==
  ASSUME LedgerInv, NEW w \in Workers, NEW job, Serve(w, job),
         NEW b \in Bookings, job = Free \/ job.id = b,
         \A v \in Workers \ {w} : ~ BusyWith(v, b),
         \A kind \in {"charge", "payment"} : \A i, k \in Entries(b, kind)' : i = k,
         (job.op \in {"charge", "payment"} /\ job.stage = "post") => ~ Posted(b, job.op)',
         (b \notin cut' /\ job.op \in Kinds /\ job.stage = "mark") =>
           (StatusAfter(job.op) = "paid" <=> PaidOff(b)'),
         (b \notin cut' /\ ~ (job.op \in Kinds /\ job.stage = "mark")) =>
           (payment'[b] = "paid" <=> PaidOff(b)')
  PROVE  MoneyRight(b)'
<1>1. desk'[w] = job /\ \A v \in Workers \ {w} : desk'[v] = desk[v]
  BY DEF Serve, LedgerInv, FinanceTypeOK
<1>2. \A v \in Workers : BusyWith(v, b)' => v = w BY <1>1 DEF BusyWith
<1>3. (\A v \in Workers : AboutToPost(v, b) => ~ Posted(b, desk[v].op))'
  BY <1>1, <1>2 DEF AboutToPost, Posted, Entries
<1>4. ASSUME b \notin cut'
      PROVE  (\A v \in Workers :
                Marking(v, b) => (StatusAfter(desk[v].op) = "paid" <=> PaidOff(b)))'
  BY <1>1, <1>2, <1>4 DEF Marking
<1>5. Free.op \notin Kinds BY DEF Free, Kinds
<1>6. ASSUME b \notin cut', Settled(b)' PROVE payment'[b] = "paid" <=> PaidOff(b)'
  <2>1. ~ (job.op \in Kinds /\ job.stage = "mark") BY <1>1, <1>5, <1>6 DEF Settled
  <2> QED BY <1>6, <2>1
<1>7. (\A kind \in {"charge", "payment"} : \A i, k \in Entries(b, kind) : i = k)'
  OBVIOUS
<1> QED BY <1>3, <1>4, <1>6, <1>7 DEF MoneyRight

\* A step of a request for b leaves every booking right when it leaves b right.
LEMMA RightStep ==
  ASSUME LedgerInv, MoneyInv, NEW w \in Workers, NEW job, Serve(w, job),
         NEW b \in Bookings, desk[w] = Free \/ desk[w].id = b, job = Free \/ job.id = b,
         \A x \in Bookings \ {b} : payment'[x] = payment[x],
         \A x \in Bookings \ {b}, kind \in Kinds : Entries(x, kind)' = Entries(x, kind),
         raced \subseteq raced', cut \subseteq cut',
         b \notin raced' => MoneyRight(b)'
  PROVE  MoneyInv'
<1> SUFFICES ASSUME NEW x \in Bookings PROVE MoneyRight(x)'
  BY DEF MoneyInv
<1>1. CASE x = b BY <1>1 DEF MoneyRight
<1>2. CASE x # b BY <1>2, OthersRight
<1> QED BY <1>1, <1>2

\* What holds of b while its only request has nothing posted.
LEMMA NothingToMark ==
  ASSUME MoneyInv, NEW w \in Workers, NEW b \in Bookings, b \notin raced,
         \A v \in Workers \ {w} : ~ BusyWith(v, b),
         desk[w].op \in Kinds => desk[w].stage # "mark"
  PROVE  /\ \A kind \in {"charge", "payment"} : \A i, k \in Entries(b, kind) : i = k
         /\ b \notin cut => (payment[b] = "paid" <=> PaidOff(b))
<1>1. Free.op \notin Kinds BY DEF Free, Kinds
<1>2. Settled(b) BY <1>1 DEF Settled, BusyWith
<1> QED BY <1>2 DEF MoneyInv, MoneyRight

LEMMA BeginsRight ==
  ASSUME LedgerInv, MoneyInv, NEW w \in Workers, NEW b \in Bookings, NEW job,
         Begins(w, b), Serve(w, job), job.id = b, job.op = "status" \/ job.stage = "look"
  PROVE  MoneyInv'
<1>1. UNCHANGED <<ledger, payment, cut>> /\ raced \subseteq raced' /\ desk[w] = Free
  BY DEF Begins
<1>2. \A x, kind : /\ Entries(x, kind)' = Entries(x, kind)
                   /\ Posted(x, kind)' = Posted(x, kind)
  BY <1>1 DEF Entries, Posted
<1>3. PaidOff(b)' = PaidOff(b) BY <1>2 DEF PaidOff
<1>4. "status" \notin Kinds /\ {"charge", "payment"} \subseteq Kinds /\ Free.op \notin Kinds
  BY DEF Kinds, Free
<1>5. ASSUME b \notin raced' PROVE MoneyRight(b)'
  <2>1. b \notin raced /\ \A v \in Workers : ~ BusyWith(v, b)
    BY <1>1, <1>5 DEF Begins, BusyWith
  <2> QED BY <1>1, <1>2, <1>3, <1>4, <2>1, NothingToMark, OwnRight
<1> QED BY <1>1, <1>2, <1>5, RightStep

LEMMA BeginRight ==
  ASSUME LedgerInv, MoneyInv, NEW w \in Workers, BeginStatus(w) \/ BeginEntry(w)
  PROVE  MoneyInv'
<1>1. CASE BeginStatus(w)
  <2>1. PICK b, to : b \in Bookings /\ Begins(w, b)
                     /\ Serve(w, [op |-> "status", id |-> b, to |-> to])
    BY <1>1 DEF BeginStatus
  <2> QED BY <2>1, BeginsRight
<1>2. CASE BeginEntry(w)
  <2>1. PICK b, kind, seen :
          b \in Bookings /\ Begins(w, b)
          /\ Serve(w, [op |-> kind, id |-> b, stage |-> "look", seen |-> seen])
    BY <1>2 DEF BeginEntry
  <2> QED BY <2>1, BeginsRight
<1> QED BY <1>1, <1>2

\* A request at work on a booking whose requests never overlapped is the only one.
LEMMA OnlyOne ==
  ASSUME LedgerInv, AloneInv, NEW w \in Workers, desk[w] # Free
  PROVE  /\ desk[w].id \in Bookings
         /\ desk[w].id \notin raced => \A v \in Workers \ {w} : ~ BusyWith(v, desk[w].id)
<1>1. desk[w] \in DeskJob BY DEF LedgerInv, FinanceTypeOK
<1>2. desk[w].id \in Bookings BY <1>1 DEF DeskJob, StatusJob, LookJob, PostJob
<1> QED BY <1>2 DEF AloneInv, Alone, BusyWith

LEMMA RefuseRight ==
  ASSUME LedgerInv, AloneInv, MoneyInv, NEW w \in Workers, Refuse(w)
  PROVE  MoneyInv'
<1>1. /\ Serve(w, Free) /\ UNCHANGED <<ledger, payment, raced, cut>>
      /\ desk[w].op = "status" \/ desk[w].op \in Kinds
      /\ desk[w].op \in Kinds => desk[w].stage # "mark"
  BY DEF Refuse, Kinds
<1>2. desk[w] # Free /\ Free.op \notin Kinds /\ Free.op \notin {"charge", "payment"}
  BY <1>1 DEF Free, Kinds
<1>3. PICK b \in Bookings : b = desk[w].id BY <1>2, OnlyOne
<1>4. \A x, kind : Entries(x, kind)' = Entries(x, kind) BY <1>1 DEF Entries
<1>5. PaidOff(b)' = PaidOff(b) BY <1>4 DEF PaidOff, Posted
<1>6. ASSUME b \notin raced PROVE MoneyRight(b)'
  BY <1>1, <1>2, <1>3, <1>4, <1>5, <1>6, OnlyOne, NothingToMark, OwnRight
<1> QED BY <1>1, <1>3, <1>4, <1>6, RightStep

\* The booking is marked as cut short; its entries stay single.
LEMMA CrashRight ==
  ASSUME LedgerInv, AloneInv, MoneyInv, NEW w \in Workers, CrashBetween(w)
  PROVE  MoneyInv'
<1>1. /\ Serve(w, Free) /\ UNCHANGED <<ledger, payment, raced>>
      /\ desk[w].op \in Kinds /\ cut' = cut \union {desk[w].id}
  BY DEF CrashBetween
<1>2. desk[w] # Free /\ Free.op \notin Kinds /\ Free.op \notin {"charge", "payment"}
  BY <1>1 DEF Free, Kinds
<1>3. PICK b \in Bookings : b = desk[w].id BY <1>2, OnlyOne
<1>4. \A x, kind : Entries(x, kind)' = Entries(x, kind) BY <1>1 DEF Entries
<1>5. b \in cut' BY <1>1, <1>3
<1>6. ASSUME b \notin raced PROVE MoneyRight(b)'
  <2>1. \A kind \in {"charge", "payment"} : \A i, k \in Entries(b, kind) : i = k
    BY <1>6 DEF MoneyInv, MoneyRight
  <2> QED BY <1>1, <1>2, <1>3, <1>4, <1>5, <1>6, <2>1, OnlyOne, OwnRight
<1> QED BY <1>1, <1>3, <1>4, <1>6, RightStep

\* A request decides to post a charge or a payment only where there is none.
LEMMA LookUpRight ==
  ASSUME LedgerInv, AloneInv, MoneyInv, NEW w \in Workers, LookUp(w)
  PROVE  MoneyInv'
<1>1. PICK j \in DeskJob : j = desk[w] BY DEF LedgerInv, FinanceTypeOK
<1>2. PICK job : /\ Serve(w, job) /\ job.op = j.op /\ job.id = j.id
                 /\ job.stage = "post"
  BY <1>1 DEF LookUp
<1>3. /\ UNCHANGED <<ledger, payment, raced, cut>>
      /\ j.op \in Kinds /\ j.stage = "look" /\ NotYet(j.op, j.id)
  BY <1>1 DEF LookUp
<1>4. desk[w] # Free BY <1>1, <1>3 DEF Free, Kinds
<1>5. PICK b \in Bookings : b = desk[w].id BY <1>4, OnlyOne
<1>6. \A x, kind : /\ Entries(x, kind)' = Entries(x, kind)
                   /\ Posted(x, kind)' = Posted(x, kind)
  BY <1>3 DEF Entries, Posted
<1>7. PaidOff(b)' = PaidOff(b) BY <1>6 DEF PaidOff
<1>8. job.op \in {"charge", "payment"} => ~ Posted(b, job.op)'
  BY <1>1, <1>2, <1>3, <1>5, <1>6 DEF NotYet
<1>9. ASSUME b \notin raced PROVE MoneyRight(b)'
  BY <1>1, <1>2, <1>3, <1>4, <1>5, <1>6, <1>7, <1>8, <1>9, OnlyOne, NothingToMark, OwnRight
<1> QED BY <1>1, <1>2, <1>3, <1>5, <1>6, <1>9, RightStep

\* The entry a request posts, and what it does to the entries of each kind.
LEMMA PostedEntry ==
  ASSUME LedgerInv, NEW j \in PostJob, Post(j.op, j.id, j.account, j.amount)
  PROVE  \E n \in Nat :
           /\ n \notin DOMAIN ledger
           /\ \A x, kind :
                Entries(x, kind)' = Entries(x, kind)
                                      \union {i \in {n} : x = j.id /\ kind = j.op}
<1>1. PICK entry : entry = [account |-> j.account, amount |-> j.amount,
                            kind |-> j.op, ref |-> j.id]
  OBVIOUS
<1>2. entry \in Entry /\ entry.ref = j.id /\ entry.kind = j.op
  BY <1>1, FinanceConstantsOK DEF PostJob, Entry
<1>3. ledger \in Seq(Entry) /\ ledger' = Append(ledger, entry)
  BY <1>1 DEF Post, LedgerInv, FinanceTypeOK
<1>4. PICK n \in Nat : n = Len(ledger) + 1 BY <1>3
<1>5. /\ n \notin DOMAIN ledger /\ DOMAIN ledger' = DOMAIN ledger \union {n}
      /\ \A i \in DOMAIN ledger : ledger'[i] = ledger[i]
      /\ ledger'[n] = entry
  BY <1>2, <1>3, <1>4
<1>6. \A x, kind : Entries(x, kind)' = Entries(x, kind)
                                         \union {i \in {n} : x = j.id /\ kind = j.op}
  BY <1>2, <1>5 DEF Entries
<1> QED BY <1>5, <1>6

\* An entry is posted: the first charge, the first payment, or a refund of what is
\* paid. Whether the booking is paid off then is what the request will mark.
LEMMA PostRight ==
  ASSUME LedgerInv, AloneInv, MoneyInv, NEW w \in Workers, PostEntry(w)
  PROVE  MoneyInv'
<1>1. PICK j \in PostJob : j = desk[w]
  BY DeskKinds DEF PostEntry, LedgerInv, FinanceTypeOK
<1>2. PICK job : job = [j EXCEPT !.stage = "mark"] OBVIOUS
<1>3. /\ Serve(w, job) /\ job.op = j.op /\ job.id = j.id /\ job.stage = "mark"
      /\ UNCHANGED <<payment, raced, cut>>
      /\ j.op \in Kinds /\ j.stage = "post"
      /\ Post(j.op, j.id, j.account, j.amount)
  BY <1>1, <1>2 DEF PostEntry, PostJob
<1>4. desk[w] # Free BY <1>1, <1>3 DEF Free, Kinds
<1>5. PICK b \in Bookings : b = desk[w].id BY <1>4, OnlyOne
<1>6. PICK n \in Nat :
        /\ n \notin DOMAIN ledger
        /\ \A x, kind :
             Entries(x, kind)' = Entries(x, kind)
                                   \union {i \in {n} : x = j.id /\ kind = j.op}
  BY <1>3, PostedEntry
<1>7. \A kind : /\ kind # j.op => Posted(b, kind)' = Posted(b, kind)
                /\ kind = j.op => Posted(b, kind)'
  BY <1>1, <1>5, <1>6 DEF Posted
<1>8. ASSUME b \notin raced PROVE MoneyRight(b)'
  <2>1. \A v \in Workers \ {w} : ~ BusyWith(v, b) BY <1>4, <1>5, <1>8, OnlyOne
  <2>2. /\ \A kind \in {"charge", "payment"} : \A i, k \in Entries(b, kind) : i = k
        /\ b \notin cut => (payment[b] = "paid" <=> PaidOff(b))
    BY <1>1, <1>3, <1>8, <2>1, NothingToMark
  <2>3. j.op \in {"charge", "payment"} => ~ Posted(b, j.op)
    BY <1>1, <1>3, <1>4, <1>5, <1>8 DEF MoneyInv, MoneyRight, AboutToPost, BusyWith
  <2>4. \A kind \in {"charge", "payment"} : \A i, k \in Entries(b, kind)' : i = k
    BY <1>6, <2>2, <2>3 DEF Posted
  <2>5. j.seen = payment[b] /\ StatusAllows(j.op, payment[b])
    BY <1>1, <1>3, <1>4, <1>5, <1>8 DEF AloneInv, StillAsSeen
  <2>6. ASSUME b \notin cut PROVE StatusAfter(j.op) = "paid" <=> PaidOff(b)'
    <3>1. CASE j.op = "charge"
      <4>1. payment[b] # "paid" BY <2>5, <3>1 DEF StatusAllows
      <4> QED BY <1>7, <2>2, <2>6, <3>1, <4>1 DEF PaidOff, StatusAfter
    <3>2. CASE j.op = "payment"
      <4>1. ~ Posted(b, "refund")
        BY <2>3, <3>2 DEF LedgerInv, FinanceTypeOK, RefundFollowsPayment, Posted, Entries
      <4> QED BY <1>7, <3>2, <4>1 DEF PaidOff, StatusAfter
    <3>3. CASE j.op = "refund" BY <1>7, <3>3 DEF PaidOff, StatusAfter
    <3> QED BY <1>3, <3>1, <3>2, <3>3 DEF Kinds
  <2> QED BY <1>1, <1>3, <1>5, <2>1, <2>4, <2>6, OwnRight
<1>9. \A x \in Bookings \ {b}, kind \in Kinds : Entries(x, kind)' = Entries(x, kind)
  BY <1>1, <1>5, <1>6
<1> QED BY <1>1, <1>3, <1>5, <1>8, <1>9, RightStep

\* The second commit writes what the entry means, the reclassification what it asked.
LEMMA MarkRight ==
  ASSUME LedgerInv, AloneInv, MoneyInv, NEW w \in Workers, CommitStatus(w) \/ MarkBooking(w)
  PROVE  MoneyInv'
<1>1. PICK j \in DeskJob : j = desk[w] BY DEF LedgerInv, FinanceTypeOK
<1>2. /\ Serve(w, Free) /\ UNCHANGED <<ledger, raced, cut>>
      /\ j.op = "status" \/ j.op \in Kinds
  BY <1>1 DEF CommitStatus, MarkBooking
<1>3. desk[w] # Free /\ Free.op \notin Kinds /\ Free.op \notin {"charge", "payment"}
  BY <1>1, <1>2 DEF Free, Kinds
<1>4. PICK b \in Bookings : b = desk[w].id BY <1>3, OnlyOne
<1>5. \A x, kind : Entries(x, kind)' = Entries(x, kind) BY <1>2 DEF Entries
<1>6. PaidOff(b)' = PaidOff(b) BY <1>5 DEF PaidOff, Posted
<1>7. \A x \in Bookings \ {b} : payment'[x] = payment[x]
  BY <1>4 DEF CommitStatus, MarkBooking, LedgerInv, FinanceTypeOK
<1>8. ASSUME b \notin raced PROVE MoneyRight(b)'
  <2>1. \A v \in Workers \ {w} : ~ BusyWith(v, b) BY <1>3, <1>4, <1>8, OnlyOne
  <2>2. StillAsSeen(j) BY <1>1 DEF AloneInv
  <2>3. \A kind \in {"charge", "payment"} : \A i, k \in Entries(b, kind)' : i = k
    BY <1>5, <1>8 DEF MoneyInv, MoneyRight
  <2>4. ASSUME b \notin cut PROVE payment'[b] = "paid" <=> PaidOff(b)
    <3>1. CASE CommitStatus(w)
      <4>1. j \in StatusJob /\ j.op = "status" BY <1>1, <3>1, DeskKinds DEF CommitStatus
      <4>2. payment'[b] = j.to /\ j.to # "paid"
        BY <1>1, <1>4, <3>1, <4>1 DEF CommitStatus, LedgerInv, FinanceTypeOK, StatusJob
      <4>3. payment[b] # "paid"
        BY <1>1, <1>3, <1>4, <1>8, <2>2, <4>1 DEF StillAsSeen
      <4>4. "status" \notin Kinds BY DEF Kinds
      <4> QED BY <1>1, <1>8, <2>1, <2>4, <4>1, <4>2, <4>3, <4>4, NothingToMark
    <3>2. CASE MarkBooking(w)
      <4>1. j.op \in Kinds /\ j.stage = "mark" BY <1>1, <3>2 DEF MarkBooking
      <4>2. j.seen = payment[b]
        BY <1>1, <1>3, <1>4, <1>8, <2>2, <4>1 DEF StillAsSeen
      <4>3. payment'[b] = Stored(StatusAfter(j.op), j.seen, payment[b])
        BY <1>1, <1>4, <3>2 DEF MarkBooking, LedgerInv, FinanceTypeOK
      <4>4. payment'[b] = StatusAfter(j.op) BY <4>2, <4>3 DEF Stored
      <4>5. Marking(w, b) BY <1>1, <1>3, <1>4, <4>1 DEF Marking, BusyWith
      <4> QED BY <1>1, <1>8, <2>4, <4>4, <4>5 DEF MoneyInv, MoneyRight
    <3> QED BY <3>1, <3>2
  <2> QED BY <1>2, <1>3, <1>6, <2>1, <2>3, <2>4, OwnRight
<1> QED BY <1>1, <1>2, <1>4, <1>5, <1>7, <1>8, RightStep

LEMMA NextMoney ==
  LedgerInv /\ AloneInv /\ MoneyInv /\ [FinanceNext]_financeVars => MoneyInv'
<1> SUFFICES ASSUME LedgerInv, AloneInv, MoneyInv, [FinanceNext]_financeVars
             PROVE  MoneyInv'
  OBVIOUS
<1>1. ASSUME NEW w \in Workers, FinanceStep(w) PROVE MoneyInv'
  BY <1>1, BeginRight, LookUpRight, PostRight, MarkRight, RefuseRight, CrashRight
     DEF FinanceStep
<1>2. CASE UNCHANGED financeVars
  BY <1>2 DEF financeVars, MoneyInv, MoneyRight, AboutToPost, Marking, BusyWith, Settled,
              PaidOff, Posted, Entries
<1> QED BY <1>1, <1>2 DEF FinanceNext

LEMMA InitMoney == FinanceInit => AloneInv /\ MoneyInv
<1> SUFFICES ASSUME FinanceInit PROVE AloneInv /\ MoneyInv OBVIOUS
<1>1. \A b \in Bookings : payment[b] # "paid"
  BY FinanceConstantsOK DEF FinanceInit, PaymentStatuses
<1>2. \A b, kind : Entries(b, kind) = {} BY DEF FinanceInit, Entries
<1>3. AloneInv BY DEF FinanceInit, AloneInv, Alone, BusyWith, StillAsSeen
<1>4. MoneyInv
  BY <1>1, <1>2 DEF FinanceInit, MoneyInv, MoneyRight, AboutToPost, Marking, BusyWith,
                    PaidOff, Posted
<1> QED BY <1>3, <1>4

\* record_payment and post_refund keep payment_status and the ledger in agreement
\* across their two commits, and no retry charges or pays a booking twice, for every
\* booking whose requests do not overlap and, for the status, are not cut short.
THEOREM PaidAsPostedAlways == FinanceSpec => []PaidAsPosted
BY InitMoney, NextAlone, NextMoney, MoneyIsAsPosted, LedgerInvariance, PTL DEF FinanceSpec
===============================================================================
