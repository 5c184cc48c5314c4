----------------------------- MODULE OrderLifecycle -----------------------------
(***************************************************************************)
(* What the order services promise of an order and its bill, each service  *)
(* as one step: no workers, no ledger, no tender records, no commits.      *)
(* Nothing is promised of an order once two requests for it overlapped.    *)
(***************************************************************************)
CONSTANT Orders

VARIABLE life   \* of each order: its stage and what became of its bill

Unborn == [stage |-> "unborn", bill |-> "none"]
Contended == [stage |-> "contended", bill |-> "unknown"]

\* The order goes from one stage to the next; its bill goes from one state to the next.
Advance(o, from, to) ==
  /\ life[o] = [stage |-> from, bill |-> "none"]
  /\ life' = [life EXCEPT ![o] = [stage |-> to, bill |-> "none"]]
Bill(o, from, to) ==
  /\ life[o] = [stage |-> "collected", bill |-> from]
  /\ life' = [life EXCEPT ![o] = [stage |-> "collected", bill |-> to]]

Place(o) == Advance(o, "unborn", "placed")
Prepare(o) == Advance(o, "placed", "preparing")
MakeReady(o) == Advance(o, "preparing", "ready")
Collect(o) == Advance(o, "ready", "collected")
Cancel(o) == Advance(o, "placed", "cancelled")

\* The charge; the settlement in money, or on the account of the member.
Charge(o) == Bill(o, "none", "open")
Settle(o) == Bill(o, "open", "paid") \/ Bill(o, "open", "on account")

\* A second request for an order begins while one is at work.
Contend(o) == life[o] # Unborn /\ life' = [life EXCEPT ![o] = Contended]

LifeInit == life = [o \in Orders |-> Unborn]
LifeNext ==
  \E o \in Orders :
    \/ Place(o) \/ Prepare(o) \/ MakeReady(o) \/ Collect(o) \/ Cancel(o)
    \/ Charge(o) \/ Settle(o) \/ Contend(o)

LifeSpec == LifeInit /\ [][LifeNext]_life
===============================================================================
