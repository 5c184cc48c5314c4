--------------------------- MODULE BookingLifecycle ---------------------------
(***************************************************************************)
(* What the lifecycle services promise of a booking's status, stated       *)
(* without sessions, slots or players: the transitions their refusal       *)
(* messages name, each from the one status it may start in.                *)
(***************************************************************************)
CONSTANTS Bookings, NotMade

VARIABLE status

Made(b) == status[b] # NotMade

Set(b, s) == status' = [status EXCEPT ![b] = s]

\* Booked by create, or split from a booking that is reserved or checked in.
Make(b) == ~ Made(b) /\ (Set(b, "reserved") \/ Set(b, "checked_in"))
CheckIn(b) == status[b] = "reserved" /\ Set(b, "checked_in")
Cancel(b) == status[b] = "reserved" /\ Set(b, "cancelled")
MarkNoShow(b) == status[b] = "reserved" /\ Set(b, "no_show")
Complete(b) == status[b] = "checked_in" /\ Set(b, "completed")

LifecycleInit == status = [b \in Bookings |-> NotMade]
LifecycleNext ==
  \E b \in Bookings :
    Make(b) \/ CheckIn(b) \/ Cancel(b) \/ MarkNoShow(b) \/ Complete(b)

LifecycleSpec == LifecycleInit /\ [][LifecycleNext]_status
===============================================================================
