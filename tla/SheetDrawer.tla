----------------------------- MODULE SheetDrawer -----------------------------
(***************************************************************************)
(* What lies over the live tee sheet: the create and the manage drawer     *)
(* with their party drafts, the expanded booking, the command palette, the *)
(* filters and the batch no-show dialog.  Answers to requests arrive after *)
(* the staff have gone on, and close or open what is there by then.        *)
(***************************************************************************)
EXTENDS Naturals, FiniteSets

CONSTANTS
  Bookings, \* bookings of the day
  SlotOf, \* SlotOf[b]
  PartyOf, \* PartyOf[b]: players of b, 1..4
  OpenSlots, \* slots a booking may be created in
  Filters, \* view filters besides "all"
  MaxSaves, \* bound: how many updates are on their way
  Nowhere \* no slot, no booking

ASSUME DrawerAssumption ==
  Nowhere \notin Bookings /\ \A b \in Bookings : PartyOf[b] \in 1..4

VARIABLES
  desk, \* [mode, slot, editing, expanded, palette, filter, confirm]
  drafts, \* the create form: [size, leads]
  edits, \* the edit form: [of, size, leads]
  saves, \* updates in flight: set of [id, of, size, leads, last]
  creates, \* creations in flight: set of [size, leads]
  batching \* the batch no-show is running

deskVars == <<desk, drafts, edits, saves, creates, batching>>

Slots == {SlotOf[b] : b \in Bookings} \union OpenSlots
At(s) == {b \in Bookings : SlotOf[b] = s}
Fresh == [size |-> 1, leads |-> 1]
NoEdits == [size |-> 0, leads |-> 0, of |-> Nowhere]
ClosedDesk == [filter |-> "all", mode |-> "none", slot |-> Nowhere, editing |-> Nowhere,
               expanded |-> Nowhere, palette |-> FALSE, confirm |-> FALSE]
(* Which layer is on the screen; a drawer shows only with its slot.           *)
Showing(mode) == desk.mode = mode /\ desk.slot # Nowhere
Bare == ~Showing("manage") /\ ~Showing("create") /\ ~desk.palette /\ ~desk.confirm

DeskInit ==
  /\ \E f \in Filters \union {"all"} : desk = [ClosedDesk EXCEPT !.filter = f] \* ?filter=
  /\ drafts = Fresh /\ edits = NoEdits
  /\ saves = {} /\ creates = {} /\ batching = FALSE

-----------------------------------------------------------------------------
(* Opening and closing.                                                       *)
\* Mutant: the edit form keeps what it had.
OpenManageDirty(s, b) ==
  /\ Bare /\ At(s) # {} /\ b \in At(s) \union {Nowhere}
  /\ desk' = [desk EXCEPT !.mode = "manage", !.slot = s, !.editing = b, !.expanded = b]
  /\ drafts' = Fresh
  /\ UNCHANGED <<edits, saves, creates, batching>>
OpenManage(s, b) ==
  /\ Bare /\ At(s) # {} /\ b \in At(s) \union {Nowhere}
  /\ desk' = [desk EXCEPT !.mode = "manage", !.slot = s, !.editing = Nowhere, !.expanded = b]
  /\ drafts' = Fresh /\ edits' = NoEdits
  /\ UNCHANGED <<saves, creates, batching>>
OpenCreate(s) ==
  /\ Bare /\ s \in OpenSlots
  /\ desk' = [desk EXCEPT !.mode = "create", !.slot = s, !.editing = Nowhere,
                          !.expanded = Nowhere]
  /\ drafts' = Fresh /\ edits' = NoEdits
  /\ UNCHANGED <<saves, creates, batching>>
(* The close button, the overlay and Escape.                                  *)
CloseDrawer ==
  /\ desk.mode # "none"
  /\ desk' = [desk EXCEPT !.mode = "none", !.slot = Nowhere, !.editing = Nowhere]
  /\ drafts' = Fresh /\ edits' = NoEdits
  /\ UNCHANGED <<saves, creates, batching>>
ToggleBookingExpansion(b) ==
  /\ Bare
  /\ desk' = [desk EXCEPT !.expanded = IF @ = b THEN Nowhere ELSE b]
  /\ UNCHANGED <<drafts, edits, saves, creates, batching>>
(* A press beside the card, or Escape.                                        *)
CloseExpanded ==
  /\ desk.expanded # Nowhere /\ desk.mode # "manage"
  /\ desk' = [desk EXCEPT !.expanded = Nowhere]
  /\ UNCHANGED <<drafts, edits, saves, creates, batching>>
(* The date changes or the day is fetched: the selected slot may be gone.     *)
SlotGone ==
  /\ desk.slot # Nowhere
  /\ \E e \in {desk.expanded, Nowhere} :
       desk' = [desk EXCEPT !.mode = "none", !.slot = Nowhere, !.editing = Nowhere,
                            !.expanded = e]
  /\ edits' = NoEdits
  /\ UNCHANGED <<drafts, saves, creates, batching>>

(* The command palette.  Another filter collapses the expanded booking.       *)
Filtered(f) == [desk EXCEPT !.filter = f, !.expanded = IF f = desk.filter THEN @ ELSE Nowhere]
OpenPalette ==
  /\ desk.mode = "none" /\ ~desk.confirm
  /\ desk' = [desk EXCEPT !.palette = TRUE]
  /\ UNCHANGED <<drafts, edits, saves, creates, batching>>
SelectCommand(f) ==
  /\ desk.palette /\ f \in Filters \union {"all"}
  /\ desk' = [Filtered(f) EXCEPT !.palette = FALSE]
  /\ UNCHANGED <<drafts, edits, saves, creates, batching>>
NavigateToBooking(b) ==
  /\ desk.palette
  /\ desk' = [ClosedDesk EXCEPT !.expanded = IF desk.filter = "all" THEN b ELSE Nowhere,
                                !.editing = desk.editing]
  /\ UNCHANGED <<drafts, edits, saves, creates, batching>>
ClosePalette ==
  /\ desk.palette /\ desk' = [desk EXCEPT !.palette = FALSE]
  /\ UNCHANGED <<drafts, edits, saves, creates, batching>>
(* The filter chips and presets; a preset pressed twice shows all.            *)
SetFilter(f) ==
  /\ Bare /\ desk' = Filtered(IF desk.filter = f THEN "all" ELSE f)
  /\ UNCHANGED <<drafts, edits, saves, creates, batching>>

-----------------------------------------------------------------------------
(* The party forms.                                                           *)
Grown(form) == IF form.size >= 4 THEN form ELSE [form EXCEPT !.size = @ + 1]
(* removeDraft: the participant who is not the lead.                          *)
Shrunk(form) == IF form.size > form.leads THEN [form EXCEPT !.size = @ - 1] ELSE form
ChangeDrafts ==
  /\ Showing("create") /\ drafts' \in {Grown(drafts), Shrunk(drafts)}
  /\ UNCHANGED <<desk, edits, saves, creates, batching>>
ChangeEdits ==
  /\ Showing("manage") /\ edits.of # Nowhere
  /\ edits' \in {Grown(edits), Shrunk(edits)}
  /\ UNCHANGED <<desk, drafts, saves, creates, batching>>
StartEdit(b) ==
  /\ Showing("manage") /\ SlotOf[b] = desk.slot
  /\ desk' = [desk EXCEPT !.editing = b]
  /\ edits' = [size |-> PartyOf[b], leads |-> 1, of |-> b]
  /\ UNCHANGED <<drafts, saves, creates, batching>>
CancelEdit ==
  /\ Showing("manage") /\ desk.editing # Nowhere
  /\ desk' = [desk EXCEPT !.editing = Nowhere] /\ edits' = NoEdits
  /\ UNCHANGED <<drafts, saves, creates, batching>>

(* What is sent, and the answers.  The save button of a booking is off while  *)
(* the latest save is that booking's.                                         *)
SaveEdit(b) ==
  /\ Showing("manage") /\ desk.editing = b /\ Cardinality(saves) < MaxSaves
  /\ \A m \in saves : m.last => m.id # b
  /\ saves' = {[m EXCEPT !.last = FALSE] : m \in saves}
              \union {[id |-> b, last |-> TRUE, size |-> edits.size,
                       leads |-> edits.leads, of |-> edits.of]}
  /\ UNCHANGED <<desk, drafts, edits, creates, batching>>
SaveAnswered(m, allowed) ==
  /\ m \in saves /\ saves' = saves \ {m}
  /\ IF allowed
     THEN /\ desk' = [desk EXCEPT !.mode = "manage", !.editing = Nowhere]
          /\ edits' = NoEdits
     ELSE UNCHANGED <<desk, edits>>
  /\ UNCHANGED <<drafts, creates, batching>>
Create ==
  /\ Showing("create") /\ creates = {}
  /\ creates' = {drafts}
  /\ UNCHANGED <<desk, drafts, edits, saves, batching>>
CreateAnswered(allowed) ==
  /\ creates # {} /\ creates' = {}
  /\ IF allowed
     THEN /\ desk' = [desk EXCEPT !.mode = "none", !.slot = Nowhere]
          /\ drafts' = Fresh
     ELSE UNCHANGED <<desk, drafts>>
  /\ UNCHANGED <<edits, saves, batching>>
(* A status action or a move of some booking succeeds.                        *)
LifecycleDone(b) ==
  /\ desk' = [desk EXCEPT !.mode = "none", !.editing = Nowhere,
                          !.expanded = IF @ = b THEN Nowhere ELSE @]
  /\ edits' = NoEdits
  /\ UNCHANGED <<drafts, saves, creates, batching>>
MoveDone ==
  /\ desk' = [desk EXCEPT !.mode = "none", !.slot = Nowhere, !.editing = Nowhere,
                          !.expanded = Nowhere]
  /\ edits' = NoEdits
  /\ UNCHANGED <<drafts, saves, creates, batching>>

(* The batch no-show dialog.                                                  *)
ConfirmBatch ==
  /\ Bare /\ desk.filter = "no_shows" /\ desk' = [desk EXCEPT !.confirm = TRUE]
  /\ UNCHANGED <<drafts, edits, saves, creates, batching>>
RunBatch ==
  /\ desk.confirm /\ ~batching /\ batching' = TRUE
  /\ UNCHANGED <<desk, drafts, edits, saves, creates>>
BatchDone ==
  /\ batching /\ batching' = FALSE /\ desk' = [desk EXCEPT !.confirm = FALSE]
  /\ UNCHANGED <<drafts, edits, saves, creates>>
CloseConfirm ==
  /\ desk.confirm /\ ~batching /\ desk' = [desk EXCEPT !.confirm = FALSE]
  /\ UNCHANGED <<drafts, edits, saves, creates, batching>>

DeskNext ==
  \/ \E s \in Slots : OpenCreate(s) \/ \E b \in Bookings \union {Nowhere} : OpenManage(s, b)
  \/ \E b \in Bookings : \/ ToggleBookingExpansion(b) \/ NavigateToBooking(b)
                         \/ StartEdit(b) \/ SaveEdit(b) \/ LifecycleDone(b)
  \/ CloseDrawer \/ CloseExpanded \/ SlotGone \/ OpenPalette \/ ClosePalette \/ MoveDone
  \/ \E f \in Filters \union {"all"} : SelectCommand(f) \/ SetFilter(f)
  \/ ChangeDrafts \/ ChangeEdits \/ CancelEdit \/ Create
  \/ \E ok \in BOOLEAN : CreateAnswered(ok) \/ \E m \in saves : SaveAnswered(m, ok)
  \/ ConfirmBatch \/ RunBatch \/ BatchDone \/ CloseConfirm
DrawerSpec == DeskInit /\ [][DeskNext]_deskVars

-----------------------------------------------------------------------------
(* Properties *)

Desk == [filter : Filters \union {"all"}, mode : {"none", "manage", "create"},
         slot : Slots \union {Nowhere}, editing : Bookings \union {Nowhere},
         expanded : Bookings \union {Nowhere}, palette : BOOLEAN, confirm : BOOLEAN]
Form == [size : 0..4, leads : 0..1]
EditForm == [size : 0..4, leads : 0..1, of : Bookings \union {Nowhere}]
SaveRequest == [id : Bookings, last : BOOLEAN, size : 0..4, leads : 0..1,
                of : Bookings \union {Nowhere}]
DeskTypeOK ==
  /\ desk \in Desk /\ drafts \in Form /\ edits \in EditForm
  /\ saves \subseteq SaveRequest /\ creates \subseteq Form
  /\ batching \in BOOLEAN /\ (batching => desk.confirm)

(* The party a save or a creation carries is the one drafted for that very    *)
(* booking, with one to four players and one lead, however the drawer was      *)
(* opened, closed and filled again by answers in between.                      *)
WellFormed(party) == party.size \in 1..4 /\ party.leads = 1
PartySentIsItsOwn ==
  /\ \A m \in saves : m.of = m.id /\ WellFormed(m)
  /\ \A m \in creates : WellFormed(m)
  /\ desk.editing = edits.of
=============================================================================
