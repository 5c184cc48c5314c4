---------------------------- MODULE TeeSheetPage ----------------------------
(***************************************************************************)
(* The Phase 10 tee sheet page around its grid: which course, date and     *)
(* interval are asked for and which rows have come, the selected row, the   *)
(* price popover, the shortcut help, and the keyboard.  Rows change under   *)
(* the selection with every answer, and one Escape key is heard by three    *)
(* listeners.                                                               *)
(***************************************************************************)
EXTENDS Naturals, Integers, Sequences, SequencesExt

CONSTANTS
  Courses, \* sequence of the club's courses
  DayRange, \* dates, numbered; 0 is today in the club's time zone
  Intervals, \* slot intervals in minutes
  Rows, \* rows there may be
  RowsAt, \* RowsAt[course, date, interval]: sets of sequences of rows the server may answer
  Barred, \* rows that are blocked
  Due, \* rows whose first booking is "reserved"
  NoRow \* no row, no course, no interval

ASSUME PageAssumption ==
  /\ Courses # <<>> /\ 0 \in DayRange /\ NoRow \notin Rows
  /\ \A i \in 1..Len(Courses), d \in DayRange, m \in Intervals \union {NoRow} :
       RowsAt[<<Courses[i], d, m>>] \subseteq Seq(Rows)

VARIABLES
  at, \* the address and the override: [course, date, interval]
  rows, \* slotRows: the answer shown, the last one while the next is awaited
  view, \* [selected, popover, help, layers, typing, g, density]
  actions, \* requests sent by keyboard: set of [row, action]
  made \* history: for each panel the course and date that were asked for when it got its row

pageVars == <<at, rows, view, actions, made>>

Panes == {"selected", "popover"}
Densities == {"compact", "default", "comfortable"}
CourseIds == {Courses[i] : i \in 1..Len(Courses)}
Key == <<at.course, at.date, at.interval>>
Has(seq, x) == \E i \in 1..Len(seq) : seq[i] = x
(* A second blocked row in succession is drawn into the first.                *)
Drawable(r) == \E i \in 1..Len(rows) :
                 rows[i] = r /\ ~(i > 1 /\ r \in Barred /\ rows[i - 1] \in Barred)

PageInit ==
  /\ at \in [course : CourseIds, date : {0}, interval : {NoRow}]
  /\ rows = <<>> /\ actions = {} /\ made = [p \in Panes |-> NoRow]
  /\ view \in [density : Densities, selected : {NoRow},
               popover : {NoRow}, help : {FALSE}, layers : {<<>>}, typing : {FALSE}, g : {FALSE}]

(* The layers over the page, in the order their key listeners came.            *)
OpenLayer(v, layer) == [v EXCEPT !.layers = IF Has(@, layer) THEN @ ELSE Append(@, layer)]
CloseLayer(v, layer) == [v EXCEPT !.layers = RemoveFirst(@, layer)]
\* Mutant: the key listener of a closed popover stays.
ListenerStays(v) == [v EXCEPT !.popover = NoRow]
NoPopover(v) == [CloseLayer(v, "popover") EXCEPT !.popover = NoRow]
NoHelp(v) == [CloseLayer(v, "help") EXCEPT !.help = FALSE, !.typing = FALSE]
WithPopover(v, r) == [OpenLayer(v, "popover") EXCEPT !.popover = r]
WithHelp(v) == [OpenLayer(v, "help") EXCEPT !.help = TRUE, !.typing = TRUE]

-----------------------------------------------------------------------------
(* The day's answer.  A selection or a popover whose row has gone is cleared,  *)
(* unless there are no rows at all.                                            *)
Cleared(v, new) ==
  LET kept == IF v.selected = NoRow \/ Has(new, v.selected) \/ new = <<>> THEN v
              ELSE [v EXCEPT !.selected = NoRow]
  IN IF v.popover = NoRow \/ Has(new, v.popover) \/ new = <<>> THEN kept ELSE NoPopover(kept)
DayArrives ==
  /\ \E new \in RowsAt[Key] : rows' = new /\ view' = Cleared(view, new)
  /\ UNCHANGED <<at, actions>>
\* Mutant: course and date change under the selection and the popover.
ElsewhereKeeps(v) == v
(* The effect on course and date; help stays.                                  *)
Elsewhere(v) == [NoPopover(v) EXCEPT !.selected = NoRow]

(* Mouse.  A press outside the popover dismisses it, a price button moves it;  *)
(* under the help nothing can be pressed.                                      *)
SelectRow(r) ==
  /\ ~view.help /\ Drawable(r) /\ r \notin Barred
  /\ view' = [NoPopover(view) EXCEPT !.selected = r, !.typing = FALSE]
  /\ UNCHANGED <<at, rows, actions>>
PressPrice(r) ==
  /\ ~view.help /\ Drawable(r) /\ r \notin Barred
  /\ view' = [WithPopover(view, r) EXCEPT !.selected = r, !.typing = FALSE]
  /\ UNCHANGED <<at, rows, actions>>
DismissPopover ==
  /\ ~view.help /\ view.popover # NoRow /\ view' = NoPopover(view)
  /\ UNCHANGED <<at, rows, actions>>
SelectCourse(c) ==
  /\ ~view.help /\ c # at.course
  /\ at' = [at EXCEPT !.course = c] /\ view' = Elsewhere(view)
  /\ UNCHANGED <<rows, actions>>
ChangeInterval(m) ==
  /\ ~view.help /\ at' = [at EXCEPT !.interval = m]
  /\ view' = [NoPopover(view) EXCEPT !.selected = NoRow, !.typing = FALSE]
  /\ UNCHANGED <<rows, actions>>

(* The shortcut help, by key, by the footer's or the topbar's button.          *)
OpenHelp ==
  /\ ~view.help /\ ~view.typing /\ view' = WithHelp(view)
  /\ UNCHANGED <<at, rows, actions>>
DismissHelp ==
  /\ view.help /\ view' = NoHelp(view)
  /\ UNCHANGED <<at, rows, actions>>
(* Tab inside the help: from its filter to its close button and back.          *)
MoveFocus ==
  /\ view.help /\ view' = [view EXCEPT !.typing = ~@]
  /\ UNCHANGED <<at, rows, actions>>

(* Escape: the page's listener is the oldest, then those of the layers in the  *)
(* order they opened; what one listener closes is gone before the next is run. *)
(* There are two kinds of layer, each open once at most.                       *)
HearEscape(v, layer) ==
  CASE layer = "help" -> NoHelp(v)
    [] OTHER -> IF v.help THEN v ELSE NoPopover(v)
Escape ==
  LET page == IF view.help \/ view.popover # NoRow THEN view
              ELSE [view EXCEPT !.selected = NoRow]
      Heard(v, i) == IF i <= Len(view.layers) THEN HearEscape(v, view.layers[i]) ELSE v
  IN /\ view' = Heard(Heard(page, 1), 2)
     /\ UNCHANGED <<at, rows, actions>>

-----------------------------------------------------------------------------
(* useTeeSheetShortcuts: nothing while a field has the focus; any key but g     *)
(* ends the "gg" sequence.                                                     *)
Hears == ~view.typing
Pressed(v) == [v EXCEPT !.g = FALSE]
JumpToday ==
  /\ Hears /\ at' = [at EXCEPT !.date = 0]
  /\ view' = Pressed(IF at.date = 0 THEN [view EXCEPT !.selected = NoRow] ELSE Elsewhere(view))
  /\ UNCHANGED <<rows, actions>>
ShiftDay(delta) ==
  /\ Hears /\ at.date + delta \in DayRange
  /\ at' = [at EXCEPT !.date = @ + delta] /\ view' = Pressed(Elsewhere(view))
  /\ UNCHANGED <<rows, actions>>
Beside(delta) ==
  LET here == {i \in 1..Len(rows) : rows[i] = view.selected}
  IN IF here = {} THEN IF delta > 0 /\ rows # <<>> THEN rows[1] ELSE view.selected
     ELSE LET next == (CHOOSE i \in here : TRUE) + delta
          IN IF next \in 1..Len(rows) THEN rows[next] ELSE view.selected
MoveSelection(delta) ==
  /\ Hears /\ view' = Pressed([view EXCEPT !.selected = Beside(delta)])
  /\ UNCHANGED <<at, rows, actions>>
(* "G", and "g" twice.                                                         *)
GoToEnd ==
  /\ Hears
  /\ view' \in {Pressed([view EXCEPT !.selected = NoRow]),
                IF view.g THEN Pressed([view EXCEPT !.selected = NoRow])
                ELSE [view EXCEPT !.g = TRUE]}
  /\ UNCHANGED <<at, rows, actions>>
FocusSearch ==
  /\ Hears /\ view' = Pressed([view EXCEPT !.typing = TRUE])
  /\ UNCHANGED <<at, rows, actions>>
(* Alt-P presses the selected row's price button, if it has one to press.      *)
OpenPriceForSelected ==
  /\ Hears
  /\ view' = Pressed(IF Drawable(view.selected) /\ view.selected \notin Barred
                     THEN WithPopover(view, view.selected) ELSE view)
  /\ UNCHANGED <<at, rows, actions>>
(* "c" and "x", and the footer's chip: the first booking of the selected row.  *)
EligibleRow == IF view.selected \in Due /\ Has(rows, view.selected) THEN view.selected ELSE NoRow
ActOnSelected(action) ==
  /\ Hears /\ view' = Pressed(view)
  /\ actions' = IF EligibleRow = NoRow THEN actions
                ELSE actions \union {[row |-> EligibleRow, action |-> action]}
  /\ UNCHANGED <<at, rows>>
Answered10(a) == /\ a \in actions /\ actions' = actions \ {a}
                 /\ UNCHANGED <<at, rows, view>>
NextDensity(d) == CASE d = "compact" -> "default" [] d = "default" -> "comfortable"
                    [] OTHER -> "compact"
CycleDensity ==
  /\ Hears /\ view' = Pressed([view EXCEPT !.density = NextDensity(@)])
  /\ UNCHANGED <<at, rows, actions>>

PageStep ==
  \/ DayArrives \/ DismissPopover \/ OpenHelp \/ DismissHelp \/ MoveFocus \/ Escape
  \/ \E i \in 1..Len(rows) : SelectRow(rows[i]) \/ PressPrice(rows[i])
  \/ \E i \in 1..Len(Courses) : SelectCourse(Courses[i])
  \/ \E m \in Intervals : ChangeInterval(m)
  \/ JumpToday \/ GoToEnd \/ FocusSearch \/ OpenPriceForSelected \/ CycleDensity
  \/ \E delta \in {-1, 1} : ShiftDay(delta) \/ MoveSelection(delta)
  \/ \E action \in {"check_in", "no_show"} : ActOnSelected(action)
  \/ \E a \in actions : Answered10(a)
MadeOn ==
  made' = [p \in Panes |-> IF view'[p] = NoRow THEN NoRow
                            ELSE IF view'[p] = view[p] THEN made[p]
                            ELSE <<at'.course, at'.date>>]
PageNext == PageStep /\ MadeOn
PageSpec == PageInit /\ [][PageNext]_pageVars

-----------------------------------------------------------------------------
(* Properties *)

(* The types; and an open panel has its listener for Escape, once.              *)
PageTypeOK ==
  /\ at \in [course : CourseIds, date : DayRange, interval : Intervals \union {NoRow}]
  /\ rows \in Seq(Rows)
  /\ view \in [selected : Rows \union {NoRow}, popover : Rows \union {NoRow}, help : BOOLEAN,
               layers : Seq({"help", "popover"}), typing : BOOLEAN, g : BOOLEAN,
               density : Densities]
  /\ \A i, j \in 1..Len(view.layers) : view.layers[i] = view.layers[j] => i = j
  /\ Has(view.layers, "help") = view.help
  /\ Has(view.layers, "popover") = (view.popover # NoRow)
  /\ actions \subseteq [row : Rows, action : {"check_in", "no_show"}]
  /\ made \in [Panes -> (CourseIds \X DayRange) \union {NoRow}]

(* The footer, the lock and the keys act on a row that is on the sheet: a       *)
(* selection or a popover outlives neither the answer that had its row nor the  *)
(* course and date that were asked for when it was made.  (An empty answer      *)
(* shows no row and keeps the selection for the next.  Tee times of two courses *)
(* may be the same instant, so the row alone does not tell.)                    *)
PointsAtARow ==
  \A p \in Panes :
    view[p] # NoRow => /\ rows = <<>> \/ Has(rows, view[p])
                       /\ made[p] = <<at.course, at.date>>
=============================================================================
