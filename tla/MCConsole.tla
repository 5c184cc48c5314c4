------------------------------ MODULE MCConsole ------------------------------
(* The pages of the browser, one at a time: the initial state says which     *)
(* page is used, the others rest in an initial state of theirs.               *)
EXTENDS Router, BrowserSession, SheetDay, SheetDrawer, ParticipantSwap, TeeSheetPage,
        GolfSettings, ClubsDesk, MembersDesk, CloseDay

VARIABLE surface \* the page that is used

Surfaces == {"session", "routes", "sheet", "drawer", "swap", "page", "settings", "clubs",
             "members", "close"}

-----------------------------------------------------------------------------
(* Values.                                                                    *)
HomeClubs == [u \in Users |-> IF u = "ann" THEN "k1" ELSE "k2"]
\* A superadmin, staff of one club, a member here and an admin there, nobody's member.
Superadmins == [p \in People |-> p = "sue"]
RolesIn ==
  [p \in People |->
     IF p = "tom" THEN [k \in {"k1"} |-> "staff"]
     ELSE IF p = "una" THEN [k \in {"k1", "k2"} |-> IF k = "k1" THEN "member" ELSE "admin"]
     ELSE <<>>]
Enabled ==
  [k \in {"k1", "k2"} |->
     IF k = "k1" THEN {"golf"} ELSE {"golf", "finance", "pos", "communications"}]

\* Two lanes of the hole at one time, one at the next.
SheetCells == {"w1", "y1", "w2"}
OneHole == [c \in Cells |-> "hole_1"]
TwoTimes == [c \in Cells |-> IF c = "w2" THEN 2 ELSE 1]
FourSeats == [c \in Cells |-> 4]
TwoBooked ==
  {[id |-> <<"b">>, day |-> "mon", cell |-> "w1", paid |-> "pending", players |-> {"ann", "bob"}],
   [id |-> <<"c">>, day |-> "tue", cell |-> "w2", paid |-> "waived", players |-> {"cat"}]}

OneSlotOf == [b \in Bookings |-> "s1"]
OneAndFour == [b \in Bookings |-> IF b = "b1" THEN 1 ELSE 4]

TwoSeats == [s \in SlotTimes |-> 2]
PairAndOne ==
  {[id |-> <<"b1">>, players |-> {"ann", "bob"}, row |-> "s1", status |-> "reserved"],
   [id |-> <<"b2">>, players |-> {"cat"}, row |-> "s2", status |-> "checked_in"]}

TwoCourses == <<"c1", "c2">>
OneDayOn == {0, 1}
\* A row is its tee time: one time may be on both courses, none on both days.
RowIds == {"r1", "r2", "r3", "x1", "x2", "q1"}
RowsOfDay ==
  [k \in {"c1", "c2"} \X OneDayOn \X {NoRow, 8} |->
     IF k[2] = 1 THEN {<<"q1">>}
     ELSE IF k[1] = "c1" THEN {<<"r1", "x1", "x2">>, <<"r1", "r2">>} ELSE {<<"r1", "r3">>, <<>>}]

-----------------------------------------------------------------------------
ConsoleInit ==
  /\ surface \in Surfaces
  /\ SessionInit /\ (surface = "session" \/ store.club = Nobody)
  /\ RouterInit /\ (surface = "routes" \/ nav.at = Root)
  /\ SheetInit /\ (surface = "sheet" \/ page.day = "mon")
  /\ DeskInit /\ (surface = "drawer" \/ desk.filter = "all")
  /\ SwapInit /\ (surface = "swap" \/ match)
  /\ PageInit /\ (surface = "page" \/ (at.course = "c1" /\ view.density = "default"))
  /\ GolfInit /\ (surface = "settings" \/ ground = {})
  /\ ClubsInit /\ (surface = "clubs" \/ (pick.route = NoClub /\ pick.home = NoClub))
  /\ MembersInit
  /\ CloseInit /\ (surface = "close" \/ wizard.period = "june")

\* The pages but one stay as they are.
Only(s) ==
  /\ surface = s /\ surface' = s
  /\ IF s = "session" THEN TRUE ELSE UNCHANGED sessionVars
  /\ IF s = "routes" THEN TRUE ELSE UNCHANGED nav
  /\ IF s = "sheet" THEN TRUE ELSE UNCHANGED sheetVars
  /\ IF s = "drawer" THEN TRUE ELSE UNCHANGED deskVars
  /\ IF s = "swap" THEN TRUE ELSE UNCHANGED swapVars
  /\ IF s = "page" THEN TRUE ELSE UNCHANGED pageVars
  /\ IF s = "settings" THEN TRUE ELSE UNCHANGED golfVars
  /\ IF s = "clubs" THEN TRUE ELSE UNCHANGED clubsVars
  /\ IF s = "members" THEN TRUE ELSE UNCHANGED membersVars
  /\ IF s = "close" THEN TRUE ELSE UNCHANGED closeVars
ConsoleNext ==
  \/ Only("session") /\ SessionNext
  \/ Only("routes") /\ RouterNext
  \/ Only("sheet") /\ SheetNext
  \/ Only("drawer") /\ DeskNext
  \/ Only("swap") /\ SwapNext
  \/ Only("page") /\ PageNext
  \/ Only("settings") /\ GolfNext
  \/ Only("clubs") /\ ClubsNext
  \/ Only("members") /\ MembersNext
  \/ Only("close") /\ CloseNext
ConsoleSpec ==
  /\ ConsoleInit
  /\ [][ConsoleNext]_<<surface, sessionVars, nav, sheetVars, deskVars, swapVars, pageVars,
                       golfVars, clubsVars, membersVars, closeVars>>
  /\ WF_sheetVars(surface = "sheet" /\ Replies)
  /\ WF_sheetVars(surface = "sheet" /\ (Poll \/ DeliverFetch))
  /\ SF_sheetVars(surface = "sheet" /\ ServeFetch)

ConsoleTypeOK ==
  /\ SessionTypeOK /\ RouterTypeOK /\ SheetTypeOK /\ DeskTypeOK /\ SwapTypeOK /\ PageTypeOK
  /\ GolfTypeOK /\ ClubsTypeOK /\ MembersTypeOK /\ CloseTypeOK
=============================================================================
