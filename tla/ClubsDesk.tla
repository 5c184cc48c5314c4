------------------------------ MODULE ClubsDesk ------------------------------
(***************************************************************************)
(* The superadmin's page of clubs: choosing one, typing its onboarding     *)
(* details, stepping through the onboarding, pausing, deleting, inviting.  *)
(* The chosen club follows the route, the list and the session; the form   *)
(* follows whatever the chosen club's details are read to be.  Choosing a  *)
(* club has the session loaded again: the page goes away with all it       *)
(* holds, and is mounted anew from the route and the cache.                *)
(***************************************************************************)
EXTENDS Naturals, FiniteSets

CONSTANTS
  ClubIds, \* clubs that may be registered
  Opened, \* those registered when the page opens
  WentLive, \* those that finished onboarding before
  Details, \* what the form of a step may say
  NoClub, \* no club, nothing read
  MaxPosts \* bound: requests sent

ASSUME DeskAssumption ==
  /\ Opened \subseteq ClubIds /\ NoClub \notin ClubIds /\ Details # {} /\ MaxPosts \in Nat

VARIABLES
  registry, \* ClubIds -> NoClub or [step, text, active]
  listed, \* the cached list of clubs
  read, \* ClubIds -> the onboarding detail cached, or NoClub
  cover, \* [away, loading]: another page is open, the session is being loaded
  boots, \* boots[c]: the bootstraps on their way that were asked for club c
  pick, \* [route, chosen, home]: ?clubId, selectedClubId, the session's club
  typed, \* [of, text]: the step's form and the club it was filled for
  invited, \* the club of latestInvitation
  dialogs, \* which of "create" and "delete" are open
  posts, \* requests on their way; the page's mutations watch the latest of each kind
  posted \* requests sent (bound)

clubsVars ==
  <<registry, listed, read, cover, boots, pick, typed, invited, dialogs, posts, posted>>

ClubOrNone == ClubIds \union {NoClub}
Mounted == ~cover.away /\ ~cover.loading
Registered == {c \in ClubIds : registry[c] # NoClub}
FirstOf(list) == IF list = {} THEN NoClub ELSE CHOOSE c \in list : TRUE
NewClub(text) == [step |-> 1, active |-> TRUE, text |-> text]
BlankForm == [of |-> NoClub, text |-> CHOOSE t \in Details : TRUE]

(* The effects that run after every change: the route decides if it names a   *)
(* listed club, then the club already chosen, the session's, the first.       *)
Chosen(list, p) ==
  IF list = {} THEN NoClub
  ELSE IF p.route \in list THEN p.route
  ELSE IF p.chosen \in list THEN p.chosen
  ELSE IF p.home \in list THEN p.home ELSE FirstOf(list)
\* Mutant: what has been typed is not replaced.
FilledOnce(c, rd) ==
  IF c = NoClub \/ rd[c] = NoClub \/ typed.of # NoClub THEN typed
  ELSE [of |-> c, text |-> rd[c].text]
(* Another club's details, or new details of this one, replace what is typed. *)
Filled(c, rd) ==
  IF c = NoClub \/ rd[c] = NoClub \/ (c = pick.chosen /\ rd[c] = read[c]) THEN typed
  ELSE [of |-> c, text |-> rd[c].text]
(* A page that is not mounted leaves the cache changed and nothing else.      *)
Renders(list, p, rd) ==
  LET c == Chosen(list, p) IN
  /\ listed' = list /\ read' = rd
  /\ pick' = IF Mounted THEN [p EXCEPT !.chosen = c] ELSE p
  /\ typed' = IF Mounted THEN Filled(c, rd) ELSE typed
  /\ UNCHANGED <<cover, boots>>
KeepInvitation == invited' = IF pick'.chosen = pick.chosen THEN invited ELSE NoClub

(* A mounted page first has the session's club and its form, if it is cached. *)
FormOf(c, form) ==
  IF c = NoClub \/ read[c] = NoClub THEN form ELSE [of |-> c, text |-> read[c].text]
Mounts(p) ==
  LET c == Chosen(listed, [p EXCEPT !.chosen = p.home]) IN
  pick' = [p EXCEPT !.chosen = c] /\ typed' = FormOf(c, FormOf(p.home, BlankForm))
Unwatched(ps) == {[p EXCEPT !.watched = FALSE] : p \in ps}
TornDown(p) ==
  /\ pick' = [p EXCEPT !.chosen = NoClub] /\ typed' = BlankForm
  /\ invited' = NoClub /\ dialogs' = {}
(* The route, the choice, and a bootstrap that ProtectedRoute shows as        *)
(* "Loading session" in the page's place.                                     *)
syncSelectedClub(c) ==
  /\ TornDown(IF cover.away THEN pick ELSE [pick EXCEPT !.route = c])
  /\ cover' = [cover EXCEPT !.loading = TRUE] /\ boots' = [boots EXCEPT ![c] = @ + 1]

ClubsInit ==
  /\ registry = [c \in ClubIds |-> IF c \in Opened THEN NewClub(BlankForm.text) ELSE NoClub]
  /\ listed = {} /\ read = [c \in ClubIds |-> NoClub]
  /\ cover = [away |-> FALSE, loading |-> FALSE] /\ boots = [c \in ClubOrNone |-> 0]
  /\ pick \in [route : Opened \union {NoClub}, chosen : {NoClub}, home : Opened \union {NoClub}]
  /\ typed = BlankForm /\ invited = NoClub /\ dialogs = {} /\ posts = {} /\ posted = 0

-----------------------------------------------------------------------------
(* The queries, whenever they are read again; what a club chosen before was    *)
(* asked for may still come.                                                  *)
ListRead ==
  /\ Renders(Registered, pick, read) /\ KeepInvitation
  /\ UNCHANGED <<registry, dialogs, posts, posted>>
DetailRead(c) ==
  /\ c \in Registered /\ Renders(listed, pick, [read EXCEPT ![c] = registry[c]])
  /\ KeepInvitation /\ UNCHANGED <<registry, dialogs, posts, posted>>

(* The bootstrap is answered, or fails and leaves the session's club: in both *)
(* cases nothing is loading any more, and the page is back.                   *)
BootAnswer(c) ==
  /\ boots[c] > 0 /\ boots' = [boots EXCEPT ![c] = @ - 1]
  /\ cover' = [cover EXCEPT !.loading = FALSE]
  /\ \E p \in {pick, [pick EXCEPT !.home = c]} :
       IF cover.away THEN pick' = p /\ UNCHANGED <<typed, invited>>
       ELSE IF cover.loading THEN Mounts(p) /\ UNCHANGED invited
       ELSE /\ pick' = [p EXCEPT !.chosen = Chosen(listed, p)]
            /\ typed' = Filled(pick'.chosen, read) /\ KeepInvitation
  /\ UNCHANGED <<registry, listed, read, dialogs, posts, posted>>
LeavePage ==
  /\ Mounted /\ TornDown(pick) /\ cover' = [cover EXCEPT !.away = TRUE]
  /\ posts' = Unwatched(posts) /\ UNCHANGED <<registry, listed, read, boots, posted>>
(* By the sidebar's link, or back to the address left.                        *)
ReturnToPage ==
  /\ cover.away /\ cover' = [cover EXCEPT !.away = FALSE]
  /\ \E p \in {pick, [pick EXCEPT !.route = NoClub]} :
       IF cover.loading THEN pick' = p /\ UNCHANGED typed ELSE Mounts(p)
  /\ UNCHANGED <<registry, listed, read, boots, invited, dialogs, posts, posted>>

WorkspaceShown == Mounted /\ pick.chosen # NoClub /\ read[pick.chosen] # NoClub
(* isPending: of the latest of its kind that this page, since it was mounted, *)
(* has sent.                                                                  *)
Underway(op) == \E p \in posts : p.op = op /\ p.watched
Post(op, c, with) ==
  /\ posted < MaxPosts /\ posted' = posted + 1
  /\ posts' = {p \in posts : p.op # op} \union Unwatched({p \in posts : p.op = op})
              \union {[club |-> c, step |-> "sent", n |-> posted', got |-> NoClub, op |-> op,
                       with |-> with, typedFor |-> typed.of, watched |-> TRUE]}
  /\ UNCHANGED <<registry, listed, read, cover, boots, pick, typed, invited>>

handleSelectClub(c) ==
  /\ Mounted /\ c \in listed /\ syncSelectedClub(c) /\ posts' = Unwatched(posts)
  /\ UNCHANGED <<registry, listed, read, posted>>
(* To the club's own workspace, once the session is loaded.                   *)
openAdminWorkspace ==
  /\ WorkspaceShown /\ TornDown([pick EXCEPT !.route = pick.chosen])
  /\ cover' = [away |-> TRUE, loading |-> TRUE]
  /\ boots' = [boots EXCEPT ![pick.chosen] = @ + 1] /\ posts' = Unwatched(posts)
  /\ UNCHANGED <<registry, listed, read, posted>>
TypeDetails(t) ==
  /\ WorkspaceShown /\ typed' = [typed EXCEPT !.text = t]
  /\ UNCHANGED <<registry, listed, read, cover, boots, pick, invited, dialogs, posts, posted>>
ToggleDialog(d) ==
  /\ Mounted /\ (d = "delete" /\ d \notin dialogs => WorkspaceShown /\ ~Underway("delete"))
  /\ dialogs' = IF d \in dialogs THEN dialogs \ {d} ELSE dialogs \union {d}
  /\ UNCHANGED <<registry, listed, read, cover, boots, pick, typed, invited, posts, posted>>

(* A draft may be saved while another save is on its way; a step may not be   *)
(* completed or returned from, unless the page was mounted anew since.        *)
persistStep(action) ==
  /\ WorkspaceShown /\ (action # "save_draft" => ~Underway("save"))
  /\ action = "return_to_previous_step" => read[pick.chosen].step > 1
  /\ Post("save", pick.chosen,
          [action |-> action, text |-> typed.text, acted |-> read[pick.chosen].step])
  /\ UNCHANGED dialogs
handleToggleActive ==
  /\ WorkspaceShown /\ ~Underway("status") /\ Post("status", pick.chosen, ~read[pick.chosen].active)
  /\ UNCHANGED dialogs
handleDeleteClub ==
  /\ WorkspaceShown /\ "delete" \in dialogs /\ ~Underway("delete")
  /\ Post("delete", pick.chosen, FirstOf(listed \ {pick.chosen}))
  /\ dialogs' = dialogs \ {"delete"}
handleCreateClub(t) ==
  /\ Mounted /\ "create" \in dialogs /\ ~Underway("create")
  /\ \E c \in ClubIds \ (Registered \union {p.club : p \in posts}) : Post("create", c, t)
  /\ UNCHANGED dialogs
(* Assigning a user and inviting one read the club's details again.           *)
handleCreateInvitation ==
  /\ WorkspaceShown /\ ~Underway("invite") /\ Post("invite", pick.chosen, NoClub)
  /\ UNCHANGED dialogs

-----------------------------------------------------------------------------
(* The server.  A stale step is refused, and so is deleting a live club.      *)
Stepped(club, with) ==
  CASE with.action = "save_draft" -> club.step
    [] with.action = "complete_step" -> IF club.step = 4 THEN 4 ELSE club.step + 1
    [] OTHER -> club.step - 1
update_onboarding(p) ==
  [registry[p.club] EXCEPT !.text = p.with.text, !.step = Stepped(registry[p.club], p.with)]
Declines(p) ==
  \/ p.op # "create" /\ registry[p.club] = NoClub
  \/ p.op = "save" /\ p.with.acted # registry[p.club].step
  \/ p.op = "delete" /\ p.club \in WentLive /\ registry[p.club].active
Served(p) ==
  CASE p.op = "create" -> NewClub(p.with)
    [] p.op = "save" -> update_onboarding(p)
    [] p.op = "status" -> [registry[p.club] EXCEPT !.active = p.with]
    [] p.op = "delete" -> NoClub
    [] OTHER -> registry[p.club]
(* Read back after the commit: what the answer carries.  A deletion of a club *)
(* that is gone counts as done.                                               *)
ServePost(p) ==
  /\ p.step = "sent"
  /\ registry' = IF Declines(p) THEN registry ELSE [registry EXCEPT ![p.club] = Served(p)]
  /\ posts' = (posts \ {p}) \union
       {[p EXCEPT !.step = "served",
                  !.got = IF Declines(p) /\ p.op # "delete" THEN NoClub ELSE registry'[p.club]]}
  /\ UNCHANGED <<listed, read, cover, boots, pick, typed, invited, dialogs, posted>>

(* The answers, wherever the page is by now.  A save or a pause puts its       *)
(* answer into the cache, the others have what the screen shows read again.   *)
Known(p) ==
  [read EXCEPT ![p.club] =
     IF p.op = "save" \/ (p.op = "status" /\ @ # NoClub) THEN p.got
     ELSE IF p.op = "invite" /\ Mounted /\ p.club = pick.chosen /\ registry[p.club] # NoClub
          THEN registry[p.club] ELSE @]
ListNow == IF Mounted THEN Registered ELSE listed
Learns(p) ==
  /\ \/ /\ p.op = "delete" /\ p.got = NoClub
        /\ Renders(listed \ {p.club}, pick, [read EXCEPT ![p.club] = NoClub])
     \/ p.op \notin {"create", "delete"} /\ p.got # NoClub /\ Renders(ListNow, pick, Known(p))
     \/ /\ (p.op = "delete" /\ p.got # NoClub) \/ (p.op \in {"save", "invite"} /\ p.got = NoClub)
        /\ Renders(listed, pick, read)
  /\ invited' = IF p.op = "invite" /\ p.got # NoClub /\ p.watched THEN p.club
                ELSE IF pick'.chosen = pick.chosen THEN invited ELSE NoClub
  /\ posts' = (posts \ {p}) \union
              IF p.op = "delete" /\ p.got = NoClub THEN {[p EXCEPT !.step = "fallback"]} ELSE {}
  /\ UNCHANGED dialogs
(* A club created is chosen; one that is gone (recoverMissingClub) is left.    *)
MovesOn(p) ==
  /\ \/ p.op = "create" /\ listed' = ListNow /\ syncSelectedClub(p.club)
     \/ /\ p.op = "status" /\ p.got = NoClub /\ listed' = Registered
        /\ syncSelectedClub(FirstOf(Registered))
  /\ posts' = Unwatched(posts \ {p}) /\ UNCHANGED read
Answer(p) ==
  /\ p.step = "served" /\ (Learns(p) \/ MovesOn(p)) /\ UNCHANGED <<registry, posted>>
(* When the list is read after a deletion, the page moves to the club that    *)
(* was next when the deletion was asked for, wherever it is by now.           *)
FallBack(p) ==
  /\ p.step = "fallback" /\ posts' = Unwatched(posts \ {p})
  /\ listed' = ListNow /\ syncSelectedClub(p.with)
  /\ UNCHANGED <<registry, read, posted>>
(* Another superadmin removes a club.                                         *)
RemovedElsewhere(c) ==
  /\ c \in Registered \ WentLive /\ posted < MaxPosts /\ posted' = posted + 1
  /\ registry' = [registry EXCEPT ![c] = NoClub]
  /\ UNCHANGED <<listed, read, cover, boots, pick, typed, invited, dialogs, posts>>

ClubsNext ==
  \/ ListRead \/ LeavePage \/ ReturnToPage \/ openAdminWorkspace
  \/ handleToggleActive \/ handleDeleteClub \/ handleCreateInvitation
  \/ \E c \in ClubIds : DetailRead(c) \/ handleSelectClub(c) \/ RemovedElsewhere(c)
  \/ \E c \in ClubOrNone : BootAnswer(c)
  \/ \E t \in Details : TypeDetails(t) \/ handleCreateClub(t)
  \/ \E d \in {"create", "delete"} : ToggleDialog(d)
  \/ \E a \in {"save_draft", "complete_step", "return_to_previous_step"} : persistStep(a)
  \/ \E p \in posts : ServePost(p) \/ Answer(p) \/ FallBack(p)
ClubsSpec == ClubsInit /\ [][ClubsNext]_clubsVars

-----------------------------------------------------------------------------
Club == [step : 1..4, active : BOOLEAN, text : Details]
Draft == [action : {"save_draft", "complete_step", "return_to_previous_step"}, text : Details,
          acted : 1..4]
Asks(op) ==
  CASE op = "create" -> Details [] op = "save" -> Draft [] op = "status" -> BOOLEAN
    [] op = "delete" -> ClubOrNone [] OTHER -> {NoClub}
RequestOK(p) ==
  /\ p \in [club : ClubIds, step : {"sent", "served", "fallback"}, n : 1..MaxPosts,
            got : Club \union {NoClub}, op : {"create", "save", "status", "delete", "invite"},
            with : {p.with}, typedFor : ClubOrNone, watched : BOOLEAN]
  /\ p.with \in Asks(p.op)
ClubsTypeOK ==
  /\ registry \in [ClubIds -> Club \union {NoClub}] /\ read \in [ClubIds -> Club \union {NoClub}]
  /\ listed \subseteq ClubIds
  /\ cover \in [away : BOOLEAN, loading : BOOLEAN] /\ boots \in [ClubOrNone -> Nat]
  /\ pick \in [route : ClubOrNone, chosen : ClubOrNone, home : ClubOrNone]
  /\ typed \in [of : ClubOrNone, text : Details] /\ invited \in ClubOrNone
  /\ dialogs \subseteq {"create", "delete"}
  /\ (\A p \in posts : RequestOK(p)) /\ posted \in 0..MaxPosts
(* What is typed over one club's details is saved to that club: no selection, *)
(* deletion, fallback, reload or late answer puts it under another.           *)
DetailsStayWithTheirClub ==
  /\ WorkspaceShown => typed.of = pick.chosen
  /\ \A p \in posts : p.op = "save" => p.typedFor = p.club
=============================================================================
