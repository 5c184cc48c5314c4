------------------------------- MODULE Router -------------------------------
(***************************************************************************)
(* Which page a person sees: the routes of the router, the guard in front  *)
(* of each shell, the pages and the addresses that redirect by themselves, *)
(* and the bootstrap the server computes from memberships, selected club   *)
(* and enabled modules.  The guard asks the bootstrap's menu, the links in *)
(* the shells are written down in the frontend: the two have to agree.     *)
(***************************************************************************)
EXTENDS Naturals, Sequences

CONSTANTS
  People, \* accounts
  IsSuperadmin, \* IsSuperadmin[p]
  RoleIn, \* RoleIn[p]: the clubs p is an active member of, each with the role
  ModulesOf, \* ModulesOf[c]: the modules switched on for club c
  NoOne \* nobody signed in, no club, no shell

ASSUME RouterAssumption ==
  NoOne \notin {"admin", "superadmin", "player"} /\ \A p \in People : IsSuperadmin[p] \in BOOLEAN

VARIABLE nav \* the tab: [at, who, club, boot, hops, consent]

Root == <<>>
Login == <<"login">>
Invitation == <<"accept-invitation">>
InvitationLink == <<"accept-invitation", "token">> \* ?token=, as it is mailed
SelectClubPath == <<"select-club">>
SelectClubAlias == <<"admin", "select-club">>
Onboarding(step) == <<"onboarding", step>>
Admin(page) == <<"admin">> \o page
Superadmin(page) == <<"superadmin", page>>
Player(page) == <<"player", page>>

AdminPages ==
  {<<"dashboard">>, <<"golf", "dashboard">>, <<"golf", "tee-sheet">>, <<"tee-sheet">>,
   <<"golf", "settings">>, <<"orders">>, <<"people", "dashboard">>, <<"members">>, <<"targets">>,
   <<"finance", "dashboard">>, <<"finance">>, <<"communications">>, <<"halfway">>, <<"pro-shop">>,
   <<"reports">>, <<"pos-terminal">>, <<"settings">>, <<"settings", "modules">>}
SuperadminPages == {"overview", "clubs", "accounting-profiles"}
PlayerPages == {"home", "book", "order", "profile"}
Pages == {Root, Login, Invitation, InvitationLink, SelectClubPath}
         \union {Onboarding(s) : s \in {"welcome", "popia", "complete"}}
         \union {Admin(p) : p \in AdminPages} \union {Superadmin(p) : p \in SuperadminPages}
         \union {Player(p) : p \in PlayerPages}
(* Addresses under a guard that show no page: "*" is any word that names none. *)
Sections == {"onboarding", "admin", "superadmin", "player"}
ToSettings == {<<"admin", "settings", "club">>, <<"admin", "settings", "profile">>}
Forwarded ==
  ToSettings \union {<<s>> : s \in Sections} \union {<<s, "*">> : s \in Sections}
  \union {<<"admin", "finance", "*">>, <<"superadmin", "clubs", "*">>, <<"player", "book", "*">>}
Forward(path) ==
  IF path \notin Forwarded THEN path
  ELSE IF path \in ToSettings THEN Admin(<<"settings">>)
  ELSE CASE Head(path) = "admin" -> Admin(<<"dashboard">>)
         [] Head(path) = "superadmin" -> Superadmin("overview")
         [] Head(path) = "player" -> Player("home")
         [] Head(path) = "onboarding" -> Onboarding("welcome")
Routes == Pages \union Forwarded \union {SelectClubAlias}
ShellOf(path) == IF path # Root /\ Head(path) \in {"admin", "superadmin", "player"}
                 THEN Head(path) ELSE NoOne

(* MENU_ITEMS: a path and the module it needs ("" for none).                 *)
MenuItems ==
  {<<Superadmin(p), "">> : p \in SuperadminPages}
  \union {<<Admin(p), "">> : p \in {<<"dashboard">>, <<"members">>, <<"reports">>, <<"targets">>,
                                    <<"people", "dashboard">>, <<"settings">>,
                                    <<"golf", "settings">>, <<"settings", "modules">>}}
  \union {<<Admin(p), "golf">> : p \in {<<"golf", "tee-sheet">>, <<"golf", "dashboard">>}}
  \union {<<Admin(p), "finance">> : p \in {<<"finance", "dashboard">>, <<"finance">>}}
  \union {<<Admin(p), "pos">> : p \in {<<"halfway">>, <<"pro-shop">>, <<"orders">>,
                                       <<"pos-terminal">>}}
  \union {<<Admin(<<"communications">>), "communications">>}
  \union {<<Player("home"), "">>, <<Player("profile"), "">>, <<Player("book"), "golf">>,
          <<Player("order"), "pos">>}
\* Mutant: the menu has the pages of every module.
MenuOfEveryModule(shell, modules) ==
  {item[1] : item \in {i \in MenuItems : ShellOf(i[1]) = shell}}
Menu(shell, modules) ==
  {item[1] : item \in {i \in MenuItems : ShellOf(i[1]) = shell /\ i[2] \in modules \union {""}}}

(* resolve_context and _resolve_shell: [club, shell, landing, choose, menu].   *)
ClubFor(p, asked) ==
  IF IsSuperadmin[p] \/ asked # NoOne THEN asked
  ELSE IF \E c \in DOMAIN RoleIn[p] : DOMAIN RoleIn[p] = {c}
       THEN CHOOSE c \in DOMAIN RoleIn[p] : TRUE ELSE NoOne
Bootstrap(p, asked) ==
  LET club == ClubFor(p, asked)
      choose == ~IsSuperadmin[p] /\ DOMAIN RoleIn[p] # {} /\ club = NoOne
      shell == IF IsSuperadmin[p] THEN "superadmin"
               ELSE IF club = NoOne THEN NoOne
               ELSE IF RoleIn[p][club] = "member" THEN "player" ELSE "admin"
      modules == IF club = NoOne THEN {} ELSE ModulesOf[club]
  IN [club |-> club, shell |-> shell, choose |-> choose, super |-> IsSuperadmin[p],
      menu |-> Menu(shell, modules),
      landing |-> CASE shell = "superadmin" -> Superadmin("clubs")
                    [] shell = "admin" -> Admin(<<"dashboard">>)
                    [] shell = "player" -> Player("home")
                    [] OTHER -> IF choose THEN SelectClubPath ELSE Login]
NoBoot == [club |-> NoOne, shell |-> NoOne, choose |-> FALSE, super |-> FALSE, menu |-> {},
           landing |-> Login]

-----------------------------------------------------------------------------
(* The guard: where it sends the tab, its own path when the page is shown.    *)
Covers(item, path) == Len(item) <= Len(path) /\ SubSeq(path, 1, Len(item)) = item
Aliases(item) == IF item = Admin(<<"settings">>)
                 THEN {Admin(<<"golf", "settings">>), Admin(<<"settings", "modules">>)} ELSE {}
Listed(boot, path) ==
  LET items == {i \in boot.menu : ShellOf(i) = ShellOf(path)}
  IN \/ items = {} \/ path = <<ShellOf(path)>>
     \/ \E i \in items : Covers(i, path) \/ \E a \in Aliases(i) : Covers(a, path)
(* A superadmin who selected a club may enter its admin shell.               *)
Bridge(boot, path) == ShellOf(path) = "admin" /\ boot.super /\ boot.club # NoOne
NoAccess(boot) == boot.shell = NoOne /\ ~boot.choose \* "No active club access"
ProtectedRoute(boot, path) ==
  IF boot.choose /\ path # SelectClubPath THEN SelectClubPath
  ELSE IF NoAccess(boot) THEN path
  ELSE IF ShellOf(path) = NoOne THEN path
  ELSE IF ShellOf(path) # boot.shell /\ boot.shell # NoOne
       THEN IF Bridge(boot, path) THEN path ELSE boot.landing
  ELSE IF Listed(boot, path) THEN path ELSE boot.landing
(* Only what the guard lets through is sent on.                              *)
Guarded(boot, path) ==
  IF NoAccess(boot) \/ ProtectedRoute(boot, path) # path THEN ProtectedRoute(boot, path)
  ELSE Forward(path)
RootRedirect(n) == IF n.who = NoOne THEN Login ELSE n.boot.landing
LoginPage(n) == IF n.who = NoOne THEN Login ELSE n.boot.landing
(* A signed-in person who comes with a token stays, to activate it.           *)
InvitationPage(n) == IF n.who = NoOne \/ n.at = InvitationLink THEN n.at ELSE n.boot.landing
GoesTo(n) ==
  CASE n.at = Root -> RootRedirect(n)
    [] n.at = Login -> LoginPage(n)
    [] n.at \in {Invitation, InvitationLink} -> InvitationPage(n)
    [] n.at = SelectClubAlias -> SelectClubPath
    [] OTHER -> IF n.who = NoOne THEN Login ELSE Guarded(n.boot, n.at)
AtRest == GoesTo(nav) = nav.at

RouterInit ==
  nav \in [club : {NoOne}, at : Routes, who : {NoOne}, boot : {NoBoot}, hops : {0},
           consent : {TRUE}]

Visit(path) == [nav EXCEPT !.at = path, !.hops = 0, !.consent = TRUE]
Redirect == ~AtRest /\ nav' = [nav EXCEPT !.at = GoesTo(nav), !.hops = @ + 1]

(* The sign-in and the invitation form go to the root when they succeed.      *)
SubmitLogin(p) ==
  /\ nav.at \in {Login, Invitation, InvitationLink} /\ nav.who = NoOne
  /\ nav' = [Visit(Root) EXCEPT !.who = p, !.boot = Bootstrap(p, nav.club)]
(* An invitation to a club the person is a member of already.                 *)
ActivateInvitation ==
  /\ nav.at = InvitationLink /\ nav.who # NoOne
  /\ nav' = [Visit(Root) EXCEPT !.boot = Bootstrap(nav.who, nav.club)]
SignOut ==
  /\ nav.who # NoOne /\ AtRest
  /\ nav' = [Visit(nav.at) EXCEPT !.who = NoOne, !.club = NoOne, !.boot = NoBoot]
SelectClubPage(c) ==
  /\ nav.at = SelectClubPath /\ AtRest /\ nav.who # NoOne
  /\ IsSuperadmin[nav.who] \/ c \in DOMAIN RoleIn[nav.who]
  /\ nav' = [Visit(Root) EXCEPT !.club = c, !.boot = Bootstrap(nav.who, c)]
(* An address typed by hand.                                                 *)
Address(path) == AtRest /\ nav' = Visit(path)

(* The links of the three shells and of the pages that only link.             *)
AdminSidebar == {Admin(p) : p \in {<<"dashboard">>, <<"tee-sheet">>, <<"pos-terminal">>,
                                   <<"members">>, <<"finance">>, <<"finance", "dashboard">>,
                                   <<"golf", "settings">>, <<"communications">>, <<"reports">>,
                                   <<"settings">>}}
DashboardLinks == {Admin(<<"golf", "tee-sheet">>), Admin(<<"finance">>)}
ModuleLinks == {Admin(<<"settings">>), Admin(<<"golf", "settings">>), Admin(<<"finance">>),
                Admin(<<"communications">>), Admin(<<"orders">>)}
SuperadminSidebar(boot) == {Superadmin(p) : p \in SuperadminPages} \intersect boot.menu
PlayerTabs(boot) == {Player(p) : p \in PlayerPages} \intersect boot.menu
Links ==
  CASE ShellOf(nav.at) = "admin" ->
         AdminSidebar
         \union (IF nav.at = Admin(<<"dashboard">>) THEN DashboardLinks ELSE {})
         \union (IF nav.at = Admin(<<"settings", "modules">>) THEN ModuleLinks ELSE {})
    [] ShellOf(nav.at) = "superadmin" -> SuperadminSidebar(nav.boot)
    [] ShellOf(nav.at) = "player" -> PlayerTabs(nav.boot)
    [] OTHER -> {}
Follow(path) ==
  /\ AtRest /\ nav.who # NoOne /\ nav.boot.shell # NoOne
  /\ path \in Links /\ nav' = Visit(path)

(* The steps of the club set-up; consent is asked on the second.              *)
BeginSetup == /\ nav.at = Onboarding("welcome") /\ AtRest
              /\ nav' \in {Visit(Onboarding("popia")), Visit(Admin(<<"dashboard">>))}
Consent == /\ nav.at = Onboarding("popia") /\ AtRest
           /\ nav' = [nav EXCEPT !.consent = ~@]
LeaveConsent == /\ nav.at = Onboarding("popia") /\ AtRest
                /\ \/ nav' \in {Visit(Onboarding("welcome")), Visit(Admin(<<"dashboard">>))}
                   \/ nav.consent /\ nav' = Visit(Onboarding("complete"))
FinishSetup == /\ nav.at = Onboarding("complete") /\ AtRest
               /\ nav' = Visit(Admin(<<"dashboard">>))

RouterNext ==
  \/ Redirect \/ SignOut \/ ActivateInvitation
  \/ \E p \in People : SubmitLogin(p)
  \/ \E c \in DOMAIN ModulesOf : SelectClubPage(c)
  \/ \E path \in Routes : Address(path) \/ Follow(path)
  \/ BeginSetup \/ Consent \/ LeaveConsent \/ FinishSetup
RouterSpec == RouterInit /\ [][RouterNext]_nav

-----------------------------------------------------------------------------
(* Properties *)

RoutedClubs == DOMAIN ModulesOf \union (UNION {DOMAIN RoleIn[p] : p \in People}) \union {NoOne}
Boots == [club : RoutedClubs, shell : {"admin", "superadmin", "player", NoOne}, choose : BOOLEAN,
          super : BOOLEAN, menu : SUBSET Pages, landing : Pages]
RouterTypeOK ==
  nav \in [club : RoutedClubs, at : Routes, who : People \union {NoOne}, boot : Boots,
           hops : 0..2, consent : BOOLEAN]

(* However a person gets to an address, one redirect later a page is shown    *)
(* that stays: the landing page of the bootstrap is never a page its own menu *)
(* refuses, and no two guards send the tab to one another.  Only who is not   *)
(* signed in may be redirected twice, from the old address of the club        *)
(* selection over the new one to the login page.                              *)
RedirectsSettle ==
  /\ nav.hops <= 1 \/ (nav.hops = 2 /\ nav.at = Login /\ nav.who = NoOne)
  /\ nav.boot.shell # NoOne => Listed(nav.boot, nav.boot.landing)

(* A member of staff or a player never sees a page of a module their club has *)
(* switched off, by whatever link or address they came.                       *)
NeedsModule == {item \in MenuItems : item[2] # ""}
OnlyEnabledModules ==
  (AtRest /\ nav.boot.shell \in {"admin", "player"} /\ ShellOf(nav.at) = nav.boot.shell)
    => \A item \in NeedsModule : Covers(item[1], nav.at) => item[2] \in ModulesOf[nav.boot.club]

(* Both: the guard lets everyone arrive somewhere, and nobody where their club *)
(* has nothing.                                                               *)
GuardIsRight == RedirectsSettle /\ OnlyEnabledModules

(* In a club with every module switched on, each link of the admin sidebar    *)
(* opens the page it names for the club's staff (docs/PHASE_LOG.md:626).       *)
AllModules == {item[2] : item \in NeedsModule}
SidebarOpens ==
  (AtRest /\ nav.boot.shell = "admin" /\ ModulesOf[nav.boot.club] = AllModules)
    => \A path \in AdminSidebar : GoesTo([nav EXCEPT !.at = path]) = path
=============================================================================
