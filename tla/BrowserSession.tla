--------------------------- MODULE BrowserSession ---------------------------
(***************************************************************************)
(* The session of one browser tab: SessionProvider's state, the access     *)
(* token and the selected club in local storage, the refresh cookie, and   *)
(* the requests that are on their way, against the auth_sessions of the    *)
(* server.  A refresh token works once.  A request that is told 401 waits  *)
(* for the refresh that all requests of the tab share, and is sent again;  *)
(* the provider refreshes by itself when that was not enough.  A request   *)
(* or its answer may be lost, an error may be answered in its place, and   *)
(* the tab may be reloaded.                                                *)
(***************************************************************************)
EXTENDS Naturals, FiniteSets, Sequences

CONSTANTS
  Users, \* people with an account
  ClubOf, \* ClubOf[u]: the club of u's one active membership
  Calls, \* requests that may be on their way at once, numbered
  Signings, \* bound: how many sessions the server issues
  Mishaps, \* bound: tokens that run out, sessions that end, losses, error answers, reloads
  Settled, \* a user signs in only when no request of the last user is on its way
  Nobody \* no user, no club, no bootstrap

ASSUME SessionAssumption ==
  /\ Signings \in Nat /\ Mishaps \in Nat /\ Settled \in BOOLEAN
  /\ Calls \subseteq Nat /\ Nobody \notin Users

VARIABLES
  auth, \* the sessions issued: sequence of [user, live, fresh, next]
  jar, \* the refresh cookie: number of a session, 0 for none
  store, \* local storage: [token, club]
  tab, \* SessionProvider: [token, seen, boot, loading, initialized, failed]
  shared, \* refreshInFlight: [step, cookie, got]
  calls, \* Calls -> request
  strays, \* cookies of refreshes the tab has given up and the server may still get
  astray, \* history: a refresh since the last sign-in was lost or answered with an error
  mishaps \* how many things went wrong

troubles == <<strays, astray, mishaps>>
sessionVars == <<auth, jar, store, tab, shared, calls, strays, astray, mishaps>>

Clubs == {ClubOf[u] : u \in Users}
Tokens == 0..Len(auth)
Idle == [kind |-> "none"]
NoRefresh == [step |-> "none", cookie |-> 0, got |-> 0]
(* One request as its caller awaits it: what it was sent with (token, club,  *)
(* cookie), whether apiRequest may still refresh and the provider still       *)
(* recover, and the answer: a status, a token, a bootstrap.                   *)
Call(kind, token, club, retry, again) ==
  [status |-> 0, club |-> club, step |-> "sent", boot |-> Nobody, kind |-> kind,
   cookie |-> jar, got |-> 0, token |-> token, retry |-> retry, again |-> again, user |-> Nobody]
Free == {i \in Calls : calls[i].kind = "none"}
FreeCall(i) == i \in Free /\ \A j \in Free : i <= j

SessionInit ==
  /\ auth = <<>> /\ jar = 0
  /\ store \in [club : Clubs \union {Nobody}, token : {0}]
  /\ tab = [boot |-> Nobody, token |-> 0, seen |-> 0, loading |-> FALSE,
            initialized |-> FALSE, failed |-> FALSE]
  /\ shared = NoRefresh
  /\ calls = [i \in Calls |-> Idle]
  /\ strays = {} /\ astray = FALSE /\ mishaps = 0

-----------------------------------------------------------------------------
(* What the user and the clock do.                                           *)

(* The login form and the invitation form: a password, then a token.         *)
SignIn(i, u) ==
  /\ FreeCall(i) /\ tab.token = 0
  /\ \A j \in Calls : calls[j].kind \notin {"login", "logout"}
  /\ Settled => Free = Calls /\ shared.step = "none"
  /\ calls' = [calls EXCEPT ![i] = [Call("login", 0, Nobody, FALSE, FALSE) EXCEPT !.user = u]]
  /\ UNCHANGED <<auth, jar, store, tab, shared, troubles>>

LogOut(i) ==
  /\ FreeCall(i) /\ tab.token # 0
  /\ \A j \in Calls : calls[j].kind # "logout"
  /\ calls' = [calls EXCEPT ![i] = Call("logout", store.token, Nobody, FALSE, FALSE)]
  /\ UNCHANGED <<auth, jar, store, tab, shared, troubles>>

(* getAccessToken() ?? options.accessToken *)
TokenToSend(given) == IF store.token # 0 THEN store.token ELSE given

(* A page of the signed-in user asks the server for something.               *)
AskForPage(i) ==
  /\ FreeCall(i) /\ tab.token # 0 /\ tab.boot # Nobody
  /\ calls' = [calls EXCEPT ![i] = Call("page", TokenToSend(tab.token), store.club, TRUE, FALSE)]
  /\ UNCHANGED <<auth, jar, store, tab, shared, troubles>>

(* setLoading(true) before fetchBootstrap                                    *)
Loading(t) == [t EXCEPT !.loading = TRUE, !.failed = FALSE]

SelectClub(i) ==
  /\ FreeCall(i) /\ tab.token # 0 /\ tab.boot # Nobody
  /\ store' = [store EXCEPT !.club = ClubOf[tab.boot]]
  /\ tab' = Loading(tab)
  /\ calls' = [calls EXCEPT ![i] =
                 Call("boot", TokenToSend(tab.token), ClubOf[tab.boot], TRUE, FALSE)]
  /\ UNCHANGED <<auth, jar, shared, troubles>>

(* The effect on [accessToken] of the provider.                              *)
TokenEffect(i) ==
  /\ FreeCall(i)
  /\ tab.seen # tab.token \/ (~tab.initialized /\ tab.token = 0)
  /\ IF tab.token = 0
     THEN /\ tab' = [tab EXCEPT !.seen = 0, !.initialized = TRUE]
          /\ UNCHANGED calls
     ELSE /\ tab' = [Loading(tab) EXCEPT !.seen = tab.token]
          /\ calls' = [calls EXCEPT ![i] =
                         Call("boot", TokenToSend(tab.token), store.club, TRUE, FALSE)]
  /\ UNCHANGED <<auth, jar, store, shared, troubles>>

Mishap == mishaps < Mishaps /\ mishaps' = mishaps + 1
(* An access token runs out; a refresh answers before its own new one does.  *)
AccessLapses(n) ==
  /\ n \in 1..Len(auth) /\ auth[n].fresh /\ shared.step = "none"
  /\ \A i \in Calls : calls[i].kind \in {"page", "boot"} => calls[i].retry /\ calls[i].step # "own"
  /\ auth' = [auth EXCEPT ![n].fresh = FALSE] /\ Mishap
  /\ UNCHANGED <<jar, store, tab, shared, calls, strays, astray>>

(* The refresh session expires, or the server revokes it.                    *)
SessionEnds(n) ==
  /\ n \in 1..Len(auth) /\ auth[n].live
  /\ auth' = [auth EXCEPT ![n].live = FALSE] /\ Mishap
  /\ UNCHANGED <<jar, store, tab, shared, calls, strays, astray>>

-----------------------------------------------------------------------------
(* The server.                                                               *)

Session(u) == [user |-> u, fresh |-> TRUE, live |-> TRUE, next |-> 0]
Issue(u) == Append(auth, Session(u))
(* AuthService.refresh: revoke the old session, issue the new one that        *)
(* replaces it.                                                               *)
Rotated(n) == Append([auth EXCEPT ![n].live = FALSE, ![n].next = Len(auth) + 1],
                     Session(auth[n].user))
Renewable(n) == n # 0 /\ auth[n].live
Renews(n) == Renewable(n) /\ Len(auth) < Signings /\ auth' = Rotated(n)
Valid(token) == token # 0 /\ auth[token].fresh
(* resolve_context for a user with one active membership.                    *)
MayEnter(token, club) == club \in {Nobody, ClubOf[auth[token].user]}

(* A request reaches the server; its answer is on its way.                   *)
Serve(i) ==
  LET call == calls[i]
      Answer(s, n) == calls' = [calls EXCEPT ![i].step = "answered", ![i].status = s, ![i].got = n]
  IN /\ call.kind # "none" /\ call.step = "sent"
     /\ \/ /\ call.kind = "login" /\ Len(auth) < Signings
           /\ auth' = Issue(call.user) /\ Answer(200, Len(auth) + 1)
        \/ /\ call.kind = "logout"
           /\ auth' = IF call.cookie = 0 THEN auth ELSE [auth EXCEPT ![call.cookie].live = FALSE]
           /\ Answer(200, 0)
        \/ /\ call.kind \in {"page", "boot"}
           /\ UNCHANGED auth
           /\ IF ~Valid(call.token) THEN Answer(401, 0)
              ELSE IF ~MayEnter(call.token, call.club) THEN Answer(403, 0)
              ELSE calls' = [calls EXCEPT ![i].step = "answered", ![i].status = 200,
                                          ![i].boot = auth[call.token].user]
     /\ UNCHANGED <<jar, store, tab, shared, troubles>>

(* The provider's own authApi.refresh().                                     *)
ServeOwn(i) ==
  /\ calls[i].kind = "boot" /\ calls[i].step = "own"
  /\ \/ /\ Renews(calls[i].cookie)
        /\ calls' = [calls EXCEPT ![i].step = "ownAnswered", ![i].status = 200,
                                  ![i].got = Len(auth) + 1]
     \/ /\ ~Renewable(calls[i].cookie) /\ UNCHANGED auth
        /\ calls' = [calls EXCEPT ![i].step = "ownAnswered", ![i].status = 401]
  /\ UNCHANGED <<jar, store, tab, shared, troubles>>

ServeShared ==
  /\ shared.step = "sent"
  /\ \/ /\ Renews(shared.cookie)
        /\ shared' = [shared EXCEPT !.step = "answered", !.got = Len(auth) + 1]
     \/ /\ ~Renewable(shared.cookie) /\ UNCHANGED auth
        /\ shared' = [shared EXCEPT !.step = "answered"]
  /\ UNCHANGED <<jar, store, tab, calls, troubles>>

(* A refresh the tab no longer waits for reaches the server after all.       *)
ServeStray(n) ==
  /\ n \in strays /\ Renews(n)
  /\ strays' = strays \ {n}
  /\ UNCHANGED <<jar, store, tab, shared, calls, astray, mishaps>>

-----------------------------------------------------------------------------
(* The tab reads an answer.                                                  *)

\* Mutant: the bootstrap is forgotten, the token is not.
TokenKept(t) == [t EXCEPT !.boot = Nobody, !.loading = FALSE, !.initialized = TRUE]
SignedOut(t) == [t EXCEPT !.token = 0, !.boot = Nobody, !.loading = FALSE, !.initialized = TRUE]
(* What the provider throws: neither initialized nor a bootstrap is set, and  *)
(* nothing asks again.                                                        *)
Unloaded(t) == [t EXCEPT !.loading = FALSE, !.failed = TRUE]
\* Mutant: a bootstrap that is told 401 refreshes beside the shared refresh.
JoinedAlone(i) ==
  IF calls[i].kind = "boot"
  THEN calls' = [calls EXCEPT ![i].step = "own", ![i].cookie = jar] /\ UNCHANGED shared
  ELSE /\ calls' = [calls EXCEPT ![i].step = "joined"]
       /\ shared' = IF shared.step = "none"
                    THEN [step |-> "sent", cookie |-> jar, got |-> 0] ELSE shared
(* refreshAccessToken: one refresh for all who were told 401.                *)
Joined(i) ==
  /\ calls' = [calls EXCEPT ![i].step = "joined"]
  /\ shared' = IF shared.step = "none"
               THEN [step |-> "sent", cookie |-> jar, got |-> 0] ELSE shared
(* A bootstrap whose 401 apiRequest could not cure: the provider refreshes,   *)
(* once; then it expires the session.                                         *)
BootDenied(i) ==
  IF calls[i].again
  THEN /\ calls' = [calls EXCEPT ![i] = Idle]
       /\ store' = [club |-> Nobody, token |-> 0]
       /\ tab' = SignedOut(tab)
  ELSE /\ calls' = [calls EXCEPT ![i].step = "own", ![i].cookie = jar]
       /\ UNCHANGED <<store, tab>>

DeliverLogin(i) ==
  /\ calls[i].kind = "login" /\ calls[i].step = "answered"
  /\ \/ /\ calls[i].status = 200
        /\ jar' = calls[i].got
        /\ store' = [store EXCEPT !.token = calls[i].got]
        /\ tab' = [Loading(tab) EXCEPT !.token = calls[i].got]
        /\ calls' = [calls EXCEPT ![i] = Call("boot", calls[i].got, store.club, TRUE, FALSE)]
        /\ astray' = FALSE
     \/ /\ calls[i].status # 200
        /\ calls' = [calls EXCEPT ![i] = Idle]
        /\ UNCHANGED <<jar, store, tab, astray>>
  /\ UNCHANGED <<auth, shared, strays, mishaps>>

(* Whatever was answered, the tab forgets its user.                          *)
DeliverLogout(i) ==
  /\ calls[i].kind = "logout" /\ calls[i].step = "answered"
  /\ jar' = IF calls[i].status = 200 THEN 0 ELSE jar
  /\ store' = [club |-> Nobody, token |-> 0]
  /\ tab' = SignedOut(tab)
  /\ calls' = [calls EXCEPT ![i] = Idle]
  /\ UNCHANGED <<auth, shared, troubles>>

\* Mutant: a page that is told 401 ends the session.
PageSignsOut(i) ==
  /\ calls[i].kind = "page" /\ calls[i].step = "answered"
  /\ calls' = [calls EXCEPT ![i] = Idle]
  /\ IF calls[i].status = 401 THEN tab' = SignedOut(tab) ELSE UNCHANGED tab
  /\ UNCHANGED <<auth, jar, store, shared, troubles>>
DeliverPage(i) ==
  /\ calls[i].kind = "page" /\ calls[i].step = "answered"
  /\ IF calls[i].status = 401 /\ calls[i].retry
     THEN Joined(i)
     ELSE calls' = [calls EXCEPT ![i] = Idle] /\ UNCHANGED shared
  /\ UNCHANGED <<auth, jar, store, tab, troubles>>

DeliverBoot(i) ==
  LET call == calls[i]
  IN /\ call.kind = "boot" /\ call.step = "answered"
     /\ \/ /\ call.status = 200
           /\ tab' = [tab EXCEPT !.boot = call.boot, !.initialized = TRUE, !.loading = FALSE]
           /\ calls' = [calls EXCEPT ![i] = Idle]
           /\ UNCHANGED <<store, shared>>
        \/ /\ call.status \notin {200, 401}
           /\ tab' = Unloaded(tab)
           /\ calls' = [calls EXCEPT ![i] = Idle]
           /\ UNCHANGED <<store, shared>>
        \/ /\ call.status = 401 /\ call.retry
           /\ Joined(i)
           /\ UNCHANGED <<store, tab>>
        \/ /\ call.status = 401 /\ ~call.retry
           /\ BootDenied(i)
           /\ UNCHANGED shared
     /\ UNCHANGED <<auth, jar, troubles>>

DeliverOwn(i) ==
  /\ calls[i].kind = "boot" /\ calls[i].step = "ownAnswered"
  /\ \/ /\ calls[i].status = 200
        /\ jar' = calls[i].got
        /\ store' = [store EXCEPT !.token = calls[i].got]
        /\ tab' = [tab EXCEPT !.token = calls[i].got]
        /\ calls' = [calls EXCEPT ![i] = Call("boot", calls[i].got, calls[i].club, TRUE, TRUE)]
     \/ /\ calls[i].status = 401
        /\ store' = [club |-> Nobody, token |-> 0]
        /\ tab' = SignedOut(tab)
        /\ calls' = [calls EXCEPT ![i] = Idle]
        /\ UNCHANGED jar
     \/ /\ calls[i].status \notin {200, 401}
        /\ tab' = Unloaded(tab)
        /\ calls' = [calls EXCEPT ![i] = Idle]
        /\ UNCHANGED <<jar, store>>
  /\ UNCHANGED <<auth, shared, troubles>>

Waiters == {i \in Calls : calls[i].kind # "none" /\ calls[i].step = "joined"}
(* The shared refresh is answered: all who wait for it are sent again with    *)
(* the new token; without one, whatever the reason, they fail and the tab is  *)
(* signed out, its club kept.                                                 *)
DeliverShared ==
  LET token == shared.got
      resent(i) == [Call(calls[i].kind, token, calls[i].club, FALSE, calls[i].again)
                      EXCEPT !.cookie = token]
      refused(i) == IF calls[i].kind = "page" \/ calls[i].again THEN Idle
                    ELSE [calls[i] EXCEPT !.step = "own", !.cookie = jar]
  IN /\ shared.step = "answered"
     /\ shared' = NoRefresh
     /\ IF token # 0
        THEN /\ jar' = token
             /\ store' = [store EXCEPT !.token = token]
             /\ tab' = [tab EXCEPT !.token = token]
             /\ calls' = [i \in Calls |-> IF i \in Waiters THEN resent(i) ELSE calls[i]]
        ELSE /\ UNCHANGED jar
             /\ store' = [club |-> IF \E i \in Waiters : calls[i].again THEN Nobody ELSE store.club,
                          token |-> 0]
             /\ tab' = SignedOut(tab)
             /\ calls' = [i \in Calls |-> IF i \in Waiters THEN refused(i) ELSE calls[i]]
     /\ UNCHANGED <<auth, troubles>>

-----------------------------------------------------------------------------
(* What goes wrong on the way.                                               *)

Owning(call) == call.step \in {"own", "ownAnswered"}
(* An error is answered, whether or not the server did what it was asked.    *)
Errs(i) ==
  /\ calls[i].kind # "none" /\ calls[i].step # "joined" /\ Mishap
  /\ calls' = [calls EXCEPT ![i] =
                 [@ EXCEPT !.status = 500, !.got = 0,
                           !.step = IF Owning(calls[i]) THEN "ownAnswered" ELSE "answered"]]
  /\ strays' = strays \union (IF calls[i].step = "own" THEN {calls[i].cookie} ELSE {})
  /\ astray' = (astray \/ Owning(calls[i]))
  /\ UNCHANGED <<auth, jar, store, tab, shared>>
SharedErrs ==
  /\ shared.step # "none" /\ Mishap
  /\ shared' = [shared EXCEPT !.step = "answered", !.got = 0]
  /\ strays' = strays \union (IF shared.step = "sent" THEN {shared.cookie} ELSE {})
  /\ astray' = TRUE
  /\ UNCHANGED <<auth, jar, store, tab, calls>>

(* The cookie the browser holds when an answer breaks off on its way.         *)
CookieAfter(call) ==
  {jar} \union (IF call.got # 0 THEN {call.got} ELSE {})
        \union (IF call.kind = "logout" /\ call.step = "answered" THEN {0} ELSE {})
(* The fetch of a request fails: it has no answer.                           *)
Lost(i) ==
  LET call == calls[i]
  IN /\ call.kind # "none" /\ call.step # "joined" /\ Mishap
     /\ calls' = [calls EXCEPT ![i] = Idle]
     /\ jar' \in CookieAfter(call)
     /\ store' = IF call.kind = "logout" THEN [club |-> Nobody, token |-> 0] ELSE store
     /\ tab' = CASE call.kind = "logout" -> SignedOut(tab)
                 [] call.kind = "boot" -> Unloaded(tab)
                 [] OTHER -> tab
     /\ strays' = strays \union (IF call.step = "own" THEN {call.cookie} ELSE {})
     /\ astray' = (astray \/ Owning(call))
     /\ UNCHANGED <<auth, shared>>
(* So does the shared refresh: all who wait for it fail, nobody is signed out. *)
SharedLost ==
  /\ shared.step # "none" /\ Mishap
  /\ shared' = NoRefresh
  /\ jar' \in {jar} \union (IF shared.got # 0 THEN {shared.got} ELSE {})
  /\ calls' = [i \in Calls |-> IF i \in Waiters THEN Idle ELSE calls[i]]
  /\ tab' = IF \E i \in Waiters : calls[i].kind = "boot" THEN Unloaded(tab) ELSE tab
  /\ strays' = strays \union (IF shared.step = "sent" THEN {shared.cookie} ELSE {})
  /\ astray' = TRUE
  /\ UNCHANGED <<auth, store>>

(* The tab is loaded anew: what was asked is given up, storage and cookie stay. *)
Reload ==
  /\ Mishap
  /\ jar' \in {jar} \union (IF shared.got # 0 THEN {shared.got} ELSE {})
                    \union UNION {CookieAfter(calls[i]) : i \in Calls \ Free}
  /\ tab' = [boot |-> Nobody, token |-> store.token, seen |-> 0, loading |-> FALSE,
             initialized |-> FALSE, failed |-> FALSE]
  /\ calls' = [i \in Calls |-> Idle] /\ shared' = NoRefresh
  /\ strays' = strays \union (IF shared.step = "sent" THEN {shared.cookie} ELSE {})
                      \union {calls[i].cookie : i \in {j \in Calls \ Free : calls[j].step = "own"}}
  /\ astray' = (astray \/ shared.step # "none" \/ \E i \in Calls \ Free : Owning(calls[i]))
  /\ UNCHANGED <<auth, store>>

Acts == \E i \in Calls : \/ \E u \in Users : SignIn(i, u)
                         \/ LogOut(i) \/ AskForPage(i) \/ SelectClub(i)
Wears == \E n \in 1..Signings : AccessLapses(n) \/ SessionEnds(n)
Answers == \/ \E i \in Calls : Serve(i) \/ ServeOwn(i)
           \/ ServeShared \/ \E n \in 1..Signings : ServeStray(n)
           \/ \E i \in Calls : DeliverLogin(i) \/ DeliverLogout(i) \/ DeliverPage(i)
                               \/ DeliverBoot(i) \/ DeliverOwn(i)
           \/ DeliverShared
Effects == \E i \in Calls : TokenEffect(i)
Breaks == (\E i \in Calls : Errs(i) \/ Lost(i)) \/ SharedErrs \/ SharedLost \/ Reload
SessionNext == Acts \/ Wears \/ Answers \/ Effects \/ Breaks
SessionSpec == SessionInit /\ [][SessionNext]_sessionVars

-----------------------------------------------------------------------------
(* Properties *)

\* A request of the tab, whatever its kind.
Request ==
  [status : {0, 200, 401, 403, 500}, club : Clubs \union {Nobody},
   step : {"sent", "answered", "joined", "own", "ownAnswered"}, boot : Users \union {Nobody},
   kind : {"login", "logout", "page", "boot"}, cookie : Tokens, got : Tokens, token : Tokens,
   retry : BOOLEAN, again : BOOLEAN, user : Users \union {Nobody}]
SessionTypeOK ==
  /\ auth \in Seq([user : Users, fresh : BOOLEAN, live : BOOLEAN, next : Tokens])
  /\ Len(auth) <= Signings
  /\ jar \in Tokens
  /\ store \in [club : Clubs \union {Nobody}, token : Tokens]
  /\ tab \in [boot : Users \union {Nobody}, token : Tokens, seen : Tokens, loading : BOOLEAN,
              initialized : BOOLEAN, failed : BOOLEAN]
  /\ shared \in [step : {"none", "sent", "answered"}, cookie : Tokens, got : Tokens]
  /\ calls = [i \in Calls |-> calls[i]] /\ \A i \in Calls : calls[i] \in Request \union {Idle}
  /\ strays \subseteq Tokens /\ astray \in BOOLEAN /\ mishaps \in 0..Mishaps

(* As long as every refresh since the sign-in came back with a token or a      *)
(* refusal, none is on its way with a cookie that another refresh of the tab   *)
(* has used up: that would sign its user out although the server still knows   *)
(* the session (client.ts, refreshInFlight).  After a refresh that was lost,   *)
(* reloaded over or answered with an error nothing of the kind holds: the      *)
(* cookie may be spent, and the provider refreshes beside the shared refresh.  *)
CookieSpentOnce ==
  ~astray =>
    /\ (shared.step = "sent" /\ shared.cookie # 0) => auth[shared.cookie].next = 0
    /\ \A i \in Calls : (calls[i].kind = "boot" /\ calls[i].step = "own" /\ calls[i].cookie # 0)
                           => auth[calls[i].cookie].next = 0

(* As long as every refresh since the sign-in came back with a token or a     *)
(* refusal, the tab forgets its user only because the user logged out or      *)
(* because the server would refuse the cookie the tab holds: no other error    *)
(* of any request, no loss and no reload signs anybody out.                    *)
SignedOutForAReason ==
  [][(tab.token # 0 /\ tab'.token = 0)
       => \/ \E i \in Calls : calls[i].kind = "logout"
          \/ ~Renewable(jar) \/ astray]_sessionVars

(* A tab with a token that still shows "Loading session" waits for a request  *)
(* it has sent, or for an effect that will send one, unless its last bootstrap *)
(* was refused, answered with an error or lost: then it says so for ever.     *)
Waiting == tab.token # 0 /\ (~tab.initialized \/ tab.loading \/ tab.boot = Nobody)
WaitingIsAsking ==
  Waiting => \/ tab.failed \/ tab.seen # tab.token
             \/ \E i \in Calls : calls[i].kind \in {"boot", "logout"}
=============================================================================
