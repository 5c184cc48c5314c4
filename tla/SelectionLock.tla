---------------------------- MODULE SelectionLock -----------------------------
(***************************************************************************)
(* useSelectionLock, the hook of the tee sheet page: selecting a slot      *)
(* acquires its lock, selecting another one or none releases it, and a     *)
(* timer renews it.  The screens of several browsers share the locks of    *)
(* TeeSheetLocks; their requests and the answers take time, and the        *)
(* operator goes on selecting meanwhile.                                   *)
(***************************************************************************)
EXTENDS TeeSheetLocks

CONSTANTS
  Browsers,   \* open tee sheet pages
  UserOf,     \* the operator logged in on each
  Threshold,  \* RENEWAL_THRESHOLD_SECONDS, in ticks
  Patient,    \* whether operators select nothing else while an answer is awaited
  Ordered,    \* whether the requests of a browser are served in the order sent
  MayLeave    \* whether pages are closed and opened again

ASSUME SelectionConstantsOK ==
  /\ UserOf \in [Browsers -> Operators] /\ None \notin Calls
  /\ Threshold \in Nat
  /\ Patient \in BOOLEAN /\ Ordered \in BOOLEAN /\ MayLeave \in BOOLEAN

VARIABLES
  screens,  \* Browsers -> what the hook keeps
  line,     \* Browsers -> its requests that are not answered
  ahead     \* Calls -> those of them that the same browser sent before

selectionVars == <<locks, calls, screens, line, ahead>>

\* activeSlotRef, the kind of the state, currentLockRef (with its expires_at), and the
\* calls whose callbacks are attached: the last acquire, and the renewal in flight.
NoLock == [id |-> None, left |-> 0]
Screen == [selected: Slots \union {None},
           kind: {"idle", "acquiring", "held-by-me", "held-by-other", "error"},
           current: [id: LockIds \union {None}, left: 0 .. TTL],
           awaited: Calls \union {None}, renewing: Calls \union {None}]
Blank == [selected |-> None, kind |-> "idle", current |-> NoLock,
          awaited |-> None, renewing |-> None]

SelectionInit ==
  /\ LocksInit
  /\ screens = [b \in Browsers |-> Blank]
  /\ line = [b \in Browsers |-> {}] /\ ahead = [c \in Calls |-> {}]

Show(b, screen) == screens' = [screens EXCEPT ![b] = screen]

-------------------------------------------------------------------------------
(* The operator.                                                           *)

NotWaiting(b) == screens[b].awaited = None /\ screens[b].renewing = None

\* A call for a request, if there is one: as many as are free bound what is under way.
CallFor(wanted) == IF wanted THEN {c \in Calls : calls[c] = Free} ELSE {None}

\* A browser sends the release of its lock, and a request after it: each in the call it
\* is given, none if that is None.
Send(b, r, c, request) ==
  LET release == Request("release", UserOf[b], None, screens[b].current.id) IN
  /\ r # None => r # c
  /\ calls' = [d \in Calls |-> IF d = r THEN release ELSE IF d = c THEN request ELSE calls[d]]
  /\ line' = [line EXCEPT ![b] = @ \union ({r, c} \ {None})]
  /\ ahead' = [d \in Calls |-> IF d = r THEN line[b]
                               ELSE IF d = c THEN line[b] \union ({r} \ {None}) ELSE ahead[d]]

HasLock(b) == screens[b].current.id # None

\* The effect on a change of the selection: release, then acquire.  The callbacks of
\* an earlier acquire are dropped when there is a new one.
Select(b) ==
  \E s \in Slots \union {None}, r \in CallFor(HasLock(b)) :
    /\ s # screens[b].selected
    /\ Patient => NotWaiting(b)
    /\ \E c \in CallFor(s # None) :
         /\ Send(b, r, c, Request("acquire", UserOf[b], s, None))
         /\ Show(b, [screens[b] EXCEPT
                       !.selected = s, !.current = NoLock,
                       !.kind = IF s = None THEN "idle" ELSE "acquiring",
                       !.awaited = IF s = None THEN @ ELSE c])
    /\ UNCHANGED locks

\* The page is left: the cleanup releases the lock, and no callback runs any more.
Leave(b) ==
  /\ MayLeave
  /\ screens[b] # Blank
  /\ \E r \in CallFor(HasLock(b)) : Send(b, r, None, Free)
  /\ Show(b, Blank)
  /\ UNCHANGED locks

\* The browser goes away without a word.
Crash(b) ==
  /\ MayLeave
  /\ screens[b] # Blank
  /\ Show(b, Blank)
  /\ UNCHANGED <<locks, calls, line, ahead>>

-------------------------------------------------------------------------------
(* The timer.                                                              *)

Mine(b) == screens[b].kind = "held-by-me" /\ HasLock(b)

Expire(b) ==
  /\ Mine(b) /\ screens[b].current.left = 0
  /\ Show(b, [screens[b] EXCEPT !.kind = "error"])
  /\ UNCHANGED <<locks, calls, line, ahead>>

Renew(b) ==
  /\ Mine(b) /\ screens[b].current.left \in 1 .. Threshold
  /\ screens[b].renewing = None
  /\ \E c \in CallFor(TRUE) :
       /\ Send(b, None, c, Request("renew", UserOf[b], None, screens[b].current.id))
       /\ Show(b, [screens[b] EXCEPT !.renewing = c])
  /\ UNCHANGED locks

-------------------------------------------------------------------------------
(* The answers.                                                            *)

Gone(c) == calls' = [calls EXCEPT ![c] = Free]
Copy(c) == [id |-> calls[c].lock, left |-> calls[c].left]

\* Mutant: any conflict is one's own.
AnyConflict(c) == calls[c].stage \in {"lock", "own", "conflict"}

\* The lock is granted, or the one who holds it is the operator at this screen.
Ours(c) == calls[c].stage \in {"lock", "own"}

\* Mutant: a request that fails shows nothing.
FailsSilently(c) == IF calls[c].stage = "conflict" THEN "held-by-other" ELSE "acquiring"

\* What the screen says when the lock is not the operator's.
Otherwise(c) == IF calls[c].stage = "conflict" THEN "held-by-other" ELSE "error"

\* The slot of the answer is the one selected still.
Timely(b, c) == screens[b].selected = calls[c].slot

AnswerAcquire(b) ==
  LET c == screens[b].awaited
      after == [screens[b] EXCEPT !.awaited = None]
  IN
  /\ c # None /\ Answered(c)
  /\ \/ /\ Timely(b, c) /\ Ours(c)
        /\ Show(b, [after EXCEPT !.current = Copy(c), !.kind = "held-by-me"])
        /\ Gone(c) /\ UNCHANGED <<line, ahead>>
     \/ /\ Timely(b, c) /\ ~ Ours(c)
        /\ Show(b, [after EXCEPT !.kind = Otherwise(c)])
        /\ Gone(c) /\ UNCHANGED <<line, ahead>>
     \/ /\ ~ Timely(b, c)
        /\ Show(b, after)
        /\ IF calls[c].stage = "lock"
             THEN /\ calls' = [calls EXCEPT ![c] =
                                 Request("release", UserOf[b], None, calls[c].lock)]
                  /\ line' = [line EXCEPT ![b] = @ \union {c}]
                  /\ ahead' = [ahead EXCEPT ![c] = line[b]]
             ELSE Gone(c) /\ UNCHANGED <<line, ahead>>
  /\ UNCHANGED locks

\* The answer to a renewal is applied whatever is selected by now.
AnswerRenew(b) ==
  LET c == screens[b].renewing
      after == [screens[b] EXCEPT !.renewing = None]
  IN
  /\ c # None /\ Answered(c)
  /\ Show(b, CASE calls[c].stage = "lock" ->
                    [after EXCEPT !.current = Copy(c), !.kind = "held-by-me"]
               [] calls[c].stage = "refused" ->
                    [after EXCEPT !.current = NoLock, !.kind = "error"]
               [] OTHER -> [after EXCEPT !.kind = "error"])
  /\ Gone(c)
  /\ UNCHANGED <<locks, line, ahead>>

\* An answer no callback waits for.
Unheard(c) == \A b \in Browsers : screens[b].awaited # c /\ screens[b].renewing # c

Ignore(c) ==
  /\ Answered(c) /\ Unheard(c)
  /\ Gone(c)
  /\ UNCHANGED <<locks, screens, line, ahead>>

-------------------------------------------------------------------------------
(* The server, between them.                                               *)

InTurn(c) == Ordered => ahead[c] = {}

\* What is answered or lost is no longer in line.
Leaves(c) ==
  IF Answered(c)'
  THEN /\ line' = [b \in Browsers |-> line[b] \ {c}]
       /\ ahead' = [d \in Calls |-> IF d = c THEN {} ELSE ahead[d] \ {c}]
  ELSE UNCHANGED <<line, ahead>>

RememberedIds == Remembered \union {screens[b].current.id : b \in Browsers}

Serve(c) ==
  /\ \/ InTurn(c) /\ ServeRead(c)
     \/ ServeWrite(c, LockIds \ RememberedIds)
     \/ LoseRequest(c)
     \/ LoseAnswer(c)
  /\ Leaves(c)
  /\ UNCHANGED screens

Tick ==
  /\ TickLocks
  /\ screens' = [b \in Browsers |-> [screens[b] EXCEPT !.current.left = Less(@)]]
  /\ UNCHANGED <<line, ahead>>

SelectionNext ==
  \/ \E b \in Browsers :
       \/ Select(b) \/ Leave(b) \/ Crash(b)
       \/ Expire(b) \/ Renew(b)
       \/ AnswerAcquire(b) \/ AnswerRenew(b)
  \/ \E c \in Calls : Ignore(c) \/ Serve(c)
  \/ Tick

SelectionSpec == SelectionInit /\ [][SelectionNext]_selectionVars

\* Every request is answered or fails in the end, callbacks run, and time passes.
FairSelectionSpec ==
  /\ SelectionSpec
  /\ \A c \in Calls : WF_selectionVars(Serve(c)) /\ WF_selectionVars(Ignore(c))
  /\ \A b \in Browsers : WF_selectionVars(AnswerAcquire(b)) /\ WF_selectionVars(AnswerRenew(b))
  /\ WF_selectionVars(Tick)

-------------------------------------------------------------------------------
(* What must hold of the screens.                                          *)

\* Every variable keeps its type.
SelectionTypeOK ==
  /\ LocksTypeOK
  /\ screens \in [Browsers -> Screen]
  /\ line \in [Browsers -> SUBSET Calls] /\ ahead \in [Calls -> SUBSET Calls]

\* What a screen says it holds, it holds: the lock is in the table, of this operator,
\* on the slot selected, and does not expire before the copy the screen counts down.
HeldIsLocked ==
  \A b \in Browsers : (Mine(b) /\ screens[b].current.left > 0) =>
    LET id == screens[b].current.id IN
    /\ Held(id)
    /\ locks[id].holder = UserOf[b]
    /\ locks[id].slot = screens[b].selected
    /\ locks[id].left >= screens[b].current.left

\* A lock is wanted while a screen has it, or a request that will release it, or bring
\* it to a screen that has selected its slot, is under way.
Wanted(id) ==
  \/ \E b \in Browsers : screens[b].current.id = id
  \/ \E c \in Calls : calls[c] # Free /\ calls[c].op = "release" /\ calls[c].lock = id
  \/ \E b \in Browsers : LET c == screens[b].awaited IN
       /\ c # None
       /\ calls[c].slot = locks[id].slot \/ calls[c].lock = id
       /\ UserOf[b] = locks[id].holder

\* "so the operator's earlier slot doesn't stay held": however the operator goes from
\* slot to slot, no lock that has not expired is left behind.
NotAbandoned == \A id \in LockIds : Live(id) => Wanted(id)

\* The screens and the table of locks agree, in both directions.
ScreensAgree == HeldIsLocked /\ NotAbandoned

\* A slot that stays selected does not wait for its lock for ever: the operator is
\* told that the lock is theirs, that it is another's, or that the request failed.
SelectionSettles ==
  \A b \in Browsers, s \in Slots :
    (screens[b].selected = s /\ screens[b].kind = "acquiring")
      ~> (screens[b].selected # s \/ screens[b].kind # "acquiring")

\* "the lock decays via the server-side 60s TTL if the release fails": a lock that is
\* left behind does not stay, whatever the other operators ask for.
AbandonedDecays ==
  \A id \in LockIds : (Live(id) /\ ~ Wanted(id)) ~> (~ Live(id) \/ Wanted(id))
===============================================================================
