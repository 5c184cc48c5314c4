-------------------------- MODULE TeeSheetLocksProofs --------------------------
(***************************************************************************)
(* What TLAPS proves of the slot locks and of the screens that select      *)
(* slots, for any number of operators, pages, slots, requests and ids and  *)
(* any lifetime.  The locks, whichever clients they have: the types, one   *)
(* lock per slot whatever the interleaving, and, when requests are served  *)
(* one at a time, that a live lock goes only when its holder releases it.  *)
(* The screens: the same, and, for operators who wait for their answers,   *)
(* that the screens and the locks agree.                                   *)
(***************************************************************************)
EXTENDS SelectionLock, TLAPS

\* An acquire asks for a slot.
SlotsAsked == \A c \in Calls : (calls[c] # Free /\ calls[c].op = "acquire") => calls[c].slot \in Slots

\* While a request that has read waits to write, and requests are served one at a time,
\* there is no other, and what it read is so.
Undisturbed ==
  OneAtATime =>
    /\ \A c, d \in AtWork : c = d
    /\ \A c \in AtWork :
         /\ (calls[c].op = "acquire" /\ calls[c].lock # None) => ~ Live(calls[c].lock)
         /\ calls[c].op = "renew" => Live(calls[c].lock)
         /\ calls[c].op = "release" => MayRelease(c)

LocksInv == LocksTypeOK /\ SlotsAsked /\ OneLockPerSlot /\ Undisturbed

-------------------------------------------------------------------------------
(* Requests.                                                               *)

\* A call that has been made is a call, and writing its progress keeps it one.
LEMMA StageTyped ==
  ASSUME LocksTypeOK, NEW c \in Calls, calls[c] # Free,
         NEW stage \in {"sent", "read"} \union Answers, To(c, stage)
  PROVE  calls' \in [Calls -> Call \union {Free}]
<1>1. calls[c] \in Call
  BY DEF LocksTypeOK
<1>2. [calls[c] EXCEPT !.stage = stage] \in Call
  BY <1>1 DEF Call
<1> QED
  BY <1>2 DEF LocksTypeOK, To

LEMMA AnswerTyped ==
  ASSUME LocksTypeOK, NEW c \in Calls, calls[c] # Free,
         NEW stage \in {"sent", "read"} \union Answers,
         NEW id \in LockIds \union {None}, NEW left \in 0 .. TTL,
         Answer(c, stage, id, left)
  PROVE  calls' \in [Calls -> Call \union {Free}]
<1>1. calls[c] \in Call
  BY DEF LocksTypeOK
<1>2. [calls[c] EXCEPT !.stage = stage, !.lock = id, !.left = left] \in Call
  BY <1>1 DEF Call
<1> QED
  BY <1>2 DEF LocksTypeOK, Answer

\* The rows that are conflicted with are locks of the slot asked for.
LEMMA ConflictTyped ==
  ASSUME LocksTypeOK, NEW c \in Calls, calls[c] # Free, NEW id \in LockIds, Held(id),
         Conflict(c, id)
  PROVE  calls' \in [Calls -> Call \union {Free}]
<1>1. locks[id].left \in 0 .. TTL
  BY DEF LocksTypeOK, Held, Lock
<1> QED
  BY <1>1, AnswerTyped DEF Conflict, Answers

-------------------------------------------------------------------------------
(* Types.                                                                  *)

LEMMA ReadsTyped ==
  ASSUME LocksTypeOK, NEW c \in Calls, ServeRead(c)
  PROVE  LocksTypeOK'
<1>0. TTL \in 0 .. TTL
  BY LocksConstantsOK
<1>1. calls[c] # Free /\ UNCHANGED locks
  BY DEF ServeRead, ReadAcquire, ReadRenew, ReadRelease, Reads
<1>2. calls[c] \in Call
  BY <1>1 DEF LocksTypeOK
<1>3. CASE ReadAcquire(c)
  <2>1. CASE \E id \in LockIds : InTheWay(c, id) /\ Conflict(c, id)
    BY <1>1, <2>1, ConflictTyped DEF LocksTypeOK, InTheWay, Live
  <2>2. CASE \E id \in LockIds \union {None} : Answer(c, "read", id, TTL)
    BY <1>0, <1>1, <2>2, AnswerTyped DEF LocksTypeOK
  <2> QED
    BY <1>3, <2>1, <2>2 DEF ReadAcquire
<1>4. CASE ReadRenew(c)
  BY <1>0, <1>1, <1>2, <1>4, AnswerTyped, StageTyped DEF LocksTypeOK, ReadRenew, Answers, Call
<1>5. CASE ReadRelease(c)
  BY <1>1, <1>5, StageTyped DEF LocksTypeOK, ReadRelease, Answers
<1> QED
  BY <1>3, <1>4, <1>5 DEF ServeRead

LEMMA WritesTyped ==
  ASSUME LocksTypeOK, SlotsAsked, NEW c \in Calls, ServeWrite(c, LockIds \ Remembered)
  PROVE  LocksTypeOK'
<1>1. calls[c] # Free /\ calls[c] \in Call
  BY DEF ServeWrite, CommitAcquire, LoseRace, CommitRenew, CommitRelease, Writes, Others,
         LocksTypeOK, LocksOn
<1>2. calls[c].left \in 0 .. TTL /\ calls[c].lock \in LockIds \union {None}
  BY <1>1 DEF Call
<1>3. ASSUME NEW new \in LockIds, CommitAcquire(c, new)
      PROVE  LocksTypeOK'
  <2>1. calls' \in [Calls -> Call \union {Free}]
    BY <1>1, <1>2, <1>3, AnswerTyped DEF CommitAcquire, Answers
  <2>2. Granted(c) \in Lock
    BY <1>1, <1>2, <1>3 DEF Granted, Call, Lock, CommitAcquire, Writes, SlotsAsked
  <2> QED
    BY <1>3, <2>1, <2>2 DEF CommitAcquire, LocksTypeOK
<1>4. CASE LoseRace(c)
  <2>0. UNCHANGED locks
    BY <1>4 DEF LoseRace
  <2>1. CASE \E id \in Others(c) : Conflict(c, id)
    BY <1>1, <2>0, <2>1, ConflictTyped DEF Others, LocksOn, LocksTypeOK
  <2>2. CASE Answer(c, "failed", None, 0)
    BY <1>1, <2>0, <2>2, AnswerTyped, LocksConstantsOK DEF Answers, LocksTypeOK
  <2> QED
    BY <1>4, <2>1, <2>2 DEF LoseRace, LocksTypeOK
<1>5. CASE CommitRenew(c)
  <2>1. calls' \in [Calls -> Call \union {Free}]
    BY <1>1, <1>5, StageTyped DEF CommitRenew, Answers
  <2>2. locks' \in [LockIds -> Lock \union {None}]
    BY <1>2, <1>5 DEF CommitRenew, LocksTypeOK, Lock, Held
  <2> QED
    BY <2>1, <2>2 DEF LocksTypeOK
<1>6. CASE CommitRelease(c)
  <2>1. calls' \in [Calls -> Call \union {Free}]
    BY <1>1, <1>6, StageTyped DEF CommitRelease, Answers
  <2> QED
    BY <1>6, <2>1 DEF CommitRelease, LocksTypeOK
<1> QED
  BY <1>3, <1>4, <1>5, <1>6 DEF ServeWrite

LEMMA OthersTyped ==
  ASSUME LocksTypeOK, NEW c \in Calls,
         Arrive(c) \/ Finish(c) \/ LoseRequest(c) \/ LoseAnswer(c)
  PROVE  LocksTypeOK'
<1>1. CASE Arrive(c)
  BY <1>1, LocksConstantsOK DEF Arrive, Request, LocksTypeOK, Call
<1>2. CASE Finish(c)
  BY <1>2 DEF Finish, LocksTypeOK
<1>3. CASE LoseRequest(c) \/ LoseAnswer(c)
  BY <1>3, AnswerTyped, LocksConstantsOK
     DEF LoseRequest, LoseAnswer, Answered, Answers, LocksTypeOK
<1> QED
  BY <1>1, <1>2, <1>3

\* A tick changes only what is left of a row, or of a call.
LEMMA TickChanges ==
  ASSUME LocksTypeOK, TickLocks
  PROVE  /\ LocksTypeOK'
         /\ \A id \in LockIds :
              /\ Held(id)' <=> Held(id)
              /\ Held(id) => /\ locks'[id].slot = locks[id].slot
                             /\ locks'[id].holder = locks[id].holder
                             /\ locks[id].left = 0 => locks'[id].left = 0
         /\ \A c \in Calls :
              /\ calls'[c] = Free <=> calls[c] = Free
              /\ calls[c] # Free => /\ calls'[c].op = calls[c].op
                                    /\ calls'[c].slot = calls[c].slot
                                    /\ calls'[c].stage = calls[c].stage
<1>1. \A n \in 0 .. TTL : Less(n) \in 0 .. TTL
  BY LocksConstantsOK DEF Less
<1>2. ASSUME NEW l \in Lock
      PROVE  /\ [l EXCEPT !.left = Less(@)] \in Lock
             /\ [l EXCEPT !.left = Less(@)].slot = l.slot
             /\ [l EXCEPT !.left = Less(@)].holder = l.holder
             /\ l.left = 0 => [l EXCEPT !.left = Less(@)].left = 0
  BY <1>1 DEF Lock, Less
<1>3. ASSUME NEW k \in Call
      PROVE  /\ [k EXCEPT !.left = Less(@)] \in Call
             /\ [k EXCEPT !.left = Less(@)] # Free
             /\ [k EXCEPT !.left = Less(@)].op = k.op
             /\ [k EXCEPT !.left = Less(@)].slot = k.slot
             /\ [k EXCEPT !.left = Less(@)].stage = k.stage
  <2>1. [k EXCEPT !.left = Less(@)] \in Call
    BY <1>1 DEF Call
  <2>2. [k EXCEPT !.left = Less(@)] # Free
    BY <2>1 DEF Call, Free
  <2> QED
    BY <2>1, <2>2 DEF Call
<1>4. None \notin Lock
  BY LocksConstantsOK DEF Lock
<1>5. locks' \in [LockIds -> Lock \union {None}]
  BY <1>2 DEF TickLocks, LocksTypeOK, Held
<1>6. calls' \in [Calls -> Call \union {Free}]
  BY <1>3 DEF TickLocks, LocksTypeOK
<1>7. \A id \in LockIds :
         /\ Held(id)' <=> Held(id)
         /\ Held(id) => /\ locks'[id].slot = locks[id].slot
                        /\ locks'[id].holder = locks[id].holder
                        /\ locks[id].left = 0 => locks'[id].left = 0
  BY <1>2, <1>4 DEF TickLocks, LocksTypeOK, Held
<1>8. \A c \in Calls :
         /\ calls'[c] = Free <=> calls[c] = Free
         /\ calls[c] # Free => /\ calls'[c].op = calls[c].op
                               /\ calls'[c].slot = calls[c].slot
                               /\ calls'[c].stage = calls[c].stage
  BY <1>3 DEF TickLocks, LocksTypeOK
<1> QED
  BY <1>5, <1>6, <1>7, <1>8 DEF LocksTypeOK

LEMMA StepTyped ==
  ASSUME LocksTypeOK, SlotsAsked, [LocksNext]_lockVars
  PROVE  LocksTypeOK'
<1>1. CASE UNCHANGED lockVars
  BY <1>1 DEF lockVars, LocksTypeOK
<1>2. CASE TickLocks
  BY <1>2, TickChanges
<1>3. ASSUME NEW c \in Calls,
             \/ Arrive(c) \/ Finish(c) \/ LoseRequest(c) \/ LoseAnswer(c)
             \/ ServeRead(c) \/ ServeWrite(c, LockIds \ Remembered)
      PROVE  LocksTypeOK'
  BY <1>3, ReadsTyped, WritesTyped, OthersTyped
<1> QED
  BY <1>1, <1>2, <1>3 DEF LocksNext

-------------------------------------------------------------------------------
(* What each kind of step does to the calls.                               *)

\* A call changes alone, and keeps what it asks for.
LEMMA Progress ==
  ASSUME LocksTypeOK, NEW c \in Calls, calls[c] # Free,
         NEW stage, NEW id, NEW left, To(c, stage) \/ Answer(c, stage, id, left)
  PROVE  /\ \A d \in Calls \ {c} : calls'[d] = calls[d]
         /\ calls'[c].op = calls[c].op /\ calls'[c].slot = calls[c].slot
         /\ calls'[c].by = calls[c].by
         /\ calls'[c].stage = stage
         /\ Answer(c, stage, id, left) => calls'[c].lock = id
         /\ To(c, stage) => calls'[c].lock = calls[c].lock
<1>1. calls[c] \in Call
  BY DEF LocksTypeOK
<1> QED
  BY <1>1 DEF To, Answer, LocksTypeOK, Call

\* A read leaves the locks alone, and another request waiting only where they overlap.
LEMMA ReadsOne ==
  ASSUME LocksTypeOK, NEW c \in Calls, ServeRead(c)
  PROVE  /\ UNCHANGED locks
         /\ calls[c] # Free /\ calls[c].stage = "sent"
         /\ OneAtATime => AtWork = {}
         /\ \A d \in Calls \ {c} : calls'[d] = calls[d]
         /\ calls'[c].op = calls[c].op /\ calls'[c].slot = calls[c].slot
         /\ calls'[c].by = calls[c].by
         /\ calls'[c].stage = "read" =>
              /\ (calls[c].op = "acquire" /\ calls'[c].lock # None) => ~ Live(calls'[c].lock)
              /\ calls[c].op = "renew" => Live(calls'[c].lock)
              /\ calls[c].op = "release" => (MayRelease(c) /\ calls'[c].lock = calls[c].lock)
<1>1. CASE ReadAcquire(c)
  <2>0. /\ UNCHANGED locks /\ Reads(c, "acquire")
    BY <1>1 DEF ReadAcquire
  <2>1. CASE \E id \in LockIds : Conflict(c, id)
    BY <2>0, <2>1, Progress DEF Reads, Conflict
  <2>2. ASSUME NEW id \in LockIds \union {None}, Answer(c, "read", id, TTL),
               id # None => ~ Live(id)
        PROVE  /\ \A d \in Calls \ {c} : calls'[d] = calls[d]
               /\ calls'[c].op = calls[c].op /\ calls'[c].slot = calls[c].slot
               /\ calls'[c].by = calls[c].by
               /\ calls'[c].lock # None => ~ Live(calls'[c].lock)
    BY <2>0, <2>2, Progress DEF Reads
  <2>3. \/ \E id \in LockIds : Conflict(c, id)
        \/ \E id \in LockIds \union {None} :
              Answer(c, "read", id, TTL) /\ (id # None => ~ Live(id))
    BY <1>1 DEF ReadAcquire, InTheWay
  <2> QED
    BY <2>0, <2>1, <2>2, <2>3 DEF Reads
<1>2. CASE ReadRenew(c)
  BY <1>2, Progress DEF ReadRenew, Reads, Renewable
<1>3. CASE ReadRelease(c)
  BY <1>3, Progress DEF ReadRelease, Reads
<1> QED
  BY <1>1, <1>2, <1>3 DEF ServeRead

\* A write ends the work of its request.
LEMMA WritesOne ==
  ASSUME LocksTypeOK, NEW c \in Calls, ServeWrite(c, LockIds \ Remembered)
  PROVE  /\ c \in AtWork
         /\ \A d \in Calls \ {c} : calls'[d] = calls[d]
         /\ calls'[c].op = calls[c].op /\ calls'[c].slot = calls[c].slot
         /\ calls'[c].stage # "read"
<1>1. calls[c] # Free /\ calls[c].stage = "read"
  BY DEF ServeWrite, CommitAcquire, LoseRace, CommitRenew, CommitRelease, Writes
<1>2. \E stage \in Answers : \E id, left : To(c, stage) \/ Answer(c, stage, id, left)
  BY DEF ServeWrite, CommitAcquire, LoseRace, CommitRenew, CommitRelease, Conflict, Answers
<1> QED
  BY <1>1, <1>2, Progress DEF AtWork, Answers

\* The steps of the network and of the clients leave the locks alone, and no request
\* starts to work by them.
LEMMA OthersOne ==
  ASSUME LocksTypeOK, NEW c \in Calls,
         Arrive(c) \/ Finish(c) \/ LoseRequest(c) \/ LoseAnswer(c)
  PROVE  /\ UNCHANGED locks
         /\ \A d \in Calls \ {c} : calls'[d] = calls[d]
         /\ c \notin AtWork'
         /\ calls'[c] # Free => \/ calls[c] # Free /\ calls'[c].op = calls[c].op
                                                   /\ calls'[c].slot = calls[c].slot
                                \/ calls'[c].op # "acquire"
                                \/ calls'[c].slot \in Slots
<1>1. CASE Arrive(c)
  BY <1>1 DEF Arrive, Request, AtWork, LocksTypeOK
<1>2. CASE Finish(c)
  BY <1>2 DEF Finish, AtWork, LocksTypeOK
<1>3. CASE LoseRequest(c) \/ LoseAnswer(c)
  <2>1. calls[c] # Free /\ Answer(c, "failed", None, 0) /\ UNCHANGED locks
    BY <1>3 DEF LoseRequest, LoseAnswer, Answered
  <2> QED
    BY <2>1, Progress DEF AtWork
<1> QED
  BY <1>1, <1>2, <1>3

-------------------------------------------------------------------------------
(* The invariant.                                                          *)

LEMMA SlotsAskedStep ==
  ASSUME LocksTypeOK, SlotsAsked, LocksNext
  PROVE  SlotsAsked'
<1>1. CASE TickLocks
  BY <1>1, TickChanges DEF SlotsAsked
<1>2. ASSUME NEW c \in Calls, ServeRead(c)
      PROVE  SlotsAsked'
  BY <1>2, ReadsOne DEF SlotsAsked
<1>3. ASSUME NEW c \in Calls, ServeWrite(c, LockIds \ Remembered)
      PROVE  SlotsAsked'
  BY <1>3, WritesOne DEF SlotsAsked, AtWork
<1>4. ASSUME NEW c \in Calls, Arrive(c) \/ Finish(c) \/ LoseRequest(c) \/ LoseAnswer(c)
      PROVE  SlotsAsked'
  BY <1>4, OthersOne DEF SlotsAsked
<1> QED
  BY <1>1, <1>2, <1>3, <1>4 DEF LocksNext

\* What a commit does to the rows: it gives a slot that has no other lock, renews or
\* removes the lock it is for, or it leaves the locks alone.
LEMMA Commits ==
  ASSUME LocksTypeOK, SlotsAsked, NEW c \in Calls, ServeWrite(c, LockIds \ Remembered)
  PROVE  \/ UNCHANGED locks
         \/ /\ calls[c].op = "acquire" /\ Others(c) = {}
            /\ \E new \in LockIds :
                 /\ locks[new] = None /\ locks'[new] = Granted(c) /\ Granted(c) # None
                 /\ \A id \in LockIds \ {new} :
                      locks'[id] = IF id = calls[c].lock THEN None ELSE locks[id]
         \/ /\ calls[c].op = "renew"
            /\ \A id \in LockIds :
                 /\ locks'[id] = None <=> locks[id] = None
                 /\ locks[id] # None => locks'[id].slot = locks[id].slot
                 /\ id # calls[c].lock => locks'[id] = locks[id]
         \/ /\ calls[c].op = "release"
            /\ \A id \in LockIds \ {calls[c].lock} : locks'[id] = locks[id]
            /\ calls[c].lock \in LockIds => locks'[calls[c].lock] = None
<1>0. None \notin Lock
  BY LocksConstantsOK DEF Lock
<1>1. CASE LoseRace(c)
  BY <1>1 DEF LoseRace
<1>2. ASSUME NEW new \in LockIds, CommitAcquire(c, new)
      PROVE  /\ calls[c].op = "acquire" /\ Others(c) = {}
             /\ locks[new] = None /\ locks'[new] = Granted(c) /\ Granted(c) # None
             /\ \A id \in LockIds \ {new} :
                  locks'[id] = IF id = calls[c].lock THEN None ELSE locks[id]
  <2>1. calls[c] \in Call /\ calls[c].slot \in Slots
    BY <1>2 DEF CommitAcquire, Writes, SlotsAsked, LocksTypeOK
  <2>2. Granted(c) \in Lock
    BY <2>1 DEF Granted, Lock, Call
  <2> QED
    BY <1>0, <1>2, <2>2 DEF CommitAcquire, Writes
<1>3. ASSUME CommitRenew(c)
      PROVE  \/ UNCHANGED locks
             \/ /\ calls[c].op = "renew"
                /\ \A id \in LockIds :
                     /\ locks'[id] = None <=> locks[id] = None
                     /\ locks[id] # None => locks'[id].slot = locks[id].slot
                     /\ id # calls[c].lock => locks'[id] = locks[id]
  <2>1. calls[c].op = "renew"
    BY <1>3 DEF CommitRenew, Writes
  <2>2. ASSUME NEW row \in Lock, NEW left
        PROVE  /\ [row EXCEPT !.left = left].slot = row.slot
               /\ left \in 0 .. TTL => [row EXCEPT !.left = left] \in Lock
    BY DEF Lock
  <2>3. calls[c].left \in 0 .. TTL
    BY <1>3 DEF CommitRenew, Writes, LocksTypeOK, Call
  <2>4. CASE UNCHANGED locks
    BY <2>4
  <2>5. CASE /\ Held(calls[c].lock)
             /\ locks' = [locks EXCEPT ![calls[c].lock].left = calls[c].left]
    <3>1. \A id \in LockIds :
            locks'[id] = IF id = calls[c].lock THEN [locks[id] EXCEPT !.left = calls[c].left]
                                               ELSE locks[id]
      BY <2>5 DEF LocksTypeOK
    <3>2. \A id \in LockIds : id = calls[c].lock => locks[id] \in Lock
      BY <2>5 DEF LocksTypeOK, Held
    <3>3. ASSUME NEW id \in LockIds, id = calls[c].lock
          PROVE  /\ locks'[id] # None /\ locks[id] # None
                 /\ locks'[id].slot = locks[id].slot
      <4>1. locks'[id] = [locks[id] EXCEPT !.left = calls[c].left] /\ locks[id] \in Lock
        BY <3>1, <3>2, <3>3
      <4>2. locks'[id] \in Lock /\ locks'[id].slot = locks[id].slot
        BY <2>2, <2>3, <4>1
      <4> QED
        BY <1>0, <4>1, <4>2
    <3>4. \A id \in LockIds : id # calls[c].lock => locks'[id] = locks[id]
      BY <3>1
    <3> QED
      BY <2>1, <3>3, <3>4
  <2> QED
    BY <1>3, <2>4, <2>5 DEF CommitRenew
<1>4. CASE CommitRelease(c)
  BY <1>4 DEF CommitRelease, Writes, LocksTypeOK
<1> QED
  BY <1>1, <1>2, <1>3, <1>4 DEF ServeWrite

LEMMA OneLockStep ==
  ASSUME LocksTypeOK, SlotsAsked, OneLockPerSlot, LocksNext
  PROVE  OneLockPerSlot'
<1>1. CASE UNCHANGED locks
  BY <1>1 DEF OneLockPerSlot, Held
<1>2. CASE TickLocks
  BY <1>2, TickChanges DEF OneLockPerSlot
<1>3. ASSUME NEW c \in Calls, ServeWrite(c, LockIds \ Remembered)
      PROVE  OneLockPerSlot'
  <2>1. CASE calls[c].op = "acquire"
    <3>1. CASE UNCHANGED locks
      BY <1>1, <3>1
    <3>2. CASE ~ UNCHANGED locks
      <4>1. /\ Others(c) = {}
            /\ \E new \in LockIds :
                 /\ locks[new] = None /\ locks'[new] = Granted(c) /\ Granted(c) # None
                 /\ \A id \in LockIds \ {new} :
                      locks'[id] = IF id = calls[c].lock THEN None ELSE locks[id]
        BY <1>3, <2>1, <3>2, Commits
      <4>2. PICK new \in LockIds :
                 /\ locks[new] = None /\ locks'[new] = Granted(c) /\ Granted(c) # None
                 /\ \A id \in LockIds \ {new} :
                      locks'[id] = IF id = calls[c].lock THEN None ELSE locks[id]
        BY <4>1
      <4>3. Granted(c).slot = calls[c].slot
        BY DEF Granted
      <4>4. ASSUME NEW id \in LockIds \ {new}, locks'[id] # None
            PROVE  locks'[id] = locks[id] /\ locks[id].slot # calls[c].slot
        BY <4>1, <4>2, <4>4 DEF Others, LocksOn, Held
      <4> QED
        BY <4>2, <4>3, <4>4 DEF OneLockPerSlot, Held
    <3> QED
      BY <3>1, <3>2
  <2>2. CASE calls[c].op # "acquire"
    BY <1>1, <1>3, <2>2, Commits DEF OneLockPerSlot, Held
  <2> QED
    BY <2>1, <2>2
<1> QED
  BY <1>1, <1>2, <1>3, ReadsOne, OthersOne DEF LocksNext

LEMMA UndisturbedStep ==
  ASSUME LocksTypeOK, SlotsAsked, Undisturbed, LocksNext
  PROVE  Undisturbed'
<1> SUFFICES ASSUME OneAtATime
             PROVE  /\ \A c, d \in AtWork' : c = d
                    /\ \A c \in AtWork' :
                         /\ (calls'[c].op = "acquire" /\ calls'[c].lock # None)
                              => ~ Live(calls[c].lock)'
                         /\ calls'[c].op = "renew" => Live(calls[c].lock)'
                         /\ calls'[c].op = "release" => MayRelease(c)'
  BY DEF Undisturbed
<1>1. CASE TickLocks
  <2>1. AtWork' = {}
    BY <1>1, TickChanges DEF TickLocks, AtWork
  <2> QED
    BY <2>1
<1>2. ASSUME NEW c \in Calls, ServeWrite(c, LockIds \ Remembered)
      PROVE  AtWork' = {}
  <2>1. /\ c \in AtWork /\ calls'[c].stage # "read"
        /\ \A d \in Calls \ {c} : calls'[d] = calls[d]
    BY <1>2, WritesOne
  <2>2. \A d \in AtWork : d = c
    BY <2>1 DEF Undisturbed
  <2> QED
    BY <2>1, <2>2 DEF AtWork
<1>3. ASSUME NEW c \in Calls, Arrive(c) \/ Finish(c) \/ LoseRequest(c) \/ LoseAnswer(c)
      PROVE  UNCHANGED locks /\ \A d \in AtWork' : d \in AtWork /\ calls'[d] = calls[d]
  BY <1>3, OthersOne DEF AtWork
<1>4. ASSUME NEW c \in Calls, ServeRead(c)
      PROVE  /\ UNCHANGED locks
             /\ \A d \in AtWork' : d = c
             /\ c \in AtWork' =>
                  /\ (calls'[c].op = "acquire" /\ calls'[c].lock # None)
                       => ~ Live(calls[c].lock)'
                  /\ calls'[c].op = "renew" => Live(calls[c].lock)'
                  /\ calls'[c].op = "release" => MayRelease(c)'
  BY <1>4, ReadsOne DEF AtWork, Live, Held, MayRelease
<1>5. ASSUME NEW c \in Calls, Arrive(c) \/ Finish(c) \/ LoseRequest(c) \/ LoseAnswer(c)
      PROVE  /\ \A a, d \in AtWork' : a = d
             /\ \A d \in AtWork' :
                  /\ (calls'[d].op = "acquire" /\ calls'[d].lock # None)
                       => ~ Live(calls[d].lock)'
                  /\ calls'[d].op = "renew" => Live(calls[d].lock)'
                  /\ calls'[d].op = "release" => MayRelease(d)'
  BY <1>3, <1>5 DEF Undisturbed, Live, Held, MayRelease
<1> QED
  BY <1>1, <1>2, <1>4, <1>5 DEF LocksNext

\* It is inductive, whichever step of the locks is taken.
LEMMA LocksStep == ASSUME LocksInv, [LocksNext]_lockVars PROVE LocksInv'
<1>1. CASE UNCHANGED lockVars
  BY <1>1 DEF lockVars, LocksInv, LocksTypeOK, SlotsAsked, OneLockPerSlot, Undisturbed,
     Held, Live, MayRelease, AtWork
<1>2. CASE LocksNext
  BY <1>2, StepTyped, SlotsAskedStep, OneLockStep, UndisturbedStep DEF LocksInv
<1> QED BY <1>1, <1>2

\* The inductive invariant holds of every reachable state.
THEOREM LocksInvariance == LocksSpec => []LocksInv
<1>1. LocksInit => LocksInv
  BY LocksConstantsOK DEF LocksInit, LocksInv, LocksTypeOK, SlotsAsked, OneLockPerSlot, Undisturbed,
     Held, AtWork
<1> QED
  BY <1>1, LocksStep, PTL DEF LocksSpec

\* Locks and requests keep their types, whichever requests overlap.
THEOREM LocksTypeCorrect == LocksSpec => []LocksTypeOK
BY LocksInvariance, PTL DEF LocksInv

\* The unique constraint, with the deletion of what had expired, leaves a slot one lock.
THEOREM OneLock == LocksSpec => []OneLockPerSlot
BY LocksInvariance, PTL DEF LocksInv

\* Served one at a time, a step takes a live lock only from a holder who releases it.
LEMMA KeepsStep ==
  ASSUME OneAtATime, LocksInv, [LocksNext]_lockVars
  PROVE  \A id \in LockIds : (Live(id) /\ locks'[id] = None) => BeingReleased(id)
<1> SUFFICES ASSUME NEW id \in LockIds, Live(id), locks'[id] = None
             PROVE  BeingReleased(id)
  OBVIOUS
<1>1. locks'[id] # locks[id]
  BY DEF Live, Held
<1>0. LocksTypeOK /\ ~ UNCHANGED locks /\ LocksNext
  BY <1>1 DEF LocksInv, lockVars
<1>9. ~ TickLocks
  BY <1>0, TickChanges DEF Live, Held
<1>2. PICK c \in Calls : ServeWrite(c, LockIds \ Remembered)
  BY <1>0, <1>9, ReadsOne, OthersOne DEF LocksNext
<1>3. c \in AtWork
  BY <1>2, WritesOne DEF LocksInv
<1>4. calls[c].op # "acquire"
  BY <1>1, <1>2, <1>3, Commits, LocksConstantsOK DEF LocksInv, Undisturbed
<1>5. calls[c].op = "release" /\ calls[c].lock = id
  BY <1>1, <1>2, <1>4, Commits DEF LocksInv, Live, Held
<1> QED
  BY <1>3, <1>5 DEF LocksInv, Undisturbed, AtWork, MayRelease, BeingReleased, Writes

\* Served one at a time, an acquire never takes a slot whose lock is live.
THEOREM SerialKeepsLocks ==
  ASSUME OneAtATime
  PROVE  LocksSpec => LiveLockKept
BY KeepsStep, LocksInvariance, PTL DEF LocksSpec, LiveLockKept

\* Served one at a time, a step leaves a lock that has expired expired.
LEMMA RevivesStep ==
  ASSUME OneAtATime, LocksInv, [LocksNext]_lockVars
  PROVE  \A id \in LockIds :
           (Held(id) /\ ~ Live(id) /\ locks'[id] # None) => locks'[id].left = 0
<1> SUFFICES ASSUME NEW id \in LockIds, Held(id), ~ Live(id), locks'[id] # None
             PROVE  locks'[id].left = 0
  OBVIOUS
<1>1. locks[id].left = 0
  BY DEF LocksInv, LocksTypeOK, Lock, Live, Held
<1>2. CASE locks'[id] = locks[id]
  BY <1>1, <1>2
<1>3. CASE TickLocks
  BY <1>1, <1>3, TickChanges DEF LocksInv
<1>4. ASSUME NEW c \in Calls, ServeWrite(c, LockIds \ Remembered)
      PROVE  locks'[id] = locks[id]
  <2>1. c \in AtWork
    BY <1>4, WritesOne DEF LocksInv
  <2>2. calls[c].op = "renew" => calls[c].lock # id
    BY <2>1 DEF LocksInv, Undisturbed
  <2> QED
    BY <1>4, <2>2, Commits DEF LocksInv, Held
<1> QED
  BY <1>2, <1>3, <1>4, ReadsOne, OthersOne DEF LocksInv, LocksNext, lockVars

\* Served one at a time, a lock that has expired stays expired until it is deleted.
THEOREM SerialNeverRevives ==
  ASSUME OneAtATime
  PROVE  LocksSpec => NotRevived
BY RevivesStep, LocksInvariance, PTL DEF LocksSpec, NotRevived

\* Both together: served one at a time, a lock lives until its holder lets it go or it
\* expires, and not beyond.
THEOREM SerialLocksLive ==
  ASSUME OneAtATime
  PROVE  LocksSpec => LocksLive
BY SerialKeepsLocks, SerialNeverRevives DEF LocksLive

-------------------------------------------------------------------------------
(* The screens: types, and the locks they share.                             *)

\* What the screens do to the calls: requests that are not being served are sent or freed.
ClientStep ==
  /\ UNCHANGED locks
  /\ calls' \in [Calls -> Call \union {Free}]
  /\ \A c \in Calls : calls'[c] # calls[c] =>
       /\ c \notin AtWork
       /\ calls'[c] # Free => /\ calls'[c].stage = "sent"
                              /\ calls'[c].op = "acquire" => calls'[c].slot \in Slots

\* What any client sends or has read leaves the invariant of the locks.
LEMMA ClientKeeps == ASSUME LocksInv, ClientStep PROVE LocksInv'
<1>1. \A c \in Calls : c \in AtWork' => c \in AtWork /\ calls'[c] = calls[c]
  BY DEF ClientStep, AtWork
<1>2. LocksTypeOK' BY DEF ClientStep, LocksInv, LocksTypeOK
<1>3. SlotsAsked' BY DEF ClientStep, LocksInv, SlotsAsked
<1>4. OneLockPerSlot' BY DEF ClientStep, LocksInv, OneLockPerSlot, Held
<1>5. Undisturbed'
  BY <1>1 DEF ClientStep, LocksInv, Undisturbed, Live, Held, MayRelease, AtWork
<1> QED BY <1>2, <1>3, <1>4, <1>5 DEF LocksInv

ScreensTyped ==
  /\ screens \in [Browsers -> Screen]
  /\ line \in [Browsers -> SUBSET Calls] /\ ahead \in [Calls -> SUBSET Calls]
SelectionInv == LocksInv /\ ScreensTyped

\* A request that has just been sent.
LEMMA RequestTyped ==
  ASSUME NEW op \in {"acquire", "renew", "release"}, NEW by \in Operators,
         NEW slot \in Slots \union {None}, NEW id \in LockIds \union {None}
  PROVE  /\ Request(op, by, slot, id) \in Call /\ Request(op, by, slot, id) # Free
         /\ Request(op, by, slot, id).stage = "sent" /\ Request(op, by, slot, id).op = op
         /\ Request(op, by, slot, id).slot = slot /\ Request(op, by, slot, id).lock = id
         /\ Request(op, by, slot, id).by = by
<1>1. Request(op, by, slot, id) =
        [left |-> 0, slot |-> slot, lock |-> id, stage |-> "sent", op |-> op, by |-> by]
  BY DEF Request
<1>2. 0 \in 0 .. TTL BY LocksConstantsOK
<1>3. Request(op, by, slot, id) \in Call BY <1>1, <1>2 DEF Call
<1>4. Free \notin Call BY DEF Free, Call
<1> QED BY <1>1, <1>3, <1>4

\* Sending is a step of a client.
LEMMA SendTyped ==
  ASSUME SelectionInv, NEW b \in Browsers, NEW r, NEW c, NEW request,
         r \in CallFor(HasLock(b)) \union {None},
         \/ c = None
         \/ c \in CallFor(TRUE) /\ request \in Call /\ request # Free /\ request.stage = "sent"
            /\ (request.op = "acquire" => request.slot \in Slots),
         Send(b, r, c, request), UNCHANGED locks
  PROVE  ClientStep /\ line' \in [Browsers -> SUBSET Calls] /\ ahead' \in [Calls -> SUBSET Calls]
<1> DEFINE release == Request("release", UserOf[b], None, screens[b].current.id)
<1>1. r = None \/ (r \in Calls /\ calls[r] = Free) BY DEF CallFor
<1>2. c = None \/ (c \in Calls /\ calls[c] = Free) BY DEF CallFor
<1>3. UserOf[b] \in Operators /\ screens[b].current.id \in LockIds \union {None}
  BY SelectionConstantsOK DEF SelectionInv, ScreensTyped, Screen
<1>4. release \in Call /\ release # Free /\ release.stage = "sent" /\ release.op = "release"
  BY <1>3, RequestTyped
<1> HIDE DEF release
<1>5. /\ calls' = [d \in Calls |-> IF d = r THEN release ELSE IF d = c THEN request ELSE calls[d]]
      /\ line' = [line EXCEPT ![b] = @ \union ({r, c} \ {None})]
      /\ ahead' = [d \in Calls |-> IF d = r THEN line[b]
                               ELSE IF d = c THEN line[b] \union ({r} \ {None}) ELSE ahead[d]]
  BY DEF Send, release
<1>6. \A d \in Calls : d \in {r, c} => d \notin AtWork BY <1>1, <1>2, SelectionConstantsOK DEF AtWork
<1>7. ClientStep
  <2>1. calls' \in [Calls -> Call \union {Free}]
    BY <1>2, <1>4, <1>5, SelectionConstantsOK DEF SelectionInv, LocksInv, LocksTypeOK
  <2>2. \A d \in Calls : d \notin {r, c} => calls'[d] = calls[d] BY <1>5
  <2>3. \A d \in Calls : d \in {r, c} =>
          calls'[d].stage = "sent" /\ (calls'[d].op = "acquire" => calls'[d].slot \in Slots)
    BY <1>2, <1>4, <1>5, SelectionConstantsOK
  <2> QED BY <1>6, <2>1, <2>2, <2>3 DEF ClientStep
<1>8. line' \in [Browsers -> SUBSET Calls] BY <1>1, <1>2, <1>5 DEF SelectionInv, ScreensTyped
<1>9. ahead' \in [Calls -> SUBSET Calls]
  BY <1>1, <1>2, <1>5 DEF SelectionInv, ScreensTyped
<1> QED BY <1>7, <1>8, <1>9

LEMMA ShowTyped ==
  ASSUME ScreensTyped, NEW b \in Browsers, NEW screen \in Screen, Show(b, screen)
  PROVE  screens' \in [Browsers -> Screen]
BY DEF Show, ScreensTyped

LEMMA SelectTyped ==
  ASSUME SelectionInv, NEW b \in Browsers, Select(b)
  PROVE  ClientStep /\ ScreensTyped'
<1>1. PICK s \in Slots \union {None}, r \in CallFor(HasLock(b)) : \E c \in CallFor(s # None) :
         /\ Send(b, r, c, Request("acquire", UserOf[b], s, None))
         /\ Show(b, [screens[b] EXCEPT
                       !.selected = s, !.current = NoLock,
                       !.kind = IF s = None THEN "idle" ELSE "acquiring",
                       !.awaited = IF s = None THEN @ ELSE c])
         /\ UNCHANGED locks
  BY DEF Select
<1>2. PICK c \in CallFor(s # None) :
         /\ Send(b, r, c, Request("acquire", UserOf[b], s, None))
         /\ Show(b, [screens[b] EXCEPT
                       !.selected = s, !.current = NoLock,
                       !.kind = IF s = None THEN "idle" ELSE "acquiring",
                       !.awaited = IF s = None THEN @ ELSE c])
         /\ UNCHANGED locks
  BY <1>1
<1> DEFINE q == Request("acquire", UserOf[b], s, None)
<1>3. UserOf[b] \in Operators BY SelectionConstantsOK
<1>4. q \in Call /\ q # Free /\ q.stage = "sent" /\ q.slot = s BY <1>3, RequestTyped
<1> HIDE DEF q
<1>5. c = None \/ (c \in CallFor(TRUE) /\ s \in Slots) BY DEF CallFor
<1>6. ClientStep /\ line' \in [Browsers -> SUBSET Calls] /\ ahead' \in [Calls -> SUBSET Calls]
  BY <1>2, <1>4, <1>5, SendTyped DEF q
<1>7. screens' \in [Browsers -> Screen]
  <2>1. c \in Calls \union {None} BY DEF CallFor
  <2>2. screens[b] \in Screen BY DEF SelectionInv, ScreensTyped
  <2>3. NoLock \in [id: LockIds \union {None}, left: 0 .. TTL] BY LocksConstantsOK DEF NoLock
  <2>4. [screens[b] EXCEPT
                       !.selected = s, !.current = NoLock,
                       !.kind = IF s = None THEN "idle" ELSE "acquiring",
                       !.awaited = IF s = None THEN @ ELSE c] \in Screen
    BY <2>1, <2>2, <2>3 DEF Screen
  <2> QED BY <1>2, <2>4, ShowTyped DEF SelectionInv
<1> QED BY <1>6, <1>7 DEF ScreensTyped

LEMMA LeaveTyped ==
  ASSUME SelectionInv, NEW b \in Browsers, Leave(b)
  PROVE  ClientStep /\ ScreensTyped'
<1>1. PICK r \in CallFor(HasLock(b)) : Send(b, r, None, Free) BY DEF Leave
<1>2. ClientStep /\ line' \in [Browsers -> SUBSET Calls] /\ ahead' \in [Calls -> SUBSET Calls]
  BY <1>1, SendTyped DEF Leave
<1>3. Blank \in Screen BY LocksConstantsOK DEF Blank, Screen, NoLock
<1> QED BY <1>2, <1>3, ShowTyped DEF Leave, ScreensTyped, SelectionInv

LEMMA RenewTyped ==
  ASSUME SelectionInv, NEW b \in Browsers, Renew(b)
  PROVE  ClientStep /\ ScreensTyped'
<1> DEFINE q == Request("renew", UserOf[b], None, screens[b].current.id)
<1>1. PICK c \in CallFor(TRUE) : /\ Send(b, None, c, q)
                                 /\ Show(b, [screens[b] EXCEPT !.renewing = c])
  BY DEF Renew
<1>2. screens[b] \in Screen BY DEF SelectionInv, ScreensTyped
<1>3. q \in Call /\ q # Free /\ q.stage = "sent" /\ q.op = "renew"
  BY <1>2, RequestTyped, SelectionConstantsOK DEF Screen
<1> HIDE DEF q
<1>4. ClientStep /\ line' \in [Browsers -> SUBSET Calls] /\ ahead' \in [Calls -> SUBSET Calls]
  BY <1>1, <1>3, SendTyped DEF Renew
<1>5. [screens[b] EXCEPT !.renewing = c] \in Screen BY <1>2 DEF Screen, CallFor
<1> QED BY <1>1, <1>4, <1>5, ShowTyped DEF ScreensTyped, SelectionInv

\* An answer that is read frees its call.
LEMMA GoneTyped ==
  ASSUME SelectionInv, NEW c \in Calls, Answered(c), Gone(c), UNCHANGED locks
  PROVE  ClientStep
BY DEF SelectionInv, LocksInv, LocksTypeOK, Answered, Answers, Gone, ClientStep, AtWork

LEMMA CopyTyped ==
  ASSUME SelectionInv, NEW c \in Calls, Answered(c)
  PROVE  Copy(c) \in [id: LockIds \union {None}, left: 0 .. TTL]
<1>1. calls[c] \in Call BY DEF SelectionInv, LocksInv, LocksTypeOK, Answered
<1> QED BY <1>1 DEF Copy, Call

LEMMA AnswerAcquireTyped ==
  ASSUME SelectionInv, NEW b \in Browsers, AnswerAcquire(b)
  PROVE  ClientStep /\ ScreensTyped'
<1> DEFINE c == screens[b].awaited
           after == [screens[b] EXCEPT !.awaited = None]
<1>1. screens[b] \in Screen BY DEF SelectionInv, ScreensTyped
<1>2. c \in Calls /\ Answered(c) /\ UNCHANGED locks BY <1>1 DEF AnswerAcquire, Screen
<1>3. after \in Screen BY <1>1 DEF Screen
<1>4. PICK k : k = Copy(c) OBVIOUS
<1>5. k \in [id: LockIds \union {None}, left: 0 .. TTL] BY <1>2, <1>4, CopyTyped
<1> DEFINE held == [after EXCEPT !.current = k, !.kind = "held-by-me"]
           told == [after EXCEPT !.kind = Otherwise(c)]
<1>6. held \in Screen /\ told \in Screen BY <1>3, <1>5 DEF Screen, Otherwise
<1>7. Show(b, held) \/ Show(b, told) \/ Show(b, after) BY <1>4 DEF AnswerAcquire
<1> HIDE DEF held, told, after
<1>8. screens' \in [Browsers -> Screen] BY <1>3, <1>6, <1>7, ShowTyped DEF SelectionInv
<1>9. CASE Gone(c) /\ UNCHANGED <<line, ahead>>
  BY <1>2, <1>8, <1>9, GoneTyped DEF SelectionInv, ScreensTyped
<1>10. CASE /\ calls' = [calls EXCEPT ![c] = Request("release", UserOf[b], None, calls[c].lock)]
            /\ line' = [line EXCEPT ![b] = @ \union {c}]
            /\ ahead' = [ahead EXCEPT ![c] = line[b]]
  <2>1. PICK q : q = Request("release", UserOf[b], None, calls[c].lock) OBVIOUS
  <2>2. calls[c].lock \in LockIds \union {None} /\ UserOf[b] \in Operators
    BY <1>2, SelectionConstantsOK DEF Answered, SelectionInv, LocksInv, LocksTypeOK, Call
  <2>3. q \in Call /\ q # Free /\ q.stage = "sent" /\ q.op = "release"
    BY <2>1, <2>2, RequestTyped
  <2>4. calls' = [calls EXCEPT ![c] = q] BY <1>10, <2>1
  <2>5. ClientStep
    BY <1>2, <2>3, <2>4
       DEF SelectionInv, LocksInv, LocksTypeOK, Answered, Answers, ClientStep, AtWork
  <2> QED BY <1>2, <1>8, <1>10, <2>5 DEF SelectionInv, ScreensTyped
<1> QED BY <1>9, <1>10 DEF AnswerAcquire

LEMMA AnswerRenewTyped ==
  ASSUME SelectionInv, NEW b \in Browsers, AnswerRenew(b)
  PROVE  ClientStep /\ ScreensTyped'
<1> DEFINE c == screens[b].renewing
           after == [screens[b] EXCEPT !.renewing = None]
<1>1. screens[b] \in Screen BY DEF SelectionInv, ScreensTyped
<1>2. c \in Calls /\ Answered(c) /\ UNCHANGED locks /\ Gone(c) /\ UNCHANGED <<line, ahead>>
  BY <1>1 DEF AnswerRenew, Screen
<1>3. after \in Screen BY <1>1 DEF Screen
<1>4. PICK k, n : k = Copy(c) /\ n = NoLock OBVIOUS
<1>5. k \in [id: LockIds \union {None}, left: 0 .. TTL] /\ n \in [id: LockIds \union {None}, left: 0 .. TTL]
  BY <1>2, <1>4, CopyTyped, LocksConstantsOK DEF NoLock
<1> DEFINE held == [after EXCEPT !.current = k, !.kind = "held-by-me"]
           lost == [after EXCEPT !.current = n, !.kind = "error"]
           told == [after EXCEPT !.kind = "error"]
<1>6. held \in Screen /\ lost \in Screen /\ told \in Screen BY <1>3, <1>5 DEF Screen
<1>7. Show(b, held) \/ Show(b, lost) \/ Show(b, told)
  <2>1. CASE calls[c].stage = "lock" BY <1>4, <2>1 DEF AnswerRenew
  <2>2. CASE calls[c].stage = "refused" BY <1>4, <2>2 DEF AnswerRenew
  <2>3. CASE calls[c].stage \notin {"lock", "refused"} BY <2>3 DEF AnswerRenew
  <2> QED BY <2>1, <2>2, <2>3
<1> HIDE DEF held, lost, told
<1>8. screens' \in [Browsers -> Screen] BY <1>6, <1>7, ShowTyped DEF SelectionInv
<1> QED BY <1>2, <1>8, GoneTyped DEF SelectionInv, ScreensTyped

\* Serving a request is a step of the locks.
LEMMA ServeIsLocks ==
  ASSUME NEW c \in Calls, Serve(c)
  PROVE  /\ ServeRead(c) \/ ServeWrite(c, LockIds \ Remembered) \/ LoseRequest(c) \/ LoseAnswer(c)
         /\ LocksNext
<1>1. ServeWrite(c, LockIds \ RememberedIds) => ServeWrite(c, LockIds \ Remembered)
  BY DEF ServeWrite, RememberedIds
<1> QED BY <1>1 DEF Serve, LocksNext

\* Every step is one of a client or one of the locks.
LEMMA SelectionStep ==
  ASSUME SelectionInv, [SelectionNext]_selectionVars
  PROVE  (ClientStep \/ [LocksNext]_lockVars) /\ ScreensTyped'
<1>1. CASE UNCHANGED selectionVars BY <1>1 DEF selectionVars, lockVars, SelectionInv, ScreensTyped
<1>2. ASSUME NEW b \in Browsers, Crash(b) \/ Expire(b)
      PROVE  UNCHANGED lockVars /\ ScreensTyped'
  <2>1. Blank \in Screen BY LocksConstantsOK DEF Blank, Screen, NoLock
  <2>2. [screens[b] EXCEPT !.kind = "error"] \in Screen BY DEF SelectionInv, ScreensTyped, Screen
  <2> QED BY <1>2, <2>1, <2>2, ShowTyped DEF Crash, Expire, lockVars, SelectionInv, ScreensTyped
<1>3. ASSUME NEW c \in Calls, Ignore(c) PROVE ClientStep /\ ScreensTyped'
  BY <1>3, GoneTyped DEF Ignore, SelectionInv, ScreensTyped
<1>4. ASSUME NEW c \in Calls, Serve(c) PROVE LocksNext /\ ScreensTyped'
  BY <1>4, ServeIsLocks DEF Serve, Leaves, SelectionInv, ScreensTyped
<1>5. CASE Tick
  <2>1. \A n \in 0 .. TTL : Less(n) \in 0 .. TTL BY LocksConstantsOK DEF Less
  <2>2. \A s \in Screen : [s EXCEPT !.current.left = Less(@)] \in Screen BY <2>1 DEF Screen
  <2>3. screens' \in [Browsers -> Screen] BY <1>5, <2>2 DEF Tick, SelectionInv, ScreensTyped
  <2> QED BY <1>5, <2>3 DEF Tick, LocksNext, SelectionInv, ScreensTyped
<1> QED
  BY <1>1, <1>2, <1>3, <1>4, <1>5, SelectTyped, LeaveTyped, RenewTyped, AnswerAcquireTyped,
     AnswerRenewTyped DEF SelectionNext

\* The inductive invariant of the screens: every step is one that any client may take, or
\* one of the locks, and either keeps the invariant of the locks.
THEOREM SelectionInvariance == SelectionSpec => []SelectionInv
<1>1. SelectionInit => SelectionInv
  <2> SUFFICES ASSUME SelectionInit PROVE SelectionInv OBVIOUS
  <2>1. LocksInv
    BY LocksConstantsOK DEF SelectionInit, LocksInit, LocksInv, LocksTypeOK, SlotsAsked,
       OneLockPerSlot, Undisturbed, Held, AtWork
  <2>2. Blank \in Screen BY LocksConstantsOK DEF Blank, Screen, NoLock
  <2> QED BY <2>1, <2>2 DEF SelectionInit, SelectionInv, ScreensTyped
<1>2. SelectionInv /\ [SelectionNext]_selectionVars => SelectionInv'
  BY SelectionStep, ClientKeeps, LocksStep DEF SelectionInv
<1> QED BY <1>1, <1>2, PTL DEF SelectionSpec

\* Screens, lines and requests keep their types.
THEOREM SelectionTypeCorrect == SelectionSpec => []SelectionTypeOK
BY SelectionInvariance, PTL DEF SelectionInv, ScreensTyped, LocksInv, SelectionTypeOK

\* A slot has one lock, whatever operators select, leave and lose.
THEOREM SelectionOneLock == SelectionSpec => []OneLockPerSlot
BY SelectionInvariance, PTL DEF SelectionInv, LocksInv

\* Served one at a time, a lock of the pages lives until its holder lets it go or it
\* expires, and not beyond: what pages do changes no lock.
THEOREM SelectionLocksLive ==
  ASSUME OneAtATime
  PROVE  SelectionSpec => LocksLive
<1>1. ASSUME SelectionInv, [SelectionNext]_selectionVars
      PROVE  /\ \A id \in LockIds : (Live(id) /\ locks'[id] = None) => BeingReleased(id)
             /\ \A id \in LockIds :
                  (Held(id) /\ ~ Live(id) /\ locks'[id] # None) => locks'[id].left = 0
  <2>1. CASE ClientStep
    BY <1>1, <2>1 DEF ClientStep, SelectionInv, LocksInv, LocksTypeOK, Lock, Live, Held
  <2>2. CASE [LocksNext]_lockVars
    BY <1>1, <2>2, KeepsStep, RevivesStep DEF SelectionInv
  <2> QED
    BY <1>1, <2>1, <2>2, SelectionStep
<1> QED
  BY <1>1, SelectionInvariance, PTL DEF SelectionSpec, LocksLive, LiveLockKept, NotRevived

-------------------------------------------------------------------------------
(* The screens and the locks agree: the invariant.                           *)

\* Operators who wait for their answers, each at one page, served in order and one at a time.
OwnPages == \A a, b \in Browsers : UserOf[a] = UserOf[b] => a = b
InStep == OneAtATime /\ Ordered /\ Patient /\ ~ MayFail /\ ~ MayLeave /\ OwnPages

Pending(c) == calls[c] # Free /\ calls[c].stage \in {"sent", "read"}
SentBy(b, c) == calls[c] # Free /\ calls[c].by = UserOf[b]
Releases(b) == {c \in line[b] : calls[c].op = "release"}
Waits(b) == {screens[b].awaited, screens[b].renewing} \ {None}

\* In line is what has not been answered: releases, and the request that is waited for.
LineRight(b) ==
  /\ \A c \in Calls : c \in line[b] <=> (Pending(c) /\ SentBy(b, c))
  /\ \A c \in line[b] : calls[c].op = "release" \/ c \in Waits(b)

\* The acquire that is awaited is the last of its line, and so finds no lock of its own.
AwaitedRight(b) ==
  LET c == screens[b].awaited IN c # None =>
    /\ ~ HasLock(b) /\ screens[b].renewing = None
    /\ SentBy(b, c) /\ calls[c].op = "acquire" /\ calls[c].slot = screens[b].selected
    /\ Pending(c) => ahead[c] = line[b] \ {c}
    /\ calls[c].stage # "own"

\* A renewal is for the lock the screen has, and is refused when that has expired.
RenewingRight(b) ==
  LET c == screens[b].renewing IN c # None =>
    /\ HasLock(b)
    /\ SentBy(b, c) /\ calls[c].op = "renew" /\ calls[c].lock = screens[b].current.id
    /\ calls[c].stage = "refused" => ~ Live(screens[b].current.id)

\* A copy of a lock: who holds it, for which slot, how long at least; nobody releases it.
Theirs(b, id, left) ==
  /\ id # None
  /\ Held(id) => locks[id].holder = UserOf[b] /\ locks[id].slot = screens[b].selected
  /\ left > 0 => Held(id) /\ locks[id].left >= left
  /\ \A r \in Releases(b) : calls[r].lock # id

CopiesRight(b) ==
  /\ HasLock(b) => Theirs(b, screens[b].current.id, screens[b].current.left)
  /\ \A c \in Waits(b) : calls[c].stage = "lock" => Theirs(b, calls[c].lock, calls[c].left)

\* A live lock is on its holder's screen, or on its way there, or about to be released.
Brings(b, id) ==
  /\ screens[b].awaited # None
  /\ calls[screens[b].awaited].stage = "lock" /\ calls[screens[b].awaited].lock = id
Placed(b, id) ==
  \/ screens[b].current.id = id \/ Brings(b, id)
  \/ \E r \in Releases(b) : calls[r].lock = id
NoneLeft(b) == \A id \in LockIds : (Live(id) /\ locks[id].holder = UserOf[b]) => Placed(b, id)

PageRight(b) ==
  LineRight(b) /\ AwaitedRight(b) /\ RenewingRight(b) /\ CopiesRight(b) /\ NoneLeft(b)

\* Requests and locks are of those who have a page.
Known ==
  /\ \A c \in Calls : calls[c] # Free => \E b \in Browsers : SentBy(b, c)
  /\ \A id \in LockIds : Held(id) => \E b \in Browsers : locks[id].holder = UserOf[b]

\* What a request has read stays so until it writes.
WorkRight ==
  \A c \in AtWork :
    /\ calls[c].op = "acquire" => LocksOn(calls[c].slot) \subseteq {calls[c].lock}
    /\ calls[c].op # "release" => calls[c].left = TTL
    /\ calls[c].op = "renew" => locks[calls[c].lock].holder = calls[c].by

\* The invariant: pages, requests under way and locks tell one story.
AgreeInv == Known /\ WorkRight /\ \A b \in Browsers : PageRight(b)

\* The invariant says what is wanted: what is shown is held, what is held is wanted.
LEMMA InvAgrees == ASSUME SelectionInv, AgreeInv PROVE ScreensAgree
<1>1. HeldIsLocked
  <2> SUFFICES ASSUME NEW b \in Browsers, Mine(b), screens[b].current.left > 0
               PROVE  /\ Held(screens[b].current.id)
                      /\ locks[screens[b].current.id].holder = UserOf[b]
                      /\ locks[screens[b].current.id].slot = screens[b].selected
                      /\ locks[screens[b].current.id].left >= screens[b].current.left
    BY DEF HeldIsLocked
  <2>1. Theirs(b, screens[b].current.id, screens[b].current.left)
    BY DEF Mine, AgreeInv, PageRight, CopiesRight
  <2> QED BY <2>1 DEF Theirs
<1>2. NotAbandoned
  <2> SUFFICES ASSUME NEW id \in LockIds, Live(id) PROVE Wanted(id) BY DEF NotAbandoned
  <2>1. PICK b \in Browsers : locks[id].holder = UserOf[b] BY DEF AgreeInv, Known, Live
  <2>2. Placed(b, id) BY <2>1 DEF AgreeInv, PageRight, NoneLeft
  <2>3. CASE screens[b].current.id = id BY <2>3 DEF Wanted
  <2>4. CASE Brings(b, id) BY <2>1, <2>4 DEF Brings, Wanted
  <2>5. CASE \E r \in Releases(b) : calls[r].lock = id
    <3>1. \A r \in line[b] : r \in Calls /\ calls[r] # Free
      BY DEF AgreeInv, PageRight, LineRight, Pending, SelectionInv, ScreensTyped
    <3> QED BY <2>5, <3>1 DEF Releases, Wanted
  <2> QED BY <2>2, <2>3, <2>4, <2>5 DEF Placed
<1> QED BY <1>1, <1>2 DEF ScreensAgree

\* Nothing is under way at first.
LEMMA InitAgrees == ASSUME SelectionInit PROVE AgreeInv
<1>1. \A b \in Browsers : PageRight(b)
  BY DEF SelectionInit, LocksInit, Blank, NoLock, PageRight, LineRight, AwaitedRight, RenewingRight,
         CopiesRight, HasLock, NoneLeft, Pending, Waits, Held, Live
<1> QED BY <1>1 DEF SelectionInit, LocksInit, AgreeInv, Known, WorkRight, AtWork, Held

-------------------------------------------------------------------------------
(* A page that a step does not concern.                                      *)

\* The same page in all that matters, by its calls, its line and its locks.
SamePage(a) ==
  /\ screens'[a].selected = screens[a].selected /\ screens'[a].current = screens[a].current
  /\ screens'[a].awaited = screens[a].awaited /\ screens'[a].renewing = screens[a].renewing
  /\ line'[a] = line[a]
  /\ (screens[a].awaited # None /\ Pending(screens[a].awaited))
       => ahead'[screens[a].awaited] = ahead[screens[a].awaited]
  /\ \A c \in Calls : calls'[c] = calls[c]
                      \/ (c \notin line[a] \union Waits(a) /\ ~ (Pending(c) /\ SentBy(a, c))')
\* What is done to a lock does not concern it.
NotIts(a, id) ==
  /\ ~ (Live(id) /\ locks[id].holder = UserOf[a])
  /\ ~ (Live(id) /\ locks[id].holder = UserOf[a])'
  /\ locks'[id] # None => /\ screens[a].current.id # id
                          /\ \A c \in Waits(a) : calls[c].stage = "lock" => calls[c].lock # id

\* A page that nothing concerns stays right.
LEMMA PageKept ==
  ASSUME SelectionInv, NEW a \in Browsers, PageRight(a), SamePage(a),
         \A id \in LockIds : locks'[id] = locks[id] \/ NotIts(a, id)
  PROVE  PageRight(a)'
<1>0. /\ screens[a].awaited \in Calls \union {None} /\ screens[a].renewing \in Calls \union {None}
      /\ screens[a].current.id \in LockIds \union {None} /\ screens[a].current.left \in 0 .. TTL
      /\ line[a] \subseteq Calls /\ Waits(a) \subseteq Calls
  BY DEF SelectionInv, ScreensTyped, Screen, Waits
<1>1. Waits(a)' = Waits(a) BY DEF SamePage, Waits
<1>2. \A c \in line[a] \union Waits(a) : calls'[c] = calls[c] BY <1>0 DEF SamePage
<1>3. Releases(a)' = Releases(a) /\ \A r \in Releases(a) : calls'[r] = calls[r]
  BY <1>2 DEF Releases, SamePage
<1>4. LineRight(a)'
  BY <1>0, <1>1, <1>2 DEF SamePage, PageRight, LineRight, Pending, SentBy
<1>5. AwaitedRight(a)'
  BY <1>0, <1>2 DEF SamePage, PageRight, AwaitedRight, HasLock, Pending, SentBy, Waits
<1>6. ASSUME NEW id \in LockIds \union {None}, NEW left \in 0 .. TTL, Theirs(a, id, left),
             \/ screens[a].current.id = id
             \/ \E c \in Waits(a) : calls[c].stage = "lock" /\ calls[c].lock = id
      PROVE  Theirs(a, id, left)'
  <2>1. id \in LockIds BY <1>6 DEF Theirs
  <2>2. CASE locks'[id] = locks[id] BY <1>3, <1>6, <2>2 DEF Theirs, Held, SamePage
  <2>3. CASE NotIts(a, id)
    <3>1. locks'[id] = None BY <1>6, <2>3 DEF NotIts
    <3>2. ~ (left > 0)
      <4> SUFFICES ASSUME left > 0 PROVE FALSE OBVIOUS
      <4>1. Held(id) /\ locks[id].left >= left /\ locks[id].holder = UserOf[a]
        BY <1>6 DEF Theirs
      <4>2. locks[id].left \in 0 .. TTL
        BY <2>1, <4>1 DEF SelectionInv, LocksInv, LocksTypeOK, Lock, Held
      <4> QED BY <2>3, <4>1, <4>2, LocksConstantsOK DEF NotIts, Live
    <3> QED BY <1>3, <1>6, <3>1, <3>2 DEF Theirs, Held
  <2> QED BY <2>1, <2>2, <2>3
<1>7. \A c \in Waits(a) : calls[c] # Free => calls[c].lock \in LockIds \union {None} /\ calls[c].left \in 0 .. TTL
  BY <1>0 DEF SelectionInv, LocksInv, LocksTypeOK, Call
<1>8. \A c \in Waits(a) : calls[c] # Free
  BY DEF PageRight, AwaitedRight, RenewingRight, SentBy, Waits
<1>9. CopiesRight(a)'
  <2>1. HasLock(a)' => Theirs(a, screens[a].current.id, screens[a].current.left)'
    BY <1>0, <1>6 DEF PageRight, CopiesRight, HasLock, SamePage
  <2>2. \A c \in Waits(a) : calls[c].stage = "lock" => Theirs(a, calls[c].lock, calls[c].left)'
    BY <1>2, <1>6, <1>7, <1>8 DEF PageRight, CopiesRight
  <2> QED BY <1>1, <1>2, <2>1, <2>2 DEF CopiesRight
<1>10. RenewingRight(a)'
  <2> SUFFICES ASSUME screens[a].renewing # None, calls[screens[a].renewing].stage = "refused",
                      Live(screens[a].current.id)'
               PROVE  FALSE
    BY <1>0, <1>2 DEF SamePage, PageRight, RenewingRight, HasLock, SentBy, Waits
  <2>1. HasLock(a) /\ ~ Live(screens[a].current.id) BY DEF PageRight, RenewingRight
  <2>2. screens[a].current.id \in LockIds BY <1>0, <2>1 DEF HasLock
  <2> QED BY <2>1, <2>2 DEF SamePage, NotIts, Live, Held
<1>11. NoneLeft(a)'
  <2> SUFFICES ASSUME NEW id \in LockIds, (Live(id) /\ locks[id].holder = UserOf[a])'
               PROVE  Placed(a, id)'
    BY DEF NoneLeft
  <2>1. locks'[id] = locks[id] BY DEF NotIts
  <2>2. Placed(a, id) BY <2>1 DEF PageRight, NoneLeft, Live, Held
  <2> QED BY <1>0, <1>2, <1>3, <2>2 DEF Placed, Brings, SamePage, Waits
<1> QED BY <1>4, <1>5, <1>9, <1>10, <1>11 DEF PageRight

-------------------------------------------------------------------------------
(* What operators and browsers do.                                           *)

\* A page that is right waits for requests there are.
LEMMA WaitsTyped ==
  ASSUME SelectionInv, NEW a \in Browsers, PageRight(a)
  PROVE  /\ line[a] \subseteq Calls /\ Waits(a) \subseteq Calls
         /\ \A c \in line[a] \union Waits(a) : SentBy(a, c) /\ calls[c] # Free /\ calls[c] \in Call
         /\ screens[a] \in Screen
         /\ screens[a].awaited \in Calls \union {None} /\ screens[a].renewing \in Calls \union {None}
         /\ screens[a].current.id \in LockIds \union {None} /\ screens[a].current.left \in 0 .. TTL
<1>1. line[a] \subseteq Calls /\ screens[a] \in Screen BY DEF SelectionInv, ScreensTyped
<1>2. Waits(a) \subseteq Calls BY <1>1 DEF Screen, Waits
<1>3. \A c \in line[a] \union Waits(a) : SentBy(a, c)
  BY <1>1 DEF PageRight, LineRight, AwaitedRight, RenewingRight, Waits
<1> QED
  BY <1>1, <1>2, <1>3 DEF SentBy, SelectionInv, LocksInv, LocksTypeOK, Screen

\* A step of one page that leaves the locks alone.
LEMMA ClientAgrees ==
  ASSUME SelectionInv, AgreeInv, ClientStep, NEW b \in Browsers, PageRight(b)',
         \A a \in Browsers \ {b} : SamePage(a),
         \A c \in Calls : calls'[c] # calls[c] /\ calls'[c] # Free => calls'[c].by = UserOf[b]
  PROVE  AgreeInv'
<1>1. \A a \in Browsers \ {b} : PageRight(a)' BY PageKept DEF ClientStep, AgreeInv
<1>2. Known' BY DEF AgreeInv, Known, ClientStep, SentBy, Held
<1>3. \A c \in AtWork' : c \in AtWork /\ calls'[c] = calls[c] BY DEF ClientStep, AtWork
<1>4. WorkRight' BY <1>3 DEF ClientStep, AgreeInv, WorkRight, LocksOn, Held
<1> QED BY <1>1, <1>2, <1>4 DEF AgreeInv

\* What a browser sends concerns no other.
LEMMA SendApart ==
  ASSUME SelectionInv, AgreeInv, OwnPages, NEW b \in Browsers, NEW r, NEW c, NEW request,
         r = None \/ (r \in Calls /\ calls[r] = Free),
         c = None \/ (c \in Calls /\ calls[c] = Free /\ request.by = UserOf[b]),
         Send(b, r, c, request), NEW screen, Show(b, screen)
  PROVE  /\ \A a \in Browsers \ {b} : SamePage(a)
         /\ \A d \in Calls : calls'[d] # calls[d] /\ calls'[d] # Free => calls'[d].by = UserOf[b]
<1>1. /\ calls' = [d \in Calls |-> IF d = r THEN Request("release", UserOf[b], None, screens[b].current.id)
                                   ELSE IF d = c THEN request ELSE calls[d]]
      /\ line' = [line EXCEPT ![b] = @ \union ({r, c} \ {None})]
      /\ ahead' = [d \in Calls |-> IF d = r THEN line[b]
                               ELSE IF d = c THEN line[b] \union ({r} \ {None}) ELSE ahead[d]]
  BY DEF Send
<1>2. Request("release", UserOf[b], None, screens[b].current.id).by = UserOf[b] BY DEF Request
<1>3. \A d \in Calls : d = r \/ d = c => calls[d] = Free /\ calls'[d].by = UserOf[b]
  BY <1>1, <1>2, SelectionConstantsOK
<1>4. \A d \in Calls : d # r /\ d # c => calls'[d] = calls[d] /\ ahead'[d] = ahead[d] BY <1>1
<1>5. ASSUME NEW a \in Browsers \ {b} PROVE SamePage(a)
  <2>1. PageRight(a) BY DEF AgreeInv
  <2>2. screens'[a] = screens[a] /\ line'[a] = line[a]
    BY <1>1 DEF Show, SelectionInv, ScreensTyped
  <2>3. UserOf[a] # UserOf[b] BY DEF OwnPages
  <2>4. \A d \in line[a] \union Waits(a) : d \in Calls /\ calls[d] # Free BY <2>1, WaitsTyped
  <2>5. \A d \in Calls : calls'[d] = calls[d]
                      \/ (d \notin line[a] \union Waits(a) /\ ~ (Pending(d) /\ SentBy(a, d))')
    BY <1>3, <1>4, <2>3, <2>4 DEF SentBy
  <2>6. screens[a].awaited # None => ahead'[screens[a].awaited] = ahead[screens[a].awaited]
    BY <1>3, <1>4, <2>4 DEF Waits
  <2> QED BY <2>2, <2>5, <2>6 DEF SamePage
<1> QED BY <1>3, <1>4, <1>5

\* A selection: the lock the screen had is in the release it sends, ahead of the acquire.
LEMMA SelectAgrees ==
  ASSUME InStep, SelectionInv, AgreeInv, NEW b \in Browsers, Select(b)
  PROVE  AgreeInv'
<1>1. PICK s \in Slots \union {None}, r \in CallFor(HasLock(b)) : \E c \in CallFor(s # None) :
         /\ Send(b, r, c, Request("acquire", UserOf[b], s, None))
         /\ Show(b, [screens[b] EXCEPT
                       !.selected = s, !.current = NoLock,
                       !.kind = IF s = None THEN "idle" ELSE "acquiring",
                       !.awaited = IF s = None THEN @ ELSE c])
  BY DEF Select
<1>2. PICK c \in CallFor(s # None) :
         /\ Send(b, r, c, Request("acquire", UserOf[b], s, None))
         /\ Show(b, [screens[b] EXCEPT
                       !.selected = s, !.current = NoLock,
                       !.kind = IF s = None THEN "idle" ELSE "acquiring",
                       !.awaited = IF s = None THEN @ ELSE c])
  BY <1>1
<1>3. screens[b].awaited = None /\ screens[b].renewing = None /\ UNCHANGED locks
  BY DEF Select, NotWaiting, InStep
<1>4. PageRight(b) BY DEF AgreeInv
<1>5. /\ line[b] \subseteq Calls /\ screens[b] \in Screen
      /\ \A d \in line[b] : calls[d] # Free /\ calls[d].op = "release"
      /\ screens[b].current.id \in LockIds \union {None}
  BY <1>3, <1>4, WaitsTyped DEF PageRight, LineRight, Waits
<1>6. /\ HasLock(b) => r \in Calls /\ calls[r] = Free
      /\ ~ HasLock(b) => r = None
      /\ s # None => c \in Calls /\ calls[c] = Free
      /\ s = None => c = None
      /\ r # None => r # c
  BY <1>1, <1>2 DEF CallFor, Send
<1>7. PICK q : q = Request("acquire", UserOf[b], s, None) OBVIOUS
<1>8. PICK p : p = Request("release", UserOf[b], None, screens[b].current.id) OBVIOUS
<1>9. /\ q # Free /\ q.stage = "sent" /\ q.op = "acquire" /\ q.slot = s /\ q.by = UserOf[b]
      /\ p # Free /\ p.stage = "sent" /\ p.op = "release" /\ p.by = UserOf[b]
      /\ p.lock = screens[b].current.id
  <2>1. UserOf[b] \in Operators BY SelectionConstantsOK
  <2> QED BY <1>5, <1>7, <1>8, <2>1, RequestTyped
<1>10. ClientStep BY SelectTyped
<1>12. /\ \A a \in Browsers \ {b} : SamePage(a)
       /\ \A d \in Calls : calls'[d] # calls[d] /\ calls'[d] # Free => calls'[d].by = UserOf[b]
  <2>1. r = None \/ (r \in Calls /\ calls[r] = Free) BY <1>6
  <2>2. c = None \/ (c \in Calls /\ calls[c] = Free /\ q.by = UserOf[b]) BY <1>6, <1>9
  <2> QED BY <1>2, <1>7, <2>1, <2>2, SendApart DEF InStep
<1>13. /\ \A d \in Calls : calls'[d] = IF d = r THEN p ELSE IF d = c THEN q ELSE calls[d]
       /\ line'[b] = line[b] \union ({r, c} \ {None})
       /\ c \in Calls /\ c # r => ahead'[c] = line[b] \union ({r} \ {None})
  BY <1>2, <1>7, <1>8 DEF Send, SelectionInv, ScreensTyped
<1>14. /\ screens'[b].selected = s /\ screens'[b].current = NoLock
       /\ screens'[b].awaited = c /\ screens'[b].renewing = None
  <2>1. screens'[b] = [screens[b] EXCEPT
                       !.selected = s, !.current = NoLock,
                       !.kind = IF s = None THEN "idle" ELSE "acquiring",
                       !.awaited = IF s = None THEN @ ELSE c]
    BY <1>2 DEF Show, SelectionInv, ScreensTyped
  <2> QED BY <1>3, <1>5, <1>6, <2>1 DEF Screen
<1>15. r \notin line[b] /\ c \notin line[b]
  BY <1>5, <1>6, SelectionConstantsOK
<1>16. \A d \in line[b] : calls'[d] = calls[d] BY <1>5, <1>13, <1>15
<1>17. Waits(b)' = {c} \ {None} BY <1>14 DEF Waits
<1>18. LineRight(b)'
  <2>1. \A d \in Calls : d \in line[b] <=> (Pending(d) /\ SentBy(b, d)) BY <1>4 DEF PageRight, LineRight
  <2>2. \A d \in Calls : d = r \/ d = c => (Pending(d) /\ SentBy(b, d))'
    BY <1>9, <1>13 DEF Pending, SentBy
  <2>3. \A d \in Calls : d # r /\ d # c => ((Pending(d) /\ SentBy(b, d))' <=> d \in line[b])
    BY <1>13, <2>1 DEF Pending, SentBy
  <2>4. \A d \in Calls : d \in line'[b] <=> (Pending(d) /\ SentBy(b, d))'
    BY <1>13, <2>2, <2>3, <1>15, SelectionConstantsOK
  <2>5. \A d \in line'[b] : calls'[d].op = "release" \/ d \in Waits(b)'
    BY <1>5, <1>6, <1>9, <1>13, <1>16, <1>17
  <2> QED BY <2>4, <2>5 DEF LineRight
<1>19. AwaitedRight(b)'
  <2> SUFFICES ASSUME c # None
               PROVE  /\ ~ HasLock(b)' /\ SentBy(b, c)' /\ calls'[c].op = "acquire" /\ calls'[c].slot = s
                      /\ ahead'[c] = line'[b] \ {c} /\ calls'[c].stage # "own"
    BY <1>14 DEF AwaitedRight
  <2>1. c \in Calls /\ c # r /\ calls'[c] = q BY <1>6, <1>13, SelectionConstantsOK
  <2>2. ahead'[c] = line'[b] \ {c} BY <1>13, <1>15, <2>1
  <2> QED BY <1>9, <1>14, <2>1, <2>2 DEF HasLock, NoLock, SentBy
<1>20. RenewingRight(b)' BY <1>14 DEF RenewingRight
<1>21. CopiesRight(b)'
  <2>1. \A d \in Waits(b)' : calls'[d].stage # "lock"
    BY <1>6, <1>9, <1>13, <1>17, SelectionConstantsOK
  <2> QED BY <1>14, <2>1 DEF CopiesRight, HasLock, NoLock
<1>22. NoneLeft(b)'
  <2> SUFFICES ASSUME NEW id \in LockIds, Live(id), locks[id].holder = UserOf[b]
               PROVE  \E d \in Releases(b)' : calls'[d].lock = id
    BY <1>3 DEF NoneLeft, Placed, Live, Held
  <2>1. Placed(b, id) BY <1>4 DEF PageRight, NoneLeft
  <2>2. CASE screens[b].current.id = id
    <3>1. r \in Calls /\ calls'[r] = p /\ r \in line'[b]
      BY <2>2, <1>6, <1>13, LocksConstantsOK, SelectionConstantsOK DEF HasLock
    <3> QED BY <2>2, <3>1, <1>9 DEF Releases
  <2>3. CASE \E d \in Releases(b) : calls[d].lock = id
    BY <2>3, <1>13, <1>16 DEF Releases
  <2> QED BY <1>3, <2>1, <2>2, <2>3 DEF Placed, Brings
<1>23. PageRight(b)' BY <1>18, <1>19, <1>20, <1>21, <1>22 DEF PageRight
<1> QED BY <1>10, <1>12, <1>23, ClientAgrees

\* A renewal is sent for the lock there is, and nothing is awaited besides.
LEMMA RenewAgrees ==
  ASSUME InStep, SelectionInv, AgreeInv, NEW b \in Browsers, Renew(b)
  PROVE  AgreeInv'
<1>1. PICK c \in CallFor(TRUE) :
        /\ Send(b, None, c, Request("renew", UserOf[b], None, screens[b].current.id))
        /\ Show(b, [screens[b] EXCEPT !.renewing = c])
  BY DEF Renew
<1>2. PageRight(b) /\ HasLock(b) /\ UNCHANGED locks /\ screens[b].renewing = None
  BY DEF AgreeInv, Renew, Mine
<1>3. /\ screens[b] \in Screen /\ screens[b].awaited = None /\ Waits(b) = {}
      /\ screens[b].current.id \in LockIds \union {None}
      /\ \A d \in line[b] : calls[d] # Free
  BY <1>2, WaitsTyped DEF PageRight, AwaitedRight, Waits
<1>4. c \in Calls /\ calls[c] = Free BY DEF CallFor
<1>5. PICK q : q = Request("renew", UserOf[b], None, screens[b].current.id) OBVIOUS
<1>6. /\ q # Free /\ q.stage = "sent" /\ q.op = "renew" /\ q.by = UserOf[b]
      /\ q.lock = screens[b].current.id
  BY <1>3, <1>5, RequestTyped, SelectionConstantsOK
<1>7. ClientStep BY RenewTyped
<1>8. /\ \A a \in Browsers \ {b} : SamePage(a)
      /\ \A d \in Calls : calls'[d] # calls[d] /\ calls'[d] # Free => calls'[d].by = UserOf[b]
  BY <1>1, <1>4, <1>5, <1>6, SendApart DEF InStep
<1>9. /\ calls'[c] = q /\ \A d \in Calls \ {c} : calls'[d] = calls[d]
      /\ line'[b] = line[b] \union {c} /\ c \notin line[b]
  BY <1>1, <1>3, <1>4, <1>5, SelectionConstantsOK DEF Send, SelectionInv, ScreensTyped
<1>10. /\ screens'[b].selected = screens[b].selected /\ screens'[b].current = screens[b].current
       /\ screens'[b].awaited = None /\ screens'[b].renewing = c
  <2>1. screens'[b] = [screens[b] EXCEPT !.renewing = c] BY <1>1 DEF Show, SelectionInv, ScreensTyped
  <2> QED BY <1>3, <2>1 DEF Screen
<1>11. Waits(b)' = {c} BY <1>4, <1>10, SelectionConstantsOK DEF Waits
<1>12. Releases(b)' = Releases(b) /\ \A r \in Releases(b) : calls'[r] = calls[r]
  BY <1>6, <1>9 DEF Releases, SelectionInv, ScreensTyped
<1>13. LineRight(b)'
  <2>1. \A d \in line[b] : d \in Calls /\ calls[d].op = "release"
    BY <1>2, <1>3 DEF PageRight, LineRight, SelectionInv, ScreensTyped
  <2> QED BY <1>2, <1>6, <1>9, <1>11, <2>1 DEF PageRight, LineRight, Pending, SentBy
<1>14. AwaitedRight(b)' /\ RenewingRight(b)'
  BY <1>2, <1>6, <1>9, <1>10 DEF AwaitedRight, RenewingRight, HasLock, SentBy
<1>15. CopiesRight(b)'
  BY <1>2, <1>6, <1>9, <1>10, <1>11, <1>12 DEF PageRight, CopiesRight, HasLock, Theirs, Held
<1>16. NoneLeft(b)'
  BY <1>2, <1>3, <1>10, <1>12 DEF PageRight, NoneLeft, Placed, Brings, Live, Held
<1>17. PageRight(b)' BY <1>13, <1>14, <1>15, <1>16 DEF PageRight
<1> QED BY <1>7, <1>8, <1>17, ClientAgrees

\* An answer that is read: its call is free, and nothing else changes but this page.
LEMMA ReadApart ==
  ASSUME SelectionInv, AgreeInv, OwnPages, NEW b \in Browsers, NEW c \in Waits(b), Answered(c),
         Gone(c), NEW screen, Show(b, screen), UNCHANGED <<locks, line, ahead>>
  PROVE  /\ ClientStep
         /\ \A a \in Browsers \ {b} : SamePage(a)
         /\ \A d \in Calls : calls'[d] # calls[d] /\ calls'[d] # Free => calls'[d].by = UserOf[b]
         /\ c \in Calls /\ calls'[c] = Free /\ \A d \in Calls \ {c} : calls'[d] = calls[d]
         /\ c \notin line[b] /\ line'[b] = line[b]
         /\ Releases(b)' = Releases(b) /\ \A r \in Releases(b) : calls'[r] = calls[r]
         /\ screens'[b] = screen
<1>1. PageRight(b) BY DEF AgreeInv
<1>2. c \in Calls /\ SentBy(b, c) BY <1>1, WaitsTyped
<1>3. calls'[c] = Free /\ \A d \in Calls \ {c} : calls'[d] = calls[d]
  BY <1>2 DEF Gone, SelectionInv, LocksInv, LocksTypeOK
<1>4. ClientStep BY <1>2, GoneTyped
<1>5. c \notin line[b]
  BY <1>1, <1>2 DEF PageRight, LineRight, Pending, Answered, Answers
<1>6. ASSUME NEW a \in Browsers \ {b} PROVE SamePage(a)
  <2>1. PageRight(a) BY DEF AgreeInv
  <2>2. UserOf[a] # UserOf[b] BY DEF OwnPages
  <2>3. c \notin line[a] \union Waits(a) BY <1>2, <2>1, <2>2, WaitsTyped DEF SentBy
  <2>4. screens'[a] = screens[a] BY DEF Show, SelectionInv, ScreensTyped
  <2> QED BY <1>3, <2>3, <2>4 DEF SamePage, SentBy
<1>7. screens'[b] = screen BY DEF Show, SelectionInv, ScreensTyped
<1>8. line[b] \subseteq Calls BY <1>1, WaitsTyped
<1> QED BY <1>2, <1>3, <1>4, <1>5, <1>6, <1>7, <1>8 DEF Releases

\* The answer to an acquire is for the slot that is selected still, and puts the lock it
\* brings on the screen.
LEMMA AnswerAcquireAgrees ==
  ASSUME InStep, SelectionInv, AgreeInv, NEW b \in Browsers, AnswerAcquire(b)
  PROVE  AgreeInv'
<1> DEFINE c == screens[b].awaited
           after == [screens[b] EXCEPT !.awaited = None]
           held == [after EXCEPT !.current = Copy(c), !.kind = "held-by-me"]
           told == [after EXCEPT !.kind = Otherwise(c)]
<1>1. PageRight(b) BY DEF AgreeInv
<1>2. c \in Waits(b) /\ c # None /\ Answered(c) /\ UNCHANGED locks BY DEF AnswerAcquire, Waits
<1>3. /\ ~ HasLock(b) /\ screens[b].renewing = None /\ Timely(b, c) /\ calls[c].stage # "own"
  BY <1>1, <1>2 DEF PageRight, AwaitedRight, Timely
<1>4. screens[b] \in Screen BY <1>1, WaitsTyped
<1>5. c \in Calls BY <1>1, <1>2, WaitsTyped
<1>6. /\ Gone(c) /\ UNCHANGED <<line, ahead>>
      /\ \/ calls[c].stage = "lock" /\ Show(b, held)
         \/ calls[c].stage # "lock" /\ Show(b, told)
  BY <1>3 DEF AnswerAcquire, Ours
<1>7. PICK screen \in {held, told} :
        /\ Show(b, screen)
        /\ calls[c].stage = "lock" => screen = held
        /\ calls[c].stage # "lock" => screen = told
  BY <1>6
<1>8. /\ ClientStep
      /\ \A a \in Browsers \ {b} : SamePage(a)
      /\ \A d \in Calls : calls'[d] # calls[d] /\ calls'[d] # Free => calls'[d].by = UserOf[b]
      /\ calls'[c] = Free /\ \A d \in Calls \ {c} : calls'[d] = calls[d]
      /\ c \notin line[b] /\ line'[b] = line[b]
      /\ Releases(b)' = Releases(b) /\ \A r \in Releases(b) : calls'[r] = calls[r]
      /\ screens'[b] = screen
  BY <1>2, <1>6, <1>7, ReadApart DEF InStep
<1>9. PICK k : k = Copy(c) OBVIOUS
<1>10. /\ screens'[b].selected = screens[b].selected
       /\ screens'[b].awaited = None /\ screens'[b].renewing = None
       /\ calls[c].stage = "lock" => screens'[b].current = k
       /\ calls[c].stage # "lock" => screens'[b].current = screens[b].current
  <2>1. calls[c].stage = "lock" => screens'[b] = [after EXCEPT !.current = k, !.kind = "held-by-me"]
    BY <1>7, <1>8, <1>9
  <2>2. calls[c].stage # "lock" => screens'[b] = [after EXCEPT !.kind = Otherwise(c)]
    BY <1>7, <1>8
  <2> QED BY <1>3, <1>4, <2>1, <2>2 DEF Screen
<1>11. k.id = calls[c].lock /\ k.left = calls[c].left BY <1>9 DEF Copy
<1> HIDE DEF held, told, after
<1>12. Waits(b)' = {} BY <1>10 DEF Waits
<1>13. LineRight(b)'
  <2>1. \A d \in line[b] : d \in Calls /\ d # c /\ calls[d].op = "release"
    BY <1>1, <1>3, <1>8, WaitsTyped DEF PageRight, LineRight, Waits
  <2> QED BY <1>1, <1>8, <2>1 DEF PageRight, LineRight, Pending, SentBy
<1>14. AwaitedRight(b)' /\ RenewingRight(b)' BY <1>10 DEF AwaitedRight, RenewingRight
<1>15. CopiesRight(b)'
  <2>1. calls[c].stage = "lock" => Theirs(b, k.id, k.left)
    BY <1>1, <1>2, <1>11 DEF PageRight, CopiesRight
  <2> QED BY <1>2, <1>3, <1>8, <1>10, <1>12, <2>1 DEF CopiesRight, HasLock, Theirs, Held
<1>16. NoneLeft(b)'
  <2> SUFFICES ASSUME NEW id \in LockIds, Live(id), locks[id].holder = UserOf[b]
               PROVE  Placed(b, id)'
    BY <1>2 DEF NoneLeft, Live, Held
  <2>1. Placed(b, id) BY <1>1 DEF PageRight, NoneLeft
  <2>2. screens[b].current.id # id BY <1>3, LocksConstantsOK DEF HasLock
  <2> QED BY <1>8, <1>10, <1>11, <2>1, <2>2 DEF Placed, Brings
<1>17. PageRight(b)' BY <1>13, <1>14, <1>15, <1>16 DEF PageRight
<1> QED BY <1>8, <1>17, ClientAgrees

\* The answer to a renewal is for the lock that is on the screen; refused, it has expired.
LEMMA AnswerRenewAgrees ==
  ASSUME InStep, SelectionInv, AgreeInv, NEW b \in Browsers, AnswerRenew(b)
  PROVE  AgreeInv'
<1> DEFINE c == screens[b].renewing
           after == [screens[b] EXCEPT !.renewing = None]
<1>1. PageRight(b) BY DEF AgreeInv
<1>2. /\ c \in Waits(b) /\ c # None /\ Answered(c) /\ Gone(c) /\ UNCHANGED <<locks, line, ahead>>
  BY DEF AnswerRenew, Waits
<1>3. /\ HasLock(b) /\ calls[c].lock = screens[b].current.id /\ screens[b].awaited = None
      /\ calls[c].stage = "refused" => ~ Live(screens[b].current.id)
  BY <1>1, <1>2 DEF PageRight, RenewingRight, AwaitedRight
<1>4. screens[b] \in Screen /\ c \in Calls BY <1>1, <1>2, WaitsTyped
<1>5. PICK k : k = IF calls[c].stage = "lock" THEN Copy(c) ELSE
                   IF calls[c].stage = "refused" THEN NoLock ELSE screens[b].current
  OBVIOUS
<1>6. PICK kind : Show(b, [after EXCEPT !.current = k, !.kind = kind])
  <2>1. CASE calls[c].stage = "lock" BY <1>5, <2>1 DEF AnswerRenew
  <2>2. CASE calls[c].stage = "refused" BY <1>5, <2>2 DEF AnswerRenew
  <2>3. CASE calls[c].stage \notin {"lock", "refused"}
    <3>1. Show(b, [after EXCEPT !.kind = "error"]) BY <2>3 DEF AnswerRenew
    <3>2. [after EXCEPT !.kind = "error"] = [after EXCEPT !.current = screens[b].current, !.kind = "error"]
      BY <1>4 DEF Screen
    <3>3. k = screens[b].current BY <1>5, <2>3
    <3>4. Show(b, [after EXCEPT !.current = k, !.kind = "error"]) BY <3>1, <3>2, <3>3
    <3> QED BY <3>4
  <2> QED BY <2>1, <2>2, <2>3
<1>7. /\ ClientStep
      /\ \A a \in Browsers \ {b} : SamePage(a)
      /\ \A d \in Calls : calls'[d] # calls[d] /\ calls'[d] # Free => calls'[d].by = UserOf[b]
      /\ calls'[c] = Free /\ \A d \in Calls \ {c} : calls'[d] = calls[d]
      /\ c \notin line[b] /\ line'[b] = line[b]
      /\ Releases(b)' = Releases(b) /\ \A r \in Releases(b) : calls'[r] = calls[r]
      /\ screens'[b] = [after EXCEPT !.current = k, !.kind = kind]
  BY <1>2, <1>6, ReadApart DEF InStep
<1>8. /\ screens'[b].selected = screens[b].selected /\ screens'[b].current = k
      /\ screens'[b].awaited = None /\ screens'[b].renewing = None
  BY <1>3, <1>4, <1>7 DEF Screen
<1> HIDE DEF after
<1>9. Waits(b)' = {} BY <1>8 DEF Waits
<1>10. LineRight(b)'
  <2>1. \A d \in line[b] : d \in Calls /\ d # c /\ calls[d].op = "release"
    BY <1>1, <1>3, <1>7, WaitsTyped DEF PageRight, LineRight, Waits
  <2> QED BY <1>1, <1>7, <2>1 DEF PageRight, LineRight, Pending, SentBy
<1>11. AwaitedRight(b)' /\ RenewingRight(b)' BY <1>8 DEF AwaitedRight, RenewingRight
<1>12. CopiesRight(b)'
  <2>1. calls[c].stage = "lock" => k.id = calls[c].lock /\ k.left = calls[c].left BY <1>5 DEF Copy
  <2>2. calls[c].stage = "refused" => k.id = None BY <1>5 DEF NoLock
  <2>3. calls[c].stage \notin {"lock", "refused"} => k = screens[b].current BY <1>5
  <2>4. k.id # None => Theirs(b, k.id, k.left)
    BY <1>1, <1>2, <1>3, <2>1, <2>2, <2>3 DEF PageRight, CopiesRight
  <2> QED BY <1>2, <1>7, <1>8, <1>9, <2>4 DEF CopiesRight, HasLock, Theirs, Held
<1>13. NoneLeft(b)'
  <2> SUFFICES ASSUME NEW id \in LockIds, Live(id), locks[id].holder = UserOf[b]
               PROVE  Placed(b, id)'
    BY <1>2 DEF NoneLeft, Live, Held
  <2>1. Placed(b, id) /\ ~ Brings(b, id) BY <1>1, <1>3 DEF PageRight, NoneLeft, Brings
  <2>2. screens[b].current.id = id => k.id = id BY <1>3, <1>5 DEF Copy
  <2> QED BY <1>7, <1>8, <2>1, <2>2 DEF Placed
<1>14. PageRight(b)' BY <1>10, <1>11, <1>12, <1>13 DEF PageRight
<1> QED BY <1>7, <1>14, ClientAgrees

\* An answer nobody waits for frees its call.
LEMMA IgnoreAgrees ==
  ASSUME SelectionInv, AgreeInv, NEW c \in Calls, Ignore(c)
  PROVE  AgreeInv'
<1>1. Answered(c) /\ Unheard(c) /\ Gone(c) /\ UNCHANGED <<locks, screens, line, ahead>> BY DEF Ignore
<1>2. calls'[c] = Free /\ \A d \in Calls \ {c} : calls'[d] = calls[d]
  BY <1>1 DEF Gone, SelectionInv, LocksInv, LocksTypeOK
<1>3. ASSUME NEW a \in Browsers PROVE PageRight(a)'
  <2>1. c \notin line[a] \union Waits(a)
    BY <1>1 DEF AgreeInv, PageRight, LineRight, Pending, Answered, Answers, Unheard, Waits
  <2>2. SamePage(a) BY <1>1, <1>2, <2>1 DEF SamePage, SentBy
  <2> QED BY <1>1, <2>2, PageKept DEF AgreeInv
<1>4. Known' BY <1>1, <1>2 DEF AgreeInv, Known, SentBy, Held
<1>5. WorkRight' BY <1>1, <1>2 DEF AgreeInv, WorkRight, AtWork, LocksOn, Held
<1> QED BY <1>3, <1>4, <1>5 DEF AgreeInv

\* The timer that finds the lock expired says so, and changes nothing else.
LEMMA SameAgrees ==
  ASSUME SelectionInv, AgreeInv, UNCHANGED <<locks, calls, line, ahead>>,
         \A b \in Browsers : /\ screens'[b].selected = screens[b].selected
                             /\ screens'[b].current = screens[b].current
                             /\ screens'[b].awaited = screens[b].awaited
                             /\ screens'[b].renewing = screens[b].renewing
  PROVE  AgreeInv'
<1>1. \A a \in Browsers : PageRight(a)' BY PageKept DEF SamePage, AgreeInv
<1> QED BY <1>1 DEF AgreeInv, Known, WorkRight, AtWork, LocksOn, Held, SentBy

-------------------------------------------------------------------------------
(* What the server does.                                                     *)

\* A request of b's that goes on, or is answered.
Served(b, c) ==
  /\ SentBy(b, c) /\ Pending(c)
  /\ calls'[c] # Free /\ calls'[c].op = calls[c].op /\ calls'[c].by = calls[c].by
  /\ calls'[c].slot = calls[c].slot /\ calls'[c].stage \in {"read"} \union Answers
  /\ \A d \in Calls \ {c} : calls'[d] = calls[d]
  /\ Leaves(c) /\ UNCHANGED screens

\* What a call is after its progress is written.
LEMMA CallAfter ==
  ASSUME LocksTypeOK, NEW c \in Calls, calls[c] # Free, NEW stage, NEW id, NEW left,
         \/ To(c, stage) /\ id = calls[c].lock /\ left = calls[c].left
         \/ Answer(c, stage, id, left)
  PROVE  /\ calls'[c] # Free /\ calls'[c].op = calls[c].op /\ calls'[c].by = calls[c].by
         /\ calls'[c].slot = calls[c].slot /\ calls'[c].stage = stage
         /\ calls'[c].lock = id /\ calls'[c].left = left
         /\ \A d \in Calls \ {c} : calls'[d] = calls[d]
<1>1. calls[c] \in Call BY DEF LocksTypeOK
<1>2. PICK k : k = calls'[c] OBVIOUS
<1>3. PICK k1 : k1 = [calls[c] EXCEPT !.stage = stage] OBVIOUS
<1>4. /\ DOMAIN k1 = {"left", "slot", "lock", "stage", "op", "by"}
      /\ k1.op = calls[c].op /\ k1.by = calls[c].by /\ k1.slot = calls[c].slot
      /\ k1.stage = stage /\ k1.lock = calls[c].lock /\ k1.left = calls[c].left
  BY <1>1, <1>3 DEF Call
<1>5. PICK k2 : k2 = [k1 EXCEPT !.lock = id] OBVIOUS
<1>6. (k = k1 /\ id = calls[c].lock /\ left = calls[c].left) \/ k = [k2 EXCEPT !.left = left]
  BY <1>2, <1>3, <1>5 DEF To, Answer, LocksTypeOK
<1>7. /\ DOMAIN k = {"left", "slot", "lock", "stage", "op", "by"}
      /\ k.op = calls[c].op /\ k.by = calls[c].by /\ k.slot = calls[c].slot
      /\ k.stage = stage /\ k.lock = id /\ k.left = left
  BY <1>4, <1>5, <1>6
<1>8. k # Free BY <1>7 DEF Free
<1>9. \A d \in Calls \ {c} : calls'[d] = calls[d] BY DEF To, Answer, LocksTypeOK
<1> QED BY <1>2, <1>7, <1>8, <1>9

LEMMA StageAfter ==
  ASSUME LocksTypeOK, NEW c \in Calls, calls[c] # Free, NEW stage, To(c, stage)
  PROVE  /\ calls'[c].stage = stage
         /\ calls'[c].lock = calls[c].lock /\ calls'[c].left = calls[c].left
<1>1. calls[c] \in Call BY DEF LocksTypeOK
<1> QED BY <1>1 DEF To, LocksTypeOK, Call

\* Nothing gets lost: a step of the server is a read or a write of a request of a page.
LEMMA ServeServed ==
  ASSUME InStep, SelectionInv, AgreeInv, NEW c \in Calls, Serve(c)
  PROVE  /\ \E b \in Browsers : Served(b, c)
         /\ (InTurn(c) /\ ServeRead(c)) \/ ServeWrite(c, LockIds \ RememberedIds)
<1>1. (InTurn(c) /\ ServeRead(c)) \/ ServeWrite(c, LockIds \ RememberedIds)
  BY DEF Serve, InStep, LoseRequest, LoseAnswer
<1>2. LocksTypeOK BY DEF SelectionInv, LocksInv
<1>3. Pending(c) /\ calls[c] # Free
  BY <1>1 DEF Pending, ServeRead, ReadAcquire, ReadRenew, ReadRelease, Reads,
              ServeWrite, CommitAcquire, LoseRace, CommitRenew, CommitRelease, Writes
<1>4. \E stage \in {"read"} \union Answers : \E id, left :
        \/ To(c, stage) /\ id = calls[c].lock /\ left = calls[c].left
        \/ Answer(c, stage, id, left)
  BY <1>1 DEF ServeRead, ReadAcquire, ReadRenew, ReadRelease, Conflict,
              ServeWrite, CommitAcquire, LoseRace, CommitRenew, CommitRelease, Answers
<1>5. PICK stage \in {"read"} \union Answers : \E id, left :
        \/ To(c, stage) /\ id = calls[c].lock /\ left = calls[c].left
        \/ Answer(c, stage, id, left)
  BY <1>4
<1>6. PICK id, left :
        \/ To(c, stage) /\ id = calls[c].lock /\ left = calls[c].left
        \/ Answer(c, stage, id, left)
  BY <1>5
<1>7. PICK b \in Browsers : SentBy(b, c) BY <1>3 DEF AgreeInv, Known
<1>8. /\ calls'[c] # Free /\ calls'[c].op = calls[c].op /\ calls'[c].by = calls[c].by
      /\ calls'[c].slot = calls[c].slot /\ calls'[c].stage = stage
      /\ \A d \in Calls \ {c} : calls'[d] = calls[d]
  BY <1>2, <1>3, <1>6, CallAfter
<1>9. Leaves(c) /\ UNCHANGED screens BY DEF Serve
<1>10. Served(b, c) BY <1>3, <1>7, <1>8, <1>9 DEF Served
<1> QED BY <1>1, <1>10

\* What its line is after that.
LEMMA ServedLine ==
  ASSUME SelectionInv, AgreeInv, NEW b \in Browsers, NEW c \in Calls, Served(b, c)
  PROVE  /\ LineRight(b)'
         /\ Releases(b)' = (IF Answered(c)' THEN Releases(b) \ {c} ELSE Releases(b))
         /\ LET aw == screens[b].awaited IN
              (aw # None /\ Pending(aw)') => ahead'[aw] = line'[b] \ {aw}
         /\ c \in line[b] /\ Waits(b)' = Waits(b)
         /\ calls[c].op = "acquire" => c = screens[b].awaited
         /\ calls[c].op = "renew" => c = screens[b].renewing
         /\ calls[c].op = "release" => c \notin Waits(b)
<1>1. PageRight(b) BY DEF AgreeInv
<1>2. c \in line[b] BY <1>1 DEF PageRight, LineRight, Served
<1>3. Answered(c)' <=> calls'[c].stage # "read" BY DEF Served, Answered, Answers
<1>4. line'[b] = IF Answered(c)' THEN line[b] \ {c} ELSE line[b]
  BY DEF Served, Leaves, SelectionInv, ScreensTyped
<1>5. \A d \in Calls : d \in line'[b] <=> (Pending(d) /\ SentBy(b, d))'
  <2>1. (Pending(c) /\ SentBy(b, c))' <=> ~ Answered(c)'
    BY <1>3 DEF Served, Pending, SentBy, Answers
  <2>2. \A d \in Calls \ {c} : (Pending(d) /\ SentBy(b, d))' <=> d \in line[b]
    BY <1>1 DEF Served, PageRight, LineRight, Pending, SentBy
  <2> QED BY <1>2, <1>4, <2>1, <2>2
<1>6. Waits(b)' = Waits(b) BY DEF Served, Waits
<1>7. \A d \in line'[b] : calls'[d].op = "release" \/ d \in Waits(b)'
  BY <1>1, <1>4, <1>6, WaitsTyped DEF Served, PageRight, LineRight
<1>8. Releases(b)' = IF Answered(c)' THEN Releases(b) \ {c} ELSE Releases(b)
  BY <1>1, <1>4, WaitsTyped DEF Served, Releases
<1>9. ASSUME NEW aw, aw = screens[b].awaited, aw # None, Pending(aw)'
      PROVE  ahead'[aw] = line'[b] \ {aw}
  <2>1. aw \in Calls BY <1>1, <1>9, WaitsTyped
  <2>2. Pending(aw) BY <1>9, <2>1 DEF Served, Pending
  <2>3. ahead[aw] = line[b] \ {aw} BY <1>1, <1>9, <2>2 DEF PageRight, AwaitedRight
  <2>4. CASE Answered(c)'
    <3>1. aw # c BY <1>3, <1>9, <2>4 DEF Pending, Answered, Answers
    <3>2. ahead'[aw] = ahead[aw] \ {c} BY <2>1, <2>4, <3>1 DEF Served, Leaves
    <3> QED BY <1>4, <2>3, <2>4, <3>2
  <2>5. CASE ~ Answered(c)' BY <1>4, <2>3, <2>5 DEF Served, Leaves
  <2> QED BY <2>4, <2>5
<1>10. /\ calls[c].op = "acquire" => c = screens[b].awaited
       /\ calls[c].op = "renew" => c = screens[b].renewing
       /\ calls[c].op = "release" => c \notin Waits(b)
  BY <1>1, <1>2 DEF PageRight, LineRight, AwaitedRight, RenewingRight, Waits
<1>11. LineRight(b)' BY <1>5, <1>7 DEF LineRight
<1>12. LET aw == screens[b].awaited IN
         (aw # None /\ Pending(aw)') => ahead'[aw] = line'[b] \ {aw}
  BY <1>9 DEF Served
<1> QED BY <1>2, <1>6, <1>8, <1>10, <1>11, <1>12

\* The pages of the others, if the locks that change are none of theirs.
LEMMA ServedAgrees ==
  ASSUME InStep, SelectionInv, AgreeInv, NEW b \in Browsers, NEW c \in Calls, Served(b, c),
         \A a \in Browsers \ {b}, id \in LockIds : locks'[id] = locks[id] \/ NotIts(a, id),
         \A id \in LockIds : Held(id)' => (Held(id) /\ locks'[id].holder = locks[id].holder)
                                         \/ locks'[id].holder = UserOf[b],
         WorkRight', AwaitedRight(b)', RenewingRight(b)', CopiesRight(b)', NoneLeft(b)'
  PROVE  AgreeInv'
<1>1. ASSUME NEW a \in Browsers \ {b} PROVE PageRight(a)'
  <2>1. PageRight(a) BY DEF AgreeInv
  <2>2. UserOf[a] # UserOf[b] BY DEF InStep, OwnPages
  <2>3. c \notin line[a] \union Waits(a) BY <2>1, <2>2, WaitsTyped DEF Served, SentBy
  <2>4. line'[a] = line[a]
    <3>1. line'[a] = line[a] \ {c} \/ line' = line BY DEF Served, Leaves
    <3> QED BY <2>3, <3>1
  <2>5. ASSUME NEW aw, aw = screens[a].awaited, aw # None, Pending(aw)
        PROVE  ahead'[aw] = ahead[aw]
    <3>1. aw \in Calls /\ aw # c BY <2>1, <2>3, <2>5, WaitsTyped DEF Waits
    <3>2. ahead[aw] = line[a] \ {aw} BY <2>1, <2>5 DEF PageRight, AwaitedRight
    <3> QED BY <2>3, <3>1, <3>2 DEF Served, Leaves
  <2>6. ~ SentBy(a, c)' BY <2>2 DEF Served, SentBy
  <2>7. SamePage(a) BY <2>3, <2>4, <2>5, <2>6 DEF SamePage, Served
  <2> QED BY <2>1, <2>7, PageKept
<1>2. PageRight(b)' BY ServedLine DEF PageRight
<1>3. Known'
  <2>1. \A d \in Calls : calls'[d] # Free => calls[d] # Free /\ calls'[d].by = calls[d].by
    BY DEF Served, SentBy
  <2> QED BY <2>1 DEF AgreeInv, Known, SentBy
<1> QED BY <1>1, <1>2, <1>3 DEF AgreeInv

\* A read leaves the locks, and with them the pages of the others, alone.
LEMMA ReadAgrees ==
  ASSUME InStep, SelectionInv, AgreeInv, NEW b \in Browsers, NEW c \in Calls, Served(b, c),
         UNCHANGED locks,
         WorkRight', AwaitedRight(b)', RenewingRight(b)', CopiesRight(b)', NoneLeft(b)'
  PROVE  AgreeInv'
BY ServedAgrees DEF Held

\* An acquire is read in its turn, when no release of its page is left before it: no lock
\* of its operator is in the way.
LEMMA ReadAcquireAgrees ==
  ASSUME InStep, SelectionInv, AgreeInv, NEW b \in Browsers, NEW c \in Calls, Served(b, c),
         InTurn(c), ReadAcquire(c)
  PROVE  AgreeInv'
<1>1. PageRight(b) BY DEF AgreeInv
<1>2. /\ calls[c] # Free /\ calls[c].op = "acquire" /\ calls[c].stage = "sent"
      /\ calls[c].by = UserOf[b] /\ AtWork = {} /\ UNCHANGED locks
  BY DEF ReadAcquire, Reads, Served, SentBy, InStep
<1>3. /\ c = screens[b].awaited /\ c # None /\ LineRight(b)' /\ Waits(b)' = Waits(b) /\ UNCHANGED screens
      /\ Pending(c)' => ahead'[c] = line'[b] \ {c}
  BY <1>2, ServedLine, SelectionConstantsOK DEF Served
<1>4. /\ ~ HasLock(b) /\ screens[b].renewing = None /\ calls[c].slot = screens[b].selected
      /\ Waits(b) = {c} /\ Releases(b) = {}
  <2>1. ahead[c] = line[b] \ {c} /\ ahead[c] = {}
    BY <1>1, <1>3 DEF PageRight, AwaitedRight, Served, InTurn, InStep
  <2>2. ~ HasLock(b) /\ screens[b].renewing = None /\ calls[c].slot = screens[b].selected
    BY <1>1, <1>3 DEF PageRight, AwaitedRight
  <2> QED BY <1>2, <1>3, <2>1, <2>2 DEF Waits, Releases
<1>5. \A id \in LockIds : Live(id) => locks[id].holder # UserOf[b]
  <2> SUFFICES ASSUME NEW id \in LockIds, Live(id), locks[id].holder = UserOf[b] PROVE FALSE OBVIOUS
  <2>1. Placed(b, id) BY <1>1 DEF PageRight, NoneLeft
  <2> QED BY <1>2, <1>3, <1>4, <2>1, LocksConstantsOK DEF Placed, Brings, HasLock
<1>6. NoneLeft(b)' BY <1>2, <1>5 DEF NoneLeft, Live, Held
<1>7. RenewingRight(b)' BY <1>3, <1>4 DEF RenewingRight
<1>8. PICK stage, id, left :
        /\ calls'[c].stage = stage /\ calls'[c].lock = id /\ calls'[c].left = left
        /\ \/ stage = "conflict"
           \/ /\ stage = "read" /\ left = TTL /\ id \in LockIds \union {None}
              /\ IF id = None THEN LocksOn(calls[c].slot) = {} ELSE id \in LocksOn(calls[c].slot)
  <2>1. LocksTypeOK BY DEF SelectionInv, LocksInv
  <2>2. ASSUME NEW id \in LockIds, InTheWay(c, id), Conflict(c, id)
        PROVE  calls'[c].stage = "conflict"
    BY <1>2, <1>5, <2>1, <2>2, CallAfter DEF Conflict, InTheWay
  <2>3. ASSUME NEW id \in LockIds \union {None}, Answer(c, "read", id, TTL)
        PROVE  calls'[c].stage = "read" /\ calls'[c].lock = id /\ calls'[c].left = TTL
    BY <1>2, <2>1, <2>3, CallAfter
  <2> QED BY <2>2, <2>3 DEF ReadAcquire
<1>9. AwaitedRight(b)'
  BY <1>2, <1>3, <1>4, <1>8 DEF AwaitedRight, HasLock, SentBy, Served
<1>10. CopiesRight(b)' BY <1>3, <1>4, <1>8 DEF CopiesRight, HasLock
<1>11. WorkRight'
  <2>1. \A d \in AtWork' : d = c /\ calls'[c].stage = "read" BY <1>2 DEF AtWork, Served
  <2>2. \A k \in LocksOn(calls[c].slot) : calls'[c].stage = "read" => k = calls'[c].lock
    BY <1>8 DEF LocksOn, SelectionInv, LocksInv, OneLockPerSlot
  <2>3. LocksOn(calls[c].slot)' = LocksOn(calls[c].slot) BY <1>2 DEF LocksOn, Held, Served
  <2> QED BY <1>2, <1>8, <2>1, <2>2, <2>3 DEF WorkRight, Served
<1> QED BY <1>2, <1>6, <1>7, <1>9, <1>10, <1>11, ReadAgrees

\* A renewal is refused only when the lock has expired.
LEMMA ReadRenewAgrees ==
  ASSUME InStep, SelectionInv, AgreeInv, NEW b \in Browsers, NEW c \in Calls, Served(b, c),
         ReadRenew(c)
  PROVE  AgreeInv'
<1>1. PageRight(b) BY DEF AgreeInv
<1>2. /\ calls[c] # Free /\ calls[c].op = "renew" /\ calls[c].stage = "sent"
      /\ calls[c].by = UserOf[b] /\ AtWork = {} /\ UNCHANGED locks
  BY DEF ReadRenew, Reads, Served, SentBy, InStep
<1>3. /\ c = screens[b].renewing /\ c # None /\ Waits(b)' = Waits(b) /\ UNCHANGED screens
      /\ Releases(b)' = Releases(b)
  BY <1>2, ServedLine, SelectionConstantsOK DEF Served, Releases
<1>4. /\ HasLock(b) /\ screens[b].awaited = None /\ calls[c].lock = screens[b].current.id
      /\ Waits(b) = {c}
  BY <1>1, <1>3 DEF PageRight, AwaitedRight, RenewingRight, Waits
<1>5. \A r \in Releases(b) : calls'[r] = calls[r]
  BY <1>1, <1>2, WaitsTyped DEF Served, Releases
<1>6. /\ calls'[c].lock = calls[c].lock
      /\ \/ calls'[c].stage = "read" /\ calls'[c].left = TTL /\ Renewable(c)
         \/ calls'[c].stage = "refused" /\ ~ Renewable(c)
  <2>1. LocksTypeOK BY DEF SelectionInv, LocksInv
  <2>2. Answer(c, "read", calls[c].lock, TTL)
          => calls'[c].stage = "read" /\ calls'[c].lock = calls[c].lock /\ calls'[c].left = TTL
    BY <1>2, <2>1, CallAfter
  <2>3. To(c, "refused") => calls'[c].stage = "refused" /\ calls'[c].lock = calls[c].lock
    BY <1>2, <2>1, StageAfter
  <2> QED BY <2>2, <2>3 DEF ReadRenew
<1>7. Renewable(c) <=> Live(calls[c].lock)
  BY <1>1, <1>2, <1>4 DEF PageRight, CopiesRight, Theirs, Renewable, Live
<1>8. AwaitedRight(b)' BY <1>3, <1>4 DEF AwaitedRight
<1>9. RenewingRight(b)'
  BY <1>2, <1>3, <1>4, <1>6, <1>7 DEF RenewingRight, HasLock, SentBy, Served, Live, Held
<1>10. CopiesRight(b)'
  BY <1>1, <1>2, <1>3, <1>4, <1>5, <1>6 DEF PageRight, CopiesRight, HasLock, Theirs, Held
<1>11. NoneLeft(b)'
  BY <1>1, <1>2, <1>3, <1>4, <1>5 DEF PageRight, NoneLeft, Placed, Brings, Live, Held
<1>12. WorkRight'
  <2>1. \A d \in AtWork' : d = c /\ calls'[c].stage = "read" BY <1>2 DEF AtWork, Served
  <2> QED BY <1>2, <1>6, <2>1 DEF WorkRight, Served, Renewable
<1> QED BY <1>2, <1>8, <1>9, <1>10, <1>11, <1>12, ReadAgrees

\* A release that has nothing to do leaves no live lock behind.
LEMMA ReadReleaseAgrees ==
  ASSUME InStep, SelectionInv, AgreeInv, NEW b \in Browsers, NEW c \in Calls, Served(b, c),
         ReadRelease(c)
  PROVE  AgreeInv'
<1>1. PageRight(b) BY DEF AgreeInv
<1>2. /\ calls[c] # Free /\ calls[c].op = "release" /\ calls[c].stage = "sent"
      /\ calls[c].by = UserOf[b] /\ AtWork = {} /\ UNCHANGED locks
  BY DEF ReadRelease, Reads, Served, SentBy, InStep
<1>3. /\ c \notin Waits(b) /\ Waits(b)' = Waits(b) /\ UNCHANGED screens
      /\ Releases(b)' = IF Answered(c)' THEN Releases(b) \ {c} ELSE Releases(b)
      /\ (screens[b].awaited # None /\ Pending(screens[b].awaited)')
            => ahead'[screens[b].awaited] = line'[b] \ {screens[b].awaited}
  BY <1>2, ServedLine DEF Served
<1>4. \A d \in Waits(b) : d \in Calls /\ calls'[d] = calls[d]
  BY <1>1, <1>3, WaitsTyped DEF Served
<1>5. /\ calls'[c].lock = calls[c].lock
      /\ calls'[c].stage = "read" \/ (calls'[c].stage # "read" /\ ~ MayRelease(c))
  BY <1>2, StageAfter DEF ReadRelease, MayRelease, SelectionInv, LocksInv
<1>6. \A r \in Releases(b) : r \in Calls /\ calls'[r].lock = calls[r].lock
  BY <1>1, <1>5, WaitsTyped DEF Served, Releases
<1>7. AwaitedRight(b)'
  BY <1>1, <1>3, <1>4 DEF PageRight, AwaitedRight, HasLock, SentBy, Pending, Waits
<1>8. RenewingRight(b)'
  BY <1>1, <1>2, <1>3, <1>4 DEF PageRight, RenewingRight, HasLock, SentBy, Live, Held, Waits
<1>9. CopiesRight(b)'
  <2>1. Releases(b)' \subseteq Releases(b) BY <1>3
  <2> QED BY <1>1, <1>2, <1>3, <1>4, <1>6, <2>1 DEF PageRight, CopiesRight, HasLock, Theirs, Held
<1>10. NoneLeft(b)'
  <2> SUFFICES ASSUME NEW id \in LockIds, Live(id), locks[id].holder = UserOf[b]
               PROVE  Placed(b, id)'
    BY <1>2 DEF NoneLeft, Live, Held
  <2>1. Placed(b, id) BY <1>1 DEF PageRight, NoneLeft
  <2>2. CASE screens[b].current.id = id \/ Brings(b, id)
    BY <1>3, <1>4, <2>2 DEF Placed, Brings, Waits
  <2>3. ASSUME NEW r \in Releases(b), calls[r].lock = id PROVE r \in Releases(b)'
    <3>1. r = c => MayRelease(c) BY <1>2, <2>3 DEF MayRelease, Live
    <3>2. r = c => ~ Answered(c)' BY <1>5, <3>1 DEF Answered, Answers
    <3> QED BY <1>3, <3>2
  <2> QED BY <1>6, <2>1, <2>2, <2>3 DEF Placed
<1>11. WorkRight'
  <2>1. \A d \in AtWork' : d = c BY <1>2 DEF AtWork, Served
  <2> QED BY <1>2, <2>1 DEF WorkRight, Served
<1> QED BY <1>2, <1>7, <1>8, <1>9, <1>10, <1>11, ReadAgrees

\* A write ends the work there is.
LEMMA WriteEnds ==
  ASSUME InStep, SelectionInv, NEW b \in Browsers, NEW c \in Calls, Served(b, c), c \in AtWork,
         calls'[c].stage # "read"
  PROVE  WorkRight' /\ Answered(c)'
<1>1. \A d \in AtWork : d = c BY DEF InStep, SelectionInv, LocksInv, Undisturbed
<1>2. AtWork' = {} BY <1>1 DEF AtWork, Served
<1> QED BY <1>2 DEF WorkRight, Served, Answered

\* A lock is granted under an id that nothing remembers, and is on its way to the screen.
LEMMA CommitAcquireAgrees ==
  ASSUME InStep, SelectionInv, AgreeInv, NEW b \in Browsers, NEW c \in Calls, Served(b, c),
         NEW new \in LockIds \ RememberedIds, CommitAcquire(c, new)
  PROVE  AgreeInv'
<1>1. PageRight(b) BY DEF AgreeInv
<1>2. /\ calls[c] # Free /\ calls[c].op = "acquire" /\ c \in AtWork /\ calls[c].by = UserOf[b]
      /\ calls[c].lock \in LockIds => ~ Live(calls[c].lock)
      /\ calls[c].left = TTL /\ locks[new] = None
  BY LocksConstantsOK
     DEF CommitAcquire, Writes, Served, SentBy, AtWork, InStep, SelectionInv, LocksInv, Undisturbed,
         AgreeInv, WorkRight
<1>3. /\ calls'[c].stage = "lock" /\ calls'[c].lock = new /\ calls'[c].left = TTL
  BY <1>2, CallAfter DEF CommitAcquire, SelectionInv, LocksInv
<1>4. WorkRight' /\ Answered(c)' BY <1>2, <1>3, WriteEnds
<1>5. /\ c = screens[b].awaited /\ c # None /\ Waits(b)' = Waits(b) /\ UNCHANGED screens
      /\ Releases(b)' \subseteq Releases(b) /\ Releases(b) \subseteq Releases(b)' \union {c}
  BY <1>2, <1>4, ServedLine, SelectionConstantsOK DEF Served
<1>6. /\ ~ HasLock(b) /\ screens[b].renewing = None /\ calls[c].slot = screens[b].selected
      /\ Waits(b) = {c}
  BY <1>1, <1>5 DEF PageRight, AwaitedRight, Waits
<1>7. \A r \in Releases(b) :
        r \in Calls /\ r # c /\ calls'[r] = calls[r] /\ calls[r].lock # new
  BY <1>1, <1>2, WaitsTyped DEF Served, Releases, RememberedIds, Remembered
<1>8. PICK row : row = Granted(c) OBVIOUS
<1>9. row.left = TTL /\ row.slot = calls[c].slot /\ row.holder = UserOf[b] /\ row # None
  <2>1. row.left = TTL /\ row.slot = calls[c].slot /\ row.holder = UserOf[b] BY <1>2, <1>8 DEF Granted
  <2>2. calls[c] \in Call /\ calls[c].slot \in Slots
    BY <1>2 DEF SelectionInv, LocksInv, LocksTypeOK, SlotsAsked
  <2>3. row \in Lock BY <1>8, <2>2 DEF Granted, Lock, Call
  <2> QED BY <2>1, <2>3, LocksConstantsOK DEF Lock
<1>10. \A id \in LockIds : locks'[id] = IF id = new THEN row
                                        ELSE IF id = calls[c].lock THEN None ELSE locks[id]
  BY <1>8 DEF CommitAcquire
<1>11. ASSUME NEW a \in Browsers \ {b}, NEW id \in LockIds
       PROVE  locks'[id] = locks[id] \/ NotIts(a, id)
  <2>1. UserOf[a] # UserOf[b] BY DEF InStep, OwnPages
  <2>2. CASE id = new
    <3>1. \A d \in Waits(a) : calls[d].lock # new
      BY WaitsTyped DEF AgreeInv, RememberedIds, Remembered
    <3>2. screens[a].current.id # new BY DEF RememberedIds
    <3> QED BY <1>2, <1>9, <1>10, <2>1, <2>2, <3>1, <3>2 DEF NotIts, Live, Held
  <2>3. CASE id # new /\ id = calls[c].lock
    BY <1>2, <1>10, <2>3 DEF NotIts, Live, Held
  <2> QED BY <1>10, <2>2, <2>3
<1>12. \A id \in LockIds : Held(id)' => (Held(id) /\ locks'[id].holder = locks[id].holder)
                                         \/ locks'[id].holder = UserOf[b]
  BY <1>9, <1>10 DEF Held
<1>13. AwaitedRight(b)'
  BY <1>3, <1>5, <1>6, <1>2 DEF AwaitedRight, HasLock, SentBy, Pending, Served
<1>14. RenewingRight(b)' BY <1>5, <1>6 DEF RenewingRight
<1>15. CopiesRight(b)'
  <2>1. \A r \in Releases(b)' : calls'[r].lock # new BY <1>5, <1>7
  <2>2. TTL >= TTL /\ new # None BY LocksConstantsOK
  <2>3. Theirs(b, calls[c].lock, calls[c].left)'
    BY <1>3, <1>5, <1>6, <1>9, <1>10, <2>1, <2>2 DEF Theirs, Held
  <2> QED BY <1>5, <1>6, <2>3 DEF CopiesRight, HasLock
<1>16. NoneLeft(b)'
  <2> SUFFICES ASSUME NEW id \in LockIds, (Live(id) /\ locks[id].holder = UserOf[b])'
               PROVE  Placed(b, id)'
    BY DEF NoneLeft
  <2>1. CASE id = new BY <1>3, <1>5, <2>1 DEF Placed, Brings
  <2>2. CASE id # new
    <3>1. locks'[id] = locks[id] BY <1>10, <2>2 DEF Live, Held
    <3>2. Placed(b, id) BY <1>1, <3>1 DEF PageRight, NoneLeft, Live, Held
    <3>3. \E r \in Releases(b) : calls[r].lock = id
      BY <1>2, <1>5, <1>6, <3>2, LocksConstantsOK DEF Placed, Brings, HasLock, AtWork
    <3> QED BY <1>5, <1>7, <3>3 DEF Placed
  <2> QED BY <2>1, <2>2
<1> QED BY <1>4, <1>11, <1>12, <1>13, <1>14, <1>15, <1>16, ServedAgrees

\* Nobody has taken the slot since it was read.
LEMMA NoRace ==
  ASSUME AgreeInv, NEW c \in Calls, LoseRace(c)
  PROVE  FALSE
BY DEF LoseRace, Writes, Others, AgreeInv, WorkRight, AtWork

\* A renewal gives the lock at least as long as any copy of it counts down.
LEMMA CommitRenewAgrees ==
  ASSUME InStep, SelectionInv, AgreeInv, NEW b \in Browsers, NEW c \in Calls, Served(b, c),
         CommitRenew(c)
  PROVE  AgreeInv'
<1>1. PageRight(b) BY DEF AgreeInv
<1>2. /\ calls[c] # Free /\ calls[c].op = "renew" /\ c \in AtWork /\ calls[c].by = UserOf[b]
      /\ Live(calls[c].lock) /\ calls[c].left = TTL /\ locks[calls[c].lock].holder = UserOf[b]
  BY DEF CommitRenew, Writes, Served, SentBy, AtWork, InStep, SelectionInv, LocksInv, Undisturbed,
         AgreeInv, WorkRight
<1>3. /\ locks' = [locks EXCEPT ![calls[c].lock].left = calls[c].left] /\ To(c, "lock")
  BY <1>2 DEF CommitRenew, Live
<1>4. calls'[c].stage = "lock" /\ calls'[c].lock = calls[c].lock /\ calls'[c].left = TTL
  BY <1>2, <1>3, StageAfter DEF SelectionInv, LocksInv
<1>5. WorkRight' /\ Answered(c)' BY <1>2, <1>4, WriteEnds
<1>6. /\ c = screens[b].renewing /\ c # None /\ Waits(b)' = Waits(b) /\ UNCHANGED screens
      /\ Releases(b)' = Releases(b)
  BY <1>2, <1>5, ServedLine, SelectionConstantsOK DEF Served, Releases
<1>7. /\ HasLock(b) /\ screens[b].awaited = None /\ calls[c].lock = screens[b].current.id
      /\ Waits(b) = {c}
  BY <1>1, <1>6 DEF PageRight, AwaitedRight, RenewingRight, Waits
<1>8. PICK k \in LockIds : k = calls[c].lock
  BY <1>1, <1>7, WaitsTyped DEF HasLock
<1>9. \A r \in Releases(b) : calls'[r] = calls[r]
  BY <1>1, <1>2, WaitsTyped DEF Served, Releases
<1>10. /\ locks'[k].slot = locks[k].slot /\ locks'[k].holder = locks[k].holder
       /\ locks'[k].left = TTL /\ locks'[k] # None
       /\ \A id \in LockIds \ {k} : locks'[id] = locks[id]
  <2>1. locks[k] \in Lock BY <1>2, <1>8 DEF Live, Held, SelectionInv, LocksInv, LocksTypeOK
  <2>2. locks'[k] = [locks[k] EXCEPT !.left = TTL] /\ \A id \in LockIds \ {k} : locks'[id] = locks[id]
    BY <1>2, <1>3, <1>8 DEF SelectionInv, LocksInv, LocksTypeOK
  <2>3. locks'[k] \in Lock BY <2>1, <2>2, LocksConstantsOK DEF Lock
  <2>4. None \notin Lock BY LocksConstantsOK DEF Lock
  <2> QED BY <2>1, <2>2, <2>3, <2>4 DEF Lock
<1>11. ASSUME NEW a \in Browsers \ {b}, NEW id \in LockIds
       PROVE  locks'[id] = locks[id] \/ NotIts(a, id)
  <2> SUFFICES ASSUME id = k PROVE NotIts(a, k) BY <1>10
  <2>1. UserOf[a] # UserOf[b] BY DEF InStep, OwnPages
  <2>2. PageRight(a) BY DEF AgreeInv
  <2>3. \A n : ~ Theirs(a, k, n) BY <1>2, <1>8, <2>1 DEF Theirs, Live
  <2>4. k # None BY LocksConstantsOK
  <2>5. screens[a].current.id # k BY <2>2, <2>3, <2>4 DEF PageRight, CopiesRight, HasLock
  <2>6. \A d \in Waits(a) : calls[d].stage = "lock" => calls[d].lock # k
    BY <2>2, <2>3 DEF PageRight, CopiesRight
  <2> QED BY <1>2, <1>8, <1>10, <2>1, <2>5, <2>6 DEF NotIts, Live, Held
<1>12. \A id \in LockIds : Held(id)' => (Held(id) /\ locks'[id].holder = locks[id].holder)
                                         \/ locks'[id].holder = UserOf[b]
  BY <1>2, <1>8, <1>10 DEF Held
<1>13. AwaitedRight(b)' BY <1>6, <1>7 DEF AwaitedRight
<1>14. RenewingRight(b)'
  BY <1>2, <1>4, <1>6, <1>7 DEF RenewingRight, HasLock, SentBy, Served
<1>15. CopiesRight(b)'
  <2>1. screens[b].current.left \in 0 .. TTL /\ k # None BY <1>1, WaitsTyped, LocksConstantsOK
  <2>2. \A n \in 0 .. TTL : TTL >= n BY LocksConstantsOK
  <2>3. Theirs(b, k, screens[b].current.left) BY <1>1, <1>7, <1>8 DEF PageRight, CopiesRight
  <2>4. \A n \in 0 .. TTL : Theirs(b, k, n)'
    BY <1>2, <1>6, <1>8, <1>9, <1>10, <2>1, <2>2, <2>3 DEF Theirs, Held, Live
  <2>5. TTL \in 0 .. TTL BY LocksConstantsOK
  <2>6. HasLock(b)' => Theirs(b, screens[b].current.id, screens[b].current.left)'
    BY <1>6, <1>7, <1>8, <2>1, <2>4
  <2>7. \A d \in Waits(b)' : calls'[d].stage = "lock" => Theirs(b, calls[d].lock, calls[d].left)'
    BY <1>4, <1>6, <1>7, <1>8, <2>4, <2>5
  <2> QED BY <2>6, <2>7 DEF CopiesRight
<1>16. NoneLeft(b)'
  <2> SUFFICES ASSUME NEW id \in LockIds, (Live(id) /\ locks[id].holder = UserOf[b])'
               PROVE  Placed(b, id)'
    BY DEF NoneLeft
  <2>1. CASE id = k BY <1>6, <1>7, <1>8, <2>1 DEF Placed
  <2>2. CASE id # k
    <3>1. Placed(b, id) BY <1>1, <1>10, <2>2 DEF PageRight, NoneLeft, Live, Held
    <3> QED BY <1>6, <1>7, <1>9, <3>1 DEF Placed, Brings
  <2> QED BY <2>1, <2>2
<1> QED BY <1>5, <1>11, <1>12, <1>13, <1>14, <1>15, <1>16, ServedAgrees

\* The lock that a release deletes is no longer on a screen, nor on its way to one.
LEMMA CommitReleaseAgrees ==
  ASSUME InStep, SelectionInv, AgreeInv, NEW b \in Browsers, NEW c \in Calls, Served(b, c),
         CommitRelease(c)
  PROVE  AgreeInv'
<1>1. PageRight(b) BY DEF AgreeInv
<1>2. /\ calls[c] # Free /\ calls[c].op = "release" /\ c \in AtWork /\ calls[c].by = UserOf[b]
      /\ Held(calls[c].lock) /\ locks[calls[c].lock].holder = UserOf[b]
  BY DEF CommitRelease, Writes, Served, SentBy, AtWork, InStep, SelectionInv, LocksInv, Undisturbed,
         MayRelease
<1>3. calls'[c].stage = "done" /\ calls'[c].lock = calls[c].lock
  BY <1>2, StageAfter DEF CommitRelease, SelectionInv, LocksInv
<1>4. WorkRight' /\ Answered(c)' BY <1>2, <1>3, WriteEnds
<1>5. /\ c \notin Waits(b) /\ Waits(b)' = Waits(b) /\ UNCHANGED screens
      /\ Releases(b)' = Releases(b) \ {c}
      /\ (screens[b].awaited # None /\ Pending(screens[b].awaited)')
            => ahead'[screens[b].awaited] = line'[b] \ {screens[b].awaited}
      /\ c \in Releases(b)
  BY <1>2, <1>4, ServedLine DEF Served, Releases
<1>6. \A d \in (Releases(b) \ {c}) \union Waits(b) : d \in Calls /\ calls'[d] = calls[d]
  BY <1>1, <1>5, WaitsTyped DEF Served, Releases
<1>7. \A id \in LockIds : locks'[id] = IF id = calls[c].lock THEN None ELSE locks[id]
  BY DEF CommitRelease, SelectionInv, LocksInv, LocksTypeOK
<1>8. ASSUME NEW a \in Browsers \ {b}, NEW id \in LockIds
      PROVE  locks'[id] = locks[id] \/ NotIts(a, id)
  <2>1. UserOf[a] # UserOf[b] BY DEF InStep, OwnPages
  <2> QED BY <1>2, <1>7, <2>1 DEF NotIts, Live, Held
<1>9. \A id \in LockIds : Held(id)' => (Held(id) /\ locks'[id].holder = locks[id].holder)
                                         \/ locks'[id].holder = UserOf[b]
  BY <1>7 DEF Held
<1>10. AwaitedRight(b)'
  BY <1>1, <1>5, <1>6 DEF PageRight, AwaitedRight, HasLock, SentBy, Pending, Waits
<1>11. RenewingRight(b)'
  <2> SUFFICES ASSUME screens[b].renewing # None PROVE RenewingRight(b)' BY <1>5 DEF RenewingRight
  <2>1. HasLock(b) => screens[b].current.id \in LockIds BY <1>1, WaitsTyped DEF HasLock
  <2> QED BY <1>1, <1>5, <1>6, <1>7, <2>1 DEF PageRight, RenewingRight, HasLock, SentBy, Live, Held, Waits
<1>12. ASSUME NEW id \in LockIds \union {None}, NEW n, Theirs(b, id, n)
       PROVE  Theirs(b, id, n)'
  BY <1>5, <1>6, <1>7, <1>12 DEF Theirs, Held
<1>13. CopiesRight(b)'
  <2>1. \A d \in Waits(b) : calls[d].lock \in LockIds \union {None}
    BY <1>1, WaitsTyped DEF Call
  <2>2. screens[b].current.id \in LockIds \union {None} BY <1>1, WaitsTyped
  <2>3. HasLock(b) => Theirs(b, screens[b].current.id, screens[b].current.left)'
    BY <1>1, <1>5, <1>12, <2>2 DEF PageRight, CopiesRight
  <2>4. \A d \in Waits(b) : calls[d].stage = "lock" => Theirs(b, calls[d].lock, calls[d].left)'
    BY <1>1, <1>6, <1>12, <2>1 DEF PageRight, CopiesRight
  <2> QED BY <1>5, <1>6, <2>3, <2>4 DEF CopiesRight, HasLock
<1>14. NoneLeft(b)'
  <2> SUFFICES ASSUME NEW id \in LockIds, (Live(id) /\ locks[id].holder = UserOf[b])'
               PROVE  Placed(b, id)'
    BY DEF NoneLeft
  <2>1. id # calls[c].lock /\ locks'[id] = locks[id] BY <1>7 DEF Live, Held
  <2>2. Placed(b, id) BY <1>1, <2>1 DEF PageRight, NoneLeft, Live, Held
  <2> QED BY <1>5, <1>6, <2>1, <2>2 DEF Placed, Brings, Waits
<1> QED BY <1>4, <1>8, <1>9, <1>10, <1>11, <1>13, <1>14, ServedAgrees

\* All that the server does.
LEMMA ServeAgrees ==
  ASSUME InStep, SelectionInv, AgreeInv, NEW c \in Calls, Serve(c)
  PROVE  AgreeInv'
<1>1. PICK b \in Browsers : Served(b, c) BY ServeServed
<1>2. (InTurn(c) /\ ServeRead(c)) \/ ServeWrite(c, LockIds \ RememberedIds) BY ServeServed
<1>3. CASE InTurn(c) /\ ServeRead(c)
  BY <1>1, <1>3, ReadAcquireAgrees, ReadRenewAgrees, ReadReleaseAgrees DEF ServeRead
<1>4. CASE ServeWrite(c, LockIds \ RememberedIds)
  BY <1>1, <1>4, CommitAcquireAgrees, NoRace, CommitRenewAgrees, CommitReleaseAgrees DEF ServeWrite
<1> QED BY <1>2, <1>3, <1>4

-------------------------------------------------------------------------------
(* What time does.                                                           *)

\* A tick takes the same from a lock, from a call and from a screen.
LEMMA TickEach ==
  ASSUME SelectionInv, Tick
  PROVE  /\ \A n \in 0 .. TTL : Less(n) \in 0 .. TTL /\ Less(n) <= n
         /\ \A n, m \in 0 .. TTL : n <= m => Less(n) <= Less(m)
         /\ \A id \in LockIds :
              /\ Held(id)' <=> Held(id)
              /\ Held(id) => /\ locks[id].left \in 0 .. TTL
                             /\ locks'[id].holder = locks[id].holder
                             /\ locks'[id].slot = locks[id].slot
                             /\ locks'[id].left = Less(locks[id].left)
         /\ \A c \in Calls :
              /\ calls'[c] # Free <=> calls[c] # Free
              /\ calls[c] # Free => /\ calls'[c].op = calls[c].op /\ calls'[c].by = calls[c].by
                                    /\ calls'[c].stage = calls[c].stage
                                    /\ calls'[c].slot = calls[c].slot
                                    /\ calls'[c].lock = calls[c].lock
                                    /\ calls[c].left \in 0 .. TTL
                                    /\ calls'[c].left = Less(calls[c].left)
         /\ \A b \in Browsers :
              /\ screens'[b].selected = screens[b].selected
              /\ screens'[b].awaited = screens[b].awaited /\ screens'[b].renewing = screens[b].renewing
              /\ screens'[b].current.id = screens[b].current.id
              /\ screens[b].current.left \in 0 .. TTL
              /\ screens'[b].current.left = Less(screens[b].current.left)
<1>0. LocksTypeOK /\ TickLocks BY DEF SelectionInv, LocksInv, Tick
<1>1. /\ \A n \in 0 .. TTL : Less(n) \in 0 .. TTL /\ Less(n) <= n
      /\ \A n, m \in 0 .. TTL : n <= m => Less(n) <= Less(m)
  BY LocksConstantsOK DEF Less
<1>2. ASSUME NEW l \in Lock
      PROVE  /\ l.left \in 0 .. TTL
             /\ [l EXCEPT !.left = Less(@)].holder = l.holder
             /\ [l EXCEPT !.left = Less(@)].slot = l.slot
             /\ [l EXCEPT !.left = Less(@)].left = Less(l.left)
  BY DEF Lock
<1>3. ASSUME NEW id \in LockIds
      PROVE  /\ Held(id)' <=> Held(id)
             /\ Held(id) => /\ locks[id].left \in 0 .. TTL
                            /\ locks'[id].holder = locks[id].holder
                            /\ locks'[id].slot = locks[id].slot
                            /\ locks'[id].left = Less(locks[id].left)
  <2>1. Held(id)' <=> Held(id) BY <1>0, TickChanges
  <2>2. Held(id) => locks'[id] = [locks[id] EXCEPT !.left = Less(@)] /\ locks[id] \in Lock
    BY <1>0 DEF TickLocks, Held, LocksTypeOK
  <2> QED BY <1>2, <2>1, <2>2
<1>4. ASSUME NEW k \in Call
      PROVE  /\ k.left \in 0 .. TTL
             /\ [k EXCEPT !.left = Less(@)].op = k.op /\ [k EXCEPT !.left = Less(@)].by = k.by
             /\ [k EXCEPT !.left = Less(@)].stage = k.stage
             /\ [k EXCEPT !.left = Less(@)].slot = k.slot
             /\ [k EXCEPT !.left = Less(@)].lock = k.lock
             /\ [k EXCEPT !.left = Less(@)].left = Less(k.left)
  BY DEF Call
<1>5. ASSUME NEW c \in Calls
      PROVE  /\ calls'[c] # Free <=> calls[c] # Free
             /\ calls[c] # Free => /\ calls'[c].op = calls[c].op /\ calls'[c].by = calls[c].by
                                   /\ calls'[c].stage = calls[c].stage
                                   /\ calls'[c].slot = calls[c].slot
                                   /\ calls'[c].lock = calls[c].lock
                                   /\ calls[c].left \in 0 .. TTL
                                   /\ calls'[c].left = Less(calls[c].left)
  <2>1. calls'[c] # Free <=> calls[c] # Free BY <1>0, TickChanges
  <2>2. calls[c] # Free => calls'[c] = [calls[c] EXCEPT !.left = Less(@)] /\ calls[c] \in Call
    BY <1>0 DEF TickLocks, LocksTypeOK
  <2> QED BY <1>4, <2>1, <2>2
<1>6. ASSUME NEW b \in Browsers
      PROVE  /\ screens'[b].selected = screens[b].selected
             /\ screens'[b].awaited = screens[b].awaited /\ screens'[b].renewing = screens[b].renewing
             /\ screens'[b].current.id = screens[b].current.id
             /\ screens[b].current.left \in 0 .. TTL
             /\ screens'[b].current.left = Less(screens[b].current.left)
  BY DEF Tick, SelectionInv, ScreensTyped, Screen
<1> QED BY <1>1, <1>3, <1>5, <1>6

\* Time takes as much from the lock as from the copies of it.
LEMMA TickAgrees ==
  ASSUME InStep, SelectionInv, AgreeInv, Tick
  PROVE  AgreeInv'
<1>1. AtWork = {} /\ UNCHANGED <<line, ahead>> BY DEF Tick, TickLocks, InStep
<1>2. WorkRight' BY <1>1, TickEach DEF WorkRight, AtWork
<1>3. Known' BY TickEach DEF AgreeInv, Known, SentBy
<1>4. \A id \in LockIds : Live(id)' => Live(id)
  BY TickEach, LocksConstantsOK DEF Live, Less
<1>5. ASSUME NEW a \in Browsers PROVE PageRight(a)'
  <2>1. PageRight(a) BY DEF AgreeInv
  <2>2. /\ \A d \in line[a] \union Waits(a) : d \in Calls /\ calls[d] # Free
        /\ screens[a].current.id \in LockIds \union {None}
        /\ \A d \in Waits(a) : calls[d].lock \in LockIds \union {None}
    BY <2>1, WaitsTyped DEF Call
  <2>3. Waits(a)' = Waits(a) BY TickEach DEF Waits
  <2>4. Releases(a)' = Releases(a) /\ \A r \in Releases(a) : calls'[r].lock = calls[r].lock
    BY <1>1, <2>2, TickEach DEF Releases
  <2>5. LineRight(a)'
    BY <1>1, <2>1, <2>2, <2>3, TickEach DEF PageRight, LineRight, Pending, SentBy
  <2>6. AwaitedRight(a)'
    BY <1>1, <2>1, <2>2, TickEach DEF PageRight, AwaitedRight, HasLock, Pending, SentBy, Waits
  <2>7. RenewingRight(a)'
    <3> SUFFICES ASSUME screens[a].renewing # None PROVE RenewingRight(a)'
      BY TickEach DEF RenewingRight
    <3>1. HasLock(a) => screens[a].current.id \in LockIds BY <2>2 DEF HasLock
    <3> QED
      BY <1>4, <2>1, <2>2, <3>1, TickEach DEF PageRight, RenewingRight, HasLock, SentBy, Waits
  <2>8. ASSUME NEW id \in LockIds \union {None}, NEW n \in 0 .. TTL, Theirs(a, id, n)
        PROVE  \A m : m = Less(n) => Theirs(a, id, m)'
    <3>1. id \in LockIds BY <2>8 DEF Theirs
    <3>2. Less(n) > 0 => n > 0 BY LocksConstantsOK DEF Less
    <3>3. Less(n) > 0 => Held(id)' /\ locks'[id].left >= Less(n)
      <4> SUFFICES ASSUME Less(n) > 0 PROVE Held(id)' /\ locks'[id].left >= Less(n) OBVIOUS
      <4>1. Held(id) /\ n <= locks[id].left BY <2>8, <3>2, TickEach, LocksConstantsOK DEF Theirs
      <4>2. Less(n) <= locks'[id].left BY <3>1, <4>1, TickEach
      <4>3. locks'[id].left \in 0 .. TTL /\ Less(n) \in 0 .. TTL BY <3>1, <4>1, TickEach
      <4> QED BY <3>1, <4>1, <4>2, <4>3, TickEach, LocksConstantsOK
    <3> QED BY <2>4, <2>8, <3>1, <3>3, TickEach DEF Theirs
  <2>9. CopiesRight(a)'
    <3>1. HasLock(a) => Theirs(a, screens[a].current.id, screens[a].current.left)'
      BY <2>1, <2>2, <2>8, TickEach DEF PageRight, CopiesRight
    <3>2. \A d \in Waits(a) : calls[d].stage = "lock" => Theirs(a, calls[d].lock, calls[d].left)'
      BY <2>1, <2>2, <2>8, TickEach DEF PageRight, CopiesRight
    <3> QED BY <2>2, <2>3, <3>1, <3>2, TickEach DEF CopiesRight, HasLock
  <2>10. NoneLeft(a)'
    <3> SUFFICES ASSUME NEW id \in LockIds, (Live(id) /\ locks[id].holder = UserOf[a])'
                 PROVE  Placed(a, id)'
      BY DEF NoneLeft
    <3>1. Placed(a, id) BY <1>4, <2>1, TickEach DEF PageRight, NoneLeft, Live
    <3> QED BY <2>2, <2>4, <3>1, TickEach DEF Placed, Brings, Waits
  <2> QED BY <2>5, <2>6, <2>7, <2>9, <2>10 DEF PageRight
<1> QED BY <1>2, <1>3, <1>5 DEF AgreeInv

\* What the screens show of the locks, when operators wait for their answers, each at one
\* page, and the server answers them in order and one at a time.
THEOREM ScreensAlwaysAgree ==
  ASSUME InStep
  PROVE  SelectionSpec => []ScreensAgree
<1>1. SelectionInit => AgreeInv BY InitAgrees
<1>2. ASSUME SelectionInv, AgreeInv, [SelectionNext]_selectionVars PROVE AgreeInv'
  <2>1. CASE UNCHANGED selectionVars BY <1>2, <2>1, SameAgrees DEF selectionVars
  <2>2. ASSUME NEW b \in Browsers, Expire(b) PROVE AgreeInv'
    <3>1. \A a \in Browsers : /\ screens'[a].selected = screens[a].selected
                             /\ screens'[a].current = screens[a].current
                             /\ screens'[a].awaited = screens[a].awaited
                             /\ screens'[a].renewing = screens[a].renewing
      BY <1>2, <2>2 DEF Expire, Show, SelectionInv, ScreensTyped, Screen
    <3> QED BY <1>2, <2>2, <3>1, SameAgrees DEF Expire
  <2>3. ASSUME NEW b \in Browsers PROVE ~ Leave(b) /\ ~ Crash(b) BY DEF InStep, Leave, Crash
  <2> QED
    BY <1>2, <2>1, <2>2, <2>3, SelectAgrees, RenewAgrees, AnswerAcquireAgrees, AnswerRenewAgrees,
       IgnoreAgrees, ServeAgrees, TickAgrees DEF SelectionNext
<1>3. SelectionInv /\ AgreeInv => ScreensAgree BY InvAgrees
<1> QED BY <1>1, <1>2, <1>3, SelectionInvariance, PTL DEF SelectionSpec
===============================================================================
