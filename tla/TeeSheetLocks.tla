---------------------------- MODULE TeeSheetLocks -----------------------------
(***************************************************************************)
(* The slot locks of the tee sheet: TeeSheetLockService behind its three   *)
(* endpoints, acquire, renew and release.  A request reads the clock and   *)
(* the lock, and writes and commits later; requests of other operators,    *)
(* and time, come between.                                                 *)
(*                                                                         *)
(* Time is what a lock has left: every tick takes one from each expiry the *)
(* clock has been read for, and an expiry of 0 has passed.                 *)
(***************************************************************************)
EXTENDS Naturals

CONSTANTS
  Calls,      \* requests that may be under way together
  Slots,      \* (course_id, slot_datetime)
  Operators,  \* users
  LockIds,    \* ids given to locks, given again when nothing remembers them
  TTL,        \* LOCK_TTL_SECONDS, in ticks
  OneAtATime, \* whether requests are served one at a time and in no time
  MayFail,    \* whether requests and answers get lost
  None        \* no row

ASSUME LocksConstantsOK ==
  /\ TTL \in Nat \ {0}
  /\ OneAtATime \in BOOLEAN /\ MayFail \in BOOLEAN
  /\ None \notin Slots \union LockIds \union [left: 0 .. TTL, slot: Slots, holder: Operators]

VARIABLES
  locks,  \* tee_sheet_locks: LockIds -> row, or None
  calls   \* requests on the network, being served, and answered

lockVars == <<locks, calls>>

Lock == [left: 0 .. TTL, slot: Slots, holder: Operators]
Answers == {"lock", "own", "conflict", "refused", "done", "failed"}

\* A request: who sent it, its slot (acquire) or lock (the others), and how far it is.
Call == [left: 0 .. TTL, slot: Slots \union {None}, lock: LockIds \union {None},
         stage: {"sent", "read"} \union Answers,
         op: {"acquire", "renew", "release"}, by: Operators]
Free == [op |-> "free"]

Request(op, by, slot, lock) ==
  [left |-> 0, slot |-> slot, lock |-> lock, stage |-> "sent", op |-> op, by |-> by]

Held(id) == locks[id] # None
Live(id) == Held(id) /\ locks[id].left > 0
LocksOn(s) == {id \in LockIds : Held(id) /\ locks[id].slot = s}
Answered(c) == calls[c] # Free /\ calls[c].stage \in Answers

LocksInit ==
  /\ locks = [id \in LockIds |-> None]
  /\ calls = [c \in Calls |-> Free]

To(c, stage) == calls' = [calls EXCEPT ![c].stage = stage]
Answer(c, answer, id, left) ==
  calls' = [calls EXCEPT ![c].stage = answer, ![c].lock = id, ![c].left = left]

\* A conflict carries the lock there is, and so tells whether the sender holds it.
Conflict(c, id) ==
  Answer(c, IF locks[id].holder = calls[c].by THEN "own" ELSE "conflict", id, locks[id].left)

\* The requests of which the clock has been read and the write has not been made.
AtWork == {c \in Calls : calls[c] # Free /\ calls[c].stage = "read"}

Reads(c, op) ==
  /\ calls[c] # Free /\ calls[c].op = op /\ calls[c].stage = "sent"
  /\ OneAtATime => AtWork = {}
Writes(c, op) == calls[c] # Free /\ calls[c].op = op /\ calls[c].stage = "read"

-------------------------------------------------------------------------------
(* acquire.                                                                *)

\* Mutant: a lock is free for the taking.
NeverInTheWay(c, id) == FALSE

\* existing: the slot's lock, unless it has expired.
InTheWay(c, id) == id \in LocksOn(calls[c].slot) /\ Live(id)

\* Mutant: a conflict starts the time of the lock again.
ReadAcquireRenewing(c) ==
  /\ Reads(c, "acquire")
  /\ \E id \in LocksOn(calls[c].slot) \union {None} :
       \/ /\ id # None /\ Live(id)
          /\ Conflict(c, id)
          /\ locks' = [locks EXCEPT ![id].left = TTL]
       \/ /\ IF id = None THEN LocksOn(calls[c].slot) = {} ELSE ~ Live(id)
          /\ Answer(c, "read", id, TTL)
          /\ UNCHANGED locks

\* The check for an existing lock. One that has expired is remembered, to be deleted.
ReadAcquire(c) ==
  /\ Reads(c, "acquire")
  /\ \/ \E id \in LockIds :
          /\ InTheWay(c, id)
          /\ Conflict(c, id)
     \/ /\ \A id \in LockIds : ~ InTheWay(c, id)
        /\ \E id \in LockIds \union {None} :
             /\ IF id = None THEN LocksOn(calls[c].slot) = {} ELSE id \in LocksOn(calls[c].slot)
             /\ Answer(c, "read", id, TTL)
  /\ UNCHANGED locks

\* Mutant: the constraint on (course_id, slot_datetime) is not there.
NoOthers(c) == {}

\* The rows that make the insert fail: those of the slot that it has not deleted.
Others(c) == LocksOn(calls[c].slot) \ {calls[c].lock}

\* Mutant: a lock is given for longer than it should be.
GrantedLonger(c) == [left |-> calls[c].left + 1, slot |-> calls[c].slot, holder |-> calls[c].by]

Granted(c) == [left |-> calls[c].left, slot |-> calls[c].slot, holder |-> calls[c].by]

\* Delete by id and insert; a new row has an id of its own.
CommitAcquire(c, new) ==
  /\ Writes(c, "acquire")
  /\ Others(c) = {}
  /\ locks[new] = None
  /\ locks' = [id \in LockIds |-> IF id = new THEN Granted(c)
                                  ELSE IF id = calls[c].lock THEN None ELSE locks[id]]
  /\ Answer(c, "lock", new, calls[c].left)

\* The insert fails: roll back, and read the winner, which may be gone again.
LoseRace(c) ==
  /\ Writes(c, "acquire")
  /\ \E id \in Others(c) :
       \/ Conflict(c, id)
       \/ Answer(c, "failed", None, 0)
  /\ UNCHANGED locks

-------------------------------------------------------------------------------
(* renew and release.                                                      *)

Renewable(c) == Live(calls[c].lock) /\ locks[calls[c].lock].holder = calls[c].by

ReadRenew(c) ==
  /\ Reads(c, "renew")
  /\ \/ Renewable(c) /\ Answer(c, "read", calls[c].lock, TTL)
     \/ ~ Renewable(c) /\ To(c, "refused")
  /\ UNCHANGED locks

\* UPDATE of the expiry by id; no row, no update, and an error.
CommitRenew(c) ==
  /\ Writes(c, "renew")
  /\ \/ /\ Held(calls[c].lock)
        /\ locks' = [locks EXCEPT ![calls[c].lock].left = calls[c].left]
        /\ To(c, "lock")
     \/ /\ ~ Held(calls[c].lock)
        /\ To(c, "failed")
        /\ UNCHANGED locks

MayRelease(c) == Held(calls[c].lock) /\ locks[calls[c].lock].holder = calls[c].by

ReadRelease(c) ==
  /\ Reads(c, "release")
  /\ \/ MayRelease(c) /\ To(c, "read")
     \/ ~ MayRelease(c) /\ Held(calls[c].lock) /\ To(c, "refused")
     \/ ~ Held(calls[c].lock) /\ To(c, "done")
  /\ UNCHANGED locks

CommitRelease(c) ==
  /\ Writes(c, "release")
  /\ locks' = [locks EXCEPT ![calls[c].lock] = None]
  /\ To(c, "done")

-------------------------------------------------------------------------------
(* The network and the clock.                                              *)

\* A request is lost, or it fails before its commit.
LoseRequest(c) ==
  /\ MayFail
  /\ calls[c] # Free /\ calls[c].stage \in {"sent", "read"}
  /\ Answer(c, "failed", None, 0)
  /\ UNCHANGED locks

\* The answer is lost: what was done is done.
LoseAnswer(c) ==
  /\ MayFail
  /\ Answered(c) /\ calls[c].stage # "failed"
  /\ Answer(c, "failed", None, 0)
  /\ UNCHANGED locks

Less(n) == IF n = 0 THEN 0 ELSE n - 1

\* A unit of time passes on every clock.
TickLocks ==
  /\ OneAtATime => AtWork = {}
  /\ locks' = [id \in LockIds |-> IF Held(id) THEN [locks[id] EXCEPT !.left = Less(@)] ELSE None]
  /\ calls' = [c \in Calls |-> IF calls[c] = Free THEN Free ELSE [calls[c] EXCEPT !.left = Less(@)]]

ServeRead(c) == ReadAcquire(c) \/ ReadRenew(c) \/ ReadRelease(c)

\* Ids that a request remembers; a uuid is never given twice.
Remembered == {calls[c].lock : c \in {d \in Calls : calls[d] # Free}}

ServeWrite(c, ids) ==
  \/ \E new \in ids : CommitAcquire(c, new)
  \/ LoseRace(c) \/ CommitRenew(c) \/ CommitRelease(c)

\* Any operator may ask for any slot, and for anything of any lock.
Arrive(c) ==
  /\ calls[c] = Free
  /\ \E by \in Operators :
       \/ \E s \in Slots : calls' = [calls EXCEPT ![c] = Request("acquire", by, s, None)]
       \/ \E id \in LockIds, op \in {"renew", "release"} :
            calls' = [calls EXCEPT ![c] = Request(op, by, None, id)]
  /\ UNCHANGED locks

Finish(c) ==
  /\ Answered(c)
  /\ calls' = [calls EXCEPT ![c] = Free]
  /\ UNCHANGED locks

LocksNext ==
  \/ \E c \in Calls :
       \/ Arrive(c) \/ Finish(c)
       \/ ServeRead(c) \/ ServeWrite(c, LockIds \ Remembered)
       \/ LoseRequest(c) \/ LoseAnswer(c)
  \/ TickLocks

LocksSpec == LocksInit /\ [][LocksNext]_lockVars

-------------------------------------------------------------------------------
(* What must hold of the locks.                                            *)

\* Every variable keeps its type.
LocksTypeOK ==
  /\ locks \in [LockIds -> Lock \union {None}]
  /\ calls \in [Calls -> Call \union {Free}]

\* A slot has one lock, expired or not, whichever requests race for it.
OneLockPerSlot ==
  \A a, b \in LockIds : (Held(a) /\ Held(b) /\ locks[a].slot = locks[b].slot) => a = b

\* A request of the holder to release the lock is at the point of doing so.
BeingReleased(id) ==
  \E c \in Calls : Writes(c, "release") /\ calls[c].lock = id /\ calls[c].by = locks[id].holder

\* An acquire of a slot that "is already held by another operator" is a conflict: a
\* lock that has not expired goes only when its holder releases it.
LiveLockKept ==
  [][\A id \in LockIds : (Live(id) /\ locks'[id] = None) => BeingReleased(id)]_lockVars

\* A lock that has expired is not extended: its slot is free, and may have been given
\* to another operator in the meantime.
NotRevived ==
  [][\A id \in LockIds :
       (Held(id) /\ ~ Live(id) /\ locks'[id] # None) => locks'[id].left = 0]_lockVars

\* A lock lives as long as its holder renews it in time, no shorter and no longer.
LocksLive == LiveLockKept /\ NotRevived
===============================================================================
