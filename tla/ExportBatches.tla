----------------------------- MODULE ExportBatches -----------------------------
(***************************************************************************)
(* Accounting export: batches of ledger entries that are generated for a   *)
(* range of dates, exported, voided and regenerated.                       *)
(*                                                                         *)
(* A request reads and commits at different times.  A regeneration commits *)
(* three times: the batch is voided, its replacement is generated, and the *)
(* two are linked in their metadata.                                       *)
(***************************************************************************)
EXTENDS Naturals

CONSTANTS
  Workers,    \* request threads
  Ranges,     \* (export_profile, date_from, date_to)
  BatchIds,   \* identifiers for rows of finance_export_batches (never reused)
  MaxPosted,  \* bound on the ledger entries of a range
  None        \* SQL NULL, and the absent row

Statuses == {"generated", "exported", "void"}

\* A worker without a request.
Free == [op |-> "free"]

\* What metadata_json tells of a batch: export_events, void_event, superseded_event
\* with its replacement_batch_id, and regenerated_event.
Notes == [exported: BOOLEAN, voided: BOOLEAN, superseded: BOOLEAN,
          replacement: BatchIds \union {None}, from: BatchIds \union {None}]

\* The ledger is append-only: the rows of a batch are the entries there were.
Batch == [range: Ranges, status: Statuses, rows: Nat, notes: Notes]

ASSUME ExportConstantsOK ==
  MaxPosted \in Nat /\ None \notin BatchIds \union Batch

VARIABLES
  posted,   \* Ranges -> how many entries the ledger has in the range
  batches,  \* BatchIds -> Batch, or None
  clerks,   \* Workers -> the request being served
  raced,    \* history: ranges that two requests were at work on at a time
  cut       \* history: ranges of which a regeneration stopped between its commits

exportVars == <<posted, batches, clerks, raced, cut>>

Blank == [exported |-> FALSE, voided |-> FALSE, superseded |-> FALSE,
          replacement |-> None, from |-> None]

Exists(b) == batches[b] # None
IsCurrent(b) == Exists(b) /\ batches[b].status # "void"
Current(range) == {b \in BatchIds : IsCurrent(b) /\ batches[b].range = range}

-------------------------------------------------------------------------------
(* Requests in progress.                                                   *)

\* A generation; old is the batch it replaces, or None, and notes is what the session
\* has in memory as the metadata of old. rolled: the session was rolled back.
GenerateJob == [op: {"generate"}, range: Ranges, rows: Nat, notes: Notes,
                stage: {"look", "select", "insert", "reread"}, old: BatchIds \union {None},
                rolled: BOOLEAN]
LinkJob == [op: {"link"}, range: Ranges, notes: Notes, old: BatchIds, rolled: BOOLEAN,
            new: BatchIds, seen: Notes]
\* A request that changes a batch it has loaded.
ChangeJob == [op: {"void", "regenerate", "check", "export"}, range: Ranges,
              seen: Batch, id: BatchIds]
Job == {Free} \union GenerateJob \union LinkJob \union ChangeJob

ExportInit ==
  /\ posted = [r \in Ranges |-> 0]
  /\ batches = [b \in BatchIds |-> None]
  /\ clerks = [w \in Workers |-> Free]
  /\ raced = {} /\ cut = {}

\* The ledger service posts an entry in the range.
PostInRange(range) ==
  /\ posted[range] < MaxPosted
  /\ posted' = [posted EXCEPT ![range] = @ + 1]
  /\ UNCHANGED <<batches, clerks, raced, cut>>

Do(w, job) == clerks' = [clerks EXCEPT ![w] = job]

\* A request begins; another one for the range may be under way.
Begin(w, job) ==
  /\ clerks[w] = Free
  /\ Do(w, job)
  /\ raced' = raced \union
       {r \in {job.range} : \E v \in Workers : clerks[v] # Free /\ clerks[v].range = r}
  /\ UNCHANGED <<posted, batches, cut>>

-------------------------------------------------------------------------------
(* generate_or_get_existing.                                               *)

Generation(range, old, notes) ==
  [op |-> "generate", range |-> range, rows |-> 0, notes |-> notes,
   stage |-> "look", old |-> old, rolled |-> FALSE]

BeginGenerate(w) == \E r \in Ranges : Begin(w, Generation(r, None, Blank))

\* The generation has its batch; a regeneration goes on to link it.
Obtained(w, new, seen) ==
  LET j == clerks[w] IN
  Do(w, IF j.old = None THEN Free
        ELSE [op |-> "link", range |-> j.range, notes |-> j.notes, old |-> j.old,
              rolled |-> j.rolled, new |-> new, seen |-> seen])

LookForCurrent(w) ==
  LET j == clerks[w] IN
  /\ j.op = "generate" /\ j.stage = "look"
  /\ \/ Current(j.range) = {} /\ Do(w, [j EXCEPT !.stage = "select"])
     \/ \E b \in Current(j.range) : Obtained(w, b, batches[b].notes)
  /\ UNCHANGED <<posted, batches, raced, cut>>

\* An empty selection is refused.
SelectEntries(w) ==
  LET j == clerks[w] IN
  /\ j.op = "generate" /\ j.stage = "select"
  /\ posted[j.range] > 0
  /\ Do(w, [j EXCEPT !.stage = "insert", !.rows = posted[j.range]])
  /\ UNCHANGED <<posted, batches, raced, cut>>

\* Mutant: the index is not unique.
NoIndex(range, ids) == TRUE

\* uq_finance_export_batches_active_range: no batch of the range but these is current.
Unique(range, ids) == Current(range) \subseteq ids

InsertBatch(w) ==
  LET j == clerks[w] IN
  /\ j.op = "generate" /\ j.stage = "insert"
  /\ Unique(j.range, {})
  /\ \E b \in BatchIds :
       /\ ~ Exists(b)
       /\ batches' = [batches EXCEPT ![b] =
            [range |-> j.range, status |-> "generated", rows |-> j.rows, notes |-> Blank]]
       /\ Obtained(w, b, Blank)
  /\ UNCHANGED <<posted, raced, cut>>

\* IntegrityError: the session is rolled back and the other one's batch looked up.
InsertFails(w) ==
  LET j == clerks[w] IN
  /\ j.op = "generate" /\ j.stage = "insert"
  /\ ~ Unique(j.range, {})
  /\ Do(w, [j EXCEPT !.stage = "reread", !.rolled = TRUE])
  /\ UNCHANGED <<posted, batches, raced, cut>>

Reread(w) ==
  LET j == clerks[w] IN
  /\ j.op = "generate" /\ j.stage = "reread"
  /\ \E b \in Current(j.range) : Obtained(w, b, batches[b].notes)
  /\ UNCHANGED <<posted, batches, raced, cut>>

-------------------------------------------------------------------------------
(* Void, regenerate and export change a batch they have loaded.            *)

MayChange(op, batch) == batch.status # "void"

BeginChange(w) ==
  \E b \in BatchIds, op \in {"void", "regenerate", "check"} :
    /\ Exists(b)
    /\ MayChange(op, batches[b])
    /\ Begin(w, [op |-> op, range |-> batches[b].range, seen |-> batches[b], id |-> b])

\* The metadata is written as a whole, the status only when it is not the one loaded.
Changed(b, seen, status, notes) ==
  [batches EXCEPT ![b].status = IF status = seen.status THEN @ ELSE status,
                  ![b].notes = notes]

\* Mutant: the void event replaces the metadata.
OnlyVoidNoted(notes) == [Blank EXCEPT !.voided = TRUE]

VoidNoted(notes) == [notes EXCEPT !.voided = TRUE]

CommitVoid(w) ==
  LET j == clerks[w] IN
  /\ j.op = "void"
  /\ batches' = Changed(j.id, j.seen, "void", VoidNoted(j.seen.notes))
  /\ Do(w, Free)
  /\ UNCHANGED <<posted, raced, cut>>

\* Mutant: the status is named after the event.
NamedSuperseded(seen) == "superseded"

Superseded(seen) == "void"
SupersededNotes(notes) == [notes EXCEPT !.voided = TRUE, !.superseded = TRUE]

\* The first commit of a regeneration.
CommitSuperseded(w) ==
  LET j == clerks[w]
      notes == SupersededNotes(j.seen.notes) IN
  /\ j.op = "regenerate"
  /\ batches' = Changed(j.id, j.seen, Superseded(j.seen), notes)
  /\ Do(w, Generation(j.range, j.id, notes))
  /\ UNCHANGED <<posted, raced, cut>>

\* Mutant: the replacement does not say where it comes from.
Unlinked(j, notes) == notes

RegeneratedNotes(j, notes) == [notes EXCEPT !.from = j.old]

\* The last commit. The metadata of old was changed in place, which the session takes
\* for no change and does not write, unless a rollback made it forget the old value.
LinkReplacement(w) ==
  LET j == clerks[w]
      superseded == [j.notes EXCEPT !.replacement = j.new] IN
  /\ j.op = "link"
  /\ batches' =
       [batches EXCEPT
          ![j.old].notes = IF j.rolled THEN superseded ELSE @,
          ![j.new].notes = RegeneratedNotes(j, IF j.new = j.old THEN superseded ELSE j.seen)]
  /\ Do(w, Free)
  /\ UNCHANGED <<posted, raced, cut>>

\* The reconciliation of an export: the batch has what the ledger has.
Reconcile(w) ==
  LET j == clerks[w] IN
  /\ j.op = "check"
  /\ j.seen.rows = posted[j.range]
  /\ Do(w, [j EXCEPT !.op = "export"])
  /\ UNCHANGED <<posted, batches, raced, cut>>

CommitExport(w) ==
  LET j == clerks[w] IN
  /\ j.op = "export"
  /\ j.seen.status = "exported" \/ Unique(j.range, {j.id})
  /\ batches' = Changed(j.id, j.seen, "exported", [j.seen.notes EXCEPT !.exported = TRUE])
  /\ Do(w, Free)
  /\ UNCHANGED <<posted, raced, cut>>

-------------------------------------------------------------------------------
\* The first commit of a regeneration has been made, the last has not.
Regenerating(w) ==
  clerks[w].op = "link" \/ (clerks[w].op = "generate" /\ clerks[w].old # None)

\* A refusal, an error or a crash; also for reasons that are not in this model, such as
\* a profile that is inactive or does not fit the rows.
Refuse(w) ==
  /\ clerks[w] # Free /\ ~ Regenerating(w)
  /\ Do(w, Free)
  /\ UNCHANGED <<posted, batches, raced, cut>>

\* An error or a crash after the first commit of a regeneration.
CrashBetween(w) ==
  /\ Regenerating(w)
  /\ Do(w, Free)
  /\ cut' = cut \union {clerks[w].range}
  /\ UNCHANGED <<posted, batches, raced>>

ExportNext ==
  \/ \E r \in Ranges : PostInRange(r)
  \/ \E w \in Workers :
       \/ BeginGenerate(w) \/ LookForCurrent(w) \/ SelectEntries(w)
       \/ InsertBatch(w) \/ InsertFails(w) \/ Reread(w)
       \/ BeginChange(w) \/ CommitVoid(w) \/ Reconcile(w) \/ CommitExport(w)
       \/ CommitSuperseded(w) \/ LinkReplacement(w)
       \/ Refuse(w) \/ CrashBetween(w)

ExportSpec == ExportInit /\ [][ExportNext]_exportVars

-------------------------------------------------------------------------------
(* What must hold of the batches.                                          *)

\* Every variable keeps its type.
ExportTypeOK ==
  /\ posted \in [Ranges -> 0 .. MaxPosted]
  /\ batches \in [BatchIds -> Batch \union {None}]
  /\ clerks \in [Workers -> Job]
  /\ raced \subseteq Ranges /\ cut \subseteq Ranges

\* A range has one batch that is not void, however requests race, fail and are retried:
\* also when an export brings back a batch that was voided while it was under way.
OneCurrent ==
  \A b, c \in BatchIds :
    (IsCurrent(b) /\ IsCurrent(c) /\ batches[b].range = batches[c].range) => b = c

\* A batch was regenerated from another one of its range, which is void and has no
\* entry that it lacks, unless requests for the range overlap.
ReplacesVoid ==
  \A b \in BatchIds : (Exists(b) /\ batches[b].range \notin raced) =>
    LET old == batches[b].notes.from IN
    old # None =>
      /\ old # b /\ Exists(old)
      /\ batches[old].range = batches[b].range
      /\ batches[old].status = "void"
      /\ batches[old].rows <= batches[b].rows

\* "Voided finance export batches cannot be exported": a batch stays void, unless
\* requests for its range overlap.
VoidIsFinal ==
  [][\A b \in BatchIds :
       (Exists(b) /\ batches[b].range \notin raced /\ ~ IsCurrent(b)) =>
          batches'[b].status = "void"]_exportVars

\* The metadata forgets nothing a batch went through, unless requests overlap.
HistoryKept ==
  [][\A b \in BatchIds : (Exists(b) /\ batches[b].range \notin raced) =>
       LET was == batches[b].notes
           is == batches'[b].notes IN
       /\ was.exported => is.exported
       /\ was.voided => is.voided
       /\ was.superseded => is.superseded
       /\ was.from # None => is.from = was.from]_exportVars

\* A batch that was superseded has its replacement once the regeneration is over,
\* unless it was cut short or other requests overlapped with it.
SupersededIsReplaced ==
  \A b \in BatchIds :
    ( /\ Exists(b) /\ batches[b].notes.superseded
      /\ batches[b].range \notin raced \union cut
      /\ \A w \in Workers : ~ Regenerating(w) ) =>
        \E c \in BatchIds : Exists(c) /\ batches[c].notes.from = b

\* A replacement names the void batch it was generated for, and every superseded batch has
\* a replacement that names it. That the superseded batch names its replacement back is not
\* said: regenerate_batch puts that id into the dict it has assigned before (:354-359), which
\* the session takes for unchanged and writes only after a rolled back insert made it load
\* the batch again (LinkReplacement).
ReplacementsAgree == ReplacesVoid /\ SupersededIsReplaced
\* What a batch went through stays so.
PastIsKept == VoidIsFinal /\ HistoryKept
===============================================================================
