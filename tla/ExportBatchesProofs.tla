------------------------- MODULE ExportBatchesProofs --------------------------
(***************************************************************************)
(* Proofs about ExportBatches for any number of workers, ranges and        *)
(* batches: whatever requests race, fail and are retried, one batch of a   *)
(* range is in force; and where requests for a batch did not overlap, its  *)
(* replacement is the one it names and its past is kept.                   *)
(***************************************************************************)
EXTENDS ExportBatches, TLAPS

\* What a request may rely on: the batches it has in hand are there, and of its range.
Known(j) ==
  /\ j.op \in {"void", "regenerate", "check", "export"} =>
       Exists(j.id) /\ batches[j.id].range = j.range
  /\ j.op = "generate" => (j.old # None => Exists(j.old) /\ batches[j.old].range = j.range)
  /\ j.op = "link" =>
       /\ Exists(j.old) /\ batches[j.old].range = j.range
       /\ Exists(j.new) /\ batches[j.new].range = j.range

RequestsKnown == \A w \in Workers : Known(clerks[w])

ExportInv == ExportTypeOK /\ RequestsKnown /\ OneCurrent

\* No batch disappears or moves to another range.
BatchesLast ==
  \A b \in BatchIds : Exists(b) => Exists(b)' /\ batches'[b].range = batches[b].range

\* The operation of a request tells which fields it has.
LEMMA JobKinds ==
  ASSUME NEW j \in Job
  PROVE  /\ j.op = "generate" => j \in GenerateJob
         /\ j.op = "link" => j \in LinkJob
         /\ j.op \in {"void", "regenerate", "check", "export"} => j \in ChangeJob
BY DEF Job, Free, GenerateJob, LinkJob, ChangeJob

LEMMA BlankTyped == Blank \in Notes
BY DEF Blank, Notes

LEMMA GenerationTyped ==
  ASSUME NEW range \in Ranges, NEW old \in BatchIds \union {None}, NEW notes \in Notes
  PROVE  \E job \in Job : /\ job = Generation(range, old, notes)
                          /\ job.op = "generate" /\ job.range = range /\ job.old = old
<1>1. PICK job : job = Generation(range, old, notes) OBVIOUS
<1>2. job \in GenerateJob BY <1>1 DEF Generation, GenerateJob
<1>3. job.op = "generate" /\ job.range = range /\ job.old = old BY <1>1 DEF Generation
<1>4. job \in Job BY <1>2 DEF Job
<1> QED BY <1>1, <1>3, <1>4

\* A generation that goes on to its next stage.
LEMMA NextStage ==
  ASSUME NEW j \in GenerateJob, NEW job, job \in GenerateJob, job.old = j.old,
         job.range = j.range
  PROVE  job \in Job /\ job.op = "generate" /\ (Known(j) => Known(job))
<1>1. job \in Job BY DEF Job
<1>2. j.op = "generate" /\ job.op = "generate" BY DEF GenerateJob
<1> QED BY <1>1, <1>2 DEF Known

\* The requests of the other workers know what they knew.
LEMMA DoKnown ==
  ASSUME ExportInv, BatchesLast, NEW w \in Workers, NEW job \in Job, Do(w, job), Known(job)'
  PROVE  clerks' \in [Workers -> Job] /\ RequestsKnown'
<1>1. clerks' \in [Workers -> Job] BY DEF ExportInv, ExportTypeOK, Do
<1>2. ASSUME NEW v \in Workers, NEW j, j = clerks'[v] PROVE Known(j)'
  <2>1. CASE v = w BY <1>2, <2>1 DEF Do, ExportInv, ExportTypeOK
  <2>2. CASE v # w
    <3>1. j = clerks[v] BY <1>2, <2>2 DEF Do, ExportInv, ExportTypeOK
    <3>2. j \in Job /\ Known(j) BY <3>1 DEF ExportInv, ExportTypeOK, RequestsKnown
    <3> QED BY <3>2, JobKinds DEF Known, BatchesLast, ChangeJob, GenerateJob, LinkJob
  <2> QED BY <2>1, <2>2
<1>3. RequestsKnown'
  BY <1>2 DEF RequestsKnown
<1> QED BY <1>1, <1>3

\* A request that leaves the batches alone and goes on with a job it may have.
LEMMA BatchesStay ==
  ASSUME ExportInv, NEW w \in Workers, NEW job \in Job, Do(w, job), Known(job),
         UNCHANGED <<posted, batches>>, raced' \subseteq Ranges, cut' \subseteq Ranges
  PROVE  ExportInv'
<1>1. BatchesLast BY DEF BatchesLast, Exists
<1>2. Known(job)' BY DEF Known, Exists
<1>3. clerks' \in [Workers -> Job] /\ RequestsKnown' BY <1>1, <1>2, DoKnown
<1> QED BY <1>3 DEF ExportInv, ExportTypeOK, OneCurrent, IsCurrent, Exists

LEMMA FreeKnown == Free \in Job /\ Known(Free) /\ Known(Free)'
BY DEF Free, Job, Known

\* What a generation goes on with once it has its batch.
LEMMA ObtainedJob ==
  ASSUME NEW w \in Workers, clerks[w] \in GenerateJob,
         NEW new \in BatchIds, NEW seen \in Notes, Obtained(w, new, seen)
  PROVE  \E job \in Job :
           /\ Do(w, job)
           /\ job = Free \/ (/\ job.op = "link" /\ job.new = new
                             /\ job.range = clerks[w].range
                             /\ clerks[w].old # None /\ job.old = clerks[w].old)
<1> DEFINE j == clerks[w]
           link == [op |-> "link", range |-> j.range, notes |-> j.notes, old |-> j.old,
                    rolled |-> j.rolled, new |-> new, seen |-> seen]
<1>1. CASE j.old = None BY <1>1, FreeKnown DEF Obtained
<1>2. CASE j.old # None
  <2>1. link \in Job BY <1>2 DEF GenerateJob, Job, LinkJob
  <2>2. Do(w, link) BY <1>2 DEF Obtained
  <2>3. link.op = "link" /\ link.new = new /\ link.old = j.old /\ link.range = j.range OBVIOUS
  <2> HIDE DEF link
  <2> QED BY <1>2, <2>1, <2>2, <2>3
<1> QED BY <1>1, <1>2

\* A request that begins is known to have what it has just loaded.
LEMMA BeginKeepsInv ==
  ASSUME ExportInv, NEW w \in Workers, NEW job \in Job, job.range \in Ranges, Known(job),
         Begin(w, job)
  PROVE  ExportInv'
<1>1. raced' \subseteq Ranges /\ cut' \subseteq Ranges
  BY DEF Begin, ExportInv, ExportTypeOK
<1> QED BY <1>1, BatchesStay DEF Begin

\* A generation that finds the batch in force.
LEMMA FoundKeepsInv ==
  ASSUME ExportInv, NEW w \in Workers, clerks[w] \in GenerateJob, clerks[w].op = "generate",
         NEW b \in Current(clerks[w].range), Obtained(w, b, batches[b].notes),
         UNCHANGED <<posted, batches, raced, cut>>
  PROVE  ExportInv'
<1>1. b \in BatchIds /\ Exists(b) /\ batches[b].range = clerks[w].range
  BY DEF Current, IsCurrent
<1>2. batches[b].notes \in Notes
  BY <1>1, ExportConstantsOK DEF ExportInv, ExportTypeOK, Exists, Batch
<1>3. PICK job \in Job :
        /\ Do(w, job)
        /\ job = Free \/ (/\ job.op = "link" /\ job.new = b
                          /\ job.range = clerks[w].range
                          /\ clerks[w].old # None /\ job.old = clerks[w].old)
  BY <1>1, <1>2, ObtainedJob
<1>4. Known(job)
  <2>1. Known(clerks[w]) BY DEF ExportInv, RequestsKnown
  <2>2. clerks[w].old # None =>
          Exists(clerks[w].old) /\ batches[clerks[w].old].range = clerks[w].range
    BY <2>1 DEF Known
  <2> QED BY <1>1, <1>3, <2>2, FreeKnown DEF Known
<1> QED BY <1>3, <1>4, BatchesStay DEF ExportInv, ExportTypeOK

\* A batch that was loaded is changed: it may come back only when the index lets it.
LEMMA ChangeKeepsInv ==
  ASSUME ExportInv, NEW w \in Workers, NEW j \in ChangeJob, j = clerks[w],
         NEW status \in Statuses, NEW notes \in Notes, NEW job \in Job,
         batches' = Changed(j.id, j.seen, status, notes),
         Do(w, job), UNCHANGED <<posted, raced, cut>>,
         status = "void" \/ status = j.seen.status \/ Unique(j.range, {j.id}),
         job = Free \/ (job.op = "generate" /\ job.old = j.id /\ job.range = j.range)
  PROVE  ExportInv'
<1> DEFINE b == j.id
<1>0. Exists(b) /\ batches[b].range = j.range
  BY DEF ExportInv, RequestsKnown, Known, ChangeJob
<1>1. b \in BatchIds /\ batches[b] \in Batch
  BY <1>0, ExportConstantsOK DEF ChangeJob, ExportInv, ExportTypeOK, Exists
<1>2. PICK was \in Batch : was = batches[b] BY <1>1
<1>3. PICK is \in Batch :
        /\ is.range = was.range
        /\ is.status \in {was.status, status}
        /\ status = j.seen.status => is.status = was.status
        /\ batches' = [batches EXCEPT ![b] = is]
  <2> DEFINE s == IF status = j.seen.status THEN was.status ELSE status
             is == [was EXCEPT !.status = s, !.notes = notes]
  <2>1. is \in Batch /\ is.range = was.range /\ is.status = s BY <1>2 DEF Batch
  <2>2. batches' = [batches EXCEPT ![b] = is]
    BY <1>1, <1>2 DEF Changed, ExportInv, ExportTypeOK, Batch
  <2> QED BY <2>1, <2>2
<1>4. \A x \in BatchIds : batches'[x] = IF x = b THEN is ELSE batches[x]
  BY <1>1, <1>3 DEF ExportInv, ExportTypeOK
<1>5. BatchesLast BY <1>2, <1>3, <1>4, ExportConstantsOK DEF BatchesLast, Exists
<1>6. Known(job)'
  <2>1. Exists(b)' /\ batches'[b].range = j.range BY <1>0, <1>1, <1>5 DEF BatchesLast
  <2> QED BY <2>1, FreeKnown DEF Known
<1>7. clerks' \in [Workers -> Job] /\ RequestsKnown' BY <1>5, <1>6, DoKnown
<1>8. ExportTypeOK' BY <1>1, <1>3, <1>7 DEF ExportInv, ExportTypeOK
<1>9. OneCurrent'
  <2> SUFFICES ASSUME NEW c \in BatchIds, NEW d \in BatchIds,
                      IsCurrent(c)', IsCurrent(d)', (batches[c].range = batches[d].range)',
                      c # d
               PROVE  FALSE
    BY DEF OneCurrent
  <2>1. \A x \in BatchIds \ {b} : IsCurrent(x)' => IsCurrent(x)
    BY <1>4 DEF IsCurrent, Exists
  <2>2. CASE c # b /\ d # b
    BY <1>4, <2>1, <2>2 DEF ExportInv, OneCurrent
  <2>3. ASSUME NEW x \in BatchIds \ {b}, IsCurrent(x)', IsCurrent(b)',
               (batches[x].range = batches[b].range)'
        PROVE  FALSE
    <3>1. IsCurrent(x) /\ batches[x].range = was.range
      BY <1>1, <1>3, <1>4, <2>1, <2>3
    <3>2. is.status # "void" BY <1>1, <1>4, <2>3 DEF IsCurrent
    <3>3. CASE is.status = was.status
      <4>1. IsCurrent(b) BY <1>0, <1>2, <3>2, <3>3 DEF IsCurrent
      <4> QED BY <1>1, <1>2, <3>1, <4>1 DEF ExportInv, OneCurrent
    <3>4. CASE is.status # was.status
      <4>1. Unique(j.range, {b}) BY <1>3, <3>2, <3>4
      <4>2. x \in Current(j.range) BY <1>0, <1>2, <3>1 DEF Current
      <4> QED BY <4>1, <4>2 DEF Unique
    <3> QED BY <3>3, <3>4
  <2> QED BY <1>1, <2>2, <2>3
<1> QED BY <1>7, <1>8, <1>9 DEF ExportInv

\* A new batch is inserted when the index lets it.
LEMMA InsertKeepsInv ==
  ASSUME ExportInv, NEW w \in Workers, InsertBatch(w)
  PROVE  ExportInv'
<1> DEFINE j == clerks[w]
<1>1. j \in GenerateJob
  BY JobKinds DEF InsertBatch, ExportInv, ExportTypeOK
<1>2. PICK b \in BatchIds :
        /\ ~ Exists(b)
        /\ batches' = [batches EXCEPT ![b] =
             [range |-> j.range, status |-> "generated", rows |-> j.rows, notes |-> Blank]]
        /\ Obtained(w, b, Blank)
  BY DEF InsertBatch
<1> DEFINE new == [range |-> j.range, status |-> "generated", rows |-> j.rows, notes |-> Blank]
<1>3. new \in Batch /\ new.range = j.range
  BY <1>1, BlankTyped DEF GenerateJob, Batch, Statuses
<1>4. \A x \in BatchIds : batches'[x] = IF x = b THEN new ELSE batches[x]
  BY <1>2 DEF ExportInv, ExportTypeOK
<1> HIDE DEF new
<1>5. BatchesLast BY <1>2, <1>4 DEF BatchesLast, Exists
<1>6. Exists(b)' BY <1>3, <1>4, ExportConstantsOK DEF Exists
<1>7. PICK job \in Job, old \in BatchIds \union {None} :
        /\ Do(w, job)
        /\ old = j.old
        /\ job = Free \/ (/\ job.op = "link" /\ job.new = b /\ job.range = j.range
                          /\ old # None /\ job.old = old)
  <2>1. j.old \in BatchIds \union {None} BY <1>1 DEF GenerateJob
  <2> QED BY <1>1, <1>2, <2>1, BlankTyped, ObtainedJob
<1>8. Known(job)'
  <2>1. CASE job = Free BY <2>1, FreeKnown
  <2>2. CASE /\ job.op = "link" /\ job.new = b /\ job.range = j.range
             /\ old # None /\ job.old = old
    <3>1. Exists(old) /\ batches[old].range = j.range /\ old \in BatchIds
      BY <1>1, <1>7, <2>2 DEF ExportInv, RequestsKnown, Known, GenerateJob, InsertBatch
    <3>2. Exists(old)' /\ batches'[old].range = j.range BY <1>5, <3>1 DEF BatchesLast
    <3>3. batches'[b].range = j.range BY <1>3, <1>4
    <3> QED BY <1>6, <2>2, <3>2, <3>3 DEF Known
  <2> QED BY <1>7, <2>1, <2>2
<1>9. clerks' \in [Workers -> Job] /\ RequestsKnown' BY <1>5, <1>7, <1>8, DoKnown
<1>10. ExportTypeOK'
  <2>1. batches' \in [BatchIds -> Batch \union {None}]
    BY <1>2, <1>3 DEF ExportInv, ExportTypeOK, new
  <2> QED BY <1>9, <2>1 DEF InsertBatch, ExportInv, ExportTypeOK
<1>11. OneCurrent'
  <2>1. Current(j.range) = {} BY DEF InsertBatch, Unique
  <2> SUFFICES ASSUME NEW c \in BatchIds, NEW d \in BatchIds,
                      IsCurrent(c)', IsCurrent(d)', (batches[c].range = batches[d].range)',
                      c # d
               PROVE  FALSE
    BY DEF OneCurrent
  <2>2. \A x \in BatchIds \ {b} :
          IsCurrent(x)' => IsCurrent(x) /\ batches'[x] = batches[x] /\ batches[x].range # j.range
    BY <1>4, <2>1 DEF IsCurrent, Exists, Current
  <2>3. CASE c # b /\ d # b
    BY <2>2, <2>3 DEF ExportInv, OneCurrent
  <2>4. CASE c = b \/ d = b
    BY <1>3, <1>4, <2>2, <2>4
  <2> QED BY <2>3, <2>4
<1> QED BY <1>9, <1>10, <1>11 DEF ExportInv

\* The linking of two batches changes their metadata alone.
LEMMA LinkKeepsInv ==
  ASSUME ExportInv, NEW w \in Workers, LinkReplacement(w)
  PROVE  ExportInv'
<1> DEFINE j == clerks[w]
           superseded == [j.notes EXCEPT !.replacement = j.new]
           first == IF j.rolled THEN superseded ELSE batches[j.old].notes
           last == RegeneratedNotes(j, IF j.new = j.old THEN superseded ELSE j.seen)
<1>1. j \in LinkJob BY JobKinds DEF LinkReplacement, ExportInv, ExportTypeOK
<1>2. Exists(j.old) /\ Exists(j.new)
  BY DEF ExportInv, RequestsKnown, Known, LinkReplacement
<1>3. j.old \in BatchIds /\ j.new \in BatchIds BY <1>1 DEF LinkJob
<1>4. batches[j.old] \in Batch /\ batches[j.new] \in Batch
  BY <1>2, <1>3 DEF ExportInv, ExportTypeOK, Exists
<1>5. superseded \in Notes BY <1>1 DEF LinkJob, Notes
<1>6. first \in Notes BY <1>4, <1>5 DEF Batch
<1>7. last \in Notes BY <1>1, <1>3, <1>5 DEF RegeneratedNotes, LinkJob, Notes
<1>8. batches' = [batches EXCEPT ![j.old].notes = first, ![j.new].notes = last]
  BY DEF LinkReplacement
<1> HIDE DEF first, last, superseded
<1>9. \A x \in BatchIds :
        /\ ~ Exists(x) => batches'[x] = batches[x]
        /\ Exists(x) => /\ batches'[x] \in Batch
                        /\ batches'[x].range = batches[x].range
                        /\ batches'[x].status = batches[x].status
  <2> DEFINE once == [batches EXCEPT ![j.old].notes = first]
  <2>1. \A x \in BatchIds :
          /\ ~ Exists(x) => once[x] = batches[x]
          /\ Exists(x) => /\ once[x] \in Batch
                          /\ once[x].range = batches[x].range
                          /\ once[x].status = batches[x].status
    BY <1>2, <1>3, <1>4, <1>6 DEF ExportInv, ExportTypeOK, Exists, Batch
  <2>2. batches' = [once EXCEPT ![j.new].notes = last] BY <1>8
  <2>3. once \in [BatchIds -> Batch \union {None}]
    BY <1>3, <1>4, <1>6 DEF ExportInv, ExportTypeOK, Batch
  <2> HIDE DEF once
  <2> QED BY <1>2, <1>3, <1>7, <2>1, <2>2, <2>3 DEF Batch
<1>10. batches' \in [BatchIds -> Batch \union {None}]
  <2>1. batches' = [x \in BatchIds |-> batches'[x]]
    BY <1>8 DEF ExportInv, ExportTypeOK
  <2> QED BY <1>9, <2>1 DEF Exists
<1>11. \A x \in BatchIds : IsCurrent(x)' <=> IsCurrent(x)
  BY <1>9, ExportConstantsOK DEF IsCurrent, Exists
<1>12. BatchesLast BY <1>9, ExportConstantsOK DEF BatchesLast, Exists
<1>13. Do(w, Free) BY DEF LinkReplacement
<1>14. clerks' \in [Workers -> Job] /\ RequestsKnown' BY <1>12, <1>13, FreeKnown, DoKnown
<1>15. ExportTypeOK' BY <1>10, <1>14 DEF LinkReplacement, ExportInv, ExportTypeOK
<1>16. OneCurrent'
  BY <1>9, <1>11 DEF ExportInv, OneCurrent, IsCurrent
<1> QED BY <1>14, <1>15, <1>16 DEF ExportInv

LEMMA InitInv == ExportInit => ExportInv
<1> SUFFICES ASSUME ExportInit PROVE ExportInv OBVIOUS
<1>1. ExportTypeOK
  BY ExportConstantsOK, FreeKnown DEF ExportInit, ExportTypeOK
<1>2. RequestsKnown BY FreeKnown DEF ExportInit, RequestsKnown
<1>3. OneCurrent BY DEF ExportInit, OneCurrent, IsCurrent, Exists
<1> QED BY <1>1, <1>2, <1>3 DEF ExportInv

LEMMA StepInv == ExportInv /\ [ExportNext]_exportVars => ExportInv'
<1> SUFFICES ASSUME ExportInv, [ExportNext]_exportVars PROVE ExportInv' OBVIOUS
<1>0. /\ batches \in [BatchIds -> Batch \union {None}] /\ clerks \in [Workers -> Job]
      /\ raced \subseteq Ranges /\ cut \subseteq Ranges
      /\ \A w \in Workers : Known(clerks[w])
  BY DEF ExportInv, ExportTypeOK, RequestsKnown
<1>1. ASSUME NEW r \in Ranges, PostInRange(r) PROVE ExportInv'
  <2>1. posted' \in [Ranges -> 0 .. MaxPosted]
    BY <1>1, ExportConstantsOK DEF PostInRange, ExportInv, ExportTypeOK
  <2> QED
    BY <1>1, <2>1 DEF PostInRange, ExportInv, ExportTypeOK, RequestsKnown, Known,
                      OneCurrent, IsCurrent, Exists
<1> SUFFICES ASSUME NEW w \in Workers,
                    \/ BeginGenerate(w) \/ LookForCurrent(w) \/ SelectEntries(w)
                    \/ InsertBatch(w) \/ InsertFails(w) \/ Reread(w)
                    \/ BeginChange(w) \/ CommitVoid(w) \/ Reconcile(w) \/ CommitExport(w)
                    \/ CommitSuperseded(w) \/ LinkReplacement(w)
                    \/ Refuse(w) \/ CrashBetween(w)
             PROVE  ExportInv'
  <2>1. CASE UNCHANGED exportVars
    BY <2>1 DEF exportVars, ExportInv, ExportTypeOK, RequestsKnown, Known, OneCurrent,
                IsCurrent, Exists
  <2> QED BY <1>1, <2>1 DEF ExportNext
<1>2. CASE BeginGenerate(w)
  <2>1. PICK r \in Ranges : Begin(w, Generation(r, None, Blank))
    BY <1>2 DEF BeginGenerate
  <2>2. PICK job \in Job :
          job = Generation(r, None, Blank) /\ job.range = r /\ job.op = "generate" /\ job.old = None
    BY GenerationTyped, BlankTyped
  <2>3. Known(job) BY <2>2 DEF Known
  <2> QED BY <2>1, <2>2, <2>3, BeginKeepsInv
<1>3. CASE LookForCurrent(w)
  <2>1. clerks[w] \in GenerateJob BY <1>0, <1>3, JobKinds DEF LookForCurrent
  <2>2. CASE Do(w, [clerks[w] EXCEPT !.stage = "select"])
    <3>1. PICK job \in GenerateJob :
            job = [clerks[w] EXCEPT !.stage = "select"] /\ job.old = clerks[w].old
            /\ job.range = clerks[w].range
      <4>1. PICK job : job = [clerks[w] EXCEPT !.stage = "select"] OBVIOUS
      <4>2. job \in GenerateJob /\ job.old = clerks[w].old /\ job.range = clerks[w].range
        BY <2>1, <4>1 DEF GenerateJob
      <4> QED BY <4>1, <4>2
    <3>2. job \in Job /\ Known(job) BY <1>0, <2>1, <3>1, NextStage
    <3> QED BY <1>0, <1>3, <2>2, <3>1, <3>2, BatchesStay DEF LookForCurrent
  <2>3. CASE \E b \in Current(clerks[w].range) : Obtained(w, b, batches[b].notes)
    BY <1>3, <2>1, <2>3, FoundKeepsInv DEF LookForCurrent
  <2> QED BY <1>3, <2>2, <2>3 DEF LookForCurrent
<1>4. CASE SelectEntries(w)
  <2>1. clerks[w] \in GenerateJob BY <1>0, <1>4, JobKinds DEF SelectEntries
  <2>2. posted[clerks[w].range] \in Nat
    BY <2>1, ExportConstantsOK DEF GenerateJob, ExportInv, ExportTypeOK
  <2>3. PICK job \in GenerateJob :
          /\ job = [clerks[w] EXCEPT !.stage = "insert", !.rows = posted[clerks[w].range]]
          /\ job.old = clerks[w].old /\ job.range = clerks[w].range
    <3>1. PICK job :
            job = [clerks[w] EXCEPT !.stage = "insert", !.rows = posted[clerks[w].range]]
      OBVIOUS
    <3>2. job \in GenerateJob /\ job.old = clerks[w].old /\ job.range = clerks[w].range
      BY <2>1, <2>2, <3>1 DEF GenerateJob
    <3> QED BY <3>1, <3>2
  <2>4. job \in Job /\ Known(job) BY <1>0, <2>1, <2>3, NextStage, ZenonT(60)
  <2> QED BY <1>0, <1>4, <2>3, <2>4, BatchesStay DEF SelectEntries
<1>5. CASE InsertBatch(w) BY <1>5, InsertKeepsInv
<1>6. CASE InsertFails(w)
  <2>1. clerks[w] \in GenerateJob BY <1>0, <1>6, JobKinds DEF InsertFails
  <2>2. PICK job \in GenerateJob :
          /\ job = [clerks[w] EXCEPT !.stage = "reread", !.rolled = TRUE]
          /\ job.old = clerks[w].old /\ job.range = clerks[w].range
    <3>1. PICK job : job = [clerks[w] EXCEPT !.stage = "reread", !.rolled = TRUE] OBVIOUS
    <3>2. job \in GenerateJob /\ job.old = clerks[w].old /\ job.range = clerks[w].range
      BY <2>1, <3>1 DEF GenerateJob
    <3> QED BY <3>1, <3>2
  <2>3. job \in Job /\ Known(job) BY <1>0, <2>1, <2>2, NextStage, ZenonT(60)
  <2> QED BY <1>0, <1>6, <2>2, <2>3, BatchesStay DEF InsertFails
<1>7. CASE Reread(w)
  <2>1. clerks[w] \in GenerateJob BY <1>0, <1>7, JobKinds DEF Reread
  <2> QED BY <1>7, <2>1, FoundKeepsInv DEF Reread
<1>8. CASE BeginChange(w)
  <2>1. PICK b \in BatchIds, op \in {"void", "regenerate", "check"} :
          /\ Exists(b)
          /\ Begin(w, [op |-> op, range |-> batches[b].range, seen |-> batches[b], id |-> b])
    BY <1>8 DEF BeginChange
  <2>2. batches[b] \in Batch BY <1>0, <2>1 DEF Exists
  <2>3. PICK job \in Job :
          /\ job = [op |-> op, range |-> batches[b].range, seen |-> batches[b], id |-> b]
          /\ job.range \in Ranges /\ job.range = batches[b].range /\ job.id = b /\ job.op = op
    <3> DEFINE change ==
          [op |-> op, range |-> batches[b].range, seen |-> batches[b], id |-> b]
    <3>1. batches[b].range \in Ranges BY <2>2 DEF Batch
    <3>2. change \in ChangeJob BY <2>2, <3>1 DEF ChangeJob
    <3> QED BY <3>1, <3>2 DEF Job
  <2>4. Known(job) BY <2>1, <2>3 DEF Known
  <2> QED BY <2>1, <2>3, <2>4, BeginKeepsInv
<1>9. CASE CommitVoid(w)
  <2>1. PICK j \in ChangeJob : j = clerks[w] BY <1>0, <1>9, JobKinds DEF CommitVoid
  <2>2. VoidNoted(j.seen.notes) \in Notes BY DEF ChangeJob, Batch, VoidNoted, Notes
  <2> QED
    BY <1>9, <2>1, <2>2, FreeKnown, ChangeKeepsInv DEF CommitVoid, Statuses
<1>10. CASE Reconcile(w)
  <2>1. clerks[w] \in ChangeJob BY <1>0, <1>10, JobKinds DEF Reconcile
  <2>2. PICK job \in Job :
          /\ job = [clerks[w] EXCEPT !.op = "export"] /\ job.op = "export"
          /\ job.id = clerks[w].id /\ job.range = clerks[w].range
    <3>1. PICK job : job = [clerks[w] EXCEPT !.op = "export"] OBVIOUS
    <3>2. /\ job \in ChangeJob /\ job.op = "export"
          /\ job.id = clerks[w].id /\ job.range = clerks[w].range
      BY <2>1, <3>1 DEF ChangeJob
    <3>3. job \in Job BY <3>2 DEF Job
    <3> QED BY <3>1, <3>2, <3>3
  <2>3. Known(job) BY <1>0, <1>10, <2>2 DEF Reconcile, Known
  <2> QED BY <1>0, <1>10, <2>2, <2>3, BatchesStay DEF Reconcile
<1>11. CASE CommitExport(w)
  <2>1. PICK j \in ChangeJob : j = clerks[w] BY <1>0, <1>11, JobKinds DEF CommitExport
  <2>2. PICK notes \in Notes : notes = [j.seen.notes EXCEPT !.exported = TRUE]
    BY DEF ChangeJob, Batch, Notes
  <2> QED
    BY <1>11, <2>1, <2>2, FreeKnown, ChangeKeepsInv DEF CommitExport, Statuses
<1>12. CASE CommitSuperseded(w)
  <2>1. PICK j \in ChangeJob : j = clerks[w]
    BY <1>0, <1>12, JobKinds DEF CommitSuperseded
  <2>2. PICK notes \in Notes : notes = SupersededNotes(j.seen.notes)
    BY DEF ChangeJob, Batch, SupersededNotes, Notes
  <2>3. PICK job \in Job :
          job = Generation(j.range, j.id, notes) /\ job.op = "generate" /\ job.old = j.id
          /\ job.range = j.range
    <3>1. j.range \in Ranges /\ j.id \in BatchIds BY DEF ChangeJob
    <3> QED BY <3>1, GenerationTyped
  <2> QED
    BY <1>12, <2>1, <2>2, <2>3, ChangeKeepsInv DEF CommitSuperseded, Superseded, Statuses
<1>13. CASE LinkReplacement(w) BY <1>13, LinkKeepsInv
<1>14. CASE Refuse(w) BY <1>0, <1>14, FreeKnown, BatchesStay DEF Refuse
<1>15. CASE CrashBetween(w)
  <2>1. clerks[w].range \in Ranges
    BY <1>0, <1>15, JobKinds DEF CrashBetween, Regenerating, GenerateJob, LinkJob
  <2> QED BY <1>0, <1>15, <2>1, FreeKnown, BatchesStay DEF CrashBetween
<1> QED
  BY <1>2, <1>3, <1>4, <1>5, <1>6, <1>7, <1>8, <1>9, <1>10, <1>11, <1>12, <1>13, <1>14, <1>15

\* What requests rely on holds together with the uniqueness of the batch in force.
THEOREM ExportInvariance == ExportSpec => []ExportInv
<1>1. ExportInit => ExportInv BY InitInv
<1>2. ExportInv /\ [ExportNext]_exportVars => ExportInv' BY StepInv
<1> QED BY <1>1, <1>2, PTL DEF ExportSpec

\* Batches, requests and histories have their types, for every number of them.
THEOREM ExportTypeCorrect == ExportSpec => []ExportTypeOK
<1>1. ExportInv => ExportTypeOK BY DEF ExportInv
<1> QED BY <1>1, ExportInvariance, PTL

\* However generations, exports, voids and regenerations overlap and fail, the unique
\* index leaves a range with one batch that is not void: also when an export commits over
\* a void and so brings a batch back, which accounting_profile_mapping_service lets it do.
THEOREM OneBatchInForce == ExportSpec => []OneCurrent
<1>1. ExportInv => OneCurrent BY DEF ExportInv
<1> QED BY <1>1, ExportInvariance, PTL

-------------------------------------------------------------------------------
(* Ranges whose requests do not overlap.                                   *)

Serving(w, r) == clerks[w] # Free /\ clerks[w].range = r

\* One request at a time is at work on a range that was not raced for,
Alone ==
  \A r \in Ranges \ raced, v \in Workers, w \in Workers :
    Serving(v, r) /\ Serving(w, r) => v = w

Retired(old, range, rows) ==
  /\ Exists(old) /\ batches[old].range = range
  /\ batches[old].status = "void" /\ batches[old].rows <= rows

\* so that the batch it loaded is still as it was loaded, and between the commits of a
\* regeneration no batch is in force: the replacement will be a new one.
JobRight(j) ==
  /\ j.op \in {"void", "regenerate", "check", "export"} =>
       j.seen = batches[j.id] /\ j.seen.status # "void"
  /\ j.op = "generate" =>
       /\ j.stage = "insert" => j.rows <= posted[j.range]
       /\ j.old # None =>
            /\ ~ j.rolled /\ j.stage # "reread" /\ Current(j.range) = {}
            /\ Retired(j.old, j.range, IF j.stage = "insert" THEN j.rows ELSE posted[j.range])
  /\ j.op = "link" =>
       /\ ~ j.rolled /\ j.old # j.new /\ batches[j.new].range = j.range
       /\ batches[j.new].notes = Blank /\ j.seen = Blank
       /\ Retired(j.old, j.range, batches[j.new].rows)

\* The replacement of b is linked to it, or the request that will link it is at work.
Followed(b) ==
  \/ \E c \in BatchIds :
       /\ Exists(c) /\ batches[c].range = batches[b].range
       /\ batches[c].notes.from = b
  \/ \E w \in Workers :
       Serving(w, batches[b].range) /\ Regenerating(w) /\ clerks[w].old = b

BatchRight(b) ==
  /\ batches[b].rows <= posted[batches[b].range]
  /\ batches[b].notes.from # None =>
       /\ batches[b].notes.from # b
       /\ Retired(batches[b].notes.from, batches[b].range, batches[b].rows)
  /\ (batches[b].notes.superseded /\ batches[b].range \notin cut) => Followed(b)

RangeRight(r) ==
  r \notin raced =>
    /\ \A w \in Workers : Serving(w, r) => JobRight(clerks[w])
    /\ \A b \in BatchIds : (Exists(b) /\ batches[b].range = r) => BatchRight(b)

RightInv == Alone /\ \A r \in Ranges : RangeRight(r)

LEMMA BatchTyped ==
  ASSUME ExportInv, NEW b \in BatchIds, Exists(b)
  PROVE  batches[b] \in Batch /\ batches[b].range \in Ranges /\ batches[b].rows \in Nat
<1>1. batches[b] \in Batch BY DEF ExportInv, ExportTypeOK, Exists
<1> QED BY <1>1 DEF Batch

LEMMA RightIsAgreed == ExportInv /\ RightInv => ReplacementsAgree
<1> SUFFICES ASSUME ExportInv, RightInv PROVE ReplacementsAgree OBVIOUS
<1>1. ASSUME NEW b \in BatchIds, Exists(b), batches[b].range \notin raced
      PROVE  BatchRight(b)
  BY <1>1, BatchTyped DEF RightInv, RangeRight
<1>2. ReplacesVoid BY <1>1 DEF ReplacesVoid, BatchRight, Retired
<1>3. SupersededIsReplaced BY <1>1 DEF SupersededIsReplaced, BatchRight, Followed
<1> QED BY <1>2, <1>3 DEF ReplacementsAgree

\* The request of a worker is for a range there is.
LEMMA RequestAt ==
  ASSUME ExportInv, NEW w \in Workers, clerks[w] # Free
  PROVE  /\ clerks[w] \in Job /\ clerks[w].range \in Ranges
         /\ clerks[w] \in GenerateJob \/ clerks[w] \in LinkJob \/ clerks[w] \in ChangeJob
BY DEF ExportInv, ExportTypeOK, Job, GenerateJob, LinkJob, ChangeJob

\* Only batches of r, or a new one in it, change.
ChangesOnly(r) ==
  \A b \in BatchIds :
    \/ batches'[b] = batches[b]
    \/ /\ Exists(b)' /\ batches'[b].range = r
       /\ Exists(b) => batches[b].range = r

\* A request for another range is nothing to the batches and the request of a range.
LEMMA OtherRange ==
  ASSUME ExportInv, RightInv, NEW w \in Workers, NEW job, Do(w, job),
         NEW r \in Ranges, clerks[w] = Free \/ clerks[w].range = r, job = Free \/ job.range = r,
         ChangesOnly(r), posted' = posted, raced \subseteq raced', cut \subseteq cut',
         NEW x \in Ranges, x # r
  PROVE  RangeRight(x)'
<1> SUFFICES ASSUME x \notin raced' PROVE RangeRight(x)' BY DEF RangeRight
<1>1. clerks'[w] = job /\ \A v \in Workers \ {w} : clerks'[v] = clerks[v]
  BY DEF Do, ExportInv, ExportTypeOK
<1>2. RangeRight(x) /\ x \notin raced BY DEF RightInv
<1>3. \A b \in BatchIds :
        /\ (Exists(b) /\ batches[b].range = x) <=> (Exists(b)' /\ batches'[b].range = x)
        /\ (Exists(b) /\ batches[b].range = x) => batches'[b] = batches[b]
  BY DEF ChangesOnly, Exists
<1>4. Current(x)' = Current(x) BY <1>3 DEF Current, IsCurrent
<1>5. \A v \in Workers : Serving(v, x)' <=> Serving(v, x) BY <1>1 DEF Serving
<1>6. \A v \in Workers : Serving(v, x) => clerks'[v] = clerks[v] BY <1>1 DEF Serving
<1>7. \A old \in BatchIds : \A rows : Retired(old, x, rows) => Retired(old, x, rows)'
  BY <1>3 DEF Retired
<1>8. ASSUME NEW v \in Workers, Serving(v, x)' PROVE JobRight(clerks[v])'
  <2>1. PICK j : j = clerks[v] OBVIOUS
  <2>2. Serving(v, x) /\ clerks'[v] = j /\ j # Free /\ j.range = x
    BY <1>5, <1>6, <1>8, <2>1 DEF Serving
  <2>3. JobRight(j) /\ Known(j)
    BY <1>2, <2>1, <2>2 DEF RangeRight, ExportInv, RequestsKnown
  <2>4. j \in GenerateJob \/ j \in LinkJob \/ j \in ChangeJob BY <2>1, <2>2, RequestAt
  <2>5. CASE j \in ChangeJob
    <3>1. /\ j.op \in {"void", "regenerate", "check", "export"} /\ j.id \in BatchIds
          /\ j.op # "generate" /\ j.op # "link"
      BY <2>5 DEF ChangeJob
    <3>2. batches'[j.id] = batches[j.id] BY <1>3, <2>2, <2>3, <3>1 DEF Known
    <3> QED BY <2>2, <2>3, <3>1, <3>2 DEF JobRight
  <2>6. CASE j \in GenerateJob
    <3>1. j.op = "generate" /\ (j.old # None => j.old \in BatchIds)
      BY <2>6 DEF GenerateJob
    <3>2. j.old # None =>
            /\ Current(x)' = {} /\ ~ j.rolled /\ j.stage # "reread"
            /\ Retired(j.old, x, IF j.stage = "insert" THEN j.rows ELSE posted[x])'
      BY <1>4, <1>7, <2>2, <2>3, <3>1 DEF JobRight
    <3> QED BY <2>2, <2>3, <3>1, <3>2 DEF JobRight, Retired
  <2>7. CASE j \in LinkJob
    <3>1. j.op = "link" /\ j.old \in BatchIds /\ j.new \in BatchIds BY <2>7 DEF LinkJob
    <3>2. batches'[j.new] = batches[j.new]
      BY <1>3, <2>2, <2>3, <3>1 DEF JobRight, Known
    <3> QED BY <1>7, <2>2, <2>3, <3>1, <3>2 DEF JobRight, Retired
  <2> QED BY <2>4, <2>5, <2>6, <2>7
<1>9. ASSUME NEW b \in BatchIds, Exists(b)', batches'[b].range = x PROVE BatchRight(b)'
  <2>1. Exists(b) /\ batches[b].range = x /\ batches'[b] = batches[b] BY <1>3, <1>9
  <2>2. BatchRight(b) /\ batches[b] \in Batch BY <1>2, <2>1, BatchTyped DEF RangeRight
  <2>3. PICK from \in BatchIds \union {None} : from = batches[b].notes.from
    BY <2>2 DEF Batch, Notes
  <2>4. from # None => from # b /\ Retired(from, x, batches[b].rows)'
    BY <1>7, <2>1, <2>2, <2>3 DEF BatchRight
  <2>5. Followed(b) => Followed(b)'
    <3>1. \A v \in Workers : Serving(v, x) => Regenerating(v)' = Regenerating(v)
      BY <1>6 DEF Regenerating
    <3> QED BY <1>3, <1>5, <1>6, <2>1, <3>1 DEF Followed
  <2> QED BY <2>1, <2>2, <2>3, <2>4, <2>5 DEF BatchRight, Retired
<1> QED BY <1>8, <1>9 DEF RangeRight

\* A step of a request for r leaves every range right when it leaves r right.
LEMMA RightStep ==
  ASSUME ExportInv, RightInv, NEW w \in Workers, NEW job, Do(w, job),
         NEW r \in Ranges, clerks[w] = Free \/ clerks[w].range = r, job = Free \/ job.range = r,
         ChangesOnly(r), posted' = posted, raced \subseteq raced', cut \subseteq cut',
         r \notin raced' => \A v \in Workers \ {w} : ~ Serving(v, r),
         r \notin raced' => RangeRight(r)'
  PROVE  RightInv'
<1>1. clerks'[w] = job /\ \A v \in Workers \ {w} : clerks'[v] = clerks[v]
  BY DEF Do, ExportInv, ExportTypeOK
<1>2. Alone'
  <2> SUFFICES ASSUME NEW x \in Ranges \ raced', NEW u \in Workers, NEW v \in Workers,
                      Serving(u, x)', Serving(v, x)'
               PROVE  u = v
    BY DEF Alone
  <2>1. CASE x = r BY <1>1, <2>1 DEF Serving
  <2>2. CASE x # r
    <3>1. Serving(u, x) /\ Serving(v, x) BY <1>1, <2>2 DEF Serving
    <3> QED BY <3>1 DEF RightInv, Alone
  <2> QED BY <2>1, <2>2
<1>3. ASSUME NEW x \in Ranges PROVE RangeRight(x)'
  <2>1. CASE x = r BY <2>1 DEF RangeRight
  <2>2. CASE x # r BY <2>2, OtherRange
  <2> QED BY <2>1, <2>2
<1> QED BY <1>2, <1>3 DEF RightInv

\* The range is left right by its only request when its batches and what the request
\* goes on with are right.
LEMMA OwnRight ==
  ASSUME ExportInv, NEW w \in Workers, NEW job, Do(w, job), NEW r \in Ranges,
         \A v \in Workers \ {w} : ~ Serving(v, r),
         job # Free => JobRight(job)',
         \A b \in BatchIds : (Exists(b)' /\ batches'[b].range = r) => BatchRight(b)'
  PROVE  RangeRight(r)'
<1>1. clerks'[w] = job /\ \A v \in Workers \ {w} : clerks'[v] = clerks[v]
  BY DEF Do, ExportInv, ExportTypeOK
<1>2. ASSUME NEW v \in Workers, Serving(v, r)' PROVE v = w /\ job # Free
  BY <1>1, <1>2 DEF Serving
<1>3. ASSUME NEW v \in Workers, Serving(v, r)' PROVE JobRight(clerks[v])'
  <2>1. JobRight(job)' /\ clerks'[v] = job BY <1>1, <1>2, <1>3
  <2> QED BY <2>1 DEF JobRight
<1> QED BY <1>3 DEF RangeRight

\* A request that reads, or ends: what was superseded is still followed, unless the
\* regeneration is cut short.
LEMMA ReadRight ==
  ASSUME ExportInv, RightInv, NEW w \in Workers, NEW job, Do(w, job), NEW r \in Ranges,
         UNCHANGED <<posted, batches>>, raced \subseteq raced', cut \subseteq cut',
         r \notin raced' => \A v \in Workers \ {w} : ~ Serving(v, r),
         clerks[w] = Free \/ clerks[w].range = r,
         r \notin raced' => job = Free \/ JobRight(job),
         job = Free \/ job.range = r,
         \/ r \in cut' \/ ~ Regenerating(w)
         \/ job # Free /\ job.op \in {"link", "generate"} /\ job.old = clerks[w].old
            /\ (job.op = "generate" => job.old # None)
  PROVE  RightInv'
<1>1. clerks'[w] = job /\ \A v \in Workers \ {w} : clerks'[v] = clerks[v]
  BY DEF Do, ExportInv, ExportTypeOK
<1>2. ChangesOnly(r) BY DEF ChangesOnly
<1> SUFFICES ASSUME r \notin raced' PROVE RangeRight(r)' BY <1>2, RightStep
<1>3. job # Free => JobRight(job)'
  BY DEF JobRight, Retired, Current, IsCurrent, Exists
<1>4. ASSUME NEW b \in BatchIds, Exists(b)', batches'[b].range = r PROVE BatchRight(b)'
  <2>1. Exists(b) /\ batches[b].range = r BY <1>4 DEF Exists
  <2>2. BatchRight(b) BY <2>1 DEF RightInv, RangeRight
  <2>3. Followed(b) => r \in cut' \/ Followed(b)'
    <3>1. CASE \E c \in BatchIds : /\ Exists(c) /\ batches[c].range = batches[b].range
                                   /\ batches[c].notes.from = b
      BY <3>1 DEF Followed, Exists
    <3>2. ASSUME NEW v \in Workers, Serving(v, r), Regenerating(v), clerks[v].old = b
          PROVE  r \in cut' \/ Followed(b)'
      <4>1. v = w BY <3>2
      <4>2. b # None BY ExportConstantsOK
      <4>3. r \notin cut' => (Serving(w, r) /\ Regenerating(w) /\ clerks[w].old = b)'
        BY <1>1, <3>2, <4>1, <4>2 DEF Serving, Regenerating
      <4> QED BY <2>1, <4>3 DEF Followed
    <3> QED BY <2>1, <3>1, <3>2 DEF Followed
  <2> QED BY <2>1, <2>2, <2>3 DEF BatchRight, Retired, Exists
<1> QED BY <1>3, <1>4, OwnRight

\* The ledger only grows.
LEMMA PostedRight ==
  ASSUME ExportInv, RightInv, NEW r \in Ranges, PostInRange(r)
  PROVE  RightInv'
<1>1. UNCHANGED <<batches, clerks, raced, cut>> BY DEF PostInRange
<1>2. \A x \in Ranges : posted[x] \in Nat /\ posted'[x] \in Nat /\ posted[x] <= posted'[x]
  BY ExportConstantsOK DEF PostInRange, ExportInv, ExportTypeOK
<1>3. Alone' BY <1>1 DEF RightInv, Alone, Serving
<1>4. \A old, range, rows : Retired(old, range, rows)' <=> Retired(old, range, rows)
  BY <1>1 DEF Retired, Exists
<1> SUFFICES ASSUME NEW x \in Ranges, x \notin raced PROVE RangeRight(x)'
  BY <1>1, <1>3 DEF RightInv, RangeRight
<1>5. RangeRight(x) BY DEF RightInv
<1>6. ASSUME NEW v \in Workers, Serving(v, x) PROVE JobRight(clerks[v])'
  <2>1. PICK j : j = clerks[v] OBVIOUS
  <2>2. j \in GenerateJob \/ j \in LinkJob \/ j \in ChangeJob
    BY <1>6, <2>1, RequestAt DEF Serving
  <2>3. JobRight(j) /\ j.range = x BY <1>5, <1>6, <2>1 DEF RangeRight, Serving
  <2>4. CASE j.op = "generate"
    <3>1. j \in GenerateJob BY <2>2, <2>4 DEF LinkJob, ChangeJob
    <3>2. j.rows \in Nat BY <3>1 DEF GenerateJob
    <3>3. j.stage = "insert" => j.rows <= posted'[x]
      BY <1>2, <2>3, <2>4, <3>2 DEF JobRight
    <3>4. j.old # None =>
            /\ Current(x)' = {} /\ ~ j.rolled /\ j.stage # "reread"
            /\ Retired(j.old, x, IF j.stage = "insert" THEN j.rows ELSE posted[x])
      BY <1>1, <2>3, <2>4 DEF JobRight, Current, IsCurrent, Exists
    <3>5. j.old # None =>
            Retired(j.old, x, IF j.stage = "insert" THEN j.rows ELSE posted'[x])
      <4> SUFFICES ASSUME j.old # None, j.stage # "insert"
                   PROVE  Retired(j.old, x, posted'[x])
        BY <3>4
      <4>1. Retired(j.old, x, posted[x]) /\ j.old \in BatchIds
        BY <3>1, <3>4 DEF GenerateJob
      <4>2. batches[j.old].rows \in Nat BY <4>1, BatchTyped DEF Retired
      <4> QED BY <1>2, <4>1, <4>2 DEF Retired
    <3>6. JobRight(j)' BY <1>4, <2>3, <2>4, <3>3, <3>4, <3>5 DEF JobRight
    <3> QED BY <1>1, <2>1, <3>6 DEF JobRight
  <2>5. CASE j.op # "generate"
    <3>1. JobRight(j)' BY <1>1, <1>4, <2>3, <2>5 DEF JobRight
    <3> QED BY <1>1, <2>1, <3>1 DEF JobRight
  <2> QED BY <2>4, <2>5
<1>7. ASSUME NEW b \in BatchIds, Exists(b), batches[b].range = x PROVE BatchRight(b)'
  <2>1. BatchRight(b) /\ batches[b].rows \in Nat BY <1>5, <1>7, BatchTyped DEF RangeRight
  <2>2. Followed(b) => Followed(b)' BY <1>1 DEF Followed, Exists, Serving, Regenerating
  <2>3. batches'[b].rows <= posted'[batches'[b].range]
    BY <1>1, <1>2, <1>7, <2>1 DEF BatchRight
  <2> QED BY <1>1, <1>4, <2>1, <2>2, <2>3 DEF BatchRight
<1> QED BY <1>1, <1>6, <1>7 DEF RangeRight, Serving, Exists

\* A request that begins: alone, or the range is raced for.
LEMMA BeginsRight ==
  ASSUME ExportInv, RightInv, NEW w \in Workers, NEW job, job.range \in Ranges,
         Begin(w, job), job.range \notin raced' => JobRight(job)
  PROVE  RightInv'
<1>1. PICK r \in Ranges : r = job.range OBVIOUS
<1>2. /\ Do(w, job) /\ clerks[w] = Free /\ UNCHANGED <<posted, batches, cut>>
      /\ raced \subseteq raced'
      /\ r \notin raced' => \A v \in Workers \ {w} : ~ Serving(v, r)
  BY <1>1 DEF Begin, Serving
<1>3. ~ Regenerating(w) BY <1>2 DEF Regenerating, Free
<1> QED BY <1>1, <1>2, <1>3, ReadRight

LEMMA BeginGenerateRight ==
  ASSUME ExportInv, RightInv, NEW w \in Workers, BeginGenerate(w)
  PROVE  RightInv'
<1>1. PICK r \in Ranges : Begin(w, Generation(r, None, Blank)) BY DEF BeginGenerate
<1>2. PICK job : job = Generation(r, None, Blank) OBVIOUS
<1>3. /\ job.range = r /\ job.op = "generate" /\ job.old = None /\ job.stage = "look"
  BY <1>2 DEF Generation
<1>4. JobRight(job) BY <1>3 DEF JobRight
<1> QED BY <1>1, <1>2, <1>3, <1>4, BeginsRight

LEMMA BeginChangeRight ==
  ASSUME ExportInv, RightInv, NEW w \in Workers, BeginChange(w)
  PROVE  RightInv'
<1>1. PICK b, op, job :
        /\ b \in BatchIds /\ op \in {"void", "regenerate", "check"}
        /\ job = [op |-> op, range |-> batches[b].range, seen |-> batches[b], id |-> b]
        /\ Exists(b) /\ MayChange(op, batches[b]) /\ Begin(w, job)
  BY DEF BeginChange
<1>2. /\ job.range = batches[b].range /\ job.seen = batches[b] /\ job.id = b
      /\ job.op = op
  BY <1>1
<1>3. JobRight(job) BY <1>1, <1>2 DEF JobRight, MayChange
<1>4. job.range \in Ranges BY <1>1, <1>2, BatchTyped
<1> QED BY <1>1, <1>3, <1>4, BeginsRight

\* The request of a range that was not raced for is alone, and right.
LEMMA RequestRight ==
  ASSUME ExportInv, RightInv, NEW w \in Workers, clerks[w] # Free
  PROVE  /\ clerks[w].range \in Ranges
         /\ clerks[w].range \notin raced =>
              /\ JobRight(clerks[w])
              /\ \A v \in Workers \ {w} : ~ Serving(v, clerks[w].range)
              /\ \A b \in BatchIds :
                   (Exists(b) /\ batches[b].range = clerks[w].range) => BatchRight(b)
<1>1. clerks[w].range \in Ranges BY RequestAt
<1> QED BY <1>1 DEF RightInv, RangeRight, Alone, Serving

\* A generation that goes on without a batch.
LEMMA StageRight ==
  ASSUME ExportInv, RightInv, NEW w \in Workers, clerks[w] \in GenerateJob,
         NEW job, Do(w, job), UNCHANGED <<posted, batches, raced, cut>>,
         job.op = "generate" /\ job.range = clerks[w].range /\ job.old = clerks[w].old,
         clerks[w].range \notin raced => JobRight(job)
  PROVE  RightInv'
<1>1. clerks[w] # Free /\ clerks[w].op = "generate" BY DEF GenerateJob, Free
<1>2. PICK r \in Ranges : r = clerks[w].range BY <1>1, RequestRight
<1>3. job # Free BY DEF Free
<1>4. ~ Regenerating(w) \/ job.old # None BY <1>1 DEF Regenerating
<1> QED BY <1>1, <1>2, <1>3, <1>4, RequestRight, ReadRight

\* A generation that obtains a batch that is in force: only one that replaces none.
LEMMA FoundRight ==
  ASSUME ExportInv, RightInv, NEW w \in Workers, clerks[w] \in GenerateJob,
         NEW b \in Current(clerks[w].range), Obtained(w, b, batches[b].notes),
         UNCHANGED <<posted, batches, raced, cut>>
  PROVE  RightInv'
<1>1. clerks[w] # Free /\ clerks[w].op = "generate" BY DEF GenerateJob, Free
<1>2. PICK r \in Ranges : r = clerks[w].range BY <1>1, RequestRight
<1>3. CASE clerks[w].old = None
  <2>1. Do(w, Free) /\ ~ Regenerating(w) BY <1>1, <1>3 DEF Obtained, Regenerating
  <2> QED BY <1>1, <1>2, <2>1, RequestRight, ReadRight
<1>4. CASE clerks[w].old # None
  <2>1. r \in raced BY <1>1, <1>2, <1>4, RequestRight DEF JobRight
  <2>2. PICK job : job = [op |-> "link", range |-> clerks[w].range, notes |-> clerks[w].notes,
                          old |-> clerks[w].old, rolled |-> clerks[w].rolled, new |-> b,
                          seen |-> batches[b].notes]
    OBVIOUS
  <2>3. Do(w, job) BY <1>4, <2>2 DEF Obtained
  <2>4. job # Free /\ job.op = "link" /\ job.old = clerks[w].old /\ job.range = r
    BY <1>2, <2>2 DEF Free
  <2> QED BY <1>2, <2>1, <2>3, <2>4, ReadRight
<1> QED BY <1>3, <1>4

LEMMA GenerateRight ==
  ASSUME ExportInv, RightInv, NEW w \in Workers,
         LookForCurrent(w) \/ SelectEntries(w) \/ InsertFails(w) \/ Reread(w)
  PROVE  RightInv'
<1>1. clerks[w] \in GenerateJob
  BY JobKinds DEF LookForCurrent, SelectEntries, InsertFails, Reread, ExportInv, ExportTypeOK
<1>2. PICK j \in GenerateJob : j = clerks[w] BY <1>1
<1>3. j # Free /\ j.op = "generate" BY DEF GenerateJob, Free
<1>4. /\ UNCHANGED <<posted, batches, raced, cut>>
      /\ j.range \in Ranges /\ (j.range \notin raced => JobRight(j))
  BY <1>2, <1>3, RequestRight DEF LookForCurrent, SelectEntries, InsertFails, Reread
<1>5. CASE \E b \in Current(j.range) : Obtained(w, b, batches[b].notes)
  BY <1>1, <1>2, <1>4, <1>5, FoundRight
<1>6. CASE LookForCurrent(w) /\ Current(j.range) = {} /\ Do(w, [j EXCEPT !.stage = "select"])
  <2>1. PICK job : job = [j EXCEPT !.stage = "select"] OBVIOUS
  <2>2. /\ job.op = "generate" /\ job.range = j.range /\ job.old = j.old
        /\ job.rolled = j.rolled /\ job.stage = "select"
    BY <1>3, <2>1 DEF GenerateJob
  <2>3. j.stage = "look" BY <1>2, <1>6 DEF LookForCurrent
  <2>4. j.range \notin raced => JobRight(job) BY <1>3, <1>4, <2>2, <2>3 DEF JobRight
  <2> QED BY <1>1, <1>2, <1>4, <1>6, <2>1, <2>2, <2>4, StageRight
<1>7. CASE SelectEntries(w)
  <2>1. PICK job : job = [j EXCEPT !.stage = "insert", !.rows = posted[j.range]] OBVIOUS
  <2>2. /\ job.op = "generate" /\ job.range = j.range /\ job.old = j.old
        /\ job.rolled = j.rolled /\ job.stage = "insert" /\ job.rows = posted[j.range]
    BY <1>3, <2>1 DEF GenerateJob
  <2>3. j.stage = "select" /\ posted[j.range] \in Nat
    BY <1>2, <1>4, <1>7, ExportConstantsOK DEF SelectEntries, ExportInv, ExportTypeOK
  <2>4. j.range \notin raced => JobRight(job) BY <1>3, <1>4, <2>2, <2>3 DEF JobRight
  <2>5. Do(w, job) BY <1>2, <1>7, <2>1 DEF SelectEntries
  <2> QED BY <1>1, <1>2, <1>4, <2>2, <2>4, <2>5, StageRight
<1>8. CASE InsertFails(w)
  <2>1. PICK job : job = [j EXCEPT !.stage = "reread", !.rolled = TRUE] OBVIOUS
  <2>2. /\ job.op = "generate" /\ job.range = j.range /\ job.old = j.old
        /\ job.stage = "reread"
    BY <1>3, <2>1 DEF GenerateJob
  <2>3. Current(j.range) # {} BY <1>2, <1>8 DEF InsertFails, Unique
  <2>4. j.range \notin raced => JobRight(job) BY <1>3, <1>4, <2>2, <2>3 DEF JobRight
  <2>5. Do(w, job) BY <1>2, <1>8, <2>1 DEF InsertFails
  <2> QED BY <1>1, <1>2, <1>4, <2>2, <2>4, <2>5, StageRight
<1> QED BY <1>2, <1>5, <1>6, <1>7, <1>8 DEF LookForCurrent, Reread

LEMMA EndRight ==
  ASSUME ExportInv, RightInv, NEW w \in Workers, Refuse(w) \/ CrashBetween(w)
  PROVE  RightInv'
<1>1. /\ Do(w, Free) /\ UNCHANGED <<posted, batches, raced>> /\ cut \subseteq cut'
      /\ ~ Regenerating(w) \/ cut' = cut \union {clerks[w].range}
      /\ clerks[w] # Free
  BY DEF Refuse, CrashBetween, Regenerating, Free
<1>2. PICK r \in Ranges : r = clerks[w].range BY <1>1, RequestRight
<1> QED BY <1>1, <1>2, RequestRight, ReadRight

\* A reconciliation goes on to the export of the batch it loaded.
LEMMA ReconcileRight ==
  ASSUME ExportInv, RightInv, NEW w \in Workers, Reconcile(w)
  PROVE  RightInv'
<1>1. PICK j \in ChangeJob : j = clerks[w]
  BY JobKinds DEF Reconcile, ExportInv, ExportTypeOK
<1>2. PICK job : job = [j EXCEPT !.op = "export"] OBVIOUS
<1>3. /\ job.op = "export" /\ job.range = j.range /\ job.id = j.id /\ job.seen = j.seen
      /\ j.op = "check" /\ j # Free /\ UNCHANGED <<posted, batches, raced, cut>>
      /\ Do(w, job)
  BY <1>1, <1>2 DEF Reconcile, ChangeJob, Free
<1>4. ~ Regenerating(w) BY <1>1, <1>3 DEF Regenerating
<1>5. PICK r \in Ranges : r = j.range BY <1>1, <1>3, RequestRight
<1>6. r \notin raced => JobRight(job)
  BY <1>1, <1>3, <1>5, RequestRight DEF JobRight
<1> QED BY <1>1, <1>3, <1>4, <1>5, <1>6, RequestRight, ReadRight

\* What a change does to the batch it changes, and to no other.
LEMMA ChangedBatch ==
  ASSUME ExportInv, NEW j \in ChangeJob, Exists(j.id),
         NEW status \in Statuses, NEW notes \in Notes,
         batches' = Changed(j.id, j.seen, status, notes)
  PROVE  \E is \in Batch :
           /\ is.range = batches[j.id].range /\ is.rows = batches[j.id].rows
           /\ is.notes = notes
           /\ is.status = IF status = j.seen.status THEN batches[j.id].status ELSE status
           /\ \A x \in BatchIds : batches'[x] = IF x = j.id THEN is ELSE batches[x]
<1>1. j.id \in BatchIds BY DEF ChangeJob
<1>2. PICK was \in Batch : was = batches[j.id] BY <1>1, BatchTyped
<1>3. PICK s : s = IF status = j.seen.status THEN was.status ELSE status OBVIOUS
<1>4. s \in Statuses BY <1>3 DEF Batch
<1>5. PICK is : is = [was EXCEPT !.status = s, !.notes = notes] OBVIOUS
<1>6. is \in Batch /\ is.range = was.range /\ is.rows = was.rows /\ is.notes = notes
      /\ is.status = s
  BY <1>4, <1>5 DEF Batch
<1>7. batches' = [batches EXCEPT ![j.id] = is]
  BY <1>1, <1>2, <1>3, <1>5 DEF Changed, ExportInv, ExportTypeOK, Batch
<1>8. \A x \in BatchIds : batches'[x] = IF x = j.id THEN is ELSE batches[x]
  BY <1>1, <1>7 DEF ExportInv, ExportTypeOK
<1> QED BY <1>2, <1>3, <1>6, <1>8

\* A batch that was loaded in force is changed: its link to the batch it replaces is kept,
\* and it is superseded only by a request that goes on to generate its replacement.
LEMMA ChangeRight ==
  ASSUME ExportInv, RightInv, NEW w \in Workers, NEW j \in ChangeJob, j = clerks[w],
         NEW status \in Statuses, NEW notes \in Notes, NEW job,
         batches' = Changed(j.id, j.seen, status, notes),
         Do(w, job), UNCHANGED <<posted, raced, cut>>,
         notes.from = j.seen.notes.from,
         \/ job = Free /\ (notes.superseded => j.seen.notes.superseded)
         \/ status = "void" /\ job = Generation(j.range, j.id, notes)
  PROVE  RightInv'
<1>1. /\ j # Free /\ j.op \in {"void", "regenerate", "check", "export"}
      /\ j.id \in BatchIds /\ j.id # None /\ ~ Regenerating(w)
  BY ExportConstantsOK DEF ChangeJob, Free, Regenerating
<1>2. PICK r \in Ranges : r = j.range BY DEF ChangeJob
<1>3. Exists(j.id) /\ batches[j.id].range = r
  BY <1>1, <1>2 DEF ExportInv, RequestsKnown, Known
<1>4. PICK is \in Batch :
        /\ is.range = r /\ is.rows = batches[j.id].rows /\ is.notes = notes
        /\ is.status = IF status = j.seen.status THEN batches[j.id].status ELSE status
        /\ \A x \in BatchIds : batches'[x] = IF x = j.id THEN is ELSE batches[x]
  BY <1>3, ChangedBatch
<1>5. \A x \in BatchIds : Exists(x)' <=> Exists(x)
  BY <1>3, <1>4, ExportConstantsOK DEF Exists
<1>6. ChangesOnly(r) BY <1>3, <1>4, <1>5 DEF ChangesOnly
<1>7. job = Free \/ job.range = r BY <1>2 DEF Generation
<1>8. ASSUME r \notin raced PROVE RangeRight(r)'
  <2>1. /\ JobRight(j) /\ \A v \in Workers \ {w} : ~ Serving(v, r)
        /\ \A b \in BatchIds : (Exists(b) /\ batches[b].range = r) => BatchRight(b)
    BY <1>1, <1>2, <1>8, RequestRight
  <2>2. j.seen = batches[j.id] /\ j.seen.status # "void" BY <1>1, <2>1 DEF JobRight
  <2>3. \A old \in BatchIds : \A rows : Retired(old, r, rows) => Retired(old, r, rows)'
    BY <1>4, <1>5, <2>2 DEF Retired
  <2>4. ASSUME NEW b \in BatchIds, batches[b].range = r, Exists(b), Followed(b)
        PROVE  Followed(b)'
    <3>1. PICK c \in BatchIds : /\ Exists(c) /\ batches[c].range = r
                                /\ batches[c].notes.from = b
      BY <1>1, <2>1, <2>4 DEF Followed
    <3>2. Exists(c)' /\ batches'[c].range = r /\ batches'[c].notes.from = b
      BY <1>4, <1>5, <2>2, <3>1
    <3>3. batches'[b].range = r BY <1>4, <2>4
    <3> QED BY <3>2, <3>3 DEF Followed
  <2>5. CASE job = Free
    <3>1. ASSUME NEW b \in BatchIds, Exists(b)', batches'[b].range = r PROVE BatchRight(b)'
      <4>1. Exists(b) /\ batches[b].range = r BY <1>3, <1>4, <1>5, <3>1
      <4>2. BatchRight(b) /\ batches[b] \in Batch BY <2>1, <4>1, BatchTyped
      <4>3. /\ batches'[b].rows = batches[b].rows
            /\ batches'[b].notes.from = batches[b].notes.from
            /\ batches'[b].notes.superseded => batches[b].notes.superseded
        BY <1>4, <2>2, <2>5, <1>1 DEF Generation, Free
      <4>4. batches[b].notes.from # None => batches[b].notes.from \in BatchIds
        BY <4>2 DEF Batch, Notes
      <4>5. Followed(b) => Followed(b)' BY <2>4, <4>1
      <4> QED BY <2>3, <3>1, <4>1, <4>2, <4>3, <4>4, <4>5 DEF BatchRight, Retired
    <3> QED BY <2>1, <2>5, <3>1, OwnRight
  <2>6. CASE status = "void" /\ job = Generation(j.range, j.id, notes)
    <3>1. /\ job.op = "generate" /\ job.range = r /\ job.old = j.id /\ job.stage = "look"
          /\ ~ job.rolled /\ job # Free
      BY <1>2, <2>6 DEF Generation, Free
    <3>2. is.status = "void" BY <1>4, <2>2, <2>6
    <3>3. Current(r)' = {}
      <4> SUFFICES ASSUME NEW c \in BatchIds, IsCurrent(c)', batches'[c].range = r
                   PROVE  FALSE
        BY DEF Current
      <4>1. c # j.id BY <1>4, <3>2 DEF IsCurrent
      <4>2. IsCurrent(c) /\ batches[c].range = r BY <1>4, <1>5, <4>1 DEF IsCurrent
      <4>3. IsCurrent(j.id) BY <1>3, <2>2 DEF IsCurrent
      <4> QED BY <1>1, <1>3, <4>1, <4>2, <4>3 DEF ExportInv, OneCurrent
    <3>4. batches[j.id].rows <= posted[r] BY <1>1, <1>3, <2>1 DEF BatchRight
    <3>5. Retired(j.id, r, posted[r])'
      BY <1>1, <1>3, <1>4, <1>5, <3>2, <3>4 DEF Retired
    <3>6. JobRight(job)' BY <3>1, <3>3, <3>5 DEF JobRight
    <3>7. ASSUME NEW b \in BatchIds, Exists(b)', batches'[b].range = r PROVE BatchRight(b)'
      <4>1. Exists(b) /\ batches[b].range = r BY <1>3, <1>4, <1>5, <3>7
      <4>2. BatchRight(b) /\ batches[b] \in Batch BY <2>1, <4>1, BatchTyped
      <4>3. /\ batches'[b].rows = batches[b].rows
            /\ batches'[b].notes.from = batches[b].notes.from
            /\ b # j.id => batches'[b].notes = batches[b].notes
        BY <1>4, <2>2
      <4>4. batches[b].notes.from # None => batches[b].notes.from \in BatchIds
        BY <4>2 DEF Batch, Notes
      <4>5. Followed(b) => Followed(b)' BY <2>4, <4>1
      <4>6. b = j.id => Followed(b)'
        <5>1. clerks'[w] = job BY DEF Do, ExportInv, ExportTypeOK
        <5>2. (Serving(w, r) /\ Regenerating(w))'
          BY <1>1, <3>1, <5>1 DEF Serving, Regenerating
        <5> QED BY <3>1, <3>7, <5>1, <5>2 DEF Followed
      <4> QED BY <2>3, <3>7, <4>1, <4>2, <4>3, <4>4, <4>5, <4>6 DEF BatchRight, Retired
    <3> QED BY <2>1, <3>6, <3>7, OwnRight
  <2> QED BY <2>5, <2>6
<1>9. r \notin raced => \A v \in Workers \ {w} : ~ Serving(v, r)
  BY <1>1, <1>2, RequestRight
<1> QED BY <1>2, <1>6, <1>7, <1>8, <1>9, RightStep

LEMMA ChangesRight ==
  ASSUME ExportInv, RightInv, NEW w \in Workers,
         CommitVoid(w) \/ CommitExport(w) \/ CommitSuperseded(w)
  PROVE  RightInv'
<1>1. PICK j \in ChangeJob : j = clerks[w]
  BY JobKinds DEF CommitVoid, CommitExport, CommitSuperseded, ExportInv, ExportTypeOK
<1>2. j.seen.notes \in Notes BY DEF ChangeJob, Batch
<1>3. CASE CommitVoid(w)
  <2>1. PICK notes : notes = VoidNoted(j.seen.notes) OBVIOUS
  <2>2. /\ notes \in Notes /\ notes.from = j.seen.notes.from
        /\ notes.superseded => j.seen.notes.superseded
    BY <1>2, <2>1 DEF VoidNoted, Notes
  <2> QED BY <1>1, <1>3, <2>1, <2>2, ChangeRight DEF CommitVoid, Statuses
<1>4. CASE CommitExport(w)
  <2>1. PICK notes : notes = [j.seen.notes EXCEPT !.exported = TRUE] OBVIOUS
  <2>2. /\ notes \in Notes /\ notes.from = j.seen.notes.from
        /\ notes.superseded => j.seen.notes.superseded
    BY <1>2, <2>1 DEF Notes
  <2> QED BY <1>1, <1>4, <2>1, <2>2, ChangeRight DEF CommitExport, Statuses
<1>5. CASE CommitSuperseded(w)
  <2>1. PICK notes \in Notes : /\ notes = SupersededNotes(j.seen.notes)
                               /\ notes.from = j.seen.notes.from
    BY <1>2 DEF SupersededNotes, Notes
  <2> QED BY <1>1, <1>5, <2>1, ChangeRight DEF CommitSuperseded, Superseded, Statuses
<1> QED BY <1>3, <1>4, <1>5

\* A batch is inserted when none is in force, with the entries that were selected.
LEMMA InsertRight ==
  ASSUME ExportInv, RightInv, NEW w \in Workers, InsertBatch(w)
  PROVE  RightInv'
<1>1. PICK j \in GenerateJob : j = clerks[w]
  BY JobKinds DEF InsertBatch, ExportInv, ExportTypeOK
<1>2. j # Free /\ j.op = "generate" /\ j.stage = "insert" /\ j.range \in Ranges
  BY <1>1 DEF InsertBatch, GenerateJob, Free
<1>3. PICK r \in Ranges : r = j.range BY <1>2
<1>4. PICK b \in BatchIds :
        /\ ~ Exists(b)
        /\ batches' = [batches EXCEPT ![b] =
             [range |-> j.range, status |-> "generated", rows |-> j.rows, notes |-> Blank]]
        /\ Obtained(w, b, Blank)
  BY <1>1 DEF InsertBatch
<1>5. PICK new : new = [range |-> j.range, status |-> "generated", rows |-> j.rows,
                        notes |-> Blank]
  OBVIOUS
<1>6. /\ new \in Batch /\ new.range = r /\ new.rows = j.rows /\ new.notes = Blank
      /\ ~ new.notes.superseded /\ new.notes.from = None
  BY <1>3, <1>5, BlankTyped DEF GenerateJob, Batch, Statuses, Blank
<1>7. \A x \in BatchIds : batches'[x] = IF x = b THEN new ELSE batches[x]
  BY <1>4, <1>5 DEF ExportInv, ExportTypeOK
<1>8. Exists(b)' BY <1>6, <1>7, ExportConstantsOK DEF Exists
<1>9. \A x \in BatchIds : Exists(x) => x # b /\ batches'[x] = batches[x] /\ Exists(x)'
  BY <1>4, <1>7 DEF Exists
<1>10. ChangesOnly(r) BY <1>4, <1>6, <1>7, <1>8 DEF ChangesOnly
<1>11. UNCHANGED <<posted, raced, cut>> BY DEF InsertBatch
<1>12. PICK job :
         /\ Do(w, job)
         /\ job = IF j.old = None THEN Free
                  ELSE [op |-> "link", range |-> j.range, notes |-> j.notes, old |-> j.old,
                        rolled |-> j.rolled, new |-> b, seen |-> Blank]
  BY <1>1, <1>4 DEF Obtained
<1>13. job = Free \/ job.range = r BY <1>3, <1>12
<1>14. ASSUME r \notin raced PROVE RangeRight(r)'
  <2>1. /\ JobRight(j) /\ \A v \in Workers \ {w} : ~ Serving(v, r)
        /\ \A x \in BatchIds : (Exists(x) /\ batches[x].range = r) => BatchRight(x)
    BY <1>1, <1>2, <1>3, <1>14, RequestRight
  <2>2. \A old \in BatchIds : \A rows : Retired(old, r, rows) => Retired(old, r, rows)'
    BY <1>9 DEF Retired
  <2>3. JobRight(job)' \/ job = Free
    <3> SUFFICES ASSUME j.old # None PROVE JobRight(job)'
      BY <1>12
    <3>1. /\ job.op = "link" /\ job.old = j.old /\ job.new = b /\ job.seen = Blank
          /\ job.rolled = j.rolled /\ job.range = r
      BY <1>3, <1>12
    <3>2. /\ ~ j.rolled /\ Retired(j.old, r, j.rows) /\ j.old \in BatchIds
      BY <1>2, <1>3, <2>1 DEF JobRight, GenerateJob
    <3>3. j.old # b BY <1>4, <3>2 DEF Retired
    <3>4. Retired(j.old, r, j.rows)' BY <2>2, <3>2
    <3> QED BY <1>6, <1>7, <3>1, <3>2, <3>3, <3>4 DEF JobRight, Retired
  <2>4. ASSUME NEW x \in BatchIds, Exists(x)', batches'[x].range = r PROVE BatchRight(x)'
    <3>1. CASE x = b
      <4>1. j.rows <= posted[r] BY <1>2, <1>3, <2>1 DEF JobRight
      <4> QED BY <1>6, <1>7, <1>11, <3>1, <4>1 DEF BatchRight
    <3>2. CASE x # b
      <4>1. batches'[x] = batches[x] /\ Exists(x) /\ batches[x].range = r
        BY <1>7, <2>4, <3>2 DEF Exists
      <4>2. BatchRight(x) /\ batches[x] \in Batch BY <2>1, <4>1, BatchTyped
      <4>3. batches[x].notes.from # None => batches[x].notes.from \in BatchIds
        BY <4>2 DEF Batch, Notes
      <4>4. Followed(x) => Followed(x)'
        <5>1. CASE \E c \in BatchIds : /\ Exists(c) /\ batches[c].range = batches[x].range
                                       /\ batches[c].notes.from = x
          BY <1>9, <4>1, <5>1 DEF Followed
        <5>2. ASSUME NEW v \in Workers, Serving(v, r), Regenerating(v), clerks[v].old = x
              PROVE  Followed(x)'
          <6>1. v = w /\ j.old = x /\ x # None BY <1>1, <2>1, <5>2, ExportConstantsOK
          <6>2. job # Free /\ job.op = "link" /\ job.old = x /\ job.range = r
            BY <1>3, <1>12, <6>1 DEF Free
          <6>3. clerks'[w] = job BY <1>12 DEF Do, ExportInv, ExportTypeOK
          <6>4. (Serving(w, r) /\ Regenerating(w))'
            BY <6>2, <6>3 DEF Serving, Regenerating
          <6> QED BY <4>1, <6>2, <6>3, <6>4 DEF Followed
        <5> QED BY <4>1, <5>1, <5>2 DEF Followed
      <4> QED BY <1>11, <2>2, <4>1, <4>2, <4>3, <4>4 DEF BatchRight, Retired
    <3> QED BY <3>1, <3>2
  <2> QED BY <1>12, <2>1, <2>3, <2>4, OwnRight
<1>15. r \notin raced => \A v \in Workers \ {w} : ~ Serving(v, r)
  BY <1>1, <1>2, <1>3, RequestRight
<1> QED BY <1>1, <1>3, <1>10, <1>11, <1>12, <1>13, <1>14, <1>15, RightStep

\* What the linking of two batches does to them, for any range.
Linked(j, first, last) ==
  batches' = [batches EXCEPT ![j.old].notes = first, ![j.new].notes = last]

LEMMA LinkedBatches ==
  ASSUME ExportInv, NEW j \in LinkJob, Exists(j.old), Exists(j.new),
         NEW first \in Notes, NEW last \in Notes, Linked(j, first, last)
  PROVE  \A x \in BatchIds :
           /\ x \notin {j.old, j.new} => batches'[x] = batches[x]
           /\ Exists(x) => /\ batches'[x] \in Batch
                           /\ batches'[x].range = batches[x].range
                           /\ batches'[x].status = batches[x].status
                           /\ batches'[x].rows = batches[x].rows
                           /\ batches'[x].notes = IF x = j.new THEN last
                                                  ELSE IF x = j.old THEN first
                                                  ELSE batches[x].notes
<1>1. j.old \in BatchIds /\ j.new \in BatchIds BY DEF LinkJob
<1>2. batches[j.old] \in Batch /\ batches[j.new] \in Batch BY <1>1, BatchTyped
<1>3. PICK once : once = [batches EXCEPT ![j.old].notes = first] OBVIOUS
<1>4. /\ once \in [BatchIds -> Batch \union {None}]
      /\ \A x \in BatchIds :
           /\ x # j.old => once[x] = batches[x]
           /\ x = j.old => /\ once[x] \in Batch
                           /\ once[x].range = batches[x].range
                           /\ once[x].status = batches[x].status
                           /\ once[x].rows = batches[x].rows
                           /\ once[x].notes = first
  BY <1>1, <1>2, <1>3 DEF ExportInv, ExportTypeOK, Batch
<1>5. batches' = [once EXCEPT ![j.new].notes = last] BY <1>3 DEF Linked
<1>6. once[j.new] \in Batch BY <1>1, <1>2, <1>4
<1>7. \A x \in BatchIds :
        /\ x # j.new => batches'[x] = once[x]
        /\ x = j.new => /\ batches'[x] \in Batch
                        /\ batches'[x].range = once[x].range
                        /\ batches'[x].status = once[x].status
                        /\ batches'[x].rows = once[x].rows
                        /\ batches'[x].notes = last
  BY <1>1, <1>4, <1>5, <1>6 DEF Batch
<1> SUFFICES ASSUME NEW x \in BatchIds
             PROVE  /\ x \notin {j.old, j.new} => batches'[x] = batches[x]
                    /\ Exists(x) => /\ batches'[x] \in Batch
                                    /\ batches'[x].range = batches[x].range
                                    /\ batches'[x].status = batches[x].status
                                    /\ batches'[x].rows = batches[x].rows
                                    /\ batches'[x].notes = IF x = j.new THEN last
                                                           ELSE IF x = j.old THEN first
                                                           ELSE batches[x].notes
  OBVIOUS
<1>8. CASE x = j.new
  <2>1. /\ once[x].range = batches[x].range /\ once[x].status = batches[x].status
        /\ once[x].rows = batches[x].rows
    BY <1>4
  <2> QED BY <1>7, <1>8, <2>1
<1>9. CASE x # j.new /\ x = j.old
  <2>1. batches'[x] = once[x] BY <1>7, <1>9
  <2> QED BY <1>4, <1>9, <2>1
<1>10. CASE x # j.new /\ x # j.old
  <2>1. batches'[x] = batches[x] BY <1>4, <1>7, <1>10
  <2>2. Exists(x) => batches[x] \in Batch BY BatchTyped
  <2> QED BY <1>10, <2>1, <2>2
<1> QED BY <1>8, <1>9, <1>10

\* The two notes a linking writes.
LEMMA LinkNotes ==
  ASSUME ExportInv, NEW w \in Workers, LinkReplacement(w)
  PROVE  \E j \in LinkJob, first \in Notes, last \in Notes :
           /\ j = clerks[w] /\ Exists(j.old) /\ Exists(j.new)
           /\ Linked(j, first, last)
           /\ ~ j.rolled => first = batches[j.old].notes
           /\ j.new # j.old => last = RegeneratedNotes(j, j.seen)
<1>1. PICK j \in LinkJob : j = clerks[w]
  BY JobKinds DEF LinkReplacement, ExportInv, ExportTypeOK
<1>2. Exists(j.old) /\ Exists(j.new) /\ j.old \in BatchIds
  BY <1>1 DEF ExportInv, RequestsKnown, Known, LinkReplacement, LinkJob
<1>3. PICK superseded : superseded = [j.notes EXCEPT !.replacement = j.new] OBVIOUS
<1>4. superseded \in Notes BY <1>3 DEF LinkJob, Notes
<1>5. PICK first : first = IF j.rolled THEN superseded ELSE batches[j.old].notes OBVIOUS
<1>6. first \in Notes BY <1>2, <1>4, <1>5, BatchTyped DEF Batch
<1>7. PICK last : last = RegeneratedNotes(j, IF j.new = j.old THEN superseded ELSE j.seen)
  OBVIOUS
<1>8. last \in Notes BY <1>2, <1>4, <1>7 DEF RegeneratedNotes, LinkJob, Notes
<1>9. Linked(j, first, last) BY <1>1, <1>3, <1>5, <1>7 DEF LinkReplacement, Linked
<1> QED BY <1>1, <1>2, <1>5, <1>6, <1>7, <1>8, <1>9

\* A regeneration ends: its new batch is linked to the one it replaces.
LEMMA LinkRight ==
  ASSUME ExportInv, RightInv, NEW w \in Workers, LinkReplacement(w)
  PROVE  RightInv'
<1>1. PICK j \in LinkJob, first \in Notes, last \in Notes :
        /\ j = clerks[w] /\ Exists(j.old) /\ Exists(j.new)
        /\ Linked(j, first, last)
        /\ ~ j.rolled => first = batches[j.old].notes
        /\ j.new # j.old => last = RegeneratedNotes(j, j.seen)
  BY LinkNotes
<1>2. j # Free /\ j.op = "link" /\ j.old \in BatchIds /\ j.new \in BatchIds
  BY DEF LinkJob, Free
<1>3. PICK r \in Ranges : r = j.range BY <1>1, <1>2, RequestRight
<1>0. batches[j.old].range = r /\ batches[j.new].range = r
  BY <1>1, <1>2, <1>3 DEF ExportInv, RequestsKnown, Known
<1>4. \A x \in BatchIds :
        /\ x \notin {j.old, j.new} => batches'[x] = batches[x]
        /\ Exists(x) => /\ batches'[x] \in Batch
                        /\ batches'[x].range = batches[x].range
                        /\ batches'[x].status = batches[x].status
                        /\ batches'[x].rows = batches[x].rows
                        /\ batches'[x].notes = IF x = j.new THEN last
                                               ELSE IF x = j.old THEN first
                                               ELSE batches[x].notes
  BY <1>1, LinkedBatches
<1>5. Do(w, Free) /\ UNCHANGED <<posted, raced, cut>> BY DEF LinkReplacement
<1>6. \A x \in BatchIds : Exists(x)' <=> Exists(x)
  BY <1>1, <1>4, ExportConstantsOK DEF Exists
<1>7. clerks'[w] = Free /\ \A v \in Workers \ {w} : clerks'[v] = clerks[v]
  BY <1>5 DEF Do, ExportInv, ExportTypeOK
<1>8. ChangesOnly(r) BY <1>0, <1>1, <1>2, <1>4, <1>6 DEF ChangesOnly
<1>9. ASSUME r \notin raced PROVE RangeRight(r)'
  <2>1. /\ JobRight(j) /\ \A v \in Workers \ {w} : ~ Serving(v, r)
        /\ \A b \in BatchIds : (Exists(b) /\ batches[b].range = r) => BatchRight(b)
    BY <1>1, <1>2, <1>3, <1>9, RequestRight
  <2>2. /\ ~ j.rolled /\ j.old # j.new /\ batches[j.new].notes = Blank /\ j.seen = Blank
        /\ Retired(j.old, r, batches[j.new].rows)
    BY <1>2, <1>3, <2>1 DEF JobRight
  <2>3. first = batches[j.old].notes /\ last = [Blank EXCEPT !.from = j.old]
    BY <1>1, <2>2 DEF RegeneratedNotes
  <2>4. last.from = j.old /\ ~ last.superseded BY <2>3 DEF Blank
  <2>5. \A old \in BatchIds : \A rows : Retired(old, r, rows) => Retired(old, r, rows)'
    BY <1>4, <1>6 DEF Retired
  <2>6. Blank.from = None BY DEF Blank
  <2>7. ASSUME NEW b \in BatchIds, Exists(b)', batches'[b].range = r PROVE BatchRight(b)'
    <3>1. Exists(b) /\ batches[b].range = r BY <1>4, <1>6, <2>7
    <3>2. BatchRight(b) /\ batches[b] \in Batch BY <2>1, <3>1, BatchTyped
    <3>3. batches'[b].rows = batches[b].rows BY <1>4, <3>1
    <3>4. CASE b = j.new
      <4>1. batches'[b].notes = last BY <1>4, <3>1, <3>4
      <4>2. PICK rows : rows = batches[b].rows /\ Retired(j.old, r, rows)'
        BY <1>2, <2>2, <2>5, <3>4
      <4> QED
        BY <1>5, <2>2, <2>4, <2>7, <3>1, <3>2, <3>3, <3>4, <4>1, <4>2 DEF BatchRight, Retired
    <3>5. CASE b # j.new
      <4>1. batches'[b].notes = batches[b].notes BY <1>4, <2>3, <3>1, <3>5
      <4>2. batches[b].notes.from # None => batches[b].notes.from \in BatchIds
        BY <3>2 DEF Batch, Notes
      <4>3. Followed(b) => Followed(b)'
        <5>1. ASSUME NEW c \in BatchIds, Exists(c), batches[c].range = r,
                     batches[c].notes.from = b
              PROVE  Followed(b)'
          <6>1. c # j.new BY <2>2, <2>6, <5>1, ExportConstantsOK
          <6>2. batches'[c].notes = batches[c].notes BY <1>4, <2>3, <5>1, <6>1
          <6>3. Exists(c)' /\ batches'[c].range = r BY <1>4, <1>6, <5>1
          <6> QED BY <2>7, <5>1, <6>2, <6>3 DEF Followed
        <5>2. ASSUME NEW v \in Workers, Serving(v, r), Regenerating(v), clerks[v].old = b
              PROVE  Followed(b)'
          <6>1. b = j.old BY <1>1, <2>1, <5>2
          <6>2. batches'[j.new].notes.from = b BY <1>1, <1>2, <1>4, <2>4, <6>1
          <6>3. Exists(j.new)' /\ batches'[j.new].range = r
            BY <1>0, <1>1, <1>2, <1>4, <1>6
          <6> QED BY <1>2, <2>7, <6>2, <6>3 DEF Followed
        <5> QED BY <3>1, <5>1, <5>2 DEF Followed
      <4> QED BY <1>5, <2>5, <2>7, <3>1, <3>2, <3>3, <4>1, <4>2, <4>3
              DEF BatchRight, Retired
    <3> QED BY <3>4, <3>5
  <2> QED BY <1>5, <2>1, <2>7, OwnRight
<1>10. r \notin raced => \A v \in Workers \ {w} : ~ Serving(v, r)
  BY <1>1, <1>2, <1>3, RequestRight
<1> QED BY <1>1, <1>3, <1>5, <1>8, <1>9, <1>10, RightStep

LEMMA NextRight == ExportInv /\ RightInv /\ [ExportNext]_exportVars => RightInv'
<1> SUFFICES ASSUME ExportInv, RightInv, [ExportNext]_exportVars PROVE RightInv'
  OBVIOUS
<1>1. CASE ExportNext
  BY <1>1, PostedRight, BeginGenerateRight, BeginChangeRight, GenerateRight, InsertRight,
     ChangesRight, ReconcileRight, LinkRight, EndRight DEF ExportNext
<1>2. CASE UNCHANGED exportVars
  BY <1>2 DEF exportVars, RightInv, Alone, RangeRight, Serving, JobRight, BatchRight,
              Followed, Retired, Regenerating, Current, IsCurrent, Exists
<1> QED BY <1>1, <1>2

LEMMA InitRight == ExportInit => RightInv
BY DEF ExportInit, RightInv, Alone, RangeRight, Serving, Exists

\* Each batch that was replaced is void and has no entry the replacement lacks, and a
\* regeneration that is not cut short leaves its link: for every range whose requests
\* do not overlap, also when the unique index makes generations fail and retry.
THEOREM ReplacementsAlwaysAgree == ExportSpec => []ReplacementsAgree
BY InitRight, NextRight, RightIsAgreed, ExportInvariance, PTL DEF ExportSpec

-------------------------------------------------------------------------------
(* What a batch went through stays so.                                     *)

\* What VoidIsFinal and HistoryKept say of one batch.
StaysVoid(b) == ~ IsCurrent(b) => batches'[b].status = "void"
KeepsNotes(b) ==
  /\ batches[b].notes.exported => batches'[b].notes.exported
  /\ batches[b].notes.voided => batches'[b].notes.voided
  /\ batches[b].notes.superseded => batches'[b].notes.superseded
  /\ batches[b].notes.from # None => batches'[b].notes.from = batches[b].notes.from

PastStep ==
  \A b \in BatchIds :
    (Exists(b) /\ batches[b].range \notin raced) => StaysVoid(b) /\ KeepsNotes(b)

\* A change adds to the notes that were loaded.
LEMMA ChangePast ==
  ASSUME ExportInv, RightInv, NEW w \in Workers, NEW j \in ChangeJob, j = clerks[w],
         NEW status \in Statuses, NEW notes \in Notes,
         batches' = Changed(j.id, j.seen, status, notes),
         j.seen.notes.exported => notes.exported,
         j.seen.notes.voided => notes.voided,
         j.seen.notes.superseded => notes.superseded,
         notes.from = j.seen.notes.from
  PROVE  PastStep
<1> SUFFICES ASSUME NEW b \in BatchIds, Exists(b), batches[b].range \notin raced
             PROVE  StaysVoid(b) /\ KeepsNotes(b)
  BY DEF PastStep
<1>1. /\ j # Free /\ j.op \in {"void", "regenerate", "check", "export"}
      /\ Exists(j.id) /\ batches[j.id].range = j.range
  BY DEF ChangeJob, Free, ExportInv, RequestsKnown, Known
<1>2. PICK is \in Batch :
        /\ is.notes = notes
        /\ \A x \in BatchIds : batches'[x] = IF x = j.id THEN is ELSE batches[x]
  BY <1>1, ChangedBatch
<1>3. CASE b = j.id
  <2>1. JobRight(j) BY <1>1, <1>3, RequestRight
  <2>2. j.seen = batches[b] /\ batches[b].status # "void" BY <1>1, <1>3, <2>1 DEF JobRight
  <2> QED BY <1>2, <1>3, <2>2 DEF StaysVoid, KeepsNotes, IsCurrent
<1>4. CASE b # j.id BY <1>2, <1>4 DEF StaysVoid, KeepsNotes, IsCurrent
<1> QED BY <1>3, <1>4

LEMMA ChangesPast ==
  ASSUME ExportInv, RightInv, NEW w \in Workers,
         CommitVoid(w) \/ CommitExport(w) \/ CommitSuperseded(w)
  PROVE  PastStep
<1>1. PICK j \in ChangeJob : j = clerks[w]
  BY JobKinds DEF CommitVoid, CommitExport, CommitSuperseded, ExportInv, ExportTypeOK
<1>2. j.seen.notes \in Notes BY DEF ChangeJob, Batch
<1>3. PICK status, notes :
        /\ status \in Statuses
        /\ notes \in {VoidNoted(j.seen.notes), [j.seen.notes EXCEPT !.exported = TRUE],
                      SupersededNotes(j.seen.notes)}
        /\ batches' = Changed(j.id, j.seen, status, notes)
  BY <1>1 DEF CommitVoid, CommitExport, CommitSuperseded, Superseded, Statuses
<1>4. /\ notes \in Notes /\ notes.from = j.seen.notes.from
      /\ j.seen.notes.exported => notes.exported
      /\ j.seen.notes.voided => notes.voided
      /\ j.seen.notes.superseded => notes.superseded
  BY <1>2, <1>3 DEF VoidNoted, SupersededNotes, Notes
<1> QED BY <1>1, <1>3, <1>4, ChangePast

\* A linking adds where the new batch comes from, and forgets nothing of the old one:
\* what the session has in memory of it is written only after a rollback, which takes
\* another request.
LEMMA LinkPast ==
  ASSUME ExportInv, RightInv, NEW w \in Workers, LinkReplacement(w)
  PROVE  PastStep
<1> SUFFICES ASSUME NEW b \in BatchIds, Exists(b), batches[b].range \notin raced
             PROVE  StaysVoid(b) /\ KeepsNotes(b)
  BY DEF PastStep
<1>1. PICK j \in LinkJob, first \in Notes, last \in Notes :
        /\ j = clerks[w] /\ Exists(j.old) /\ Exists(j.new)
        /\ Linked(j, first, last)
        /\ ~ j.rolled => first = batches[j.old].notes
        /\ j.new # j.old => last = RegeneratedNotes(j, j.seen)
  BY LinkNotes
<1>2. j # Free /\ j.op = "link" /\ j.old \in BatchIds /\ j.new \in BatchIds
  BY DEF LinkJob, Free
<1>3. batches[j.old].range = j.range /\ batches[j.new].range = j.range
  BY <1>1, <1>2 DEF ExportInv, RequestsKnown, Known
<1>4. /\ b \notin {j.old, j.new} => batches'[b] = batches[b]
      /\ batches'[b].status = batches[b].status
      /\ batches'[b].notes = IF b = j.new THEN last
                             ELSE IF b = j.old THEN first
                             ELSE batches[b].notes
  BY <1>1, LinkedBatches
<1>5. StaysVoid(b) BY <1>4 DEF StaysVoid, IsCurrent
<1>6. CASE b \in {j.old, j.new}
  <2>1. JobRight(j) BY <1>1, <1>2, <1>3, <1>6, RequestRight
  <2>2. ~ j.rolled /\ j.old # j.new /\ batches[j.new].notes = Blank
    BY <1>2, <2>1 DEF JobRight
  <2> QED BY <1>1, <1>4, <1>5, <1>6, <2>2 DEF KeepsNotes, Blank
<1>7. CASE b \notin {j.old, j.new} BY <1>4, <1>5, <1>7 DEF KeepsNotes
<1> QED BY <1>6, <1>7

LEMMA NextPast ==
  ASSUME ExportInv, RightInv, ExportNext
  PROVE  PastStep
<1>1. CASE UNCHANGED batches
  BY <1>1 DEF PastStep, StaysVoid, KeepsNotes, IsCurrent
<1>2. ASSUME NEW w \in Workers, InsertBatch(w) PROVE PastStep
  <2>1. \A b \in BatchIds : Exists(b) => batches'[b] = batches[b]
    BY <1>2 DEF InsertBatch, ExportInv, ExportTypeOK
  <2> QED BY <2>1 DEF PastStep, StaysVoid, KeepsNotes, IsCurrent
<1>3. \/ UNCHANGED batches
      \/ \E w \in Workers : \/ InsertBatch(w) \/ CommitVoid(w) \/ CommitExport(w)
                            \/ CommitSuperseded(w) \/ LinkReplacement(w)
  BY DEF ExportNext, PostInRange, BeginGenerate, BeginChange, Begin, LookForCurrent,
         SelectEntries, InsertFails, Reread, Reconcile, Refuse, CrashBetween
<1> QED BY <1>1, <1>2, <1>3, ChangesPast, LinkPast

\* A batch that is void stays void, and its metadata keeps that it was exported, voided,
\* superseded and regenerated, through every later request for the range, as long as no
\* two of them overlap.
THEOREM PastIsAlwaysKept == ExportSpec => PastIsKept
<1>1. ExportInv /\ RightInv /\ [ExportNext]_exportVars =>
        [\A b \in BatchIds :
           (Exists(b) /\ batches[b].range \notin raced /\ ~ IsCurrent(b)) =>
              batches'[b].status = "void"]_exportVars
  BY NextPast DEF PastStep, StaysVoid
<1>2. ExportInv /\ RightInv /\ [ExportNext]_exportVars =>
        [\A b \in BatchIds : (Exists(b) /\ batches[b].range \notin raced) =>
           LET was == batches[b].notes
               is == batches'[b].notes IN
           /\ was.exported => is.exported
           /\ was.voided => is.voided
           /\ was.superseded => is.superseded
           /\ was.from # None => is.from = was.from]_exportVars
  BY NextPast DEF PastStep, KeepsNotes
<1> QED BY <1>1, <1>2, InitRight, NextRight, ExportInvariance, PTL
        DEF ExportSpec, PastIsKept, VoidIsFinal, HistoryKept
===============================================================================
