------------------------------- MODULE CloseDay -------------------------------
(***************************************************************************)
(* The close-day wizard: exceptions, batch, reconcile, export, audit.  The *)
(* page shows what it last read of a batch, of its reconciliation with the *)
(* ledger and of its mapped preview, each under its own key, while entries *)
(* are posted, profiles edited and batches voided behind its back.  A      *)
(* mapped export reads, checks and commits in steps; how the requests that *)
(* make batches interleave inside the server is ExportBatches' matter.     *)
(***************************************************************************)
EXTENDS Naturals, FiniteSets

CONSTANTS
  Periods, \* date ranges a batch may cover
  BatchNos, \* batches that may be generated
  Profiles, \* accounting profiles
  NoBatch, \* no batch, no profile, nothing read
  MaxEvents \* bound: requests of the page and changes behind its back

BatchStatuses == {"generated", "exported", "void"}
BatchRow == [status : BatchStatuses, period : Periods, rows : Nat]
ASSUME CloseAssumption ==
  NoBatch \notin BatchNos \union Profiles \union BatchRow /\ MaxEvents \in Nat

VARIABLES
  entries, \* Periods -> how many entries the ledger has
  batchOf, \* BatchNos -> NoBatch or [period, rows, status]
  faulty, \* the profiles that fail to map a batch
  wizard, \* [step, period, batch, profile]: activeStep and what is selected
  shown, \* the queries: [list, detail, recon, preview]
  wants, \* the page's requests, and how far the server is with them
  handed, \* history: the rows each mapped export handed to accounting
  events \* bound

closeVars == <<entries, batchOf, faulty, wizard, shown, wants, handed, events>>

WizardSteps == {"exceptions", "batch", "reconcile", "export", "audit"}
Generated == {b \in BatchNos : batchOf[b] # NoBatch}
CurrentOf(t) == {b \in Generated : batchOf[b].period = t /\ batchOf[b].status # "void"}
Ledger(b) == entries[batchOf[b].period]
Drifted(b) == batchOf[b].rows # Ledger(b)

CloseInit ==
  /\ entries = [t \in Periods |-> 1]
  /\ batchOf = [b \in BatchNos |-> NoBatch] /\ faulty = {}
  /\ \E t \in Periods, p \in Profiles :
       wizard = [period |-> t, step |-> "exceptions", profile |-> p, batch |-> NoBatch]
  /\ shown = [list |-> {}, detail |-> [b \in BatchNos |-> NoBatch],
              recon |-> [b \in BatchNos |-> "unread"],
              preview |-> [k \in BatchNos \X Profiles |-> "unread"]]
  /\ wants = {} /\ handed = {} /\ events = 0

-----------------------------------------------------------------------------
(* What the page shows.                                                       *)
selectedBatch == IF wizard.batch = NoBatch THEN NoBatch ELSE shown.detail[wizard.batch]
(* Not read yet is not drift.                                                 *)
hasDrift == wizard.batch # NoBatch /\ shown.recon[wizard.batch] = "drift"
mappedPreview ==
  IF wizard.batch = NoBatch THEN "unread" ELSE shown.preview[<<wizard.batch, wizard.profile>>]

(* Any step may be gone to, exceptions or none; export not under known drift. *)
setActiveStep(s) ==
  /\ s = "export" => ~hasDrift
  /\ wizard' = [wizard EXCEPT !.step = s]
  /\ UNCHANGED <<entries, batchOf, faulty, shown, wants, handed, events>>
ChooseDates(t) ==
  /\ wizard.step = "batch" /\ wizard' = [wizard EXCEPT !.period = t]
  /\ UNCHANGED <<entries, batchOf, faulty, shown, wants, handed, events>>
SelectFromAudit(b) ==
  /\ wizard.step = "audit" /\ b \in shown.list
  /\ wizard' = [wizard EXCEPT !.batch = b, !.step = "reconcile"]
  /\ UNCHANGED <<entries, batchOf, faulty, shown, wants, handed, events>>
ChooseProfile(p) ==
  /\ wizard.step = "export" /\ ~hasDrift /\ selectedBatch # NoBatch
  /\ wizard' = [wizard EXCEPT !.profile = p]
  /\ UNCHANGED <<entries, batchOf, faulty, shown, wants, handed, events>>

(* since: what the ledger had of the range when the request was made.         *)
AskFor(op, with, since) ==
  /\ ~\E w \in wants : w.op = op
  /\ events < MaxEvents /\ events' = events + 1
  /\ wants' = wants \union
       {[op |-> op, with |-> with, since |-> since, stage |-> "sent", seen |-> NoBatch]}
  /\ UNCHANGED <<entries, batchOf, faulty, wizard, shown, handed>>
handleGenerateBatch == wizard.step = "batch" /\ AskFor("generate", wizard.period, 0)
handleRegenerateBatch ==
  /\ wizard.step = "reconcile" /\ selectedBatch # NoBatch /\ hasDrift
  /\ AskFor("regenerate", wizard.batch, 0)
handleDownloadBatch ==
  /\ wizard.step = "batch" /\ selectedBatch # NoBatch /\ AskFor("download", wizard.batch, 0)
handleDownloadMappedExport ==
  /\ wizard.step = "export" /\ ~hasDrift /\ selectedBatch # NoBatch /\ mappedPreview = "ready"
  /\ AskFor("export", <<wizard.batch, wizard.profile>>, Ledger(wizard.batch))

-----------------------------------------------------------------------------
(* The server.  A range has one batch that is not void.                       *)
NewBatches(t) == IF entries[t] = 0 THEN {} ELSE BatchNos \ Generated
Adds(b, t, voided) ==
  batchOf' = [c \in BatchNos |->
    IF c = b THEN [status |-> "generated", period |-> t, rows |-> entries[t]]
    ELSE IF c \in voided THEN [batchOf[c] EXCEPT !.status = "void"] ELSE batchOf[c]]
generate_or_get_existing(t, b) ==
  IF CurrentOf(t) # {} THEN b \in CurrentOf(t) /\ batchOf' = batchOf
  ELSE b \in NewBatches(t) /\ Adds(b, t, {})
regenerate_batch(old, b) ==
  /\ batchOf[old].status # "void" /\ b \in NewBatches(batchOf[old].period)
  /\ Adds(b, batchOf[old].period, {old})

(* export_mapped_batch: it reads the batch, maps its rows, reconciles them with *)
(* the ledger, then commits, and others may commit in between.                 *)
GoesOn(w, stage, seen) ==
  /\ wants' = (wants \ {w}) \union {[w EXCEPT !.stage = stage, !.seen = seen]}
  /\ UNCHANGED <<entries, faulty, wizard, shown, handed, events>>
ExportReads(w) ==
  /\ w.op = "export" /\ w.stage = "sent" /\ batchOf[w.with[1]].status # "void"
  /\ GoesOn(w, "read", batchOf[w.with[1]]) /\ UNCHANGED batchOf
ExportMaps(w) ==
  /\ w.op = "export" /\ w.stage = "read" /\ w.with[2] \notin faulty
  /\ GoesOn(w, "mapped", w.seen) /\ UNCHANGED batchOf
\* Mutant: the export relies on the page for drift.
MatchesUnchecked(w) == TRUE
Matches(w) == w.seen.rows = entries[w.seen.period]
ExportReconciles(w) ==
  /\ w.op = "export" /\ w.stage = "mapped" /\ Matches(w)
  /\ GoesOn(w, "checked", w.seen) /\ UNCHANGED batchOf
(* A status that was read as exported is not written; one that is written      *)
(* must leave the range with one batch that is not void.                       *)
ExportCommits(w) ==
  LET b == w.with[1] IN
  /\ w.op = "export" /\ w.stage = "checked"
  /\ IF w.seen.status = "exported" THEN UNCHANGED batchOf
     ELSE /\ CurrentOf(w.seen.period) \subseteq {b}
          /\ batchOf' = [batchOf EXCEPT ![b].status = "exported"]
  /\ GoesOn(w, "done", w.seen)

(* The answers.  The new batch is selected wherever the user is by now; the   *)
(* batch it replaces keeps the detail that was read of it.                    *)
Obtains(b, step) ==
  /\ shown' = [shown EXCEPT !.list = {c \in BatchNos : batchOf'[c] # NoBatch},
                           !.detail[b] = batchOf'[b].status]
  /\ wizard' = [wizard EXCEPT !.batch = b, !.step = step]
GenerateAnswered(w) ==
  /\ w.op = "generate" /\ UNCHANGED handed
  /\ \E b \in BatchNos : generate_or_get_existing(w.with, b) /\ Obtains(b, "reconcile")
RegenerateAnswered(w) ==
  /\ w.op = "regenerate" /\ UNCHANGED handed
  /\ \E b \in BatchNos : regenerate_batch(w.with, b) /\ Obtains(b, wizard.step)
(* The list and the detail on the screen are read again.                      *)
ExportAnswered(w) ==
  /\ w.op = "export" /\ w.stage = "done" /\ UNCHANGED <<batchOf, wizard>>
  /\ handed' = handed \union {[batch |-> w.with[1], rows |-> w.seen.rows, since |-> w.since]}
  /\ shown' = [shown EXCEPT !.list = Generated,
       !.detail = [b \in BatchNos |-> IF b = wizard.batch THEN batchOf[b].status ELSE @[b]]]
Completes(w) ==
  /\ GenerateAnswered(w) \/ RegenerateAnswered(w) \/ ExportAnswered(w)
  /\ wants' = wants \ {w} /\ UNCHANGED <<entries, faulty, events>>
(* A download changes nothing; any request may fail, be refused, or be served  *)
(* and its answer lost.                                                        *)
Fails(w) ==
  /\ wants' = wants \ {w}
  /\ \/ UNCHANGED batchOf
     \/ w.op = "generate" /\ \E b \in BatchNos : generate_or_get_existing(w.with, b)
     \/ w.op = "regenerate" /\ \E b \in BatchNos : regenerate_batch(w.with, b)
  /\ UNCHANGED <<entries, faulty, wizard, shown, handed, events>>

(* The queries of what is selected, whenever they are read again.             *)
BatchRead ==
  /\ wizard.batch # NoBatch
  /\ LET b == wizard.batch IN
     shown' \in {[shown EXCEPT !.list = Generated],
                 [shown EXCEPT !.detail[b] = batchOf[b].status],
                 [shown EXCEPT !.recon[b] = IF Drifted(b) THEN "drift" ELSE "same"],
                 [shown EXCEPT !.preview[<<b, wizard.profile>>] =
                    IF wizard.profile \in faulty THEN "faulty" ELSE "ready"]}
  /\ shown' # shown
  /\ UNCHANGED <<entries, batchOf, faulty, wizard, wants, handed, events>>
BehindItsBack ==
  /\ events < MaxEvents /\ events' = events + 1
  /\ \/ \E t \in Periods : entries' = [entries EXCEPT ![t] = @ + 1] /\ UNCHANGED <<batchOf, faulty>>
     \/ \E b \in Generated : batchOf' = [batchOf EXCEPT ![b].status = "void"]
                             /\ UNCHANGED <<entries, faulty>>
     \/ \E p \in Profiles : faulty' \in {faulty \union {p}, faulty \ {p}}
                             /\ UNCHANGED <<entries, batchOf>>
  /\ UNCHANGED <<wizard, shown, wants, handed>>

CloseNext ==
  \/ handleGenerateBatch \/ handleRegenerateBatch \/ handleDownloadBatch
  \/ handleDownloadMappedExport
  \/ BatchRead \/ BehindItsBack
  \/ \E s \in WizardSteps : setActiveStep(s)
  \/ \E t \in Periods : ChooseDates(t)
  \/ \E b \in BatchNos : SelectFromAudit(b)
  \/ \E p \in Profiles : ChooseProfile(p)
  \/ \E w \in wants :
       \/ ExportReads(w) \/ ExportMaps(w) \/ ExportReconciles(w) \/ ExportCommits(w)
       \/ Completes(w) \/ Fails(w)
CloseSpec == CloseInit /\ [][CloseNext]_closeVars

-----------------------------------------------------------------------------
Want ==
  [op : {"generate", "regenerate", "download", "export"},
   with : Periods \union BatchNos \union (BatchNos \X Profiles), since : Nat,
   stage : {"sent", "read", "mapped", "checked", "done"}, seen : BatchRow \union {NoBatch}]
CloseTypeOK ==
  /\ entries \in [Periods -> Nat] /\ batchOf \in [BatchNos -> BatchRow \union {NoBatch}]
  /\ faulty \subseteq Profiles
  /\ wizard \in [period : Periods, step : WizardSteps, profile : Profiles,
                 batch : BatchNos \union {NoBatch}]
  /\ shown \in [list : SUBSET BatchNos, detail : [BatchNos -> BatchStatuses \union {NoBatch}],
                recon : [BatchNos -> {"unread", "drift", "same"}],
                preview : [BatchNos \X Profiles -> {"unread", "faulty", "ready"}]]
  /\ wants \subseteq Want
  /\ handed \subseteq [batch : BatchNos, rows : Nat, since : Nat]
  /\ events \in 0..MaxEvents
(* What is handed to accounting has every entry the ledger had of the range    *)
(* when the export was asked for, and none it has not got by now: although the *)
(* page goes by what it read of the batch before, or by nothing when the       *)
(* reconciliation is unread, and although entries are posted and the batch is  *)
(* voided while the server checks.  And a range never has two batches in       *)
(* force, also when an export brings a voided one back.                        *)
DriftIsNotExported ==
  /\ \A h \in handed : h.since <= h.rows /\ h.rows <= Ledger(h.batch)
  /\ \A t \in Periods : Cardinality(CurrentOf(t)) <= 1
=============================================================================
