---------------------------- MODULE GolfSettings ----------------------------
(***************************************************************************)
(* A club's booking rules and prices, and the settings page that drafts,   *)
(* publishes and rolls them back in the order courses, tees, rules,        *)
(* prices.  A second administrator works on the same club elsewhere.       *)
(***************************************************************************)
EXTENDS Naturals, FiniteSets

CONSTANTS
  RuleSets, \* rule sets that may be created
  Matrices, \* price matrices that may be created
  Founded, \* those in force when the page opens, where the club has been set up before
  Wordings, \* what a draft may say
  Unset, \* nothing
  MaxWrites \* bound: writes that reach the club's records

\* A rule set is no price matrix, and one of each is in force.
ASSUME SettingsAssumption ==
  /\ RuleSets \intersect Matrices = {} /\ MaxWrites \in Nat
  /\ Founded \subseteq RuleSets \union Matrices
  /\ \A k \in {RuleSets, Matrices} : \A i, j \in Founded \intersect k : i = j

VARIABLES
  ground, \* which of courses and tees exist
  shelf, \* shelf[i]: Unset, or [text, active] of a rule set or matrix
  snapshot, \* snapshot[k]: what the last publication replaced, [source, text]
  known, \* the page's queries: [ground, shelf]
  form, \* form[k]: [of, text] of the draft being typed
  sent, \* the page's requests in flight
  writes, \* writes so far (bound)
  published \* published[i]: texts that a publication put in force

golfVars == <<ground, shelf, snapshot, known, form, sent, writes, published>>

Parts == {"courses", "tees"}
Items == RuleSets \union Matrices
SetKinds == {RuleSets, Matrices}
KindOf(i) == IF i \in RuleSets THEN RuleSets ELSE Matrices
Made(s) == {i \in Items : s[i] # Unset}
InForce(s, k) == {i \in Made(s) \intersect k : s[i].active}
Clean == [of |-> Unset, text |-> Unset]

(* A club without settings, or one that has them all; nothing read yet.       *)
GolfInit ==
  /\ \E has \in {{}, Founded}, t \in Wordings :
       /\ ground = IF has = {} THEN {} ELSE Parts
       /\ shelf = [i \in Items |-> IF i \in has THEN [active |-> TRUE, text |-> t] ELSE Unset]
       /\ published = [i \in Items |-> IF i \in has THEN {t} ELSE {}]
  /\ snapshot = [k \in SetKinds |-> Unset]
  /\ known = [ground |-> {}, shelf |-> [i \in Items |-> Unset]]
  /\ form = [k \in SetKinds |-> Clean] /\ sent = {} /\ writes = 0

-----------------------------------------------------------------------------
(* What the club's records allow and become.                                  *)
ReadyFor(k, g, s) ==
  IF k = RuleSets THEN g = Parts ELSE InForce(s, RuleSets) # {}
(* The snapshot is overwritten only when something else was in force.         *)
SnapshotOf(k, others) ==
  IF others = {} THEN snapshot[k]
  ELSE LET i == CHOOSE i \in others : TRUE IN [text |-> shelf[i].text, source |-> i]
OnlyActive(s, i, text) ==
  [j \in Items |-> IF j = i THEN [active |-> TRUE, text |-> text]
                   ELSE IF j \in Made(s) \intersect KindOf(i)
                        THEN [active |-> FALSE, text |-> s[j].text]
                   ELSE s[j]]

CreateGround(part) ==
  /\ part = "tees" => "courses" \in ground
  /\ ground' = ground \union {part}
  /\ UNCHANGED <<shelf, snapshot, published>>
\* Mutant: a record that is in force stays so when it is saved.
SaveSetAsItIs(i, text) ==
  /\ shelf' = [shelf EXCEPT ![i] = [active |-> shelf[i] # Unset /\ shelf[i].active, text |-> text]]
  /\ UNCHANGED <<ground, snapshot, published>>
(* A draft is written inactive, whatever it was (the page sends active=false). *)
SaveSet(i, text) ==
  /\ shelf' = [shelf EXCEPT ![i] = [active |-> FALSE, text |-> text]]
  /\ UNCHANGED <<ground, snapshot, published>>
PublishSet(i) ==
  LET k == KindOf(i) IN
  /\ i \in Made(shelf) /\ ReadyFor(k, ground, shelf)
  /\ snapshot' = [snapshot EXCEPT ![k] = SnapshotOf(k, InForce(shelf, k) \ {i})]
  /\ shelf' = OnlyActive(shelf, i, shelf[i].text)
  /\ published' = [published EXCEPT ![i] = @ \union {shelf[i].text}]
  /\ UNCHANGED ground
(* What was in force and what the snapshot holds change places.               *)
RollbackSet(k) ==
  /\ snapshot[k] # Unset
  /\ snapshot' = [snapshot EXCEPT ![k] = SnapshotOf(k, InForce(shelf, k))]
  /\ shelf' = OnlyActive(shelf, snapshot[k].source, snapshot[k].text)
  /\ UNCHANGED <<ground, published>>

Serves(r) ==
  \/ r.op = "ground" /\ CreateGround(r.item)
  \/ r.op = "save" /\ SaveSet(r.item, r.text)
  \/ r.op = "publish" /\ PublishSet(r.item)
  \/ r.op = "rollback" /\ RollbackSet(r.kind)
Refuses(r) ==
  \/ r.op = "ground" /\ r.item = "tees" /\ "courses" \notin ground
  \/ r.op = "publish" /\ ~ReadyFor(r.kind, ground, shelf)
  \/ r.op = "rollback" /\ snapshot[r.kind] = Unset

-----------------------------------------------------------------------------
(* The page.  Sections unlock from what the page last read.                   *)
Unlocked(k) == ReadyFor(k, known.ground, known.shelf)
Drafted(k) == {i \in Made(known.shelf) \intersect k : ~known.shelf[i].active}
Pending(op, k) == \E r \in sent : r.op = op /\ r.kind = k
Ask(op, k, i, text) ==
  /\ writes + Cardinality(sent) < MaxWrites
  /\ sent' = sent \union {[item |-> i, kind |-> k, text |-> text, op |-> op]}
  /\ UNCHANGED <<ground, shelf, snapshot, known, form, writes, published>>

handleCreateCourse ==
  ~Pending("ground", {"courses"}) /\ Ask("ground", {"courses"}, "courses", Unset)
handleCreateTee ==
  /\ "courses" \in known.ground /\ ~Pending("ground", {"tees"})
  /\ Ask("ground", {"tees"}, "tees", Unset)
TypeDraft(k, text) ==
  /\ Unlocked(k) /\ form' = [form EXCEPT ![k].text = text]
  /\ UNCHANGED <<ground, shelf, snapshot, known, sent, writes, published>>
startEditingPricingMatrix(i) ==
  /\ Unlocked(Matrices) /\ i \in Drafted(Matrices)
  /\ form' = [form EXCEPT ![Matrices] = [of |-> i, text |-> known.shelf[i].text]]
  /\ UNCHANGED <<ground, shelf, snapshot, known, sent, writes, published>>
resetPricingDraft ==
  /\ form[Matrices].of # Unset
  /\ form' = [form EXCEPT ![Matrices] = Clean]
  /\ UNCHANGED <<ground, shelf, snapshot, known, sent, writes, published>>
(* A new record, or the draft being edited; one save of a kind at a time.     *)
handleSaveDraft(k) ==
  /\ Unlocked(k) /\ form[k].text # Unset /\ ~Pending("save", k)
  /\ \E i \in IF form[k].of # Unset THEN {form[k].of}
              ELSE k \ (Made(shelf) \union {r.item : r \in sent}) :
       Ask("save", k, i, form[k].text)
handlePublish(k, i) ==
  /\ Unlocked(k) /\ i \in Drafted(k) /\ ~Pending("publish", k)
  /\ Ask("publish", k, i, Unset)
handleRollback(k) ==
  /\ Unlocked(k) /\ InForce(known.shelf, k) # {} /\ ~Pending("rollback", k)
  /\ Ask("rollback", k, Unset, Unset)

(* The answer: every query is read again, then the form is blank.             *)
Answered(r) ==
  /\ r \in sent /\ sent' = sent \ {r}
  /\ IF Refuses(r)
     THEN UNCHANGED <<ground, shelf, snapshot, known, form, writes, published>>
     ELSE /\ Serves(r) /\ writes' = writes + 1
          /\ known' = [ground |-> ground', shelf |-> shelf']
          /\ form' = IF r.op = "save" THEN [form EXCEPT ![r.kind] = Clean] ELSE form
(* The other administrator, whose page this one does not hear of.             *)
OtherAdmin ==
  /\ writes + Cardinality(sent) < MaxWrites /\ writes' = writes + 1
  /\ \/ \E i \in Made(shelf) : \/ PublishSet(i)
                              \/ \E t \in Wordings : ~shelf[i].active /\ SaveSet(i, t)
     \/ \E k \in SetKinds : RollbackSet(k)
  /\ UNCHANGED <<known, form, sent>>
RereadSettings ==
  /\ known' = [ground |-> ground, shelf |-> shelf] /\ known' # known
  /\ UNCHANGED <<ground, shelf, snapshot, form, sent, writes, published>>

GolfNext ==
  \/ handleCreateCourse \/ handleCreateTee \/ resetPricingDraft
  \/ \E k \in SetKinds : \/ handleSaveDraft(k) \/ handleRollback(k)
                          \/ \E t \in Wordings : TypeDraft(k, t)
  \/ \E k \in SetKinds, i \in Items : i \in k /\ handlePublish(k, i)
  \/ \E i \in Matrices : startEditingPricingMatrix(i)
  \/ \E r \in sent : Answered(r)
  \/ OtherAdmin \/ RereadSettings
GolfSpec == GolfInit /\ [][GolfNext]_golfVars

-----------------------------------------------------------------------------
SetRecord == [active : BOOLEAN, text : Wordings]
Shelves == [Items -> SetRecord \union {Unset}]
GolfTypeOK ==
  /\ ground \subseteq Parts /\ shelf \in Shelves
  /\ snapshot \in [SetKinds -> [text : Wordings, source : Items] \union {Unset}]
  /\ known \in [ground : SUBSET Parts, shelf : Shelves]
  /\ form \in [SetKinds -> [of : Items \union {Unset}, text : Wordings \union {Unset}]]
  /\ \A k \in SetKinds : form[k].of \in k \union {Unset}
  /\ sent \subseteq [item : Parts \union Items \union {Unset},
                    kind : SetKinds \union {{part} : part \in Parts},
                    text : Wordings \union {Unset},
                    op : {"ground", "save", "publish", "rollback"}]
  /\ writes \in 0..MaxWrites /\ published \in [Items -> SUBSET Wordings]
(* What the club plays and pays by was put there by a publication or by a     *)
(* rollback to something once published, with exactly that text: a draft      *)
(* saved over a record that went into force meanwhile takes it out of force,  *)
(* it never changes it in place.  And one of a kind at most is in force.      *)
OnlyPublishedInForce ==
  \A k \in SetKinds :
    /\ Cardinality(InForce(shelf, k)) <= 1
    /\ \A i \in InForce(shelf, k) : shelf[i].text \in published[i]
    /\ snapshot[k] # Unset => snapshot[k].text \in published[snapshot[k].source]
=============================================================================
