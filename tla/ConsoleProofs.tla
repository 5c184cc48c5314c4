----------------------------- MODULE ConsoleProofs ----------------------------
(***************************************************************************)
(* Proofs about the surfaces of the browser, each for any number of its    *)
(* records and requests. The surfaces share no state: a section states one *)
(* surface's invariant, the lemmas of its actions and its theorems; the     *)
(* last puts them together, with those of the sheet pages (SheetProofs).   *)
(***************************************************************************)
EXTENDS MCConsole, SheetProofs, FiniteSetTheorems, SequenceTheorems, TLAPS

-----------------------------------------------------------------------------
(***************************************************************************)
(* GolfSettings: what is in force was published.                           *)
(***************************************************************************)

\* What a shelf holds: records of a text and whether it is in force, or nothing.
Shelved(s) ==
  /\ s = [i \in Items |-> s[i]]
  /\ \A i \in Made(s) : /\ s[i] = [text |-> s[i].text, active |-> s[i].active]
                        /\ s[i].active \in BOOLEAN
\* In a shelf, one of a kind is in force at most, with a text that was published.
AtMostOne(s) == \A k \in SetKinds : \A i, j \in InForce(s, k) : i = j
TextsPublished(s, pub) == \A k \in SetKinds : \A i \in InForce(s, k) : s[i].text \in pub[i]
\* A snapshot holds a published text of a record of its kind.
Sourced(snap, pub) ==
  /\ snap = [k \in SetKinds |-> snap[k]]
  /\ \A k \in SetKinds :
       snap[k] # Unset => snap[k].source \in k /\ snap[k].text \in pub[snap[k].source]
Rollbacks == \A r \in sent : r.op = "rollback" => r.kind \in SetKinds

\* The invariant: a publication leaves nothing else of its kind in force and keeps the text it
\* took over from in the snapshot, which is where a rollback finds it.
InForceInv ==
  /\ Shelved(shelf) /\ AtMostOne(shelf) /\ TextsPublished(shelf, published)
  /\ Sourced(snapshot, published) /\ published = [i \in Items |-> published[i]]
  /\ Rollbacks

LEMMA KindsKnown ==
  /\ \A i \in Items : KindOf(i) \in SetKinds /\ i \in KindOf(i)
  /\ \A k \in SetKinds : \A i \in k : i \in Items /\ KindOf(i) = k
BY SettingsAssumption DEF KindOf, SetKinds, Items

\* What is put in force leaves nothing else of its kind so, and the other kind as it was.
LEMMA OnlyActiveKeeps ==
  ASSUME NEW s, Shelved(s), NEW i \in Items, NEW text
  PROVE  LET o == OnlyActive(s, i, text) IN
         /\ Shelved(o) /\ InForce(o, KindOf(i)) \subseteq {i} /\ o[i].text = text
         /\ \A k \in SetKinds \ {KindOf(i)} : \A j \in InForce(o, k) :
              j \in InForce(s, k) /\ o[j] = s[j]
<1> DEFINE o == OnlyActive(s, i, text)
           mine == [active |-> TRUE, text |-> text]
           off(j) == [active |-> FALSE, text |-> s[j].text]
<1>2. o = [j \in Items |-> IF j = i THEN mine
             ELSE IF j \in Made(s) \intersect KindOf(i) THEN off(j) ELSE s[j]]
  BY DEF OnlyActive
<1>3. mine.active = TRUE /\ mine.text = text /\ mine = [text |-> mine.text, active |-> mine.active]
  OBVIOUS
<1>4. \A j \in Made(s) : /\ off(j).active = FALSE
                         /\ off(j) = [text |-> off(j).text, active |-> off(j).active]
  OBVIOUS
<1> HIDE DEF o, mine, off
<1>5. o[i] = mine BY <1>2
<1>6. \A j \in Items \ {i} : j \in Made(s) \intersect KindOf(i) => o[j] = off(j) BY <1>2
<1>7. \A j \in Items \ {i} : j \notin Made(s) \intersect KindOf(i) => o[j] = s[j] BY <1>2
<1>8. \A j \in Made(o) : j = i \/ j \in Made(s) BY <1>7 DEF Made
<1>9. Shelved(o)
  <2>1. o = [j \in Items |-> o[j]] BY <1>2
  <2>2. \A j \in Made(o) : o[j] = [text |-> o[j].text, active |-> o[j].active]
    BY <1>3, <1>4, <1>5, <1>6, <1>7, <1>8 DEF Shelved, Made
  <2>3. \A j \in Made(o) : o[j].active \in BOOLEAN
    <3> SUFFICES ASSUME NEW j \in Made(o) PROVE o[j].active \in BOOLEAN OBVIOUS
    <3>1. CASE j = i BY <1>3, <1>5, <3>1
    <3>2. CASE j # i /\ o[j] = off(j)
      <4>1. j \in Made(s) BY <1>8, <3>2
      <4>2. o[j].active = FALSE BY <1>4, <3>2, <4>1
      <4> QED BY <4>2
    <3>3. CASE j # i /\ o[j] = s[j]
      <4>1. j \in Made(s) BY <1>8, <3>3
      <4> QED BY <3>3, <4>1 DEF Shelved
    <3> QED BY <1>6, <1>7, <3>1, <3>2, <3>3 DEF Made
  <2> QED BY <2>1, <2>2, <2>3 DEF Shelved
<1>10. InForce(o, KindOf(i)) \subseteq {i}
  <2> SUFFICES ASSUME NEW j \in InForce(o, KindOf(i)), j # i PROVE FALSE OBVIOUS
  <2>1. j \in Items /\ j \in Made(o) /\ j \in KindOf(i) /\ o[j].active
    BY DEF InForce, Made
  <2>2. j \in Made(s) BY <1>8, <2>1
  <2>3. o[j] = off(j) BY <1>6, <2>1, <2>2
  <2>4. o[j].active = FALSE BY <1>4, <2>2, <2>3
  <2> QED BY <2>1, <2>4
<1>11. \A k \in SetKinds \ {KindOf(i)} : \A j \in InForce(o, k) : j \in InForce(s, k) /\ o[j] = s[j]
  <2> SUFFICES ASSUME NEW k \in SetKinds \ {KindOf(i)}, NEW j \in InForce(o, k)
               PROVE  j \in InForce(s, k) /\ o[j] = s[j]
    OBVIOUS
  <2>1. j \in Made(o) /\ j \in k /\ o[j].active BY DEF InForce
  <2>2. j # i /\ j \notin KindOf(i) /\ j \in Items BY <2>1, KindsKnown
  <2>3. o[j] = s[j] BY <1>7, <2>2
  <2>4. j \in Made(s) BY <1>8, <2>1, <2>2
  <2> QED BY <2>1, <2>3, <2>4 DEF InForce
<1> QED BY <1>3, <1>5, <1>9, <1>10, <1>11 DEF o

\* The snapshot of what was in force is sourced.
LEMMA SnapshotSourced ==
  ASSUME InForceInv, NEW k \in SetKinds, NEW others \in SUBSET InForce(shelf, k)
  PROVE  Sourced([snapshot EXCEPT ![k] = SnapshotOf(k, others)], published)
<1> DEFINE t == SnapshotOf(k, others)
           snap == [snapshot EXCEPT ![k] = t]
<1>1. t # Unset => t.source \in k /\ t.text \in published[t.source]
  <2>1. CASE others = {} BY <2>1 DEF SnapshotOf, InForceInv, Sourced
  <2>2. CASE others # {}
    <3>1. PICK i \in others : t = [text |-> shelf[i].text, source |-> i] BY <2>2 DEF SnapshotOf
    <3>2. t.source = i /\ t.text = shelf[i].text BY <3>1
    <3>3. i \in InForce(shelf, k) /\ i \in k BY DEF InForce
    <3> QED BY <3>2, <3>3 DEF InForceInv, TextsPublished
  <2> QED BY <2>1, <2>2
<1> HIDE DEF t
<1>2. snap = [j \in SetKinds |-> snap[j]] /\ snap[k] = t
      /\ \A j \in SetKinds \ {k} : snap[j] = snapshot[j]
  BY DEF InForceInv, Sourced
<1> QED BY <1>1, <1>2 DEF InForceInv, Sourced, t

\* What was published stays so.
LEMMA PublishedGrows ==
  ASSUME NEW s, NEW snap, NEW pub, NEW more,
         \A i \in Items : pub[i] \subseteq more[i],
         TextsPublished(s, pub), Sourced(snap, pub)
  PROVE  TextsPublished(s, more) /\ Sourced(snap, more)
<1>1. \A k \in SetKinds : \A i \in InForce(s, k) : i \in Items BY DEF InForce, Made
<1> QED BY <1>1, KindsKnown DEF TextsPublished, Sourced

\* A text that was published put in force, for a record of its kind, is all a publication
\* and a rollback do to the shelf.
LEMMA PutInForce ==
  ASSUME InForceInv, NEW i \in Items, NEW text, NEW pub,
         \A j \in Items : published[j] \subseteq pub[j], text \in pub[i],
         shelf' = OnlyActive(shelf, i, text)
  PROVE  Shelved(shelf') /\ AtMostOne(shelf') /\ TextsPublished(shelf', pub)
<1> DEFINE o == OnlyActive(shelf, i, text)
<1>1. /\ Shelved(o) /\ InForce(o, KindOf(i)) \subseteq {i} /\ o[i].text = text
      /\ \A k \in SetKinds \ {KindOf(i)} : \A j \in InForce(o, k) :
           j \in InForce(shelf, k) /\ o[j] = shelf[j]
  BY OnlyActiveKeeps DEF InForceInv
<1>2. shelf' = o OBVIOUS
<1> HIDE DEF o
<1>3. AtMostOne(o) BY <1>1 DEF AtMostOne, InForceInv
<1>4. TextsPublished(shelf, pub) BY PublishedGrows DEF InForceInv
<1>5. TextsPublished(o, pub) BY <1>1, <1>4 DEF TextsPublished
<1> QED BY <1>1, <1>2, <1>3, <1>5

-----------------------------------------------------------------------------
\* The club's records under each request.  The answer, or the other administrator, does the rest.
LEMMA SavedInv ==
  ASSUME InForceInv, NEW i, NEW text, SaveSet(i, text), Rollbacks' PROVE InForceInv'
<1> DEFINE draft == [active |-> FALSE, text |-> text]
<1>1. shelf' = [shelf EXCEPT ![i] = draft] BY DEF SaveSet
<1>2. draft.active = FALSE /\ draft = [text |-> draft.text, active |-> draft.active] OBVIOUS
<1> HIDE DEF draft
<1>3. shelf' = [j \in Items |-> shelf'[j]] BY <1>1 DEF InForceInv, Shelved
<1>4. \A j \in Items : j # i => shelf'[j] = shelf[j] BY <1>1 DEF InForceInv, Shelved
<1>5. i \in Items => shelf'[i] = draft BY <1>1 DEF InForceInv, Shelved
<1>6. Shelved(shelf')
  <2>1. \A j \in Made(shelf') : j = i \/ j \in Made(shelf) BY <1>4 DEF Made
  <2>2. \A j \in Made(shelf') : j \in Items BY DEF Made
  <2>3. \A j \in Made(shelf') : shelf'[j] = [text |-> shelf'[j].text, active |-> shelf'[j].active]
    BY <1>2, <1>4, <1>5, <2>1, <2>2 DEF InForceInv, Shelved
  <2>4. \A j \in Made(shelf') : shelf'[j].active \in BOOLEAN
    <3> SUFFICES ASSUME NEW j \in Made(shelf') PROVE shelf'[j].active \in BOOLEAN OBVIOUS
    <3>1. CASE j = i
      <4>1. shelf'[j].active = FALSE BY <1>2, <1>5, <2>2, <3>1
      <4> QED BY <4>1
    <3>2. CASE j # i BY <1>4, <2>1, <2>2, <3>2 DEF InForceInv, Shelved
    <3> QED BY <3>1, <3>2
  <2> QED BY <1>3, <2>3, <2>4 DEF Shelved
<1>7. \A k \in SetKinds : \A j \in InForce(shelf', k) :
        j \in InForce(shelf, k) /\ shelf'[j] = shelf[j]
  <2> SUFFICES ASSUME NEW k \in SetKinds, NEW j \in InForce(shelf', k)
               PROVE  j \in InForce(shelf, k) /\ shelf'[j] = shelf[j]
    OBVIOUS
  <2>1. j \in Items /\ j \in Made(shelf') /\ j \in k /\ shelf'[j].active BY DEF InForce, Made
  <2>2. j # i
    <3> SUFFICES ASSUME j = i PROVE FALSE OBVIOUS
    <3>1. shelf'[j].active = FALSE BY <1>2, <1>5, <2>1
    <3> QED BY <2>1, <3>1
  <2>3. shelf'[j] = shelf[j] BY <1>4, <2>1, <2>2
  <2>4. j \in Made(shelf) BY <2>1, <2>3 DEF Made
  <2> QED BY <2>1, <2>3, <2>4 DEF InForce
<1>8. AtMostOne(shelf') BY <1>7 DEF AtMostOne, InForceInv
<1>9. TextsPublished(shelf', published) BY <1>7 DEF TextsPublished, InForceInv
<1> QED BY <1>6, <1>8, <1>9 DEF InForceInv, SaveSet

LEMMA PublishInv ==
  ASSUME InForceInv, NEW i, PublishSet(i), Rollbacks' PROVE InForceInv'
<1> DEFINE k == KindOf(i)
<1>1. /\ i \in Items
      /\ snapshot' = [snapshot EXCEPT ![k] = SnapshotOf(k, InForce(shelf, k) \ {i})]
      /\ shelf' = OnlyActive(shelf, i, shelf[i].text)
      /\ published' = [published EXCEPT ![i] = @ \union {shelf[i].text}]
  BY DEF PublishSet, Made
<1>2. k \in SetKinds BY <1>1, KindsKnown
<1> HIDE DEF k
<1>3. /\ published' = [j \in Items |-> published'[j]]
      /\ \A j \in Items : published[j] \subseteq published'[j]
      /\ shelf[i].text \in published'[i]
  BY <1>1 DEF InForceInv
<1>4. Sourced(snapshot', published)
  <2>1. InForce(shelf, k) \ {i} \in SUBSET InForce(shelf, k) OBVIOUS
  <2> QED BY <1>1, <1>2, <2>1, SnapshotSourced
<1>5. Sourced(snapshot', published')
  BY <1>3, <1>4, PublishedGrows DEF InForceInv
<1>6. Shelved(shelf') /\ AtMostOne(shelf') /\ TextsPublished(shelf', published')
  BY <1>1, <1>3, PutInForce
<1> QED BY <1>3, <1>5, <1>6 DEF InForceInv

LEMMA RollbackInv ==
  ASSUME InForceInv, NEW k \in SetKinds, RollbackSet(k), Rollbacks' PROVE InForceInv'
<1> DEFINE i == snapshot[k].source
<1>1. /\ snapshot' = [snapshot EXCEPT ![k] = SnapshotOf(k, InForce(shelf, k))]
      /\ shelf' = OnlyActive(shelf, i, snapshot[k].text) /\ UNCHANGED published
  BY DEF RollbackSet
<1>2. i \in Items /\ snapshot[k].text \in published[i]
  BY KindsKnown DEF RollbackSet, InForceInv, Sourced
<1> HIDE DEF i
<1>3. Sourced(snapshot', published) BY <1>1, SnapshotSourced
<1>4. Shelved(shelf') /\ AtMostOne(shelf') /\ TextsPublished(shelf', published)
  BY <1>1, <1>2, PutInForce
<1> QED BY <1>1, <1>3, <1>4 DEF InForceInv

\* A request is sent, or nothing of the club's records changes.
LEMMA GolfAskInv ==
  ASSUME InForceInv, NEW op, NEW k, NEW i, NEW text, Ask(op, k, i, text),
         op = "rollback" => k \in SetKinds
  PROVE  InForceInv'
<1>1. Rollbacks' BY DEF Ask, InForceInv, Rollbacks
<1> QED BY <1>1 DEF Ask, InForceInv
LEMMA GolfSameInv ==
  ASSUME InForceInv, UNCHANGED <<shelf, snapshot, published, sent>> PROVE InForceInv'
BY DEF InForceInv, Rollbacks

-----------------------------------------------------------------------------
LEMMA GolfInitInv == ASSUME GolfInit PROVE InForceInv
<1>1. PICK has \in {{}, Founded}, t \in Wordings :
        /\ shelf = [i \in Items |-> IF i \in has THEN [active |-> TRUE, text |-> t] ELSE Unset]
        /\ published = [i \in Items |-> IF i \in has THEN {t} ELSE {}]
  BY DEF GolfInit
<1>2. PICK new : new = [active |-> TRUE, text |-> t] OBVIOUS
<1>3. new.active = TRUE /\ new.text = t /\ new = [text |-> new.text, active |-> new.active]
  BY <1>2
<1>4. shelf = [i \in Items |-> IF i \in has THEN new ELSE Unset] BY <1>1, <1>2
<1>5. /\ Made(shelf) \subseteq has /\ \A i \in Made(shelf) : shelf[i] = new /\ i \in Items
  BY <1>4 DEF Made
<1>6. \A k \in SetKinds : InForce(shelf, k) \subseteq Founded \intersect k BY <1>5 DEF InForce
<1>7. AtMostOne(shelf) BY <1>6, SettingsAssumption DEF AtMostOne, SetKinds
<1>8. \A i \in Made(shelf) : shelf[i].text \in published[i] BY <1>1, <1>3, <1>5
<1>9. TextsPublished(shelf, published) BY <1>8 DEF TextsPublished, InForce
<1>10. Shelved(shelf)
  <2>1. shelf = [i \in Items |-> shelf[i]] BY <1>4
  <2>2. \A i \in Made(shelf) : shelf[i].active \in BOOLEAN
    <3> SUFFICES ASSUME NEW i \in Made(shelf) PROVE shelf[i].active \in BOOLEAN OBVIOUS
    <3>1. shelf[i].active = TRUE BY <1>3, <1>5
    <3> QED BY <3>1
  <2> QED BY <1>3, <1>5, <2>1, <2>2 DEF Shelved
<1> QED BY <1>1, <1>7, <1>9, <1>10 DEF GolfInit, InForceInv, Sourced, Rollbacks

LEMMA SettingsAnsweredInv ==
  ASSUME InForceInv, NEW r \in sent, Answered(r) PROVE InForceInv'
<1>1. Rollbacks' BY DEF Answered, InForceInv, Rollbacks
<1>2. CASE Refuses(r) BY <1>1, <1>2 DEF Answered, InForceInv
<1>3. CASE ~Refuses(r)
  <2>1. Serves(r) BY <1>3 DEF Answered
  <2>2. CASE r.op = "ground"
    BY <1>1, <2>1, <2>2 DEF Serves, CreateGround, InForceInv
  <2>3. CASE r.op = "save" BY <1>1, <2>1, <2>3, SavedInv DEF Serves
  <2>4. CASE r.op = "publish" BY <1>1, <2>1, <2>4, PublishInv DEF Serves
  <2>5. CASE r.op = "rollback"
    <3>1. r.kind \in SetKinds BY <2>5 DEF InForceInv, Rollbacks
    <3> QED BY <1>1, <2>1, <2>5, <3>1, RollbackInv DEF Serves
  <2> QED BY <2>1, <2>2, <2>3, <2>4, <2>5 DEF Serves
<1> QED BY <1>2, <1>3

LEMMA GolfStepInv ==
  ASSUME InForceInv, [GolfNext]_golfVars PROVE InForceInv'
<1>1. CASE UNCHANGED golfVars BY <1>1, GolfSameInv DEF golfVars
<1>2. CASE handleCreateCourse BY <1>2, GolfAskInv DEF handleCreateCourse
<1>3. CASE handleCreateTee BY <1>3, GolfAskInv DEF handleCreateTee
<1>4. CASE resetPricingDraft BY <1>4, GolfSameInv DEF resetPricingDraft
<1>5. ASSUME NEW k \in SetKinds, handleSaveDraft(k) PROVE InForceInv'
  BY <1>5, GolfAskInv DEF handleSaveDraft
<1>6. ASSUME NEW k \in SetKinds, handleRollback(k) PROVE InForceInv'
  BY <1>6, GolfAskInv DEF handleRollback
<1>7. ASSUME NEW k \in SetKinds, NEW t \in Wordings, TypeDraft(k, t) PROVE InForceInv'
  BY <1>7, GolfSameInv DEF TypeDraft
<1>8. ASSUME NEW k \in SetKinds, NEW i \in Items, handlePublish(k, i) PROVE InForceInv'
  BY <1>8, GolfAskInv DEF handlePublish
<1>9. ASSUME NEW i \in Matrices, startEditingPricingMatrix(i) PROVE InForceInv'
  BY <1>9, GolfSameInv DEF startEditingPricingMatrix
<1>10. ASSUME NEW r \in sent, Answered(r) PROVE InForceInv' BY <1>10, SettingsAnsweredInv
<1>11. CASE OtherAdmin
  <2>1. Rollbacks' BY <1>11 DEF OtherAdmin, InForceInv, Rollbacks
  <2> QED BY <1>11, <2>1, SavedInv, PublishInv, RollbackInv DEF OtherAdmin
<1>12. CASE RereadSettings BY <1>12, GolfSameInv DEF RereadSettings
<1> QED BY <1>1, <1>2, <1>3, <1>4, <1>5, <1>6, <1>7, <1>8, <1>9, <1>10, <1>11, <1>12 DEF GolfNext

LEMMA OneAtMost == ASSUME NEW S, \A i, j \in S : i = j PROVE Cardinality(S) <= 1
<1>1. CASE S = {} BY <1>1, FS_EmptySet
<1>2. CASE S # {}
  <2>1. PICK i : S = {i} BY <1>2
  <2>2. Cardinality({i}) = 1 BY FS_Singleton
  <2>3. Cardinality(S) = 1 BY <2>1, <2>2, Zenon
  <2> QED BY <2>3
<1> QED BY <1>1, <1>2

\* Whoever saves, publishes and rolls back, and in whatever order, what is in force was
\* published with the text it has, and is the only one of its kind.
THEOREM PublishedInForce == GolfSpec => []OnlyPublishedInForce
<1>1. InForceInv => OnlyPublishedInForce
  BY OneAtMost DEF InForceInv, AtMostOne, TextsPublished, Sourced, OnlyPublishedInForce
<1> QED BY <1>1, GolfInitInv, GolfStepInv, PTL DEF GolfSpec

-----------------------------------------------------------------------------
\* What the club, the page and a snapshot say is a wording, and a draft is one of its kind.
ShelfShaped(s) == s \in Shelves
Drafts == [of : Items \union {Unset}, text : Wordings \union {Unset}]
FormRight ==
  form \in [SetKinds -> Drafts] /\ \A k \in SetKinds : form[k].of \in k \union {Unset}
Snapped == [text : Wordings, source : Items]
SnapshotWorded == snapshot \in [SetKinds -> Snapped \union {Unset}]
AskOf ==
  [item : Parts \union Items \union {Unset},
   kind : SetKinds \union {{part} : part \in Parts},
   text : Wordings \union {Unset}, op : {"ground", "save", "publish", "rollback"}]
AsksRight ==
  /\ sent \subseteq AskOf
  /\ \A r \in sent : /\ r.op = "ground" => r.item \in Parts
                     /\ r.op = "save" => r.item \in Items /\ r.text \in Wordings
                     /\ r.op = "save" => r.kind \in SetKinds
                     /\ r.op = "rollback" => r.kind \in SetKinds
\* A write is made by a request that was counted, or by the other administrator.
WritesCounted == writes \in Nat /\ IsFiniteSet(sent) /\ writes + Cardinality(sent) <= MaxWrites
GolfInv ==
  /\ ground \subseteq Parts /\ ShelfShaped(shelf)
  /\ known \in [ground : SUBSET Parts, shelf : Shelves]
  /\ FormRight /\ SnapshotWorded /\ AsksRight /\ WritesCounted
  /\ published \in [Items -> SUBSET Wordings]

LEMMA GolfInvTypes == ASSUME GolfInv PROVE GolfTypeOK
<1>1. Cardinality(sent) \in Nat BY FS_CardinalityType DEF GolfInv, WritesCounted
<1>2. writes \in 0..MaxWrites BY <1>1, SettingsAssumption DEF GolfInv, WritesCounted
<1> QED BY <1>2
  DEF GolfInv, GolfTypeOK, ShelfShaped, FormRight, Drafts, SnapshotWorded, Snapped, AsksRight,
      AskOf

LEMMA GolfStarts == ASSUME GolfInit PROVE GolfInv
<1>1. FormRight BY DEF GolfInit, FormRight, Clean, Drafts
<1>2. WritesCounted BY FS_EmptySet, SettingsAssumption DEF GolfInit, WritesCounted
<1>3. PICK has \in {{}, Founded}, t \in Wordings :
        /\ ground = IF has = {} THEN {} ELSE Parts
        /\ shelf = [i \in Items |-> IF i \in has THEN [active |-> TRUE, text |-> t] ELSE Unset]
        /\ published = [i \in Items |-> IF i \in has THEN {t} ELSE {}]
  BY DEF GolfInit
<1>4. PICK new \in SetRecord : new = [active |-> TRUE, text |-> t]
  <2>1. TRUE \in BOOLEAN OBVIOUS
  <2> QED BY <2>1, Zenon DEF SetRecord
<1>5. shelf = [i \in Items |-> IF i \in has THEN new ELSE Unset] BY <1>3, <1>4
<1>6. shelf \in Shelves BY <1>5 DEF Shelves
<1>7. published \in [Items -> SUBSET Wordings] BY <1>3
<1>8. known \in [ground : SUBSET Parts, shelf : Shelves] BY DEF GolfInit, Shelves
<1>9. ground \subseteq Parts BY <1>3
<1> QED BY <1>1, <1>2, <1>6, <1>7, <1>8, <1>9
  DEF GolfInit, GolfInv, ShelfShaped, SnapshotWorded, AsksRight

LEMMA RecordTyped ==
  ASSUME NEW s \in Shelves, NEW i \in Items, s[i] # Unset
  PROVE  s[i] \in SetRecord /\ s[i].text \in Wordings
BY DEF Shelves, SetRecord

LEMMA OnlyActiveWorded ==
  ASSUME NEW s, ShelfShaped(s), NEW i \in Items, NEW text \in Wordings
  PROVE  ShelfShaped(OnlyActive(s, i, text))
<1>1. PICK mine \in SetRecord : mine = [active |-> TRUE, text |-> text]
  <2>1. TRUE \in BOOLEAN OBVIOUS
  <2> QED BY <2>1, Zenon DEF SetRecord
<1>2. \A t \in Wordings : [active |-> FALSE, text |-> t] \in SetRecord
  <2>1. FALSE \in BOOLEAN OBVIOUS
  <2> QED BY <2>1, Zenon DEF SetRecord
<1>3. OnlyActive(s, i, text) =
        [j \in Items |-> IF j = i THEN mine
           ELSE IF j \in Made(s) \intersect KindOf(i) THEN [active |-> FALSE, text |-> s[j].text]
           ELSE s[j]]
  BY <1>1 DEF OnlyActive
<1>4. \A j \in Made(s) : s[j].text \in Wordings BY RecordTyped DEF Made, ShelfShaped
<1>5. \A j \in Made(s) : [active |-> FALSE, text |-> s[j].text] \in SetRecord
  BY <1>2, <1>4, Zenon
<1> QED BY <1>3, <1>5 DEF ShelfShaped, Shelves

LEMMA SnapshotKept ==
  ASSUME GolfInv, NEW k \in SetKinds, NEW others \in SUBSET InForce(shelf, k),
         snapshot' = [snapshot EXCEPT ![k] = SnapshotOf(k, others)]
  PROVE  SnapshotWorded'
<1>1. SnapshotOf(k, others) \in Snapped \union {Unset}
  <2>1. CASE others = {} BY <2>1 DEF SnapshotOf, GolfInv, SnapshotWorded
  <2>2. CASE others # {}
    <3>1. PICK i \in others : SnapshotOf(k, others) = [text |-> shelf[i].text, source |-> i]
      BY <2>2 DEF SnapshotOf
    <3>2. i \in Items /\ shelf[i] # Unset BY DEF InForce, Made
    <3>3. shelf[i].text \in Wordings BY <3>2, RecordTyped DEF GolfInv, ShelfShaped
    <3> QED BY <3>1, <3>2, <3>3 DEF Snapped
  <2> QED BY <2>1, <2>2
<1> QED BY <1>1 DEF GolfInv, SnapshotWorded

\* What the club's records become under each request.
RecordsRight ==
  /\ ground \subseteq Parts /\ ShelfShaped(shelf) /\ SnapshotWorded
  /\ published \in [Items -> SUBSET Wordings]
LEMMA SaveWords ==
  ASSUME GolfInv, NEW i \in Items, NEW text \in Wordings, SaveSet(i, text) PROVE RecordsRight'
<1>1. PICK draft \in SetRecord : draft = [active |-> FALSE, text |-> text]
  <2>1. FALSE \in BOOLEAN OBVIOUS
  <2> QED BY <2>1, Zenon DEF SetRecord
<1>2. shelf' = [shelf EXCEPT ![i] = draft] BY <1>1 DEF SaveSet
<1>3. shelf' \in Shelves BY <1>2 DEF GolfInv, ShelfShaped, Shelves
<1> QED BY <1>3 DEF GolfInv, RecordsRight, SaveSet, SnapshotWorded, ShelfShaped
LEMMA PublishWords ==
  ASSUME GolfInv, NEW i, PublishSet(i) PROVE RecordsRight'
<1>1. /\ i \in Items /\ shelf[i] # Unset
      /\ snapshot' = [snapshot EXCEPT ![KindOf(i)] =
                        SnapshotOf(KindOf(i), InForce(shelf, KindOf(i)) \ {i})]
      /\ shelf' = OnlyActive(shelf, i, shelf[i].text) /\ ground' = ground
      /\ published' = [published EXCEPT ![i] = published[i] \union {shelf[i].text}]
  BY DEF PublishSet, Made
<1>2. KindOf(i) \in SetKinds BY <1>1, KindsKnown
<1>3. InForce(shelf, KindOf(i)) \ {i} \in SUBSET InForce(shelf, KindOf(i)) OBVIOUS
<1>4. SnapshotWorded' BY <1>1, <1>2, <1>3, SnapshotKept
<1>5. shelf[i].text \in Wordings BY <1>1, RecordTyped DEF GolfInv, ShelfShaped
<1>6. ShelfShaped(shelf') BY <1>1, <1>5, OnlyActiveWorded DEF GolfInv
<1>7. published' \in [Items -> SUBSET Wordings] BY <1>1, <1>5 DEF GolfInv
<1> QED BY <1>1, <1>4, <1>6, <1>7 DEF GolfInv, RecordsRight
LEMMA RollbackWords ==
  ASSUME GolfInv, NEW k \in SetKinds, RollbackSet(k) PROVE RecordsRight'
<1>1. /\ snapshot[k] # Unset
      /\ snapshot' = [snapshot EXCEPT ![k] = SnapshotOf(k, InForce(shelf, k))]
      /\ shelf' = OnlyActive(shelf, snapshot[k].source, snapshot[k].text) /\ ground' = ground
      /\ published' = published
  BY DEF RollbackSet
<1>2. SnapshotWorded' BY <1>1, SnapshotKept
<1>3. snapshot[k].source \in Items /\ snapshot[k].text \in Wordings
  BY <1>1 DEF GolfInv, SnapshotWorded, Snapped
<1>4. ShelfShaped(shelf') BY <1>1, <1>3, OnlyActiveWorded DEF GolfInv
<1> QED BY <1>1, <1>2, <1>4 DEF GolfInv, RecordsRight

-----------------------------------------------------------------------------
\* A request of the page is one of these.
LEMMA AskRight ==
  ASSUME GolfInv, NEW op, NEW k, NEW i, NEW text, Ask(op, k, i, text),
         i \in Parts \union Items \union {Unset}, k \in SetKinds \union {{part} : part \in Parts},
         text \in Wordings \union {Unset}, op \in {"ground", "save", "publish", "rollback"},
         op = "ground" => i \in Parts,
         op = "save" => i \in Items /\ text \in Wordings /\ k \in SetKinds,
         op = "rollback" => k \in SetKinds
  PROVE  GolfInv'
<1>1. PICK r : r = [item |-> i, kind |-> k, text |-> text, op |-> op] OBVIOUS
<1>2. /\ sent' = sent \union {r} /\ writes + Cardinality(sent) < MaxWrites
      /\ UNCHANGED <<ground, shelf, snapshot, known, form, writes, published>>
  BY <1>1 DEF Ask
<1>a. r \in AskOf BY <1>1 DEF AskOf
<1>3. r.item = i /\ r.kind = k /\ r.text = text /\ r.op = op BY <1>1
<1>4. AsksRight' BY <1>2, <1>3, <1>a DEF GolfInv, AsksRight
<1>5. IsFiniteSet(sent') /\ Cardinality(sent) \in Nat
      /\ Cardinality(sent') \in {Cardinality(sent), Cardinality(sent) + 1}
  BY <1>2, FS_AddElement, FS_CardinalityType DEF GolfInv, WritesCounted
<1>6. WritesCounted'
  BY <1>2, <1>5, SettingsAssumption DEF GolfInv, WritesCounted
<1> QED BY <1>2, <1>4, <1>6 DEF GolfInv, FormRight, SnapshotWorded

\* The form is typed over, or the rest stays and the form with it.
LEMMA FormTyped ==
  ASSUME GolfInv, FormRight', UNCHANGED <<ground, shelf, snapshot, known, sent, writes, published>>
  PROVE  GolfInv'
BY DEF GolfInv, SnapshotWorded, AsksRight, WritesCounted
LEMMA FormSet ==
  ASSUME GolfInv, NEW k \in SetKinds, NEW f, form' = [form EXCEPT ![k] = f],
         f \in Drafts, f.of \in k \union {Unset}
  PROVE  FormRight'
BY DEF GolfInv, FormRight

LEMMA AnsweredRight == ASSUME GolfInv, NEW r \in sent, Answered(r) PROVE GolfInv'
<1>1. sent' = sent \ {r} BY DEF Answered
<1>2. AsksRight' BY <1>1 DEF GolfInv, AsksRight
<1>3. IsFiniteSet(sent') /\ Cardinality(sent) \in Nat /\ Cardinality(sent') = Cardinality(sent) - 1
  BY <1>1, FS_RemoveElement, FS_CardinalityType DEF GolfInv, WritesCounted
<1>4. CASE Refuses(r)
  <2>1. UNCHANGED <<ground, shelf, snapshot, known, form, writes, published>>
    BY <1>4 DEF Answered
  <2>2. WritesCounted' BY <1>3, <2>1, SettingsAssumption DEF GolfInv, WritesCounted
  <2> QED BY <1>2, <2>1, <2>2 DEF GolfInv, FormRight, SnapshotWorded
<1>5. CASE ~Refuses(r)
  <2>1. /\ Serves(r) /\ writes' = writes + 1
        /\ known' = [ground |-> ground', shelf |-> shelf']
        /\ form' = IF r.op = "save" THEN [form EXCEPT ![r.kind] = Clean] ELSE form
    BY <1>5 DEF Answered
  <2>2. RecordsRight'
    <3>1. CASE r.op = "ground"
      BY <2>1, <3>1 DEF Serves, CreateGround, GolfInv, AsksRight, RecordsRight, SnapshotWorded
    <3>2. CASE r.op = "save" BY <2>1, <3>2, SaveWords DEF Serves, GolfInv, AsksRight
    <3>3. CASE r.op = "publish" BY <2>1, <3>3, PublishWords DEF Serves
    <3>4. CASE r.op = "rollback" BY <2>1, <3>4, RollbackWords DEF Serves, GolfInv, AsksRight
    <3> QED BY <2>1, <3>1, <3>2, <3>3, <3>4 DEF Serves
  <2>3. FormRight'
    <3>1. Clean \in Drafts /\ Clean.of = Unset BY DEF Clean, Drafts
    <3> QED BY <2>1, <3>1 DEF GolfInv, FormRight, AsksRight
  <2>4. WritesCounted' BY <1>3, <2>1, SettingsAssumption DEF GolfInv, WritesCounted
  <2>5. known' \in [ground : SUBSET Parts, shelf : Shelves]
    BY <2>1, <2>2 DEF RecordsRight, ShelfShaped
  <2> QED BY <1>2, <2>2, <2>3, <2>4, <2>5 DEF GolfInv, RecordsRight
<1> QED BY <1>4, <1>5

LEMMA OtherAdminRight == ASSUME GolfInv, OtherAdmin PROVE GolfInv'
<1>1. /\ writes + Cardinality(sent) < MaxWrites /\ writes' = writes + 1
      /\ UNCHANGED <<known, form, sent>>
  BY DEF OtherAdmin
<1>2. RecordsRight'
  <2>1. \A i \in Made(shelf) : i \in Items BY DEF Made
  <2> QED BY <2>1, PublishWords, SaveWords, RollbackWords DEF OtherAdmin
<1>3. Cardinality(sent) \in Nat BY FS_CardinalityType DEF GolfInv, WritesCounted
<1>4. WritesCounted' BY <1>1, <1>3, SettingsAssumption DEF GolfInv, WritesCounted
<1> QED BY <1>1, <1>2, <1>4 DEF GolfInv, RecordsRight, FormRight, AsksRight

LEMMA GolfStepRight == GolfInv /\ [GolfNext]_golfVars => GolfInv'
<1> SUFFICES ASSUME GolfInv, [GolfNext]_golfVars PROVE GolfInv' OBVIOUS
<1>1. CASE UNCHANGED golfVars
  BY <1>1 DEF golfVars, GolfInv, FormRight, SnapshotWorded, AsksRight, WritesCounted
<1>2. CASE handleCreateCourse BY <1>2, AskRight DEF handleCreateCourse, Parts
<1>3. CASE handleCreateTee BY <1>3, AskRight DEF handleCreateTee, Parts
<1>4. CASE resetPricingDraft
  <2>1. Clean \in Drafts /\ Clean.of = Unset BY DEF Clean, Drafts
  <2>2. Matrices \in SetKinds BY DEF SetKinds
  <2>3. FormRight' BY <1>4, <2>1, <2>2, FormSet DEF resetPricingDraft
  <2> QED BY <1>4, <2>3, FormTyped DEF resetPricingDraft
<1>5. ASSUME NEW k \in SetKinds, handleSaveDraft(k) PROVE GolfInv'
  <2>1. PICK i \in IF form[k].of # Unset THEN {form[k].of}
                   ELSE k \ (Made(shelf) \union {r.item : r \in sent}) :
          Ask("save", k, i, form[k].text)
    BY <1>5 DEF handleSaveDraft
  <2>2. i \in k BY DEF GolfInv, FormRight
  <2>3. i \in Items BY <2>2, KindsKnown
  <2>4. form[k].text \in Wordings BY <1>5 DEF handleSaveDraft, GolfInv, FormRight, Drafts
  <2> QED BY <2>1, <2>3, <2>4, AskRight
<1>6. ASSUME NEW k \in SetKinds, handleRollback(k) PROVE GolfInv'
  BY <1>6, AskRight DEF handleRollback
<1>7. ASSUME NEW k \in SetKinds, NEW t \in Wordings, TypeDraft(k, t) PROVE GolfInv'
  <2>1. form' = [form EXCEPT ![k].text = t] BY <1>7 DEF TypeDraft
  <2>2. PICK f : f = [form[k] EXCEPT !.text = t] OBVIOUS
  <2>3. form' = [form EXCEPT ![k] = f] BY <2>1, <2>2
  <2>4. f = [of |-> form[k].of, text |-> t] BY <2>2 DEF GolfInv, FormRight, Drafts
  <2>5. f.of = form[k].of /\ f \in Drafts BY <2>4 DEF GolfInv, FormRight, Drafts
  <2>6. f.of \in k \union {Unset} BY <2>5 DEF GolfInv, FormRight
  <2>7. FormRight' BY <2>3, <2>5, <2>6, FormSet
  <2> QED BY <1>7, <2>7, FormTyped DEF TypeDraft
<1>8. ASSUME NEW k \in SetKinds, NEW i \in Items, handlePublish(k, i) PROVE GolfInv'
  BY <1>8, AskRight DEF handlePublish
<1>9. ASSUME NEW i \in Matrices, startEditingPricingMatrix(i) PROVE GolfInv'
  <2>1. PICK f : f = [of |-> i, text |-> known.shelf[i].text] OBVIOUS
  <2>2. /\ form' = [form EXCEPT ![Matrices] = f] /\ i \in Drafted(Matrices)
        /\ UNCHANGED <<ground, shelf, snapshot, known, sent, writes, published>>
    BY <1>9, <2>1 DEF startEditingPricingMatrix
  <2>3. i \in Items /\ known.shelf[i] # Unset BY <2>2 DEF Drafted, Made
  <2>4. known.shelf[i].text \in Wordings BY <2>3, RecordTyped DEF GolfInv
  <2>5. f \in Drafts /\ f.of = i BY <2>1, <2>3, <2>4 DEF Drafts
  <2>6. Matrices \in SetKinds BY DEF SetKinds
  <2>7. FormRight' BY <2>2, <2>4, <2>5, <2>6, FormSet
  <2> QED BY <2>2, <2>7, FormTyped
<1>10. ASSUME NEW r \in sent, Answered(r) PROVE GolfInv' BY <1>10, AnsweredRight
<1>11. CASE OtherAdmin BY <1>11, OtherAdminRight
<1>12. CASE RereadSettings
  <2>1. /\ known' = [ground |-> ground, shelf |-> shelf]
        /\ UNCHANGED <<ground, shelf, snapshot, form, sent, writes, published>>
    BY <1>12 DEF RereadSettings
  <2>2. known' \in [ground : SUBSET Parts, shelf : Shelves] BY <2>1 DEF GolfInv, ShelfShaped
  <2> QED BY <2>1, <2>2 DEF GolfInv, FormRight, SnapshotWorded, AsksRight, WritesCounted
<1> QED BY <1>1, <1>2, <1>3, <1>4, <1>5, <1>6, <1>7, <1>8, <1>9, <1>10, <1>11, <1>12 DEF GolfNext

\* The records say what is typed, a draft is one of its kind, and the writes are bounded.
THEOREM GolfTypeCorrect == GolfSpec => []GolfTypeOK
BY GolfInvTypes, GolfStarts, GolfStepRight, PTL DEF GolfSpec

-----------------------------------------------------------------------------
(***************************************************************************)
(* ClubsDesk: what is typed over one club's details is saved to that club. *)
(***************************************************************************)

PicksKnown == [route : ClubOrNone, chosen : ClubOrNone, home : ClubOrNone]
Forms == [of : ClubOrNone, text : Details]
ClubsKnown == [ClubIds -> Club \union {NoClub}]
\* The form shown is the chosen club's.
FormIsTheirs == WorkspaceShown => typed.of = pick.chosen
\* A save is of the form's club, a step is returned from only when it is not the first, and
\* only a deletion has a fallback.
SaveIsSound(p) ==
  /\ p.op = "save" => /\ p.typedFor = p.club
                      /\ p.with.action = "return_to_previous_step" => p.with.acted # 1
  /\ p.step = "fallback" => p.op = "delete"
Sound(p) == RequestOK(p) /\ SaveIsSound(p)

\* The invariant: the effect that fills the form runs with every change of the choice or of
\* what is read, and when the page is mounted, so the form can only be another club's while
\* no details are shown.
ClubsPageInv ==
  /\ listed \subseteq ClubIds /\ read \in ClubsKnown
  /\ cover \in [away : BOOLEAN, loading : BOOLEAN] /\ boots \in [ClubOrNone -> Nat]
  /\ pick \in PicksKnown /\ typed \in Forms /\ invited \in ClubOrNone
  /\ dialogs \subseteq {"create", "delete"} /\ FormIsTheirs
RequestsInv ==
  registry \in ClubsKnown /\ (\A p \in posts : Sound(p)) /\ posted \in 0..MaxPosts
DeskInv == ClubsPageInv /\ RequestsInv

LEMMA BlankIsForm == BlankForm \in Forms /\ BlankForm.text \in Details
BY DeskAssumption DEF BlankForm, Forms, ClubOrNone

LEMMA DeskInitInv == ASSUME ClubsInit PROVE DeskInv
<1>1. NewClub(BlankForm.text) \in Club BY BlankIsForm DEF NewClub, Club
<1>2. registry \in ClubsKnown /\ read \in ClubsKnown BY <1>1 DEF ClubsInit, ClubsKnown
<1>3. pick \in PicksKnown /\ pick.chosen = NoClub
  BY DeskAssumption DEF ClubsInit, PicksKnown, ClubOrNone
<1>4. posted \in 0..MaxPosts BY DeskAssumption DEF ClubsInit
<1>5. ClubsPageInv
  BY <1>2, <1>3, BlankIsForm
     DEF ClubsInit, ClubsPageInv, FormIsTheirs, WorkspaceShown, ClubOrNone
<1> QED BY <1>2, <1>4, <1>5 DEF ClubsInit, DeskInv, RequestsInv

LEMMA RegisteredKnown == Registered \subseteq ClubIds BY DEF Registered
LEMMA FirstKnown ==
  ASSUME NEW list, list \subseteq ClubIds PROVE FirstOf(list) \in ClubOrNone
BY DEF FirstOf, ClubOrNone
LEMMA ChosenKnown ==
  ASSUME NEW list, list \subseteq ClubIds, NEW p PROVE Chosen(list, p) \in ClubOrNone
BY FirstKnown DEF Chosen, ClubOrNone

\* A club's details are a form's.
LEMMA FilledForm ==
  ASSUME NEW f \in ClubsKnown, NEW c \in ClubOrNone, c # NoClub, f[c] # NoClub
  PROVE  [of |-> c, text |-> f[c].text] \in Forms
<1>1. c \in ClubIds BY DEF ClubOrNone
<1>2. f[c] \in Club BY <1>1 DEF ClubsKnown
<1>3. f[c].text \in Details BY <1>2 DEF Club
<1> QED BY <1>3 DEF Forms

\* Whatever a change of list, choice and details is, the form follows it.
LEMMA RendersInv ==
  ASSUME ClubsPageInv, NEW list, list \subseteq ClubIds, NEW p \in PicksKnown,
         NEW rd \in ClubsKnown,
         Renders(list, p, rd), invited' \in ClubOrNone, UNCHANGED dialogs
  PROVE  ClubsPageInv'
<1> DEFINE c == Chosen(list, p)
<1>1. /\ listed' = list /\ read' = rd /\ UNCHANGED <<cover, boots>>
      /\ pick' = IF Mounted THEN [p EXCEPT !.chosen = c] ELSE p
      /\ typed' = IF Mounted THEN Filled(c, rd) ELSE typed
  BY DEF Renders
<1>2. c \in ClubOrNone BY ChosenKnown
<1> HIDE DEF c
<1>3. pick' \in PicksKnown BY <1>1, <1>2 DEF PicksKnown
<1>4. CASE ~Mounted
  <2>1. typed' \in Forms BY <1>1, <1>4 DEF ClubsPageInv
  <2>2. ~Mounted' BY <1>1, <1>4 DEF Mounted
  <2> QED BY <1>1, <1>3, <2>1, <2>2 DEF ClubsPageInv, FormIsTheirs, WorkspaceShown
<1>5. CASE Mounted
  <2>1. pick'.chosen = c /\ typed' = Filled(c, rd) BY <1>1, <1>5 DEF PicksKnown
  <2>2. CASE c = NoClub \/ rd[c] = NoClub
    <3>1. typed' = typed /\ ~WorkspaceShown'
      BY <1>1, <2>1, <2>2 DEF Filled, WorkspaceShown
    <3> QED BY <1>1, <1>3, <3>1 DEF ClubsPageInv, FormIsTheirs
  <2>3. CASE c = pick.chosen /\ rd[c] = read[c] /\ c # NoClub /\ rd[c] # NoClub
    <3>1. typed' = typed BY <2>1, <2>3 DEF Filled
    <3>2. typed.of = c BY <1>5, <2>3 DEF ClubsPageInv, FormIsTheirs, WorkspaceShown
    <3> QED BY <1>1, <1>3, <2>1, <3>1, <3>2 DEF ClubsPageInv, FormIsTheirs
  <2>4. CASE ~(c = pick.chosen /\ rd[c] = read[c]) /\ c # NoClub /\ rd[c] # NoClub
    <3>1. typed' = [of |-> c, text |-> rd[c].text] BY <2>1, <2>4 DEF Filled
    <3>2. typed' \in Forms BY <1>2, <2>4, <3>1, FilledForm
    <3>3. typed'.of = c BY <3>1
    <3> QED BY <1>1, <1>3, <2>1, <3>2, <3>3 DEF ClubsPageInv, FormIsTheirs
  <2> QED BY <2>2, <2>3, <2>4
<1> QED BY <1>4, <1>5

\* A page mounted anew has the form of the club it shows.
LEMMA MountsForm ==
  ASSUME ClubsPageInv, NEW p \in PicksKnown, Mounts(p), UNCHANGED <<listed, read>>
  PROVE  pick' \in PicksKnown /\ typed' \in Forms /\ FormIsTheirs'
<1> DEFINE c == Chosen(listed, [p EXCEPT !.chosen = p.home])
           first == FormOf(p.home, BlankForm)
<1>1. pick' = [p EXCEPT !.chosen = c] /\ typed' = FormOf(c, first) BY DEF Mounts
<1>2. c \in ClubOrNone BY ChosenKnown DEF ClubsPageInv
<1>3. first \in Forms BY BlankIsForm, FilledForm DEF FormOf, ClubsPageInv, PicksKnown
<1> HIDE DEF c, first
<1>4. pick' \in PicksKnown /\ pick'.chosen = c BY <1>1, <1>2 DEF PicksKnown
<1>5. typed' \in Forms BY <1>1, <1>2, <1>3, FilledForm DEF FormOf, ClubsPageInv
<1>6. FormIsTheirs'
  <2>1. SUFFICES ASSUME c # NoClub, read[c] # NoClub PROVE typed'.of = c
    BY <1>4 DEF FormIsTheirs, WorkspaceShown
  <2>2. typed' = [of |-> c, text |-> read[c].text] BY <1>1, <2>1 DEF FormOf
  <2> QED BY <2>2
<1> QED BY <1>4, <1>5, <1>6

\* A page that is torn down holds nothing.
LEMMA TornInv ==
  ASSUME ClubsPageInv, NEW p \in PicksKnown, TornDown(p), ~Mounted',
         listed' \subseteq ClubIds, UNCHANGED read,
         cover' \in [away : BOOLEAN, loading : BOOLEAN], boots' \in [ClubOrNone -> Nat]
  PROVE  ClubsPageInv'
<1>1. pick' \in PicksKnown BY DEF TornDown, PicksKnown, ClubOrNone
<1>2. typed' \in Forms /\ invited' \in ClubOrNone /\ dialogs' \subseteq {"create", "delete"}
  BY BlankIsForm DEF TornDown, ClubOrNone
<1> QED BY <1>1, <1>2 DEF ClubsPageInv, FormIsTheirs, WorkspaceShown

\* One bootstrap more, one less.
LEMMA BootsCount ==
  ASSUME ClubsPageInv, NEW c \in ClubOrNone
  PROVE  /\ [boots EXCEPT ![c] = @ + 1] \in [ClubOrNone -> Nat]
         /\ boots[c] > 0 => [boots EXCEPT ![c] = @ - 1] \in [ClubOrNone -> Nat]
<1>1. PICK k : k = boots[c] OBVIOUS
<1>2. k \in Nat /\ boots \in [ClubOrNone -> Nat] BY <1>1 DEF ClubsPageInv
<1>3. [boots EXCEPT ![c] = k + 1] \in [ClubOrNone -> Nat] BY <1>2
<1>4. k > 0 => k - 1 \in Nat BY <1>2
<1>5. k > 0 => [boots EXCEPT ![c] = k - 1] \in [ClubOrNone -> Nat] BY <1>2, <1>4
<1> QED BY <1>1, <1>3, <1>5

LEMMA SyncInv ==
  ASSUME ClubsPageInv, NEW c \in ClubOrNone, syncSelectedClub(c), listed' \subseteq ClubIds,
         UNCHANGED read
  PROVE  ClubsPageInv'
<1>1. PICK p \in PicksKnown : TornDown(p) BY DEF syncSelectedClub, ClubsPageInv, PicksKnown
<1>2. /\ cover' \in [away : BOOLEAN, loading : BOOLEAN] /\ cover'.loading = TRUE
      /\ boots' \in [ClubOrNone -> Nat]
  <2>1. cover' = [cover EXCEPT !.loading = TRUE] /\ boots' = [boots EXCEPT ![c] = @ + 1]
    BY DEF syncSelectedClub
  <2>2. cover' \in [away : BOOLEAN, loading : BOOLEAN] /\ cover'.loading = TRUE
    BY <2>1 DEF ClubsPageInv
  <2> QED BY <2>1, <2>2, BootsCount
<1>3. ~Mounted' BY <1>2 DEF Mounted
<1> QED BY <1>1, <1>2, <1>3, TornInv

-----------------------------------------------------------------------------
\* A request stays sound as it goes on its way.
Fields(p) == [club |-> p.club, step |-> p.step, n |-> p.n, got |-> p.got, op |-> p.op,
              with |-> p.with, typedFor |-> p.typedFor, watched |-> p.watched]
LEMMA SoundFields == ASSUME NEW p, Sound(p) PROVE p = Fields(p)
BY DEF Sound, RequestOK, Fields
LEMMA SameRequest ==
  ASSUME NEW p, Sound(p), NEW q, q = Fields(q),
         q.club = p.club /\ q.n = p.n /\ q.op = p.op /\ q.with = p.with
                         /\ q.typedFor = p.typedFor,
         q.step \in {"sent", "served", "fallback"}, q.step = "fallback" => q.op = "delete",
         q.got \in Club \union {NoClub},
         q.watched \in BOOLEAN
  PROVE  Sound(q)
<1>1. /\ p.club \in ClubIds /\ p.n \in 1..MaxPosts /\ p.typedFor \in ClubOrNone
      /\ p.op \in {"create", "save", "status", "delete", "invite"} /\ p.with \in Asks(p.op)
  BY DEF Sound, RequestOK
<1>2. RequestOK(q) BY <1>1 DEF RequestOK, Fields
<1> QED BY <1>2 DEF Sound, SaveIsSound

LEMMA UnwatchedSound ==
  ASSUME NEW ps, \A p \in ps : Sound(p) PROVE \A q \in Unwatched(ps) : Sound(q)
<1> SUFFICES ASSUME NEW p \in ps, NEW q, q = [p EXCEPT !.watched = FALSE] PROVE Sound(q)
  BY DEF Unwatched
<1>1. Sound(p) /\ p = Fields(p) BY SoundFields
<1>2. q = [club |-> p.club, step |-> p.step, n |-> p.n, got |-> p.got, op |-> p.op,
           with |-> p.with, typedFor |-> p.typedFor, watched |-> FALSE]
  BY <1>1 DEF Fields
<1>3. q = Fields(q) BY <1>2 DEF Fields
<1>4. p.step \in {"sent", "served", "fallback"} /\ p.got \in Club \union {NoClub}
  BY <1>1 DEF Sound, RequestOK
<1>5. p.step = "fallback" => p.op = "delete" BY <1>1 DEF Sound, SaveIsSound
<1> QED BY <1>1, <1>2, <1>3, <1>4, <1>5, SameRequest

\* A request is sent with the form's club beside its own.
LEMMA PostInv ==
  ASSUME DeskInv, NEW op \in {"create", "save", "status", "delete", "invite"}, NEW c \in ClubIds,
         NEW with \in Asks(op), Post(op, c, with), dialogs' \subseteq dialogs,
         op = "save" => /\ typed.of = c
                        /\ with.action = "return_to_previous_step" => with.acted # 1
  PROVE  DeskInv'
<1> DEFINE new == [club |-> c, step |-> "sent", n |-> posted', got |-> NoClub, op |-> op,
                   with |-> with, typedFor |-> typed.of, watched |-> TRUE]
<1>1. /\ posts' = {p \in posts : p.op # op} \union Unwatched({p \in posts : p.op = op})
                  \union {new}
      /\ UNCHANGED <<registry, listed, read, cover, boots, pick, typed, invited>>
      /\ posted < MaxPosts /\ posted' = posted + 1
  BY DEF Post
<1>2. posted' \in 0..MaxPosts /\ posted' \in 1..MaxPosts
  BY <1>1, DeskAssumption DEF DeskInv, RequestsInv
<1>3. typed.of \in ClubOrNone BY DEF DeskInv, ClubsPageInv, Forms
<1>4. Sound(new) BY <1>2, <1>3 DEF Sound, RequestOK, SaveIsSound
<1>5. \A q \in Unwatched({p \in posts : p.op = op}) : Sound(q)
  <2>1. \A p \in {p \in posts : p.op = op} : Sound(p) BY DEF DeskInv, RequestsInv
  <2> QED BY <2>1, UnwatchedSound
<1> HIDE DEF new
<1>6. RequestsInv' BY <1>1, <1>2, <1>4, <1>5 DEF DeskInv, RequestsInv
<1>7. ClubsPageInv' BY <1>1 DEF DeskInv, ClubsPageInv, FormIsTheirs, WorkspaceShown, Mounted
<1> QED BY <1>6, <1>7 DEF DeskInv

\* The requests go on, or some of them go.
LEMMA FewerPosts ==
  ASSUME RequestsInv, UNCHANGED <<registry, posted>>, NEW ps, ps \subseteq posts,
         posts' = ps \/ posts' = Unwatched(ps)
  PROVE  RequestsInv'
<1>1. \A p \in ps : Sound(p) BY DEF RequestsInv
<1>2. \A p \in posts' : Sound(p) BY <1>1, UnwatchedSound
<1> QED BY <1>2 DEF RequestsInv

LEMMA ServedRight ==
  ASSUME DeskInv, NEW p \in posts, ~Declines(p) PROVE Served(p) \in Club \union {NoClub}
<1>1. /\ p.club \in ClubIds /\ p.with \in Asks(p.op)
      /\ p.op \in {"create", "save", "status", "delete", "invite"} /\ SaveIsSound(p)
  BY DEF DeskInv, RequestsInv, Sound, RequestOK
<1>2. registry[p.club] \in Club \union {NoClub} BY <1>1 DEF DeskInv, RequestsInv, ClubsKnown
<1>3. CASE p.op = "create"
  <2>1. Served(p) = NewClub(p.with) /\ p.with \in Details BY <1>1, <1>3 DEF Served, Asks
  <2> QED BY <2>1 DEF NewClub, Club
<1>4. CASE p.op = "save"
  <2>1. Served(p) = update_onboarding(p) /\ p.with \in Draft BY <1>1, <1>4 DEF Served, Asks
  <2>2. registry[p.club] \in Club /\ p.with.acted = registry[p.club].step
    BY <1>2, <1>4 DEF Declines
  <2>3. PICK step : step = Stepped(registry[p.club], p.with) OBVIOUS
  <2>4. step \in 1..4
    <3>1. PICK k : k = registry[p.club].step OBVIOUS
    <3>2. k \in 1..4 BY <2>2, <3>1 DEF Club
    <3>3. p.with.action \in {"save_draft", "complete_step", "return_to_previous_step"}
          /\ (p.with.action = "return_to_previous_step" => k # 1)
      BY <1>1, <1>4, <2>1, <2>2, <3>1 DEF Draft, SaveIsSound
    <3>4. CASE p.with.action = "save_draft" BY <2>3, <3>1, <3>2, <3>4 DEF Stepped
    <3>5. CASE p.with.action = "complete_step"
      <4>1. step = IF k = 4 THEN 4 ELSE k + 1 BY <2>3, <3>1, <3>5 DEF Stepped
      <4> QED BY <3>2, <4>1
    <3>6. CASE p.with.action = "return_to_previous_step"
      <4>1. step = k - 1 BY <2>3, <3>1, <3>6 DEF Stepped
      <4> QED BY <3>2, <3>3, <3>6, <4>1
    <3> QED BY <3>3, <3>4, <3>5, <3>6
  <2>5. p.with.text \in Details BY <2>1 DEF Draft
  <2>6. update_onboarding(p) = [registry[p.club] EXCEPT !.text = p.with.text, !.step = step]
    BY <2>3 DEF update_onboarding
  <2>7. [registry[p.club] EXCEPT !.text = p.with.text, !.step = step] \in Club
    BY <2>2, <2>4, <2>5 DEF Club
  <2> QED BY <2>1, <2>6, <2>7
<1>5. CASE p.op = "status"
  <2>1. Served(p) = [registry[p.club] EXCEPT !.active = p.with] /\ p.with \in BOOLEAN
    BY <1>1, <1>5 DEF Served, Asks
  <2>2. registry[p.club] \in Club BY <1>2, <1>5 DEF Declines
  <2> QED BY <2>1, <2>2 DEF Club
<1>6. CASE p.op = "delete" BY <1>6 DEF Served
<1>7. CASE p.op = "invite" BY <1>2, <1>7 DEF Served
<1> QED BY <1>1, <1>3, <1>4, <1>5, <1>6, <1>7

LEMMA ServePostInv ==
  ASSUME DeskInv, NEW p \in posts, ServePost(p) PROVE DeskInv'
<1>0. Sound(p) /\ p = Fields(p) /\ p.club \in ClubIds /\ p.watched \in BOOLEAN
  BY SoundFields DEF DeskInv, RequestsInv, Sound, RequestOK
<1>1. PICK got : got = IF Declines(p) /\ p.op # "delete" THEN NoClub ELSE registry'[p.club]
  OBVIOUS
<1>2. posts' = (posts \ {p}) \union {[p EXCEPT !.step = "served", !.got = got]}
  BY <1>1 DEF ServePost
<1>3. registry' = IF Declines(p) THEN registry ELSE [registry EXCEPT ![p.club] = Served(p)]
  BY DEF ServePost
<1>4. registry' \in ClubsKnown
  BY <1>3, ServedRight DEF DeskInv, RequestsInv, ClubsKnown
<1>5. got \in Club \union {NoClub} BY <1>0, <1>1, <1>4 DEF ClubsKnown
<1>6. PICK q : q = [p EXCEPT !.step = "served", !.got = got] OBVIOUS
<1>7. q = [club |-> p.club, step |-> "served", n |-> p.n, got |-> got, op |-> p.op,
           with |-> p.with, typedFor |-> p.typedFor, watched |-> p.watched]
  <2>1. PICK r : r = [p EXCEPT !.step = "served"] OBVIOUS
  <2>2. r = [club |-> p.club, step |-> "served", n |-> p.n, got |-> p.got, op |-> p.op,
             with |-> p.with, typedFor |-> p.typedFor, watched |-> p.watched]
    BY <1>0, <2>1 DEF Fields
  <2>3. q = [r EXCEPT !.got = got] BY <1>6, <2>1
  <2> QED BY <2>2, <2>3
<1>8. q = Fields(q) BY <1>7 DEF Fields
<1>9. Sound(q) BY <1>0, <1>5, <1>7, <1>8, SameRequest
<1>10. posted' = posted BY DEF ServePost
<1>11. RequestsInv' BY <1>2, <1>4, <1>6, <1>9, <1>10 DEF DeskInv, RequestsInv
<1>12. UNCHANGED <<listed, read, cover, boots, pick, typed, invited, dialogs>> BY DEF ServePost
<1>13. ClubsPageInv' BY <1>12 DEF DeskInv, ClubsPageInv, FormIsTheirs, WorkspaceShown, Mounted
<1> QED BY <1>11, <1>13 DEF DeskInv

LEMMA LearnsInv ==
  ASSUME DeskInv, NEW p \in posts, Learns(p), UNCHANGED <<registry, posted>> PROVE DeskInv'
<1>0. /\ Sound(p) /\ p = Fields(p) /\ p.club \in ClubIds /\ p.got \in Club \union {NoClub}
      /\ p.watched \in BOOLEAN
  BY SoundFields DEF DeskInv, RequestsInv, Sound, RequestOK
<1>1. /\ listed \subseteq ClubIds /\ listed \ {p.club} \subseteq ClubIds
      /\ ListNow \subseteq ClubIds /\ pick \in PicksKnown /\ read \in ClubsKnown
  BY RegisteredKnown DEF ListNow, DeskInv, ClubsPageInv
<1>2. [read EXCEPT ![p.club] = NoClub] \in ClubsKnown BY <1>1 DEF ClubsKnown
<1>3. Known(p) \in ClubsKnown
  <2>1. PICK r : /\ Known(p) = [read EXCEPT ![p.club] = r]
                 /\ r \in {p.got, registry[p.club], read[p.club]}
    BY DEF Known
  <2>2. r \in Club \union {NoClub} BY <1>0, <1>1, <2>1 DEF DeskInv, RequestsInv, ClubsKnown
  <2> QED BY <1>1, <2>1, <2>2 DEF ClubsKnown
<1>4. invited' \in ClubOrNone /\ UNCHANGED dialogs
  <2>1. invited' \in {p.club, invited, NoClub} /\ UNCHANGED dialogs BY DEF Learns
  <2> QED BY <1>0, <2>1 DEF DeskInv, ClubsPageInv, ClubOrNone
<1>5. \/ Renders(listed \ {p.club}, pick, [read EXCEPT ![p.club] = NoClub])
      \/ Renders(ListNow, pick, Known(p)) \/ Renders(listed, pick, read)
  BY Zenon DEF Learns
<1>6. ClubsPageInv' BY <1>1, <1>2, <1>3, <1>4, <1>5, RendersInv DEF DeskInv
<1>7. PICK q : q = [p EXCEPT !.step = "fallback"] OBVIOUS
<1>8. q = [club |-> p.club, step |-> "fallback", n |-> p.n, got |-> p.got, op |-> p.op,
           with |-> p.with, typedFor |-> p.typedFor, watched |-> p.watched]
  BY <1>0, <1>7 DEF Fields
<1>9. q = Fields(q) BY <1>8 DEF Fields
<1>10. p.op = "delete" => Sound(q) BY <1>0, <1>8, <1>9, SameRequest
<1>11. posts' \subseteq posts \union IF p.op = "delete" THEN {q} ELSE {} BY <1>7 DEF Learns
<1>12. RequestsInv' BY <1>10, <1>11 DEF DeskInv, RequestsInv
<1> QED BY <1>6, <1>12 DEF DeskInv

LEMMA AnswerInv ==
  ASSUME DeskInv, NEW p \in posts, Answer(p) PROVE DeskInv'
<1>1. UNCHANGED <<registry, posted>> BY DEF Answer
<1>2. CASE Learns(p) BY <1>1, <1>2, LearnsInv
<1>3. CASE MovesOn(p)
  <2>1. p.club \in ClubOrNone BY DEF DeskInv, RequestsInv, Sound, RequestOK, ClubOrNone
  <2>2. ListNow \subseteq ClubIds BY RegisteredKnown DEF ListNow, DeskInv, ClubsPageInv
  <2>3. ClubsPageInv'
    BY <1>3, <2>1, <2>2, RegisteredKnown, FirstKnown, SyncInv DEF MovesOn, DeskInv
  <2>4. posts' = Unwatched(posts \ {p}) /\ posts \ {p} \subseteq posts BY <1>3 DEF MovesOn
  <2>5. RequestsInv' BY <1>1, <2>4, FewerPosts DEF DeskInv
  <2> QED BY <2>3, <2>5 DEF DeskInv
<1> QED BY <1>2, <1>3 DEF Answer

LEMMA BootAnswerInv ==
  ASSUME DeskInv, NEW c \in ClubOrNone, BootAnswer(c) PROVE DeskInv'
<1>0. UNCHANGED <<registry, listed, read, dialogs, posts, posted>> BY DEF BootAnswer
<1>1. /\ cover' \in [away : BOOLEAN, loading : BOOLEAN] /\ cover'.away = cover.away
      /\ boots' \in [ClubOrNone -> Nat]
  <2>1. /\ cover' = [cover EXCEPT !.loading = FALSE] /\ boots[c] > 0
        /\ boots' = [boots EXCEPT ![c] = @ - 1]
    BY DEF BootAnswer
  <2>2. cover' \in [away : BOOLEAN, loading : BOOLEAN] /\ cover'.away = cover.away
    BY <2>1 DEF DeskInv, ClubsPageInv
  <2> QED BY <2>1, <2>2, BootsCount DEF DeskInv
<1>2. PICK p \in {pick, [pick EXCEPT !.home = c]} :
        IF cover.away THEN pick' = p /\ UNCHANGED <<typed, invited>>
        ELSE IF cover.loading THEN Mounts(p) /\ UNCHANGED invited
        ELSE /\ pick' = [p EXCEPT !.chosen = Chosen(listed, p)]
             /\ typed' = Filled(pick'.chosen, read) /\ KeepInvitation
  BY DEF BootAnswer
<1>3. p \in PicksKnown /\ p.chosen = pick.chosen BY DEF DeskInv, ClubsPageInv, PicksKnown
<1>4. ClubsPageInv'
  <2>1. CASE cover.away
    <3>1. ~Mounted' BY <1>1, <2>1 DEF Mounted
    <3> QED BY <1>0, <1>1, <1>2, <1>3, <2>1, <3>1
        DEF DeskInv, ClubsPageInv, FormIsTheirs, WorkspaceShown
  <2>2. CASE ~cover.away /\ cover.loading
    <3>1. pick' \in PicksKnown /\ typed' \in Forms /\ FormIsTheirs'
      BY <1>0, <1>2, <1>3, <2>2, MountsForm DEF DeskInv
    <3> QED BY <1>0, <1>1, <1>2, <2>2, <3>1 DEF DeskInv, ClubsPageInv
  <2>3. CASE ~cover.away /\ ~cover.loading
    <3>1. PICK d : d = Chosen(listed, p) OBVIOUS
    <3>2. d \in ClubOrNone BY <3>1, ChosenKnown DEF DeskInv, ClubsPageInv
    <3>3. pick' = [p EXCEPT !.chosen = d] BY <1>2, <2>3, <3>1
    <3>4. pick' \in PicksKnown /\ pick'.chosen = d BY <1>3, <3>2, <3>3 DEF PicksKnown
    <3>5. typed' = Filled(d, read) /\ KeepInvitation BY <1>2, <2>3, <3>4
    <3>6. invited' \in ClubOrNone BY <3>5 DEF KeepInvitation, DeskInv, ClubsPageInv, ClubOrNone
    <3>7. CASE d = NoClub \/ read[d] = NoClub
      <4>1. typed' = typed /\ ~WorkspaceShown'
        BY <1>0, <3>4, <3>5, <3>7 DEF Filled, WorkspaceShown
      <4> QED BY <1>0, <1>1, <3>4, <3>6, <4>1 DEF DeskInv, ClubsPageInv, FormIsTheirs
    <3>8. CASE d = pick.chosen /\ d # NoClub /\ read[d] # NoClub
      <4>1. typed' = typed BY <3>5, <3>8 DEF Filled
      <4>2. typed.of = d
        BY <2>3, <3>8 DEF DeskInv, ClubsPageInv, FormIsTheirs, WorkspaceShown, Mounted
      <4> QED BY <1>0, <1>1, <3>4, <3>6, <4>1, <4>2 DEF DeskInv, ClubsPageInv, FormIsTheirs
    <3>9. CASE d # pick.chosen /\ d # NoClub /\ read[d] # NoClub
      <4>1. typed' = [of |-> d, text |-> read[d].text] BY <3>5, <3>9 DEF Filled
      <4>2. typed' \in Forms BY <3>2, <3>9, <4>1, FilledForm DEF DeskInv, ClubsPageInv
      <4>3. typed'.of = d BY <4>1
      <4> QED BY <1>0, <1>1, <3>4, <3>6, <4>2, <4>3 DEF DeskInv, ClubsPageInv, FormIsTheirs
    <3> QED BY <3>7, <3>8, <3>9
  <2> QED BY <2>1, <2>2, <2>3
<1>5. RequestsInv' BY <1>0 DEF DeskInv, RequestsInv
<1> QED BY <1>4, <1>5 DEF DeskInv

LEMMA ComingAndGoingInv ==
  ASSUME DeskInv, LeavePage \/ ReturnToPage \/ openAdminWorkspace PROVE DeskInv'
<1>0. pick \in PicksKnown /\ listed \subseteq ClubIds /\ pick.chosen \in ClubOrNone
      /\ posts \subseteq posts
  BY DEF DeskInv, ClubsPageInv, PicksKnown
<1>1. CASE LeavePage
  <2>1. /\ cover' \in [away : BOOLEAN, loading : BOOLEAN] /\ cover'.away = TRUE
        /\ boots' \in [ClubOrNone -> Nat] /\ UNCHANGED <<registry, listed, read, posted>>
        /\ TornDown(pick) /\ posts' = Unwatched(posts)
    BY <1>1 DEF LeavePage, DeskInv, ClubsPageInv
  <2>2. ~Mounted' BY <2>1 DEF Mounted
  <2>3. ClubsPageInv' BY <1>0, <2>1, <2>2, TornInv DEF DeskInv
  <2>4. RequestsInv' BY <1>0, <2>1, FewerPosts DEF DeskInv
  <2> QED BY <2>3, <2>4 DEF DeskInv
<1>2. CASE openAdminWorkspace
  <2>1. /\ cover' \in [away : BOOLEAN, loading : BOOLEAN] /\ cover'.away = TRUE
        /\ UNCHANGED <<registry, listed, read, posted>>
        /\ TornDown([pick EXCEPT !.route = pick.chosen]) /\ posts' = Unwatched(posts)
    BY <1>2 DEF openAdminWorkspace
  <2>2. boots' \in [ClubOrNone -> Nat] BY <1>0, <1>2, BootsCount DEF openAdminWorkspace, DeskInv
  <2>3. ~Mounted' BY <2>1 DEF Mounted
  <2>4. [pick EXCEPT !.route = pick.chosen] \in PicksKnown BY <1>0 DEF PicksKnown
  <2>5. ClubsPageInv' BY <1>0, <2>1, <2>2, <2>3, <2>4, TornInv DEF DeskInv
  <2>6. RequestsInv' BY <1>0, <2>1, FewerPosts DEF DeskInv
  <2> QED BY <2>5, <2>6 DEF DeskInv
<1>3. CASE ReturnToPage
  <2>1. /\ cover' \in [away : BOOLEAN, loading : BOOLEAN] /\ cover'.loading = cover.loading
        /\ UNCHANGED <<registry, listed, read, boots, invited, dialogs, posts, posted>>
    BY <1>3 DEF ReturnToPage, DeskInv, ClubsPageInv
  <2>2. PICK p \in {pick, [pick EXCEPT !.route = NoClub]} :
          IF cover.loading THEN pick' = p /\ UNCHANGED typed ELSE Mounts(p)
    BY <1>3 DEF ReturnToPage
  <2>3. p \in PicksKnown BY <1>0 DEF PicksKnown, ClubOrNone
  <2>4. CASE cover.loading
    <3>1. ~Mounted' BY <2>1, <2>4 DEF Mounted
    <3> QED BY <2>1, <2>2, <2>3, <2>4, <3>1
        DEF DeskInv, ClubsPageInv, RequestsInv, FormIsTheirs, WorkspaceShown
  <2>5. CASE ~cover.loading
    <3>1. pick' \in PicksKnown /\ typed' \in Forms /\ FormIsTheirs'
      BY <2>1, <2>2, <2>3, <2>5, MountsForm DEF DeskInv
    <3> QED BY <2>1, <3>1 DEF DeskInv, ClubsPageInv, RequestsInv
  <2> QED BY <2>4, <2>5
<1> QED BY <1>1, <1>2, <1>3

-----------------------------------------------------------------------------
LEMMA DeskStepInv ==
  ASSUME DeskInv, [ClubsNext]_clubsVars PROVE DeskInv'
<1>0. /\ ClubsPageInv /\ RequestsInv /\ pick \in PicksKnown /\ read \in ClubsKnown
      /\ typed \in Forms
      /\ listed \subseteq ClubIds /\ registry \in ClubsKnown /\ pick.chosen \in ClubOrNone
      /\ (WorkspaceShown => pick.chosen \in ClubIds /\ typed.of = pick.chosen
                            /\ read[pick.chosen] \in Club)
  BY DEF DeskInv, ClubsPageInv, RequestsInv, PicksKnown, ClubOrNone, WorkspaceShown,
         FormIsTheirs, ClubsKnown
<1>1. CASE UNCHANGED clubsVars
  BY <1>1 DEF clubsVars, DeskInv, ClubsPageInv, RequestsInv, FormIsTheirs,
          WorkspaceShown, Mounted
<1>2. ASSUME KeepInvitation PROVE invited' \in ClubOrNone
  BY <1>0, <1>2 DEF KeepInvitation, ClubsPageInv, ClubOrNone
<1>3. CASE ListRead
  <2>1. ClubsPageInv' BY <1>0, <1>2, <1>3, RegisteredKnown, RendersInv DEF ListRead
  <2> QED BY <1>0, <1>3, <2>1 DEF ListRead, DeskInv, RequestsInv
<1>4. ASSUME NEW c \in ClubIds, DetailRead(c) PROVE DeskInv'
  <2>1. [read EXCEPT ![c] = registry[c]] \in ClubsKnown BY <1>0 DEF ClubsKnown
  <2>2. ClubsPageInv' BY <1>0, <1>2, <1>4, <2>1, RendersInv DEF DetailRead
  <2> QED BY <1>0, <1>4, <2>2 DEF DetailRead, DeskInv, RequestsInv
<1>5. CASE LeavePage \/ ReturnToPage \/ openAdminWorkspace BY <1>5, ComingAndGoingInv
<1>6. ASSUME NEW c \in ClubOrNone, BootAnswer(c) PROVE DeskInv' BY <1>6, BootAnswerInv
<1>7. CASE handleToggleActive
  <2>1. PICK b : b = ~read[pick.chosen].active OBVIOUS
  <2>2. b \in Asks("status")
    <3>1. read[pick.chosen].active \in BOOLEAN
      BY <1>0, <1>7 DEF handleToggleActive, Club
    <3>2. b \in BOOLEAN BY <2>1, <3>1, ZenonT(30)
    <3> QED BY <3>2 DEF Asks
  <2>3. Post("status", pick.chosen, b) BY <1>7, <2>1, Zenon DEF handleToggleActive
  <2>4. pick.chosen \in ClubIds /\ UNCHANGED dialogs BY <1>0, <1>7 DEF handleToggleActive
  <2> QED BY <2>2, <2>3, <2>4, PostInv
<1>8. CASE handleDeleteClub
  <2>1. FirstOf(listed \ {pick.chosen}) \in Asks("delete")
    <3>1. listed \ {pick.chosen} \subseteq ClubIds BY <1>0
    <3> QED BY <3>1, FirstKnown DEF Asks
  <2>2. dialogs' \subseteq dialogs BY <1>8 DEF handleDeleteClub
  <2> QED BY <1>0, <1>8, <2>1, <2>2, PostInv DEF handleDeleteClub
<1>9. CASE handleCreateInvitation
  <2>1. NoClub \in Asks("invite") BY DEF Asks
  <2> QED BY <1>0, <1>9, <2>1, PostInv DEF handleCreateInvitation
<1>10. ASSUME NEW c \in ClubIds, handleSelectClub(c) PROVE DeskInv'
  <2>1. c \in ClubOrNone /\ posts \subseteq posts BY DEF ClubOrNone
  <2>2. ClubsPageInv' BY <1>0, <1>10, <2>1, SyncInv DEF handleSelectClub
  <2>3. RequestsInv' BY <1>0, <1>10, <2>1, FewerPosts DEF handleSelectClub
  <2> QED BY <2>2, <2>3 DEF DeskInv
<1>11. ASSUME NEW c \in ClubIds, RemovedElsewhere(c) PROVE DeskInv'
  <2>1. [registry EXCEPT ![c] = NoClub] \in ClubsKnown BY <1>0 DEF ClubsKnown
  <2>2. posted' \in 0..MaxPosts
    BY <1>0, <1>11, DeskAssumption DEF RemovedElsewhere, RequestsInv
  <2> QED BY <1>11, <2>1, <2>2
      DEF RemovedElsewhere, DeskInv, ClubsPageInv, RequestsInv, FormIsTheirs,
          WorkspaceShown, Mounted
<1>12. ASSUME NEW t \in Details, TypeDetails(t) PROVE DeskInv'
  <2>1. typed' \in Forms /\ typed'.of = typed.of BY <1>0, <1>12 DEF TypeDetails, Forms
  <2> QED BY <1>12, <2>1
      DEF TypeDetails, DeskInv, ClubsPageInv, RequestsInv, FormIsTheirs,
          WorkspaceShown, Mounted
<1>13. ASSUME NEW t \in Details, handleCreateClub(t) PROVE DeskInv'
  <2>1. t \in Asks("create") BY DEF Asks
  <2> QED BY <1>13, <2>1, PostInv DEF handleCreateClub
<1>14. ASSUME NEW d \in {"create", "delete"}, ToggleDialog(d) PROVE DeskInv'
  BY <1>14
     DEF ToggleDialog, DeskInv, ClubsPageInv, RequestsInv, FormIsTheirs,
          WorkspaceShown, Mounted
<1>15. ASSUME NEW a \in {"save_draft", "complete_step", "return_to_previous_step"}, persistStep(a)
       PROVE  DeskInv'
  <2>1. PICK with : with = [action |-> a, text |-> typed.text, acted |-> read[pick.chosen].step]
    OBVIOUS
  <2>2. Post("save", pick.chosen, with) /\ pick.chosen \in ClubIds /\ typed.of = pick.chosen
        /\ read[pick.chosen].step \in 1..4 /\ UNCHANGED dialogs
        /\ (a = "return_to_previous_step" => read[pick.chosen].step > 1)
    BY <1>0, <1>15, <2>1 DEF persistStep, Club
  <2>3. typed.text \in Details BY <1>0 DEF Forms
  <2>4. with \in Draft BY <2>1, <2>2, <2>3 DEF Draft
  <2>5. with \in Asks("save") BY <2>4 DEF Asks
  <2>6. with.action = "return_to_previous_step" => with.acted # 1 BY <2>1, <2>2
  <2> QED BY <2>2, <2>5, <2>6, PostInv
<1>16. ASSUME NEW p \in posts, ServePost(p) PROVE DeskInv' BY <1>16, ServePostInv
<1>17. ASSUME NEW p \in posts, Answer(p) PROVE DeskInv' BY <1>17, AnswerInv
<1>18. ASSUME NEW p \in posts, FallBack(p) PROVE DeskInv'
  <2>1. PICK c : c = p.with OBVIOUS
  <2>2. p.step = "fallback" /\ Sound(p) BY <1>0, <1>18 DEF FallBack, RequestsInv
  <2>3. p.with \in Asks("delete") BY <2>2 DEF Sound, SaveIsSound, RequestOK
  <2>4. c \in ClubOrNone BY <2>1, <2>3 DEF Asks
  <2>5. ListNow \subseteq ClubIds /\ posts \ {p} \subseteq posts
    BY <1>0, RegisteredKnown DEF ListNow
  <2>6. ClubsPageInv' BY <1>0, <1>18, <2>1, <2>4, <2>5, SyncInv DEF FallBack
  <2>7. RequestsInv' BY <1>0, <1>18, <2>5, FewerPosts DEF FallBack
  <2> QED BY <2>6, <2>7 DEF DeskInv
<1> QED
  BY <1>1, <1>3, <1>4, <1>5, <1>6, <1>7, <1>8, <1>9, <1>10, <1>11, <1>12, <1>13, <1>14,
     <1>15, <1>16, <1>17, <1>18
  DEF ClubsNext

\* Whatever is selected, read, reloaded, deleted or answered late, a club's details are saved to
\* it only.
THEOREM DetailsStay == ClubsSpec => []DetailsStayWithTheirClub
<1>1. DeskInv => DetailsStayWithTheirClub
  BY DEF DeskInv, ClubsPageInv, RequestsInv, FormIsTheirs, Sound, SaveIsSound,
         DetailsStayWithTheirClub
<1> QED BY <1>1, DeskInitInv, DeskStepInv, PTL DEF ClubsSpec

\* Every variable has its type: a club's onboarding is at one of its four steps, whoever returns
\* from a step and when; the cache, the choice, the form and every request on its way hold what
\* the code writes there.
THEOREM ClubsTypeCorrect == ClubsSpec => []ClubsTypeOK
<1>1. DeskInv => ClubsTypeOK
  BY DEF DeskInv, ClubsPageInv, RequestsInv, ClubsTypeOK, Sound, PicksKnown, Forms, ClubsKnown
<1> QED BY <1>1, DeskInitInv, DeskStepInv, PTL DEF ClubsSpec

-----------------------------------------------------------------------------
(***************************************************************************)
(* CloseDay: what an export hands to accounting is what the ledger has.    *)
(***************************************************************************)

\* What is selected and listed was generated, and so is what a request asks about. An export
\* that has read its batch has what the batch is made of; once it has reconciled, that is no
\* less than the ledger had when it was asked for.
OnlyGenerated == wizard.batch \in Generated \union {NoBatch} /\ shown.list \subseteq Generated
Exporting(w) ==
  /\ w.with \in BatchNos \X Profiles /\ w.with[1] \in Generated /\ w.since <= Ledger(w.with[1])
  /\ w.stage # "sent" => /\ w.seen \in BatchRow /\ w.seen.rows = batchOf[w.with[1]].rows
                         /\ w.seen.period = batchOf[w.with[1]].period
  /\ w.stage \in {"checked", "done"} => w.since <= w.seen.rows
Grounded(w) ==
  /\ w.op = "generate" => w.with \in Periods
  /\ w.op = "regenerate" => w.with \in Generated
  /\ w.op = "export" => Exporting(w)
WantsGrounded == \A w \in wants : Grounded(w)

InForceBatch(b) == b \in Generated /\ batchOf[b].status # "void"
OneInForce ==
  \A b, c \in BatchNos :
    (InForceBatch(b) /\ InForceBatch(c) /\ batchOf[b].period = batchOf[c].period) => b = c
\* The ledger loses nothing that a batch has.
BatchesAreOfEntries == \A b \in Generated : batchOf[b].rows <= Ledger(b)
HandedRight ==
  \A h \in handed : h.batch \in Generated /\ h.since <= h.rows /\ h.rows <= Ledger(h.batch)

\* The invariant: the export's own check is enough as long as requests name batches that
\* exist, batches keep their rows, and a replacement comes with the void of what it replaces.
CloseInv ==
  CloseTypeOK /\ OnlyGenerated /\ WantsGrounded /\ OneInForce /\ BatchesAreOfEntries /\ HandedRight

LEMMA NoBatchIsNone == NoBatch \notin BatchRow /\ NoBatch \notin BatchNos
BY CloseAssumption

LEMMA BatchKnown ==
  ASSUME CloseTypeOK, NEW b \in Generated
  PROVE  b \in BatchNos /\ batchOf[b] \in BatchRow
BY DEF CloseTypeOK, Generated

-----------------------------------------------------------------------------
\* Whatever a step does to batches and ledger, a batch keeps its range and its rows, and the
\* ledger its entries: what was known of requests and of what was handed over still holds.
BatchesKept ==
  /\ batchOf' \in [BatchNos -> BatchRow \union {NoBatch}]
  /\ entries' \in [Periods -> Nat] /\ \A t \in Periods : entries[t] <= entries'[t]
  /\ \A b \in Generated : /\ batchOf'[b] # NoBatch /\ batchOf'[b].period = batchOf[b].period
                          /\ batchOf'[b].rows = batchOf[b].rows
  /\ \A b \in Generated' \ Generated : batchOf'[b].rows <= Ledger(b)'

LEMMA KeptStep ==
  ASSUME CloseInv, BatchesKept
  PROVE  /\ Generated \subseteq Generated' /\ BatchesAreOfEntries'
         /\ \A w \in wants : Grounded(w)'
         /\ handed' = handed => HandedRight'
         /\ UNCHANGED <<wizard, shown>> => OnlyGenerated'
<1>1. Generated \subseteq Generated' BY DEF BatchesKept, Generated
<1>2. \A b \in Generated : /\ batchOf[b] \in BatchRow /\ batchOf[b].period \in Periods
                           /\ entries[batchOf[b].period] \in Nat
                           /\ entries'[batchOf[b].period] \in Nat /\ batchOf[b].rows \in Nat
  BY BatchKnown DEF CloseInv, CloseTypeOK, BatchRow, BatchesKept
<1>3. \A b \in Generated : Ledger(b) \in Nat /\ Ledger(b)' \in Nat /\ Ledger(b) <= Ledger(b)'
  BY <1>2 DEF Ledger, BatchesKept
<1>4. BatchesAreOfEntries'
  <2>1. \A b \in Generated : batchOf'[b].rows <= Ledger(b)'
    BY <1>2, <1>3 DEF CloseInv, BatchesAreOfEntries, BatchesKept
  <2> QED BY <2>1 DEF BatchesAreOfEntries, BatchesKept
<1>5. ASSUME NEW w \in wants PROVE Grounded(w)'
  <2>1. Grounded(w) /\ w \in Want BY DEF CloseInv, CloseTypeOK, WantsGrounded
  <2>2. w.op = "export" => Exporting(w)'
    <3> SUFFICES ASSUME w.op = "export" PROVE Exporting(w)' OBVIOUS
    <3>1. Exporting(w) /\ w.since \in Nat BY <2>1 DEF Grounded, Want
    <3>2. w.with[1] \in Generated BY <3>1 DEF Exporting
    <3>3. w.since <= Ledger(w.with[1])' BY <1>3, <3>1, <3>2 DEF Exporting
    <3> QED BY <1>1, <3>1, <3>2, <3>3 DEF Exporting, BatchesKept
  <2> QED BY <1>1, <2>1, <2>2 DEF Grounded
<1>6. ASSUME handed' = handed PROVE HandedRight'
  <2>1. \A h \in handed : h.rows \in Nat BY DEF CloseInv, CloseTypeOK
  <2>2. \A h \in handed : h.batch \in Generated /\ h.since <= h.rows /\ h.rows <= Ledger(h.batch)
    BY DEF CloseInv, HandedRight
  <2>3. \A h \in handed : h.rows <= Ledger(h.batch)' BY <1>3, <2>1, <2>2
  <2> QED BY <1>1, <1>6, <2>2, <2>3 DEF HandedRight
<1>7. UNCHANGED <<wizard, shown>> => OnlyGenerated' BY <1>1 DEF CloseInv, OnlyGenerated
<1> QED BY <1>1, <1>4, <1>5, <1>6, <1>7

\* A step that leaves batches and ledger alone.
LEMMA SameBatches ==
  ASSUME CloseInv, UNCHANGED <<batchOf, entries>>
  PROVE  BatchesKept /\ Generated' = Generated /\ OneInForce'
<1>1. Generated' = Generated BY DEF Generated
<1>2. \A t \in Periods : entries[t] <= entries'[t] BY DEF CloseInv, CloseTypeOK
<1> QED BY <1>1, <1>2, NoBatchIsNone
        DEF CloseInv, CloseTypeOK, BatchesKept, Generated, OneInForce, InForceBatch

-----------------------------------------------------------------------------
LEMMA CloseInitInv == ASSUME CloseInit PROVE CloseInv
<1>1. PICK t \in Periods, p \in Profiles :
        wizard = [period |-> t, step |-> "exceptions", profile |-> p, batch |-> NoBatch]
  BY DEF CloseInit
<1>2. Generated = {} BY DEF CloseInit, Generated
<1>3. CloseTypeOK
  BY <1>1, CloseAssumption DEF CloseInit, CloseTypeOK, WizardSteps
<1>4. OnlyGenerated BY <1>1, <1>2 DEF CloseInit, OnlyGenerated
<1>5. OneInForce BY <1>2 DEF OneInForce, InForceBatch
<1> QED BY <1>2, <1>3, <1>4, <1>5
        DEF CloseInv, CloseInit, WantsGrounded, HandedRight, BatchesAreOfEntries

\* A request that is sent is grounded, the others stay so.
LEMMA CloseAskInv ==
  ASSUME CloseInv, NEW op, NEW with, NEW since, AskFor(op, with, since),
         NEW new, new = [op |-> op, with |-> with, since |-> since, stage |-> "sent",
                         seen |-> NoBatch],
         new \in Want, Grounded(new)
  PROVE  CloseInv'
<1> USE DEF AskFor
<1>1. wants' = wants \union {new} OBVIOUS
<1>2. wants' \subseteq Want BY <1>1 DEF CloseInv, CloseTypeOK
<1>3. CloseTypeOK' BY <1>2, CloseAssumption DEF CloseInv, CloseTypeOK
<1>4. BatchesKept /\ Generated' = Generated /\ OneInForce' BY SameBatches
<1>5. Grounded(new)' BY <1>4 DEF Grounded, Exporting, Ledger
<1>6. WantsGrounded' BY <1>1, <1>4, <1>5, KeptStep DEF WantsGrounded
<1> QED BY <1>3, <1>4, <1>6, KeptStep DEF CloseInv

\* Only the wizard changes, and selects nothing that was not generated.
LEMMA WizardInv ==
  ASSUME CloseInv, UNCHANGED <<entries, batchOf, faulty, shown, wants, handed, events>>,
         wizard' \in [period : Periods, step : WizardSteps, profile : Profiles,
                      batch : BatchNos \union {NoBatch}],
         wizard'.batch \in Generated \union {NoBatch}
  PROVE  CloseInv'
<1>1. BatchesKept /\ Generated' = Generated /\ OneInForce' BY SameBatches
<1>2. CloseTypeOK' BY DEF CloseInv, CloseTypeOK
<1>3. WantsGrounded' BY <1>1, KeptStep DEF WantsGrounded
<1> QED BY <1>1, <1>2, <1>3, KeptStep DEF CloseInv, OnlyGenerated

-----------------------------------------------------------------------------
\* What the answers do to the batches.
LEMMA AddsInv ==
  ASSUME CloseInv, NEW t \in Periods, NEW b \in BatchNos \ Generated,
         NEW voided \in SUBSET Generated,
         Adds(b, t, voided),
         \A c \in Generated : (InForceBatch(c) /\ batchOf[c].period = t) => c \in voided
  PROVE  /\ batchOf' \in [BatchNos -> BatchRow \union {NoBatch}]
         /\ Generated \subseteq Generated' /\ b \in Generated'
         /\ OneInForce'
         /\ entries' = entries => BatchesKept
<1> DEFINE new == [status |-> "generated", period |-> t, rows |-> entries[t]]
<1>1. new \in BatchRow BY DEF CloseInv, CloseTypeOK, BatchRow, BatchStatuses
<1>2. \A c \in voided : /\ [batchOf[c] EXCEPT !.status = "void"] \in BatchRow
                        /\ [batchOf[c] EXCEPT !.status = "void"].status = "void"
  BY BatchKnown DEF CloseInv, BatchRow, BatchStatuses
<1>3. batchOf' = [c \in BatchNos |-> IF c = b THEN new
                    ELSE IF c \in voided THEN [batchOf[c] EXCEPT !.status = "void"]
                    ELSE batchOf[c]]
  BY DEF Adds
<1> HIDE DEF new
<1>4. batchOf' \in [BatchNos -> BatchRow \union {NoBatch}]
  BY <1>1, <1>2, <1>3 DEF CloseInv, CloseTypeOK
<1>5. Generated \subseteq Generated' /\ b \in Generated'
  BY <1>1, <1>2, <1>3, NoBatchIsNone DEF Generated
<1>6. \A c \in BatchNos \ {b} : InForceBatch(c)' =>
        InForceBatch(c) /\ c \notin voided /\ batchOf'[c] = batchOf[c]
  BY <1>2, <1>3 DEF InForceBatch, Generated
<1>7. batchOf'[b].period = t BY <1>3 DEF new
<1>8. \A c \in BatchNos \ {b} : InForceBatch(c)' => batchOf'[c].period # t
  BY <1>6 DEF InForceBatch
<1>9. OneInForce'
  <2> SUFFICES ASSUME NEW c \in BatchNos, NEW d \in BatchNos, InForceBatch(c)', InForceBatch(d)',
                      batchOf'[c].period = batchOf'[d].period, c # d
               PROVE  FALSE
    BY DEF OneInForce
  <2>1. c # b /\ d # b BY <1>7, <1>8
  <2> QED BY <1>6, <2>1 DEF CloseInv, OneInForce
<1>10. \A c \in Generated : /\ batchOf'[c].period = batchOf[c].period
                            /\ batchOf'[c].rows = batchOf[c].rows
  <2>1. \A c \in Generated : c \in BatchNos /\ c # b /\ batchOf[c] \in BatchRow
    BY BatchKnown DEF CloseInv
  <2> QED BY <1>3, <2>1 DEF BatchRow
<1>11. Generated' \ Generated = {b}
  <2>1. \A c \in Generated' \ Generated : c = b BY <1>3 DEF Generated
  <2> QED BY <1>5, <2>1
<1>12. ASSUME entries' = entries PROVE BatchesKept
  <2>1. batchOf'[b] = new BY <1>3
  <2>2. new.rows = entries[t] /\ new.period = t BY DEF new
  <2>3. batchOf'[b].rows <= Ledger(b)'
    BY <1>12, <2>1, <2>2 DEF Ledger, CloseInv, CloseTypeOK
  <2>4. \A u \in Periods : entries[u] <= entries'[u] BY <1>12 DEF CloseInv, CloseTypeOK
  <2>5. \A c \in Generated : batchOf'[c] # NoBatch BY <1>5 DEF Generated
  <2> QED BY <1>4, <1>10, <1>11, <1>12, <2>3, <2>4, <2>5 DEF BatchesKept, CloseInv, CloseTypeOK
<1> QED BY <1>4, <1>5, <1>9, <1>12

\* A batch takes another status; one that is void is taken back only where no other batch
\* of its range is in force.
LEMMA StatusInv ==
  ASSUME CloseInv, NEW b \in Generated, NEW s \in BatchStatuses,
         s = "void" \/ CurrentOf(batchOf[b].period) \subseteq {b},
         batchOf' = [batchOf EXCEPT ![b].status = s], entries' = entries
  PROVE  BatchesKept /\ Generated' = Generated /\ OneInForce'
<1>1. b \in BatchNos /\ batchOf[b] \in BatchRow BY BatchKnown DEF CloseInv
<1>2. /\ batchOf'[b] \in BatchRow /\ batchOf'[b].status = s
      /\ batchOf'[b].period = batchOf[b].period /\ batchOf'[b].rows = batchOf[b].rows
  BY <1>1 DEF CloseInv, CloseTypeOK, BatchRow
<1>3. \A c \in BatchNos \ {b} : batchOf'[c] = batchOf[c] BY DEF CloseInv, CloseTypeOK
<1>4. batchOf' \in [BatchNos -> BatchRow \union {NoBatch}]
  BY <1>1, <1>2, <1>3 DEF CloseInv, CloseTypeOK
<1>5. Generated' = Generated BY <1>1, <1>2, <1>3, NoBatchIsNone DEF Generated
<1>6. \A c \in BatchNos \ {b} : InForceBatch(c)' =>
        InForceBatch(c) /\ batchOf'[c].period = batchOf[c].period
  BY <1>3, <1>5 DEF InForceBatch
<1>7. InForceBatch(b)' => \A c \in BatchNos \ {b} :
        ~(InForceBatch(c)' /\ batchOf'[c].period = batchOf'[b].period)
  BY <1>2, <1>6 DEF InForceBatch, CurrentOf
<1>8. OneInForce'
  <2> SUFFICES ASSUME NEW c \in BatchNos, NEW d \in BatchNos, InForceBatch(c)', InForceBatch(d)',
                      batchOf'[c].period = batchOf'[d].period, c # d
               PROVE  FALSE
    BY DEF OneInForce
  <2>1. c # b /\ d # b BY <1>7
  <2> QED BY <1>6, <2>1 DEF CloseInv, OneInForce
<1>9. \A t \in Periods : entries[t] <= entries'[t] BY DEF CloseInv, CloseTypeOK
<1>10. \A c \in Generated : /\ batchOf'[c] # NoBatch /\ batchOf'[c].rows = batchOf[c].rows
                            /\ batchOf'[c].period = batchOf[c].period
  BY <1>2, <1>3, <1>5 DEF Generated
<1> QED BY <1>4, <1>5, <1>8, <1>9, <1>10 DEF BatchesKept, CloseInv, CloseTypeOK

\* What an answer shows.
LEMMA ObtainsInv ==
  ASSUME CloseInv, NEW b, NEW step \in WizardSteps, Obtains(b, step),
         batchOf' \in [BatchNos -> BatchRow \union {NoBatch}],
         BatchesKept, b \in Generated', OneInForce',
         NEW w \in wants, wants' = wants \ {w}, UNCHANGED <<entries, faulty, events, handed>>
  PROVE  CloseInv'
<1>1. b \in BatchNos /\ batchOf'[b] \in BatchRow BY DEF Generated
<1>2. batchOf'[b].status \in BatchStatuses BY <1>1 DEF BatchRow
<1>3. shown'.list = Generated' BY DEF Obtains, Generated, CloseInv, CloseTypeOK
<1>4. shown' \in [list : SUBSET BatchNos, detail : [BatchNos -> BatchStatuses \union {NoBatch}],
                  recon : [BatchNos -> {"unread", "drift", "same"}],
                  preview : [BatchNos \X Profiles -> {"unread", "faulty", "ready"}]]
  BY <1>1, <1>2 DEF Obtains, CloseInv, CloseTypeOK
<1>5. /\ wizard' \in [period : Periods, step : WizardSteps, profile : Profiles,
                      batch : BatchNos \union {NoBatch}]
      /\ wizard'.batch = b
  BY <1>1 DEF Obtains, CloseInv, CloseTypeOK
<1>6. CloseTypeOK' BY <1>4, <1>5 DEF CloseInv, CloseTypeOK
<1>7. OnlyGenerated' BY <1>3, <1>5 DEF OnlyGenerated
<1>8. WantsGrounded' BY KeptStep DEF WantsGrounded
<1>9. HandedRight' /\ BatchesAreOfEntries' BY KeptStep
<1> QED BY <1>6, <1>7, <1>8, <1>9 DEF CloseInv

-----------------------------------------------------------------------------
\* What a generation and a regeneration do to the batches, answered or not.
LEMMA GenerateKeeps ==
  ASSUME CloseInv, NEW t \in Periods, NEW b \in BatchNos, generate_or_get_existing(t, b),
         entries' = entries
  PROVE  BatchesKept /\ b \in Generated' /\ OneInForce'
<1>1. CASE CurrentOf(t) # {}
  <2>1. b \in Generated /\ batchOf' = batchOf
    BY <1>1 DEF generate_or_get_existing, CurrentOf
  <2> QED BY <2>1, SameBatches
<1>2. CASE CurrentOf(t) = {}
  <2>1. b \in BatchNos \ Generated /\ Adds(b, t, {})
    BY <1>2 DEF generate_or_get_existing, NewBatches
  <2>2. \A c \in Generated : ~(InForceBatch(c) /\ batchOf[c].period = t)
    BY <1>2 DEF CurrentOf, InForceBatch
  <2> QED BY <2>1, <2>2, AddsInv
<1> QED BY <1>1, <1>2

LEMMA RegenerateKeeps ==
  ASSUME CloseInv, NEW old \in Generated, NEW b \in BatchNos, regenerate_batch(old, b),
         entries' = entries
  PROVE  BatchesKept /\ b \in Generated' /\ OneInForce'
<1>1. batchOf[old] \in BatchRow /\ old \in BatchNos BY BatchKnown DEF CloseInv
<1>2. batchOf[old].period \in Periods BY <1>1 DEF BatchRow
<1>3. b \in BatchNos \ Generated /\ Adds(b, batchOf[old].period, {old}) /\ InForceBatch(old)
  BY DEF regenerate_batch, NewBatches, InForceBatch
<1>4. \A c \in Generated :
        (InForceBatch(c) /\ batchOf[c].period = batchOf[old].period) => c \in {old}
  BY <1>1, <1>3 DEF CloseInv, OneInForce, Generated
<1> QED BY <1>2, <1>3, <1>4, AddsInv

-----------------------------------------------------------------------------
\* Each kind of answer.
LEMMA GenerateInv ==
  ASSUME CloseInv, NEW w \in wants, GenerateAnswered(w), wants' = wants \ {w},
         UNCHANGED <<entries, faulty, events>>
  PROVE  CloseInv'
<1>1. PICK b \in BatchNos : generate_or_get_existing(w.with, b) /\ Obtains(b, "reconcile")
  BY DEF GenerateAnswered
<1>2. w.with \in Periods BY DEF GenerateAnswered, CloseInv, WantsGrounded, Grounded
<1>3. BatchesKept /\ b \in Generated' /\ OneInForce' BY <1>1, <1>2, GenerateKeeps
<1> QED BY <1>1, <1>3, ObtainsInv DEF GenerateAnswered, WizardSteps, BatchesKept

LEMMA RegenerateInv ==
  ASSUME CloseInv, NEW w \in wants, RegenerateAnswered(w), wants' = wants \ {w},
         UNCHANGED <<entries, faulty, events>>
  PROVE  CloseInv'
<1>1. PICK b \in BatchNos : regenerate_batch(w.with, b) /\ Obtains(b, wizard.step)
  BY DEF RegenerateAnswered
<1>2. w.with \in Generated BY DEF RegenerateAnswered, CloseInv, WantsGrounded, Grounded
<1>3. BatchesKept /\ b \in Generated' /\ OneInForce' BY <1>1, <1>2, RegenerateKeeps
<1>4. wizard.step \in WizardSteps BY DEF CloseInv, CloseTypeOK
<1> QED BY <1>1, <1>3, <1>4, ObtainsInv DEF RegenerateAnswered, BatchesKept

\* A step of an export, from what is known of it before to what is known of it after.
LEMMA GoesOnInv ==
  ASSUME CloseInv, NEW w \in wants, NEW stage \in {"read", "mapped", "checked", "done"},
         NEW row \in BatchRow, GoesOn(w, stage, row), w.op = "export",
         row.rows = batchOf[w.with[1]].rows, row.period = batchOf[w.with[1]].period,
         stage \in {"checked", "done"} => w.since <= row.rows,
         BatchesKept, OneInForce', Generated' = Generated
  PROVE  CloseInv'
<1>1. PICK new : new = [w EXCEPT !.stage = stage, !.seen = row] OBVIOUS
<1>2. w \in Want /\ Exporting(w) BY DEF CloseInv, CloseTypeOK, WantsGrounded, Grounded
<1>3. /\ new \in Want /\ new.op = w.op /\ new.with = w.with /\ new.since = w.since
      /\ new.stage = stage /\ new.seen = row
  BY <1>1, <1>2 DEF Want
<1>4. wants' = (wants \ {w}) \union {new} BY <1>1 DEF GoesOn
<1>5. Grounded(w)' BY KeptStep
<1>6. Grounded(new)' BY <1>2, <1>3, <1>5 DEF Grounded, Exporting, BatchesKept
<1>7. WantsGrounded' BY <1>4, <1>6, KeptStep DEF WantsGrounded
<1>8. CloseTypeOK' BY <1>3, <1>4 DEF GoesOn, CloseInv, CloseTypeOK, BatchesKept
<1> QED BY <1>7, <1>8, KeptStep DEF GoesOn, CloseInv

LEMMA ExportStepInv ==
  ASSUME CloseInv, NEW w \in wants,
         ExportReads(w) \/ ExportMaps(w) \/ ExportReconciles(w) \/ ExportCommits(w)
  PROVE  CloseInv'
<1> DEFINE b == w.with[1]
<1>1. /\ w \in Want /\ Exporting(w) /\ b \in Generated /\ batchOf[b] \in BatchRow
      /\ w.since \in Nat /\ entries' = entries /\ w.op = "export"
  BY BatchKnown DEF ExportReads, ExportMaps, ExportReconciles, ExportCommits, GoesOn,
        CloseInv, CloseTypeOK, WantsGrounded, Grounded, Exporting, Want
<1>2. w.stage # "sent" => /\ w.seen \in BatchRow /\ w.seen.rows = batchOf[b].rows
                          /\ w.seen.period = batchOf[b].period
  BY <1>1 DEF Exporting
<1>3. CASE ExportReads(w)
  BY <1>1, <1>3, SameBatches, GoesOnInv DEF ExportReads
<1>4. CASE ExportMaps(w)
  BY <1>1, <1>2, <1>4, SameBatches, GoesOnInv DEF ExportMaps
<1>5. CASE ExportReconciles(w)
  <2>1. w.since <= w.seen.rows BY <1>1, <1>2, <1>5 DEF ExportReconciles, Matches, Exporting, Ledger
  <2> QED BY <1>1, <1>2, <1>5, <2>1, SameBatches, GoesOnInv DEF ExportReconciles
<1>6. CASE ExportCommits(w)
  <2>1. w.stage = "checked" /\ GoesOn(w, "done", w.seen) /\ w.since <= w.seen.rows
    BY <1>1, <1>6 DEF ExportCommits, Exporting
  <2>2. BatchesKept /\ OneInForce' /\ Generated' = Generated
    <3>1. CASE w.seen.status = "exported"
      BY <1>1, <1>6, <3>1, SameBatches DEF ExportCommits
    <3>2. CASE w.seen.status # "exported"
      <4>1. /\ CurrentOf(batchOf[b].period) \subseteq {b}
            /\ batchOf' = [batchOf EXCEPT ![b].status = "exported"]
        BY <1>2, <1>6, <2>1, <3>2 DEF ExportCommits
      <4> HIDE DEF b
      <4> QED BY <1>1, <4>1, StatusInv DEF BatchStatuses
    <3> QED BY <3>1, <3>2
  <2> QED BY <1>1, <1>2, <2>1, <2>2, GoesOnInv
<1> QED BY <1>3, <1>4, <1>5, <1>6

\* The one answer that hands something over.
LEMMA ExportInv ==
  ASSUME CloseInv, NEW w \in wants, ExportAnswered(w), wants' = wants \ {w},
         UNCHANGED <<entries, faulty, events>>
  PROVE  CloseInv'
<1> DEFINE b == w.with[1]
<1>1. /\ w \in Want /\ w.op = "export" /\ w.stage = "done" /\ Exporting(w)
      /\ batchOf' = batchOf /\ wizard' = wizard
  BY DEF ExportAnswered, CloseInv, CloseTypeOK, WantsGrounded, Grounded
<1>2. /\ b \in Generated /\ b \in BatchNos /\ w.seen.rows \in Nat /\ w.since \in Nat
      /\ w.since <= w.seen.rows /\ w.seen.rows <= Ledger(b)
  BY <1>1 DEF Exporting, Want, BatchRow, Generated, CloseInv, BatchesAreOfEntries
<1>3. BatchesKept /\ OneInForce' /\ Generated' = Generated BY <1>1, SameBatches
<1>4. /\ shown' = [shown EXCEPT !.list = Generated,
           !.detail = [c \in BatchNos |-> IF c = wizard.batch THEN batchOf[c].status ELSE @[c]]]
      /\ handed' = handed \union {[batch |-> b, rows |-> w.seen.rows, since |-> w.since]}
  BY DEF ExportAnswered
<1> HIDE DEF b
<1>5. wizard.batch \in Generated \union {NoBatch} BY DEF CloseInv, OnlyGenerated
<1>6. \A c \in BatchNos : c = wizard.batch => batchOf[c].status \in BatchStatuses
  BY <1>5, BatchKnown, NoBatchIsNone DEF CloseInv, BatchRow
<1>7. shown' \in [list : SUBSET BatchNos, detail : [BatchNos -> BatchStatuses \union {NoBatch}],
                  recon : [BatchNos -> {"unread", "drift", "same"}],
                  preview : [BatchNos \X Profiles -> {"unread", "faulty", "ready"}]]
  <2>1. Generated \in SUBSET BatchNos BY DEF Generated
  <2> DEFINE d == [c \in BatchNos |->
                     IF c = wizard.batch THEN batchOf[c].status ELSE shown.detail[c]]
  <2>2. d \in [BatchNos -> BatchStatuses \union {NoBatch}]
    BY <1>6 DEF CloseInv, CloseTypeOK
  <2>3. shown' = [shown EXCEPT !.list = Generated, !.detail = d] BY <1>4
  <2> HIDE DEF d
  <2> QED BY <2>1, <2>2, <2>3 DEF CloseInv, CloseTypeOK
<1>8. PICK new : new = [batch |-> b, rows |-> w.seen.rows, since |-> w.since] OBVIOUS
<1>9. /\ new \in [batch : BatchNos, rows : Nat, since : Nat] /\ handed' = handed \union {new}
      /\ new.batch = b /\ new.rows = w.seen.rows /\ new.since = w.since
  BY <1>2, <1>4, <1>8
<1>10. CloseTypeOK' BY <1>1, <1>7, <1>9 DEF CloseInv, CloseTypeOK
<1>11. shown'.list = Generated BY <1>4 DEF CloseInv, CloseTypeOK
<1>12. OnlyGenerated' BY <1>1, <1>3, <1>5, <1>11 DEF OnlyGenerated
<1>13. WantsGrounded' BY <1>3, KeptStep DEF WantsGrounded
<1>14. HandedRight'
  <2>1. \A c : Ledger(c)' = Ledger(c) BY <1>1 DEF Ledger
  <2> QED BY <1>2, <1>3, <1>9, <2>1 DEF CloseInv, HandedRight
<1> QED BY <1>3, <1>10, <1>12, <1>13, <1>14, KeptStep DEF CloseInv

LEMMA CompletesInv ==
  ASSUME CloseInv, NEW w \in wants, Completes(w) PROVE CloseInv'
BY GenerateInv, RegenerateInv, ExportInv DEF Completes

LEMMA FailsInv ==
  ASSUME CloseInv, NEW w \in wants, Fails(w) PROVE CloseInv'
<1>1. Grounded(w) /\ entries' = entries BY DEF Fails, CloseInv, WantsGrounded
<1>2. BatchesKept /\ OneInForce'
  <2>1. CASE batchOf' = batchOf BY <1>1, <2>1, SameBatches
  <2>2. ASSUME w.op = "generate", NEW b \in BatchNos, generate_or_get_existing(w.with, b)
        PROVE  BatchesKept /\ OneInForce'
    BY <1>1, <2>2, GenerateKeeps DEF Grounded
  <2>3. ASSUME w.op = "regenerate", NEW b \in BatchNos, regenerate_batch(w.with, b)
        PROVE  BatchesKept /\ OneInForce'
    BY <1>1, <2>3, RegenerateKeeps DEF Grounded
  <2> QED BY <2>1, <2>2, <2>3 DEF Fails
<1>3. WantsGrounded' BY <1>2, KeptStep DEF Fails, WantsGrounded
<1>4. CloseTypeOK' BY <1>2 DEF Fails, CloseInv, CloseTypeOK, BatchesKept
<1> QED BY <1>2, <1>3, <1>4, KeptStep DEF Fails, CloseInv

LEMMA BatchReadInv ==
  ASSUME CloseInv, BatchRead PROVE CloseInv'
<1> DEFINE b == wizard.batch
<1>1. b \in Generated /\ b \in BatchNos /\ batchOf[b] \in BatchRow
  BY BatchKnown DEF BatchRead, CloseInv, OnlyGenerated, Generated
<1>2. wizard.profile \in Profiles BY DEF CloseInv, CloseTypeOK
<1>3. shown' \in {[shown EXCEPT !.list = Generated],
                 [shown EXCEPT !.detail[b] = batchOf[b].status],
                 [shown EXCEPT !.recon[b] = IF Drifted(b) THEN "drift" ELSE "same"],
                 [shown EXCEPT !.preview[<<b, wizard.profile>>] =
                    IF wizard.profile \in faulty THEN "faulty" ELSE "ready"]}
  BY DEF BatchRead
<1>4. batchOf[b].status \in BatchStatuses BY <1>1 DEF BatchRow
<1> HIDE DEF b
<1>5. Generated \in SUBSET BatchNos BY DEF Generated
<1>6. shown' \in [list : SUBSET BatchNos, detail : [BatchNos -> BatchStatuses \union {NoBatch}],
                  recon : [BatchNos -> {"unread", "drift", "same"}],
                  preview : [BatchNos \X Profiles -> {"unread", "faulty", "ready"}]]
  BY <1>1, <1>2, <1>3, <1>4, <1>5 DEF CloseInv, CloseTypeOK
<1>7. shown'.list \in {Generated, shown.list} BY <1>3 DEF CloseInv, CloseTypeOK
<1>8. BatchesKept /\ OneInForce' /\ Generated' = Generated BY SameBatches DEF BatchRead
<1>9. CloseTypeOK' BY <1>6 DEF BatchRead, CloseInv, CloseTypeOK
<1>10. OnlyGenerated' BY <1>7, <1>8 DEF BatchRead, CloseInv, OnlyGenerated
<1>11. WantsGrounded' BY <1>8, KeptStep DEF BatchRead, WantsGrounded
<1> QED BY <1>8, <1>9, <1>10, <1>11, KeptStep DEF BatchRead, CloseInv

LEMMA BehindItsBackInv ==
  ASSUME CloseInv, BehindItsBack PROVE CloseInv'
<1>1. events' \in 0..MaxEvents
  BY CloseAssumption DEF BehindItsBack, CloseInv, CloseTypeOK
<1>2. BatchesKept /\ OneInForce' /\ faulty' \subseteq Profiles
  <2>1. ASSUME NEW t \in Periods, entries' = [entries EXCEPT ![t] = @ + 1],
               UNCHANGED <<batchOf, faulty>>
        PROVE  BatchesKept /\ OneInForce' /\ faulty' \subseteq Profiles
    <3>1. Generated' = Generated BY <2>1 DEF Generated
    <3>2. /\ entries' \in [Periods -> Nat] /\ \A u \in Periods : entries[u] <= entries'[u]
      BY <2>1 DEF CloseInv, CloseTypeOK
    <3> QED BY <2>1, <3>1, <3>2
            DEF CloseInv, CloseTypeOK, BatchesKept, Generated, OneInForce, InForceBatch
  <2>2. ASSUME NEW b \in Generated, batchOf' = [batchOf EXCEPT ![b].status = "void"],
               UNCHANGED <<entries, faulty>>
        PROVE  BatchesKept /\ OneInForce' /\ faulty' \subseteq Profiles
    BY <2>2, StatusInv DEF BatchStatuses, CloseInv, CloseTypeOK
  <2>3. ASSUME NEW p \in Profiles, faulty' \in {faulty \union {p}, faulty \ {p}},
               UNCHANGED <<entries, batchOf>>
        PROVE  BatchesKept /\ OneInForce' /\ faulty' \subseteq Profiles
    BY <2>3, SameBatches DEF CloseInv, CloseTypeOK
  <2> QED BY <2>1, <2>2, <2>3 DEF BehindItsBack
<1>3. CloseTypeOK' BY <1>1, <1>2 DEF BehindItsBack, BatchesKept, CloseInv, CloseTypeOK
<1>4. WantsGrounded' BY <1>2, KeptStep DEF BehindItsBack, WantsGrounded
<1> QED BY <1>2, <1>3, <1>4, KeptStep DEF BehindItsBack, CloseInv

-----------------------------------------------------------------------------
LEMMA CloseStepInv ==
  ASSUME CloseInv, [CloseNext]_closeVars PROVE CloseInv'
<1>1. CASE UNCHANGED closeVars
  <2>1. BatchesKept /\ OneInForce' BY <1>1, SameBatches DEF closeVars
  <2>2. CloseTypeOK' /\ WantsGrounded'
    BY <1>1, <2>1, KeptStep DEF closeVars, CloseInv, CloseTypeOK, WantsGrounded
  <2> QED BY <1>1, <2>1, <2>2, KeptStep DEF closeVars, CloseInv
<1>2. CASE handleGenerateBatch
  <2>1. wizard.period \in Periods BY DEF CloseInv, CloseTypeOK
  <2> DEFINE new == [op |-> "generate", with |-> wizard.period, since |-> 0, stage |-> "sent",
                     seen |-> NoBatch]
  <2>2. new \in Want /\ Grounded(new) BY <2>1 DEF Grounded, Want
  <2> QED BY <1>2, <2>2, CloseAskInv DEF handleGenerateBatch
<1>3. CASE handleRegenerateBatch
  <2>1. wizard.batch \in Generated /\ wizard.batch \in BatchNos
    BY <1>3 DEF handleRegenerateBatch, hasDrift, CloseInv, OnlyGenerated, Generated
  <2> DEFINE new == [op |-> "regenerate", with |-> wizard.batch, since |-> 0, stage |-> "sent",
                     seen |-> NoBatch]
  <2>2. new \in Want /\ Grounded(new) BY <2>1 DEF Grounded, Want
  <2> QED BY <1>3, <2>2, CloseAskInv DEF handleRegenerateBatch
<1>4. CASE handleDownloadBatch
  <2>1. wizard.batch \in BatchNos
    BY <1>4 DEF handleDownloadBatch, selectedBatch, CloseInv, CloseTypeOK
  <2> DEFINE new == [op |-> "download", with |-> wizard.batch, since |-> 0, stage |-> "sent",
                     seen |-> NoBatch]
  <2>2. new \in Want /\ Grounded(new) BY <2>1 DEF Grounded, Want
  <2> QED BY <1>4, <2>2, CloseAskInv DEF handleDownloadBatch
<1>5. CASE handleDownloadMappedExport
  <2>1. wizard.batch \in Generated /\ wizard.batch \in BatchNos /\ wizard.profile \in Profiles
        /\ batchOf[wizard.batch] \in BatchRow
    BY <1>5, BatchKnown
       DEF handleDownloadMappedExport, selectedBatch, CloseInv, CloseTypeOK, OnlyGenerated,
           Generated
  <2>2. Ledger(wizard.batch) \in Nat BY <2>1 DEF Ledger, BatchRow, CloseInv, CloseTypeOK
  <2> DEFINE new == [op |-> "export", with |-> <<wizard.batch, wizard.profile>>,
                     since |-> Ledger(wizard.batch), stage |-> "sent", seen |-> NoBatch]
  <2>3. new \in Want BY <2>1, <2>2 DEF Want
  <2>4. Exporting(new) BY <2>1, <2>2 DEF Exporting
  <2>5. Grounded(new) BY <2>4 DEF Grounded
  <2> QED BY <1>5, <2>3, <2>5, CloseAskInv DEF handleDownloadMappedExport
<1>6. CASE BatchRead BY <1>6, BatchReadInv
<1>7. CASE BehindItsBack BY <1>7, BehindItsBackInv
<1>8. ASSUME NEW s \in WizardSteps, setActiveStep(s) PROVE CloseInv'
  BY <1>8, WizardInv DEF setActiveStep, CloseInv, CloseTypeOK, OnlyGenerated
<1>9. ASSUME NEW t \in Periods, ChooseDates(t) PROVE CloseInv'
  BY <1>9, WizardInv DEF ChooseDates, CloseInv, CloseTypeOK, OnlyGenerated
<1>10. ASSUME NEW b \in BatchNos, SelectFromAudit(b) PROVE CloseInv'
  BY <1>10, WizardInv DEF SelectFromAudit, CloseInv, CloseTypeOK, OnlyGenerated, WizardSteps
<1>11. ASSUME NEW p \in Profiles, ChooseProfile(p) PROVE CloseInv'
  BY <1>11, WizardInv DEF ChooseProfile, CloseInv, CloseTypeOK, OnlyGenerated
<1>12. ASSUME NEW w \in wants,
               \/ ExportReads(w) \/ ExportMaps(w) \/ ExportReconciles(w) \/ ExportCommits(w)
               \/ Completes(w) \/ Fails(w)
       PROVE  CloseInv'
  BY <1>12, ExportStepInv, CompletesInv, FailsInv
<1> QED BY <1>1, <1>2, <1>3, <1>4, <1>5, <1>6, <1>7, <1>8, <1>9, <1>10, <1>11, <1>12 DEF CloseNext

\* No two batches in force for a range, so at most one.
LEMMA OneCurrent ==
  ASSUME OneInForce, NEW t \in Periods PROVE Cardinality(CurrentOf(t)) <= 1
<1>1. \A b, c \in CurrentOf(t) : b = c
  BY DEF OneInForce, CurrentOf, InForceBatch, Generated
<1>2. CASE CurrentOf(t) = {} BY <1>2, FS_EmptySet
<1>3. CASE CurrentOf(t) # {}
  <2>1. PICK b : CurrentOf(t) = {b} BY <1>1, <1>3
  <2> QED BY <2>1, FS_Singleton
<1> QED BY <1>2, <1>3

LEMMA CloseInvariance == CloseSpec => []CloseInv
BY CloseInitInv, CloseStepInv, PTL DEF CloseSpec

\* Every variable keeps its type, the page's requests and what was handed over included, for
\* any number of ranges, batches and profiles.
THEOREM CloseTypeCorrect == CloseSpec => []CloseTypeOK
<1>1. CloseInv => CloseTypeOK BY DEF CloseInv
<1> QED BY <1>1, CloseInvariance, PTL

\* However stale what the page shows and whatever is committed between the steps of an export,
\* it hands over every entry the ledger had when it was asked for, and a range has one batch in
\* force at most.
THEOREM DriftStaysInside == CloseSpec => []DriftIsNotExported
<1>1. CloseInv => DriftIsNotExported
  BY OneCurrent DEF CloseInv, HandedRight, DriftIsNotExported
<1> QED BY <1>1, CloseInvariance, PTL

-----------------------------------------------------------------------------
(***************************************************************************)
(* MembersDesk: a save in steps keeps its form and its person.             *)
(***************************************************************************)

\* Nobody is taken off the books, and what was read is of people who are on them.
SeenArePeople == \A p \in PersonIds : seen[p] # Blank => person[p] # Blank
OneCodeEach ==
  /\ \A p, q \in Recorded : p # q /\ person[p].code # Blank => person[p].code # person[q].code
  /\ \A p \in Recorded : ~NumberTaken(person[p].number, p)

\* An editor of a member has that member's form.
EditorRight ==
  editor # Blank =>
    /\ editor.mode = "edit" => /\ editor.form.of = editor.entry
                               /\ editor.entry \in PersonIds /\ person[editor.entry] # Blank
\* A save has stored what comes before its next request, for the one person it is about.
SaveUnderWay(s) ==
  /\ canSubmitMemberForm(s.form) /\ s.next # "done" /\ "account" \notin s.stored
  /\ s.next = "person" => s.stored = {}
  /\ s.since <= foreign /\ (s.since = foreign => Holds(s))
  /\ s.mode = "edit" => s.form.of = s.who
  /\ s.next # "person" \/ s.mode = "edit" => s.who \in PersonIds /\ person[s.who] # Blank
  /\ s.next # "person" => "person" \in s.stored
  /\ s.next = "account" => /\ "membership" \in s.stored /\ AsksForAccount(s)
                           /\ person[s.who].terms # Blank
ToldRight ==
  told # Blank =>
    /\ {"person", "membership"} \subseteq told.stored
    /\ AsksForAccount(told) => "account" \in told.stored
    /\ told.who \in PersonIds /\ person[told.who] # Blank
    /\ told.since <= foreign /\ (told.since = foreign => Holds(told))

\* The invariant: a save keeps the form and the person it was started with, whatever the
\* page shows meanwhile, and asks for each request only after those before it.
MembersInv ==
  /\ MembersTypeOK /\ SeenArePeople /\ OneCodeEach /\ EditorRight /\ ToldRight
  /\ saving # Blank => SaveUnderWay(saving) /\ told = Blank

LEMMA MembersInitInv == ASSUME MembersInit PROVE MembersInv
<1> DEFINE first == [New(NewTerms) EXCEPT !.terms = NewTerms, !.contact = NewTerms]
<1>1. /\ first \in Person /\ first.code = Blank /\ first.number = Blank
  BY MembersAssumption DEF Person, New
<1>2. person = [p \in PersonIds |-> IF p \in Enrolled THEN first ELSE Blank]
  BY DEF MembersInit
<1>3. \A p \in PersonIds : person[p] # Blank => person[p].code = Blank /\ person[p].number = Blank
  BY <1>1, <1>2
<1>4. OneCodeEach BY <1>3 DEF OneCodeEach, Recorded, NumberTaken
<1>5. MembersTypeOK /\ SeenArePeople
  BY <1>1, <1>2, MembersAssumption DEF MembersInit, MembersTypeOK, SeenArePeople
<1> QED BY <1>4, <1>5 DEF MembersInit, MembersInv, EditorRight, ToldRight

\* A record that is put in a person's place with no one else's code or number.
Written(p, row) ==
  /\ row \in Person /\ person' = [person EXCEPT ![p] = row]
  /\ \/ row.code = Blank
     \/ person[p] # Blank /\ row.code = person[p].code
     \/ ~CodeTaken(row.code)
  /\ \/ person[p] # Blank /\ row.number = person[p].number
     \/ ~NumberTaken(row.number, p)
  /\ (person[p] # Blank /\ person[p].terms # Blank) => row.terms # Blank

\* People stay, keep their membership, and share neither code nor number.
PeopleKept ==
  /\ person' \in [PersonIds -> Person \union {Blank}] /\ OneCodeEach'
  /\ \A q \in PersonIds : person[q] # Blank =>
       person'[q] # Blank /\ (person[q].terms # Blank => person'[q].terms # Blank)

LEMMA WrittenKeeps ==
  ASSUME MembersTypeOK, OneCodeEach, NEW p \in PersonIds, NEW row, Written(p, row)
  PROVE  PeopleKept /\ person'[p] = row /\ row # Blank
<1>1. row # Blank BY MembersAssumption DEF Written
<1>2. /\ person' \in [PersonIds -> Person \union {Blank}] /\ person'[p] = row
      /\ \A q \in PersonIds \ {p} : person'[q] = person[q]
  BY DEF Written, MembersTypeOK
<1>3. \A q \in Recorded : q # p /\ row.code # Blank => person[q].code # row.code
  BY DEF Written, OneCodeEach, Recorded, CodeTaken
<1>4. \A q \in Recorded : q # p /\ row.number # Blank => person[q].number # row.number
  BY DEF Written, OneCodeEach, Recorded, NumberTaken
<1>5. \A q \in PersonIds : person'[q] # Blank =>
        \/ q = p /\ person'[q] = row
        \/ q \in Recorded /\ q # p /\ person'[q] = person[q]
  BY <1>2 DEF Recorded
<1>6. OneCodeEach'
  <2>1. ASSUME NEW q \in PersonIds, NEW r \in PersonIds, q # r, person'[q] # Blank,
               person'[r] # Blank
        PROVE  /\ person'[q].code # Blank => person'[q].code # person'[r].code
               /\ person'[q].number # Blank => person'[q].number # person'[r].number
    <3>1. CASE q = p BY <1>3, <1>4, <1>5, <2>1, <3>1
    <3>2. CASE r = p BY <1>3, <1>4, <1>5, <2>1, <3>2
    <3>3. CASE q # p /\ r # p
      BY <1>5, <2>1, <3>3 DEF OneCodeEach, NumberTaken
    <3> QED BY <3>1, <3>2, <3>3
  <2> QED BY <2>1 DEF OneCodeEach, Recorded, NumberTaken
<1> QED BY <1>1, <1>2, <1>6 DEF Written, PeopleKept

LEMMA NotWrittenKeeps ==
  ASSUME MembersTypeOK, OneCodeEach, person' = person
  PROVE  PeopleKept
BY DEF MembersTypeOK, OneCodeEach, PeopleKept, Recorded, NumberTaken

\* Whatever happens to people, editor, save and last success stay right.
LEMMA PeopleStep ==
  ASSUME MembersInv, PeopleKept
  PROVE  /\ \A q \in PersonIds : seen[q] # Blank => person'[q] # Blank
         /\ editor' = editor => EditorRight'
<1>1. \A q \in PersonIds : seen[q] # Blank => person'[q] # Blank
  BY DEF MembersInv, SeenArePeople, PeopleKept
<1>2. ASSUME editor' = editor PROVE EditorRight'
  BY <1>2 DEF MembersInv, EditorRight, PeopleKept
<1> QED BY <1>1, <1>2

\* A save under way and a success told hold as long as this page writes nothing: after
\* what someone else writes they promise less.
SavesStand ==
  \/ person' = person /\ foreign' = foreign
  \/ foreign \in Nat /\ foreign' = foreign + 1 /\ foreign' \in 0..MaxForeign

LEMMA SaveStep ==
  ASSUME MembersInv, PeopleKept, SavesStand
  PROVE  /\ told' = told => ToldRight' /\ told' \in MemberSave \union {Blank}
         /\ (saving # Blank /\ saving' = saving)
               => SaveUnderWay(saving)' /\ saving' \in MemberSave \union {Blank}
         /\ foreign' \in 0..MaxForeign
<1> USE DEF MembersInv, MembersTypeOK
<1>1. \A s \in MemberSave : s.since \in Nat
  BY MembersAssumption DEF MemberSave
<1>2. \A s \in MemberSave : s.since <= foreign =>
        s.since <= foreign' /\ (s.since = foreign' => s.since = foreign /\ person' = person)
  BY <1>1, MembersAssumption DEF SavesStand
<1>3. ASSUME told' = told PROVE ToldRight'
  <2>1. CASE told = Blank BY <1>3, <2>1 DEF ToldRight
  <2>2. CASE told # Blank
    <3>1. told \in MemberSave /\ told.since <= foreign BY <2>2 DEF ToldRight
    <3>2. /\ told.since <= foreign'
          /\ told.since = foreign' => told.since = foreign /\ person' = person
      BY <1>2, <3>1
    <3>3. told.since = foreign' => Holds(told)' BY <1>3, <2>2, <3>2 DEF ToldRight, Holds
    <3> QED BY <1>3, <2>2, <3>2, <3>3 DEF ToldRight, PeopleKept, AsksForAccount
  <2> QED BY <2>1, <2>2
<1>4. ASSUME saving # Blank, saving' = saving PROVE SaveUnderWay(saving)'
  <2>1. saving \in MemberSave /\ SaveUnderWay(saving) BY <1>4
  <2>2. saving.since <= foreign'
        /\ (saving.since = foreign' => saving.since = foreign /\ person' = person)
    BY <1>2, <2>1 DEF SaveUnderWay
  <2>3. saving.since = foreign' => Holds(saving)' BY <1>4, <2>1, <2>2 DEF SaveUnderWay, Holds
  <2> QED BY <1>4, <2>1, <2>2, <2>3
          DEF SaveUnderWay, PeopleKept, AsksForAccount, canSubmitMemberForm
<1>5. foreign' \in 0..MaxForeign BY DEF SavesStand
<1> QED BY <1>3, <1>4, <1>5

-----------------------------------------------------------------------------
\* The page: nothing but what is picked, typed and started changes.
LEMMA EditorOpens ==
  ASSUME MembersInv, openCreateMember \/ openEditMember
  PROVE  EditorRight' /\ editor' \in MemberEditor \union {Blank}
<1> USE DEF MembersInv, MembersTypeOK, buildMemberEditorState, memberFormValues, EditorRight
<1>1. CASE openCreateMember
  BY <1>1, MembersAssumption DEF openCreateMember, MemberEditor, MemberForm
<1>2. CASE openEditMember
  <2>1. picked \in PersonIds /\ seen[picked] \in Person /\ picked # Blank
        /\ person[picked] # Blank
    BY <1>2, MembersAssumption DEF openEditMember, Directory, SeenArePeople
  <2>2. /\ seen[picked].terms \in Says \union {Blank} /\ seen[picked].fields \in Says
        /\ seen[picked].code \in Codes \union {Blank}
        /\ seen[picked].number \in Codes \union {Blank}
        /\ seen[picked].contact \in Says \union {Blank}
    BY <2>1 DEF Person
  <2>3. editor' = [mode |-> "edit",
                   form |-> [of |-> picked, terms |-> seen[picked].terms,
                             number |-> seen[picked].number, code |-> Blank,
                             contact |-> seen[picked].contact, fields |-> seen[picked].fields],
                   entry |-> picked, account |-> seen[picked].code]
    BY <1>2, <2>1 DEF openEditMember
  <2>4. editor' \in MemberEditor BY <2>1, <2>2, <2>3 DEF MemberEditor, MemberForm
  <2>5. /\ editor'.mode = "edit" /\ editor'.form.of = picked /\ editor'.entry = picked
        /\ person' = person
    BY <1>2, <2>3 DEF openEditMember
  <2> QED BY <2>1, <2>4, <2>5
<1> QED BY <1>1, <1>2

\* What may be typed, and into which field.
Typing(field, v) ==
  \/ v \in Says /\ field \in {"fields", "terms", "contact"}
  \/ v \in Codes /\ field \in {"code", "number"}
  \/ v = Blank /\ field \in {"contact", "code", "number"}

LEMMA EditorTyped ==
  ASSUME MembersInv, NEW field, NEW v, Typing(field, v), TypeMember(field, v)
  PROVE  EditorRight' /\ editor' \in MemberEditor \union {Blank} /\ entered' \in 0..MaxTyped
<1>1. editor \in MemberEditor BY DEF MembersInv, MembersTypeOK, TypeMember
<1>2. editor' \in MemberEditor /\ editor'.mode = editor.mode /\ editor'.entry = editor.entry
      /\ editor'.form.of = editor.form.of
  <2> USE <1>1 DEF TypeMember, Typing, MemberEditor, MemberForm
  <2>1. CASE field = "fields" BY <2>1
  <2>2. CASE field = "terms" BY <2>2
  <2>3. CASE field = "contact" BY <2>3
  <2>4. CASE field = "code" BY <2>4
  <2>5. CASE field = "number" BY <2>5
  <2> QED BY <2>1, <2>2, <2>3, <2>4, <2>5
<1>3. person' = person BY DEF TypeMember
<1>4. entered' \in 0..MaxTyped BY MembersAssumption DEF MembersInv, MembersTypeOK, TypeMember
<1> QED BY <1>2, <1>3, <1>4 DEF MembersInv, EditorRight, TypeMember

LEMMA SubmitInv == ASSUME MembersInv, handleEditorSubmit PROVE MembersInv'
<1> USE DEF MembersInv, MembersTypeOK
<1>1. /\ saving' = [who |-> editor.entry, next |-> "person", mode |-> editor.mode,
                    form |-> editor.form, account |-> editor.account, stored |-> {},
                    since |-> foreign]
      /\ foreign' = foreign /\ told' = Blank /\ person' = person
  BY DEF handleEditorSubmit
<1>2. /\ editor \in MemberEditor /\ canSubmitMemberForm(editor.form)
      /\ editor.mode = "edit" => /\ editor.form.of = editor.entry
                                 /\ editor.entry \in PersonIds /\ person[editor.entry] # Blank
  BY DEF handleEditorSubmit, EditorRight
<1>3. saving' \in MemberSave BY <1>1, <1>2 DEF MemberEditor, MemberSave
<1>4. foreign \in Nat BY MembersAssumption
<1>5. Holds(saving)' BY <1>1 DEF Holds
<1>6. SaveUnderWay(saving)'
  BY <1>1, <1>2, <1>3, <1>4, <1>5 DEF SaveUnderWay, canSubmitMemberForm
<1>7. PeopleKept BY <1>1, NotWrittenKeeps
<1>8. saved' \in 0..MaxSubmits BY MembersAssumption DEF handleEditorSubmit
<1> QED BY <1>1, <1>3, <1>6, <1>7, <1>8, PeopleStep
        DEF handleEditorSubmit, ToldRight, SeenArePeople, PeopleKept

LEMMA MembersPageInv ==
  ASSUME MembersInv,
         \/ openCreateMember \/ openEditMember \/ closeEditor \/ DirectoryRead
         \/ \E p \in PersonIds : SelectMember(p)
         \/ \E field, v : Typing(field, v) /\ TypeMember(field, v)
  PROVE  MembersInv'
<1> USE DEF MembersInv, MembersTypeOK
<1> USE DEF openCreateMember, openEditMember, closeEditor, DirectoryRead, SelectMember, TypeMember
<1>1. /\ person' = person /\ saving' = saving /\ saved' = saved /\ foreign' = foreign
      /\ PeopleKept /\ SavesStand
  BY NotWrittenKeeps DEF SavesStand
<1>2. EditorRight' /\ editor' \in MemberEditor \union {Blank} /\ entered' \in 0..MaxTyped
  <2>1. CASE openCreateMember \/ openEditMember BY <2>1, EditorOpens
  <2>2. CASE closeEditor BY <2>2 DEF EditorRight
  <2>3. CASE editor' = editor /\ entered' = entered BY <1>1, <2>3, PeopleStep
  <2> QED BY <2>1, <2>2, <2>3, EditorTyped
<1>3. ToldRight' /\ told' \in MemberSave \union {Blank} /\ (told = Blank => told' = Blank)
  <2>1. CASE told' = Blank BY <2>1 DEF ToldRight
  <2>2. CASE told' = told BY <1>1, <2>2, SaveStep
  <2> QED BY <2>1, <2>2
<1>4. seen' \in {seen, person} OBVIOUS
<1>5. picked' \in PersonIds \union {Blank} OBVIOUS
<1> QED BY <1>1, <1>2, <1>3, <1>4, <1>5, PeopleStep, SaveStep DEF PeopleKept, SeenArePeople

-----------------------------------------------------------------------------
\* What a request of a save writes: the fields of the person, the terms of the membership
\* or a code that nobody has.
LEMMA SaveWrites ==
  ASSUME MembersInv, saving # Blank, ~Refusable(saving), NEW p \in Target(saving),
         person' = [person EXCEPT ![p] = PersonAfter(saving, p)]
  PROVE  /\ p \in PersonIds /\ Written(p, PersonAfter(saving, p))
         /\ saving.next = "person" =>
              /\ PersonAfter(saving, p).fields = saving.form.fields
              /\ saving.form.contact \in {Blank, PersonAfter(saving, p).contact}
         /\ saving.next = "membership" =>
              /\ PersonAfter(saving, p).terms = saving.form.terms
              /\ PersonAfter(saving, p).terms # Blank
              /\ saving.form.number \in {Blank, PersonAfter(saving, p).number}
              /\ PersonAfter(saving, p) = [person[p] EXCEPT !.terms = saving.form.terms,
                                             !.number = PersonAfter(saving, p).number]
         /\ saving.next = "account" =>
              PersonAfter(saving, p) = [person[p] EXCEPT !.code = saving.form.code]
<1> DEFINE row == PersonAfter(saving, p)
<1>1. /\ saving \in MemberSave /\ canSubmitMemberForm(saving.form) /\ saving.form \in MemberForm
      /\ saving.form.fields \in Says /\ saving.form.terms \in Says
      /\ saving.form.code \in Codes \union {Blank}
      /\ saving.form.contact \in Says \union {Blank}
      /\ saving.form.number \in Codes \union {Blank}
      /\ saving.next \in {"person", "membership", "account"}
  BY DEF MembersInv, MembersTypeOK, SaveUnderWay, MemberSave, MemberForm, canSubmitMemberForm
<1>2. CASE saving.next = "person" /\ saving.mode = "create"
  <2>1. p \in PersonIds /\ person[p] = Blank BY <1>2 DEF Target, Recorded
  <2>2. row = [terms |-> Blank, number |-> Blank, code |-> Blank,
               contact |-> saving.form.contact, fields |-> saving.form.fields]
    BY <1>2 DEF PersonAfter, New
  <2>3. row \in Person BY <1>1, <2>2 DEF Person
  <2>4. ~NumberTaken(row.number, p) BY <2>2 DEF NumberTaken
  <2> QED BY <1>2, <2>1, <2>2, <2>3, <2>4 DEF Written
<1>3. ASSUME ~(saving.next = "person" /\ saving.mode = "create")
      PROVE  /\ p = saving.who /\ p \in PersonIds /\ person[p] # Blank /\ person[p] \in Person
  BY <1>1, <1>3 DEF Target, MembersInv, SaveUnderWay, MembersTypeOK, MemberSave
<1>4. CASE saving.next = "person" /\ saving.mode # "create"
  <2> DEFINE kept == Given(saving.form.contact, person[p].contact)
  <2>1. row = [person[p] EXCEPT !.fields = saving.form.fields, !.contact = kept]
    BY <1>1, <1>4 DEF PersonAfter, MemberSave
  <2>2. kept \in Says \union {Blank} /\ saving.form.contact \in {Blank, kept}
    BY <1>1, <1>3, <1>4 DEF Person, Given
  <2>3. /\ row \in Person /\ row.code = person[p].code /\ row.terms = person[p].terms
        /\ row.number = person[p].number
        /\ row.fields = saving.form.fields /\ row.contact = kept
    BY <1>1, <1>3, <1>4, <2>1, <2>2 DEF Person
  <2> QED BY <1>3, <1>4, <2>2, <2>3 DEF Written
<1>5. CASE saving.next = "membership"
  <2> DEFINE kept == Given(saving.form.number, person[p].number)
  <2>1. row = [person[p] EXCEPT !.terms = saving.form.terms, !.number = kept]
    BY <1>5 DEF PersonAfter
  <2>2. kept \in Codes \union {Blank} /\ saving.form.number \in {Blank, kept}
    BY <1>1, <1>3, <1>5 DEF Person, Given
  <2>3. row \in Person /\ row.code = person[p].code /\ row.terms = saving.form.terms
        /\ row.number = kept
    BY <1>1, <1>3, <1>5, <2>1, <2>2 DEF Person
  <2>4. row.terms # Blank BY <1>1, <2>3, MembersAssumption
  <2>5. kept = person[p].number \/ ~NumberTaken(kept, p)
    BY <1>3, <1>5 DEF Given, Refusable
  <2> QED BY <1>3, <1>5, <2>1, <2>2, <2>3, <2>4, <2>5 DEF Written
<1>6. CASE saving.next = "account"
  <2>1. row = [person[p] EXCEPT !.code = saving.form.code] BY <1>6 DEF PersonAfter
  <2>2. row \in Person /\ row.code = saving.form.code /\ row.terms = person[p].terms
        /\ row.number = person[p].number
    BY <1>1, <1>3, <1>6, <2>1 DEF Person
  <2>3. ~CodeTaken(row.code) BY <1>6, <2>2 DEF Refusable
  <2> QED BY <1>3, <1>6, <2>1, <2>2, <2>3 DEF Written
<1> QED BY <1>1, <1>2, <1>4, <1>5, <1>6 DEF MemberSave

\* After the next request the server holds what the save has stored.
LEMMA SaveHolds ==
  ASSUME MembersInv, saving # Blank, ~Refusable(saving), NEW p \in Target(saving),
         person' = [person EXCEPT ![p] = PersonAfter(saving, p)],
         NEW s, s.who = p, s.form = saving.form, saving.since = foreign,
         s.stored = saving.stored \union {saving.next}
  PROVE  Holds(s)'
<1>1. PICK row : row = PersonAfter(saving, p) OBVIOUS
<1>2. p \in PersonIds /\ Written(p, row) BY <1>1, SaveWrites
<1>3. person'[p] = row BY <1>2, WrittenKeeps DEF MembersInv
<1>4. /\ SaveUnderWay(saving) /\ saving \in MemberSave /\ Holds(saving)
  BY DEF MembersInv, MembersTypeOK, SaveUnderWay
<1>5. saving.next # "person" => p = saving.who /\ person[p] \in Person
  BY <1>2, <1>4, MembersAssumption DEF Target, SaveUnderWay, MembersInv, MembersTypeOK
<1>6. CASE saving.next = "person"
  <2>1. row.fields = saving.form.fields /\ saving.form.contact \in {Blank, row.contact}
    BY <1>1, <1>6, SaveWrites
  <2> QED BY <1>3, <1>4, <1>6, <2>1 DEF Holds, SaveUnderWay
<1>7. CASE saving.next = "membership"
  <2>1. row = [person[p] EXCEPT !.terms = saving.form.terms, !.number = row.number]
        /\ saving.form.number \in {Blank, row.number}
    BY <1>1, <1>7, SaveWrites
  <2>2. /\ row.fields = person[p].fields /\ row.contact = person[p].contact
        /\ row.terms = saving.form.terms
    BY <1>5, <1>7, <2>1 DEF Person
  <2> QED BY <1>3, <1>4, <1>5, <1>7, <2>1, <2>2 DEF Holds, SaveUnderWay
<1>8. CASE saving.next = "account"
  <2>1. row = [person[p] EXCEPT !.code = saving.form.code] BY <1>1, <1>8, SaveWrites
  <2>2. /\ row.fields = person[p].fields /\ row.contact = person[p].contact
        /\ row.terms = person[p].terms /\ row.number = person[p].number
        /\ row.code = saving.form.code
    BY <1>5, <1>8, <2>1 DEF Person
  <2> QED BY <1>3, <1>4, <1>5, <1>8, <2>2 DEF Holds, SaveUnderWay
<1> QED BY <1>4, <1>6, <1>7, <1>8 DEF MemberSave, SaveUnderWay

LEMMA StepSavedInv == ASSUME MembersInv, StepSaved PROVE MembersInv'
<1>1. /\ saving # Blank /\ ~Refusable(saving) /\ SaveUnderWay(saving) /\ saving \in MemberSave
      /\ told = Blank /\ foreign' = foreign /\ foreign \in 0..MaxForeign
  BY DEF StepSaved, MembersInv, MembersTypeOK
<1>2. PICK p \in Target(saving) :
        LET s == [saving EXCEPT !.who = p, !.next = Following(saving),
                                !.stored = @ \union {saving.next}]
        IN /\ person' = [person EXCEPT ![p] = PersonAfter(saving, p)]
           /\ IF s.next = "done"
              THEN saving' = Blank /\ told' = s /\ editor' = Blank
              ELSE saving' = s /\ UNCHANGED <<told, editor>>
  BY DEF StepSaved
<1>3. PICK row : row = PersonAfter(saving, p) OBVIOUS
<1>4. PICK s : s = [saving EXCEPT !.who = p, !.next = Following(saving),
                                  !.stored = @ \union {saving.next}]
  OBVIOUS
<1>5. /\ p \in PersonIds /\ Written(p, row)
      /\ saving.next = "membership" => row.terms # Blank
      /\ saving.next = "account" => row = [person[p] EXCEPT !.code = saving.form.code]
  BY <1>1, <1>2, <1>3, SaveWrites
<1>6. PeopleKept /\ person'[p] = row /\ row # Blank
  BY <1>5, WrittenKeeps DEF MembersInv
<1>7. PICK next : next = Following(saving) OBVIOUS
<1>8. /\ s.who = p /\ s.next = next /\ s.stored = saving.stored \union {saving.next}
      /\ s.mode = saving.mode /\ s.form = saving.form /\ s.account = saving.account
      /\ s.since = saving.since /\ next \in {"membership", "account", "done"}
      /\ s \in MemberSave
  BY <1>1, <1>4, <1>5, <1>7 DEF MemberSave, Following, SaveUnderWay
<1>9. AsksForAccount(s) <=> AsksForAccount(saving) BY <1>8 DEF AsksForAccount
<1>10. /\ canSubmitMemberForm(s.form)
       /\ s.mode = "edit" => s.form.of = s.who
  BY <1>1, <1>2, <1>8 DEF SaveUnderWay, Target
<1>11. s.since <= foreign /\ (s.since = foreign => Holds(s)')
  BY <1>1, <1>2, <1>8, SaveHolds DEF SaveUnderWay
<1>12. saving.next = "account" => row.terms # Blank
  BY <1>1, <1>2, <1>5 DEF SaveUnderWay, Target, MembersInv, MembersTypeOK, Person
<1>13. CASE next = "done"
  <2>1. saving' = Blank /\ told' = s /\ editor' = Blank BY <1>2, <1>4, <1>8, <1>13
  <2>2. /\ {"person", "membership"} \subseteq s.stored
        /\ AsksForAccount(s) => "account" \in s.stored
    BY <1>1, <1>7, <1>8, <1>9, <1>13 DEF Following, SaveUnderWay, MemberSave
  <2>4. AsksForAccount(told)' <=> AsksForAccount(s) BY <2>1 DEF AsksForAccount
  <2>5. Holds(told)' <=> Holds(s)' BY <2>1 DEF Holds
  <2>6. ToldRight' BY <1>1, <1>5, <1>6, <1>8, <1>11, <2>1, <2>2, <2>4, <2>5 DEF ToldRight
  <2> QED BY <1>6, <1>8, <2>1, <2>6 DEF StepSaved, MembersInv, MembersTypeOK, SeenArePeople,
                                        PeopleKept, EditorRight
<1>14. CASE next # "done"
  <2>1. saving' = s /\ told' = told /\ editor' = editor BY <1>2, <1>4, <1>8, <1>14
  <2>2. next \in {"membership", "account"} BY <1>8, <1>14
  <2>3. /\ "person" \in s.stored /\ "account" \notin s.stored
        /\ next = "account" => /\ "membership" \in s.stored /\ AsksForAccount(s)
                               /\ row.terms # Blank
    BY <1>1, <1>5, <1>7, <1>8, <1>9, <1>14 DEF Following, SaveUnderWay, MemberSave
  <2>4. AsksForAccount(saving)' <=> AsksForAccount(s) BY <2>1 DEF AsksForAccount
  <2>5. Holds(saving)' <=> Holds(s)' BY <2>1 DEF Holds
  <2>6. SaveUnderWay(saving)'
    BY <1>1, <1>5, <1>6, <1>8, <1>10, <1>11, <2>1, <2>2, <2>3, <2>4, <2>5
       DEF SaveUnderWay, canSubmitMemberForm
  <2>7. EditorRight' /\ ToldRight' BY <1>1, <1>6, <2>1, PeopleStep DEF ToldRight
  <2> QED BY <1>1, <1>6, <1>8, <2>1, <2>6, <2>7
          DEF StepSaved, MembersInv, MembersTypeOK, SeenArePeople, PeopleKept
<1> QED BY <1>13, <1>14

LEMMA StepFailedInv == ASSUME MembersInv, StepFailed PROVE MembersInv'
<1>1. PeopleKept
  <2>1. CASE person' = person BY <2>1, NotWrittenKeeps DEF MembersInv
  <2>2. ASSUME ~Refusable(saving), NEW p \in Target(saving),
               person' = [person EXCEPT ![p] = PersonAfter(saving, p)]
        PROVE  PeopleKept
    <3>1. p \in PersonIds /\ Written(p, PersonAfter(saving, p))
      BY <2>2, SaveWrites DEF StepFailed
    <3> QED BY <3>1, WrittenKeeps DEF MembersInv
  <2> QED BY <2>1, <2>2 DEF StepFailed
<1> QED BY <1>1, PeopleStep
        DEF StepFailed, MembersInv, MembersTypeOK, SeenArePeople, PeopleKept, ToldRight

LEMMA ElsewhereInv ==
  ASSUME MembersInv, NEW p \in PersonIds, EditedElsewhere(p)
  PROVE  MembersInv'
<1>1. person[p] # Blank /\ person[p] \in Person
  BY DEF EditedElsewhere, Recorded, MembersInv, MembersTypeOK
<1>2. ASSUME NEW v \in Says, person' = [person EXCEPT ![p].fields = v] PROVE PeopleKept
  <2>1. Written(p, [person[p] EXCEPT !.fields = v])
    BY <1>1, <1>2 DEF Written, Person, MembersInv, MembersTypeOK
  <2> QED BY <2>1, WrittenKeeps DEF MembersInv
<1>3. ASSUME NEW c \in Codes, ~CodeTaken(c), person' = [person EXCEPT ![p].code = c]
      PROVE  PeopleKept
  <2>1. Written(p, [person[p] EXCEPT !.code = c])
    BY <1>1, <1>3 DEF Written, Person, MembersInv, MembersTypeOK
  <2> QED BY <2>1, WrittenKeeps DEF MembersInv
<1>4. ASSUME NEW n \in Codes, ~NumberTaken(n, p), person' = [person EXCEPT ![p].number = n]
      PROVE  PeopleKept
  <2>1. Written(p, [person[p] EXCEPT !.number = n])
    BY <1>1, <1>4 DEF Written, Person, MembersInv, MembersTypeOK
  <2> QED BY <2>1, WrittenKeeps DEF MembersInv
<1>5. PeopleKept BY <1>2, <1>3, <1>4 DEF EditedElsewhere
<1>6. SavesStand BY MembersAssumption DEF EditedElsewhere, SavesStand, MembersInv, MembersTypeOK
<1> QED BY <1>5, <1>6, PeopleStep, SaveStep
        DEF EditedElsewhere, MembersInv, MembersTypeOK, SeenArePeople, PeopleKept

LEMMA MembersStepInv == MembersInv /\ [MembersNext]_membersVars => MembersInv'
<1> SUFFICES ASSUME MembersInv, [MembersNext]_membersVars PROVE MembersInv' OBVIOUS
<1>1. CASE UNCHANGED membersVars
  <2>1. PeopleKept /\ SavesStand BY <1>1, NotWrittenKeeps DEF membersVars, MembersInv, SavesStand
  <2> QED BY <1>1, <2>1, PeopleStep, SaveStep
          DEF membersVars, MembersInv, MembersTypeOK, SeenArePeople, PeopleKept
<1>2. CASE MembersNext
  <2>1. ASSUME \/ \E v \in Says : TypeMember("fields", v) \/ TypeMember("terms", v)
               \/ \E v \in Says \union {Blank} : TypeMember("contact", v)
               \/ \E c \in Codes \union {Blank} : TypeMember("code", c) \/ TypeMember("number", c)
        PROVE  \E field, v : Typing(field, v) /\ TypeMember(field, v)
    BY <2>1 DEF Typing
  <2> QED BY <1>2, <2>1, MembersPageInv, SubmitInv, StepSavedInv, StepFailedInv, ElsewhereInv
          DEF MembersNext
<1> QED BY <1>1, <1>2

\* What is typed over one member is written to that member; a success the page tells stored
\* all that was asked for, and the server has it unless someone else wrote since; and no two
\* people have one account code or one membership number.
THEOREM SavesAlwaysWhole == MembersSpec => []SavesAreWholeAndTheirOwn
<1>1. MembersInv => SavesAreWholeAndTheirOwn
  BY DEF MembersInv, SaveUnderWay, ToldRight, OneCodeEach, SavesAreWholeAndTheirOwn
<1> QED BY <1>1, MembersInitInv, MembersStepInv, PTL DEF MembersSpec

\* Every variable of the members page keeps its type: people, what was read of them, the
\* editor and its form, the save under way and the one last called a success, the bounds.
THEOREM MembersTypeCorrect == MembersSpec => []MembersTypeOK
<1>1. MembersInv => MembersTypeOK BY DEF MembersInv
<1> QED BY <1>1, MembersInitInv, MembersStepInv, PTL DEF MembersSpec

-----------------------------------------------------------------------------
(***************************************************************************)
(* BrowserSession: one refresh at a time, where a user signs in only when   *)
(* no request of the last user is on its way, as long as every refresh came *)
(* back with a token or a refusal; and what holds whatever is lost.         *)
(***************************************************************************)

\* A session the server issued; a request of the tab, with the types that no step changes.
AuthRec == [user : Users, fresh : BOOLEAN, live : BOOLEAN, next : Nat]
CallStatuses == {0, 200, 401, 403, 500}
CallSteps == {"sent", "answered", "joined", "own", "ownAnswered"}
CallKinds == {"login", "logout", "page", "boot"}
SomeUser == Users \union {Nobody}
SomeClub == Clubs \union {Nobody}
CallRec ==
  [status : CallStatuses, club : SomeClub, step : CallSteps, boot : SomeUser, kind : CallKinds,
   cookie : Nat, got : Nat, token : Nat, retry : BOOLEAN, again : BOOLEAN, user : SomeUser]
TabRec == [boot : Users \union {Nobody}, token : Tokens, seen : Tokens, loading : BOOLEAN,
           initialized : BOOLEAN, failed : BOOLEAN]
\* A cookie the server refuses now and ever; one that no refresh has used up, or will behind
\* the tab's back.
Dead(c) == c = 0 \/ ~auth[c].live
Unspent(c) == c = 0 \/ (auth[c].next = 0 /\ c \notin strays)

\* A session that lives has not been replaced.
AuthRight ==
  /\ auth \in Seq(AuthRec)
  /\ \A n \in 1..Len(auth) : auth[n].next \in Tokens /\ (auth[n].live => auth[n].next = 0)
\* The tab and its storage agree on the token.
TabRight ==
  /\ jar \in Tokens
  /\ store \in [club : Clubs \union {Nobody}, token : Tokens]
  /\ tab \in TabRec /\ store.token = tab.token
TroublesRight == strays \subseteq Tokens /\ astray \in BOOLEAN /\ mishaps \in 0..Mishaps
\* As long as no refresh went astray, the provider refreshes by itself only after the shared
\* refresh was refused: whatever cookie is left, the server refuses it too.
OwnRefused ==
  /\ Dead(jar)
  /\ shared.step = "sent" => Dead(shared.cookie)
  /\ shared.step = "answered" => shared.got = 0
\* And a request that was sent again carries a token that has not run out.
Calm(c) ==
  /\ ~c.again
  /\ (c.kind \in {"page", "boot"} /\ ~c.retry)
       => \/ c.step = "sent" /\ c.token # 0 /\ auth[c.token].fresh
          \/ c.step = "answered" /\ c.status # 401
  /\ c.step = "own" => Dead(c.cookie) /\ Unspent(c.cookie)
  /\ c.step = "ownAnswered" => c.status = 401
  /\ c.step \in {"own", "ownAnswered"} => OwnRefused
\* Always: one that waits has a refresh to wait for, and no other gets the same token.
CallRight(c) ==
  /\ c \in CallRec
  /\ c.cookie \in Tokens /\ c.got \in Tokens /\ c.token \in Tokens
  /\ c.kind \in {"login", "logout"} => c.step \in {"sent", "answered"}
  /\ c.kind = "login" => /\ c.user \in Users /\ Unspent(c.got)
                         /\ (c.step = "answered" /\ c.status = 200) => c.got # 0
  /\ c.kind = "page" => c.step \in {"sent", "answered", "joined"}
  /\ (c.kind = "boot" /\ c.step = "answered" /\ c.status = 200) => c.boot # Nobody
  /\ c.got # 0 => c.kind = "login" \/ c.step = "ownAnswered"
  /\ c.step = "joined" => shared.step # "none"
  /\ shared.got # 0 => c.got # shared.got
  /\ ~astray => Calm(c)
CallsRight ==
  /\ calls = [i \in Calls |-> calls[i]]
  /\ \A i \in Calls : calls[i] = Idle \/ CallRight(calls[i])
\* Nothing else is on its way while somebody signs in.
LoginAlone ==
  \A i \in Calls : calls[i].kind = "login" =>
    /\ tab.token = 0 /\ shared.step = "none"
    /\ \A j \in Calls \ {i} : calls[j] = Idle
\* As long as no refresh went astray, the cookie in the jar is the one a shared refresh was
\* sent with, until it is answered with a token; between two refreshes the cookie is unspent.
SharedCalm ==
  /\ shared.step = "none" => Unspent(jar)
  /\ shared.step # "none" => jar \in {0, shared.cookie}
  /\ shared.step = "sent" => Unspent(shared.cookie)
  /\ (shared.step = "answered" /\ shared.got = 0) => Dead(shared.cookie) /\ Unspent(shared.cookie)
  /\ (shared.step = "answered" /\ shared.got # 0) => auth[shared.got].fresh /\ Unspent(shared.got)
\* A token the shared refresh brings is one the tab has not seen.
SharedRight ==
  /\ shared \in [step : {"none", "sent", "answered"}, cookie : Tokens, got : Tokens]
  /\ shared.step # "answered" => shared.got = 0
  /\ shared.got # 0 => tab.seen # shared.got /\ tab.token # shared.got
  /\ ~astray => SharedCalm
\* The invariant.
SessInv ==
  /\ AuthRight /\ TabRight /\ CallsRight /\ LoginAlone /\ SharedRight /\ WaitingIsAsking
  /\ TroublesRight /\ Len(auth) <= Signings

\* The step gives one request another state.
Puts(i, c) ==
  /\ calls' = [j \in Calls |-> calls'[j]] /\ calls'[i] = c
  /\ \A j \in Calls \ {i} : calls'[j] = calls[j]

\* What any step of the server does to the sessions: none comes alive again. What most steps
\* leave unspent.
Grows ==
  /\ AuthRight' /\ Len(auth') \in Nat /\ Len(auth) <= Len(auth')
  /\ \A n \in 1..Len(auth) : /\ auth'[n].live => auth[n].live
                             /\ ~auth[n].live => auth'[n].next = auth[n].next
FreshKept == \A n \in 1..Len(auth) : auth[n].fresh => auth'[n].fresh
NextKept == \A n \in 1..Len(auth) : auth'[n].next = auth[n].next
UnspentKept == \A n \in Tokens : Unspent(n) => Unspent(n)'
\* Nothing goes astray.
StaysCalm == ~astray' => ~astray /\ UNCHANGED strays

LEMMA ReplacedAt ==
  ASSUME NEW S, NEW s \in Seq(S), NEW m \in 1..Len(s), NEW v \in S,
         NEW t, t = [s EXCEPT ![m] = v]
  PROVE  t \in Seq(S) /\ Len(t) = Len(s) /\ t[m] = v /\ \A n \in 1..Len(s) : n # m => t[n] = s[n]
OBVIOUS

LEMMA KeepsUnspent ==
  ASSUME AuthRight, NextKept, UNCHANGED strays
  PROVE  UnspentKept
BY DEF AuthRight, NextKept, UnspentKept, Unspent, Tokens

LEMMA SameAuth == ASSUME AuthRight, UNCHANGED auth PROVE Grows /\ FreshKept /\ NextKept
BY DEF AuthRight, Grows, FreshKept, NextKept, Tokens

LEMMA IssueGrows ==
  ASSUME AuthRight, NEW u \in Users, auth' = Issue(u)
  PROVE  /\ Grows /\ FreshKept /\ NextKept /\ Len(auth') = Len(auth) + 1
         /\ auth'[Len(auth) + 1].fresh /\ auth'[Len(auth) + 1].next = 0
<1>1. Session(u) \in AuthRec /\ Session(u).next = 0 /\ Session(u).fresh
  BY DEF Session, AuthRec
<1>2. Len(auth) \in Nat /\ auth \in Seq(AuthRec) BY DEF AuthRight
<1> DEFINE r == Session(u)
<1> HIDE DEF r
<1>3. /\ auth' \in Seq(AuthRec) /\ Len(auth') = Len(auth) + 1
      /\ \A n \in 1..Len(auth) : auth'[n] = auth[n]
      /\ auth'[Len(auth) + 1] = r
  BY <1>1, <1>2 DEF Issue, r
<1>4. \A n \in 1..Len(auth') : n \in 1..Len(auth) \/ n = Len(auth) + 1 BY <1>2, <1>3
<1>5. r.next = 0 /\ r.fresh BY <1>1 DEF r
<1>6. AuthRight' BY <1>2, <1>3, <1>4, <1>5 DEF AuthRight, Tokens
<1> QED BY <1>2, <1>3, <1>5, <1>6 DEF Grows, FreshKept, NextKept

LEMMA RotationGrows ==
  ASSUME AuthRight, NEW m \in 1..Len(auth), auth[m].live, auth' = Rotated(m)
  PROVE  /\ Grows /\ FreshKept /\ Len(auth') = Len(auth) + 1
         /\ auth'[Len(auth) + 1].fresh /\ auth'[Len(auth) + 1].next = 0
         /\ \A n \in 1..Len(auth) : n # m => auth'[n] = auth[n]
<1> DEFINE r == Session(auth[m].user)
           old == [auth EXCEPT ![m].live = FALSE, ![m].next = Len(auth) + 1]
<1>1. Len(auth) \in Nat /\ auth \in Seq(AuthRec) /\ auth[m] \in AuthRec BY DEF AuthRight
<1>2. r \in AuthRec /\ r.next = 0 /\ r.fresh
  BY <1>1 DEF Session, AuthRec
<1>3. /\ old \in Seq(AuthRec) /\ Len(old) = Len(auth)
      /\ \A n \in 1..Len(auth) : n # m => old[n] = auth[n]
      /\ ~old[m].live /\ old[m].next = Len(auth) + 1 /\ old[m].fresh = auth[m].fresh
  <2> DEFINE v == [auth[m] EXCEPT !.live = FALSE, !.next = Len(auth) + 1]
  <2>1. Len(auth) + 1 \in Nat BY <1>1
  <2>2. PICK n \in Nat : n = Len(auth) + 1 BY <2>1
  <2>3. /\ v \in AuthRec /\ ~v.live /\ v.next = Len(auth) + 1 /\ v.fresh = auth[m].fresh
    BY <1>1, <2>2 DEF AuthRec
  <2>4. old = [auth EXCEPT ![m] = v] BY <1>1
  <2> HIDE DEF v, old
  <2> QED BY <1>1, <2>3, <2>4, ReplacedAt
<1> HIDE DEF r, old
<1>4. /\ auth' \in Seq(AuthRec) /\ Len(auth') = Len(auth) + 1
      /\ \A n \in 1..Len(auth) : auth'[n] = old[n]
      /\ auth'[Len(auth) + 1] = r
  BY <1>2, <1>1, <1>3 DEF Rotated, r, old
<1>5. \A n \in 1..Len(auth') : n \in 1..Len(auth) \/ n = Len(auth) + 1 BY <1>1, <1>4
<1>6. AuthRight' BY <1>2, <1>1, <1>3, <1>4, <1>5 DEF AuthRight, Tokens
<1>7. \A n \in 1..Len(auth) : n # m => auth'[n] = auth[n] BY <1>3, <1>4
<1>8. ~auth'[m].live /\ auth'[m].fresh = auth[m].fresh BY <1>3, <1>4
<1>9. auth'[Len(auth) + 1].fresh /\ auth'[Len(auth) + 1].next = 0 BY <1>2, <1>4
<1>10. Grows BY <1>1, <1>4, <1>6, <1>7, <1>8 DEF Grows
<1>11. FreshKept BY <1>7, <1>8 DEF FreshKept
<1> QED BY <1>4, <1>7, <1>9, <1>10, <1>11

LEMMA RevokedGrows ==
  ASSUME AuthRight, NEW m \in 1..Len(auth), auth' = [auth EXCEPT ![m].live = FALSE]
  PROVE  Grows /\ FreshKept /\ NextKept /\ Len(auth') = Len(auth)
<1>1. Len(auth) \in Nat /\ auth \in Seq(AuthRec) /\ auth[m] \in AuthRec BY DEF AuthRight
<1>2. /\ auth' \in Seq(AuthRec) /\ Len(auth') = Len(auth)
      /\ \A n \in 1..Len(auth) : n # m => auth'[n] = auth[n]
      /\ ~auth'[m].live /\ auth'[m].next = auth[m].next /\ auth'[m].fresh = auth[m].fresh
  <2> DEFINE v == [auth[m] EXCEPT !.live = FALSE]
             t == [auth EXCEPT ![m].live = FALSE]
  <2>1. v \in AuthRec /\ ~v.live /\ v.next = auth[m].next /\ v.fresh = auth[m].fresh
    BY <1>1 DEF AuthRec
  <2>2. t = [auth EXCEPT ![m] = v] BY <1>1
  <2>3. auth' = t OBVIOUS
  <2> HIDE DEF v, t
  <2>4. /\ t \in Seq(AuthRec) /\ Len(t) = Len(auth) /\ t[m] = v
        /\ \A n \in 1..Len(auth) : n # m => t[n] = auth[n]
    BY <1>1, <2>1, <2>2, ReplacedAt
  <2> QED BY <2>1, <2>3, <2>4, Zenon
<1>3. AuthRight' BY <1>1, <1>2 DEF AuthRight, Tokens
<1> QED BY <1>1, <1>2, <1>3 DEF Grows, FreshKept, NextKept

LEMMA LapseGrows ==
  ASSUME AuthRight, NEW m \in 1..Len(auth), auth' = [auth EXCEPT ![m].fresh = FALSE]
  PROVE  Grows /\ NextKept /\ Len(auth') = Len(auth)
<1>1. Len(auth) \in Nat /\ auth \in Seq(AuthRec) /\ auth[m] \in AuthRec BY DEF AuthRight
<1>2. /\ auth' \in Seq(AuthRec) /\ Len(auth') = Len(auth)
      /\ \A n \in 1..Len(auth) : n # m => auth'[n] = auth[n]
      /\ auth'[m].live = auth[m].live /\ auth'[m].next = auth[m].next
  <2> DEFINE v == [auth[m] EXCEPT !.fresh = FALSE]
             t == [auth EXCEPT ![m].fresh = FALSE]
  <2>1. v \in AuthRec /\ v.live = auth[m].live /\ v.next = auth[m].next
    BY <1>1 DEF AuthRec
  <2>2. t = [auth EXCEPT ![m] = v] BY <1>1
  <2>3. auth' = t OBVIOUS
  <2> HIDE DEF v, t
  <2>4. /\ t \in Seq(AuthRec) /\ Len(t) = Len(auth) /\ t[m] = v
        /\ \A n \in 1..Len(auth) : n # m => t[n] = auth[n]
    BY <1>1, <2>1, <2>2, ReplacedAt
  <2> QED BY <2>1, <2>3, <2>4, Zenon
<1>3. AuthRight' BY <1>1, <1>2 DEF AuthRight, Tokens
<1> QED BY <1>1, <1>2, <1>3 DEF Grows, NextKept

\* A request nobody touched stays right.
LEMMA CallKept ==
  ASSUME SessInv, Grows, NEW i \in Calls, calls[i] # Idle, calls'[i] = calls[i],
         ~astray' => ~astray,
         calls[i].kind = "login" => UnspentKept,
         calls[i].step = "joined" => shared'.step # "none",
         shared'.got # 0 => calls[i].got # shared'.got,
         ~astray' => /\ (calls[i].kind \in {"page", "boot"} /\ ~calls[i].retry
                           /\ calls[i].step = "sent") => auth'[calls[i].token].fresh
                     /\ calls[i].step = "own" =>
                           (Unspent(calls[i].cookie) => Unspent(calls[i].cookie)')
                     /\ calls[i].step \in {"own", "ownAnswered"} => OwnRefused'
  PROVE  CallRight(calls[i])'
<1>1. CallRight(calls[i]) BY DEF SessInv, CallsRight
<1>2. Len(auth) \in Nat BY DEF SessInv, AuthRight
<1>3. calls[i].cookie \in Tokens' /\ calls[i].got \in Tokens' /\ calls[i].token \in Tokens'
  BY <1>1, <1>2 DEF CallRight, Grows, Tokens
<1>4. calls[i].step = "own" /\ ~astray' => Dead(calls[i].cookie)' /\ Unspent(calls[i].cookie)'
  <2>1. Dead(calls[i].cookie) => Dead(calls[i].cookie)'
    BY <1>1, <1>2 DEF CallRight, Grows, Tokens, Dead
  <2> QED BY <1>1, <2>1 DEF CallRight, Calm
<1>5. calls[i].kind = "login" => Unspent(calls[i].got)'
  BY <1>1 DEF CallRight, UnspentKept
<1>6. ~astray' => Calm(calls[i])' BY <1>1, <1>4 DEF CallRight, Calm
<1> QED BY <1>1, <1>3, <1>5, <1>6 DEF CallRight

\* A step that changes one request and no session.
LEMMA OneCall ==
  ASSUME SessInv, UNCHANGED auth, TroublesRight', NEW i \in Calls, NEW c,
         Puts(i, c), c = Idle \/ CallRight(c)',
         \A j \in Calls \ {i} : calls[j] # Idle =>
           /\ StaysCalm
           /\ calls[j].kind = "login" => UNCHANGED strays
           /\ calls[j].step = "joined" => shared'.step # "none"
           /\ shared'.got # 0 => calls[j].got # shared'.got
           /\ (~astray' /\ calls[j].step \in {"own", "ownAnswered"}) => OwnRefused',
         TabRight', SharedRight', LoginAlone', WaitingIsAsking'
  PROVE  SessInv'
<1>1. Grows /\ FreshKept /\ NextKept BY SameAuth DEF SessInv
<1>2. calls' = [j \in Calls |-> calls'[j]] /\ calls'[i] = c
      /\ \A j \in Calls \ {i} : calls'[j] = calls[j]
  BY DEF Puts
<1>3. ASSUME NEW j \in Calls PROVE calls'[j] = Idle \/ CallRight(calls[j])'
  <2>1. CASE j = i BY <1>2, <2>1
  <2>2. CASE j # i /\ calls[j] # Idle
    <3>1. CallRight(calls[j]) BY <2>2 DEF SessInv, CallsRight
    <3>2. UNCHANGED strays => UnspentKept BY <1>1, KeepsUnspent DEF SessInv
    <3>3. /\ StaysCalm
          /\ calls[j].kind = "login" => UNCHANGED strays
          /\ calls[j].step = "joined" => shared'.step # "none"
          /\ shared'.got # 0 => calls[j].got # shared'.got
          /\ (~astray' /\ calls[j].step \in {"own", "ownAnswered"}) => OwnRefused'
      BY <2>2
    <3>4. calls'[j] = calls[j] BY <1>2, <2>2
    <3>5. ~astray' => /\ (calls[j].kind \in {"page", "boot"} /\ ~calls[j].retry
                            /\ calls[j].step = "sent") => auth'[calls[j].token].fresh
                      /\ Unspent(calls[j].cookie) => Unspent(calls[j].cookie)'
      <4> SUFFICES ASSUME ~astray'
                   PROVE  /\ (calls[j].kind \in {"page", "boot"} /\ ~calls[j].retry
                                /\ calls[j].step = "sent") => auth'[calls[j].token].fresh
                          /\ Unspent(calls[j].cookie) => Unspent(calls[j].cookie)'
        OBVIOUS
      <4>1. ~astray /\ UNCHANGED strays BY <3>3 DEF StaysCalm
      <4>2. Calm(calls[j]) /\ calls[j].cookie \in Tokens BY <3>1, <4>1 DEF CallRight
      <4>3. UnspentKept BY <3>2, <4>1
      <4> QED BY <3>4, <4>2, <4>3 DEF Calm, UnspentKept, Unspent
    <3> HIDE DEF StaysCalm
    <3>6. ~astray' => ~astray BY <3>3 DEF StaysCalm
    <3> QED BY <1>1, <2>2, <3>2, <3>3, <3>5, <3>4, <3>6, CallKept
  <2>3. CASE j # i /\ calls[j] = Idle BY <1>2, <2>3
  <2> QED BY <2>1, <2>2, <2>3
<1>4. CallsRight' BY <1>2, <1>3 DEF CallsRight
<1> QED BY <1>1, <1>4 DEF SessInv, Grows

LEMMA NewCall ==
  ASSUME SessInv, NEW kind \in {"page", "boot", "logout"}, NEW token \in Tokens,
         NEW club \in Clubs \union {Nobody}, NEW c, NEW retry \in BOOLEAN,
         retry \/ kind = "logout", c = Call(kind, token, club, retry, FALSE)
  PROVE  /\ CallRight(c) /\ c # Idle /\ c.kind = kind /\ c.step = "sent" /\ c.got = 0
         /\ c.retry = retry /\ ~c.again
<1>1. Len(auth) \in Nat /\ jar \in Tokens /\ jar \in Nat /\ token \in Nat /\ 0 \in Tokens
  BY DEF SessInv, AuthRight, TabRight, Tokens
<1>2. c \in CallRec /\ c.kind = kind /\ c.step = "sent" /\ c.again = FALSE /\ c.cookie = jar
      /\ c.got = 0 /\ c.token = token /\ c.retry = retry
  BY <1>1 DEF Call, CallRec, CallKinds, CallSteps, CallStatuses, SomeUser, SomeClub
<1>3. Idle.kind = "none" BY DEF Idle
<1>4. Calm(c) BY <1>2 DEF Calm
<1> QED BY <1>1, <1>2, <1>3, <1>4 DEF CallRight

LEMMA SameClient ==
  ASSUME SessInv, UNCHANGED <<auth, jar, shared, strays, astray>>, NEW c, CallRight(c)
  PROVE  CallRight(c)'
BY DEF CallRight, Calm, Tokens, Unspent, Dead, OwnRefused

LEMMA SharedSame ==
  ASSUME SessInv, UNCHANGED <<auth, jar, shared>>, StaysCalm, tab'.token = tab.token,
         tab'.seen \in {tab.seen, tab.token}
  PROVE  SharedRight' /\ (OwnRefused => OwnRefused')
<1>1. OwnRefused => OwnRefused' BY DEF OwnRefused, Dead
<1>2. SharedCalm /\ UNCHANGED strays => SharedCalm' BY DEF SharedCalm, Unspent, Dead
<1>3. SharedRight' BY <1>2 DEF SessInv, SharedRight, StaysCalm, Tokens
<1> QED BY <1>1, <1>3

\* An idle place is no request of any kind.
LEMMA Places ==
  ASSUME SessInv, NEW i \in Calls
  PROVE  /\ calls[i] = Idle <=> calls[i].kind = "none"
         /\ calls[i] # Idle => /\ CallRight(calls[i])
                               /\ calls[i].kind \in {"login", "logout", "page", "boot"}
BY DEF SessInv, CallsRight, CallRight, CallRec, CallKinds, Idle

LEMMA JoinedAndOwn ==
  ASSUME SessInv, NEW j \in Calls, calls[j] # Idle
  PROVE  /\ calls[j].step = "joined" => shared.step # "none"
         /\ shared.got # 0 => calls[j].got # shared.got
         /\ (~astray /\ calls[j].step \in {"own", "ownAnswered"}) => OwnRefused
BY Places DEF CallRight, Calm

\* The signed-in tab sends a request.
LEMMA Asking ==
  ASSUME SessInv, NEW i \in Calls, calls[i] = Idle, tab.token # 0,
         NEW c, CallRight(c), c # Idle, c.kind # "login",
         UNCHANGED <<auth, jar, shared, troubles>>, Puts(i, c),
         TabRight', tab'.token = tab.token, tab'.seen \in {tab.seen, tab.token}, WaitingIsAsking'
  PROVE  SessInv'
<1> USE DEF troubles
<1>1. CallRight(c)' BY SameClient
<1>2. calls'[i] = c /\ \A j \in Calls \ {i} : calls'[j] = calls[j]
  BY DEF Puts
<1>3. LoginAlone' BY <1>2 DEF SessInv, LoginAlone
<1>4. StaysCalm BY DEF StaysCalm
<1>5. SharedRight' /\ (OwnRefused => OwnRefused') BY <1>4, SharedSame
<1>6. TroublesRight' BY DEF SessInv, TroublesRight, Tokens
<1> QED BY <1>1, <1>3, <1>4, <1>5, <1>6, JoinedAndOwn, OneCall

LEMMA LogOutInv == ASSUME SessInv, NEW i \in Calls, LogOut(i) PROVE SessInv'
<1>1. PICK c : c = Call("logout", store.token, Nobody, FALSE, FALSE) OBVIOUS
<1>2. store.token \in Tokens BY DEF SessInv, TabRight
<1>3. CallRight(c) /\ c # Idle /\ c.kind = "logout" BY <1>1, <1>2, NewCall
<1>4. /\ UNCHANGED <<auth, jar, store, tab, shared, troubles>> /\ calls' = [calls EXCEPT ![i] = c]
      /\ tab.token # 0 /\ calls[i] = Idle
  BY <1>1, Places DEF LogOut, FreeCall, Free
<1>5. Puts(i, c) BY <1>4 DEF SessInv, CallsRight, Puts
<1>6. calls'[i] = c BY <1>5 DEF Puts
<1>7. WaitingIsAsking' BY <1>3, <1>4, <1>6 DEF WaitingIsAsking
<1>8. TabRight' BY <1>4 DEF SessInv, TabRight, TabRec, Tokens
<1>9. c.kind # "login" /\ UNCHANGED tab BY <1>3, <1>4
<1> QED BY <1>3, <1>4, <1>5, <1>7, <1>8, <1>9, Asking

LEMMA AskForPageInv == ASSUME SessInv, NEW i \in Calls, AskForPage(i) PROVE SessInv'
<1>1. PICK c : c = Call("page", TokenToSend(tab.token), store.club, TRUE, FALSE) OBVIOUS
<1>2. TokenToSend(tab.token) \in Tokens /\ store.club \in Clubs \union {Nobody}
  BY DEF SessInv, TabRight, TokenToSend
<1>3. CallRight(c) /\ c # Idle /\ c.kind = "page" BY <1>1, <1>2, NewCall
<1>4. /\ UNCHANGED <<auth, jar, store, tab, shared, troubles>> /\ calls' = [calls EXCEPT ![i] = c]
      /\ tab.token # 0 /\ calls[i] = Idle
  BY <1>1, Places DEF AskForPage, FreeCall, Free
<1>5. Puts(i, c) BY <1>4 DEF SessInv, CallsRight, Puts
<1>6. \A j \in Calls : calls[j].kind \in {"boot", "logout"} => calls'[j] = calls[j]
  BY <1>4, <1>5, Places DEF Puts
<1>7. WaitingIsAsking' BY <1>4, <1>6 DEF SessInv, WaitingIsAsking, Waiting
<1>8. TabRight' BY <1>4 DEF SessInv, TabRight, TabRec, Tokens
<1>9. c.kind # "login" /\ UNCHANGED tab BY <1>3, <1>4
<1> QED BY <1>3, <1>4, <1>5, <1>7, <1>8, <1>9, Asking

LEMMA SelectClubInv == ASSUME SessInv, NEW i \in Calls, SelectClub(i) PROVE SessInv'
<1>1. ClubOf[tab.boot] \in Clubs BY DEF SelectClub, SessInv, TabRight, TabRec, Clubs
<1>2. PICK c : c = Call("boot", TokenToSend(tab.token), ClubOf[tab.boot], TRUE, FALSE) OBVIOUS
<1>3. TokenToSend(tab.token) \in Tokens BY DEF SessInv, TabRight, TokenToSend
<1>4. CallRight(c) /\ c # Idle /\ c.kind = "boot" BY <1>1, <1>2, <1>3, NewCall
<1>5. /\ UNCHANGED <<auth, jar, shared, troubles>> /\ calls' = [calls EXCEPT ![i] = c]
      /\ tab.token # 0 /\ calls[i] = Idle
      /\ store' = [store EXCEPT !.club = ClubOf[tab.boot]] /\ tab' = Loading(tab)
  BY <1>2, Places DEF SelectClub, FreeCall, Free
<1>6. Puts(i, c) BY <1>5 DEF SessInv, CallsRight, Puts
<1>7. calls'[i] = c BY <1>6 DEF Puts
<1>8. WaitingIsAsking' BY <1>4, <1>5, <1>7 DEF WaitingIsAsking
<1>9. TabRight' /\ tab'.token = tab.token /\ tab'.seen = tab.seen
  BY <1>1, <1>5 DEF SessInv, TabRight, TabRec, Tokens, Loading
<1> QED BY <1>4, <1>5, <1>6, <1>8, <1>9, Asking

LEMMA TokenEffectInv == ASSUME SessInv, NEW i \in Calls, TokenEffect(i) PROVE SessInv'
<1>1. CASE tab.token # 0
  <2>1. PICK c : c = Call("boot", TokenToSend(tab.token), store.club, TRUE, FALSE) OBVIOUS
  <2>2. TokenToSend(tab.token) \in Tokens /\ store.club \in Clubs \union {Nobody}
    BY DEF SessInv, TabRight, TokenToSend
  <2>3. CallRight(c) /\ c # Idle /\ c.kind = "boot" BY <2>1, <2>2, NewCall
  <2>4. /\ UNCHANGED <<auth, jar, store, shared, troubles>> /\ calls' = [calls EXCEPT ![i] = c]
        /\ calls[i] = Idle /\ tab' = [Loading(tab) EXCEPT !.seen = tab.token]
    BY <1>1, <2>1, Places DEF TokenEffect, FreeCall, Free
  <2>5. Puts(i, c) BY <2>4 DEF SessInv, CallsRight, Puts
  <2>6. calls'[i] = c BY <2>5 DEF Puts
  <2>7. WaitingIsAsking' BY <2>3, <2>4, <2>6 DEF WaitingIsAsking
  <2>8. TabRight' /\ tab'.token = tab.token /\ tab'.seen = tab.token
    BY <2>4 DEF SessInv, TabRight, TabRec, Tokens, Loading
  <2> QED BY <1>1, <2>3, <2>4, <2>7, <2>8, <2>5, Asking
<1>2. CASE tab.token = 0
  <2>1. /\ UNCHANGED <<auth, jar, store, shared, calls, troubles>>
        /\ tab' = [tab EXCEPT !.seen = 0, !.initialized = TRUE]
    BY <1>2 DEF TokenEffect
  <2>2. TabRight' /\ tab'.token = 0 /\ tab'.seen = tab.token
    BY <1>2, <2>1 DEF SessInv, TabRight, TabRec, Tokens
  <2>3. SharedRight' BY <1>2, <2>1, <2>2, SharedSame DEF troubles, StaysCalm
  <2>4. CallsRight'
    <3> SUFFICES ASSUME NEW j \in Calls, calls[j] # Idle PROVE CallRight(calls[j])'
      BY <2>1 DEF SessInv, CallsRight
    <3>1. CallRight(calls[j]) BY Places
    <3> QED BY <2>1, <3>1 DEF CallRight, Calm, Tokens, Unspent, Dead, OwnRefused, troubles
  <2>5. LoginAlone' BY <2>1, <2>2 DEF SessInv, LoginAlone
  <2>6. WaitingIsAsking' BY <2>2 DEF WaitingIsAsking, Waiting
  <2>7. AuthRight' /\ TroublesRight' BY <2>1 DEF SessInv, AuthRight, TroublesRight, Tokens, troubles
  <2> QED BY <2>1, <2>2, <2>3, <2>4, <2>5, <2>6, <2>7 DEF SessInv
<1> QED BY <1>1, <1>2

LEMMA SignInInv ==
  ASSUME SessInv, Settled, NEW i \in Calls, NEW u \in Users, SignIn(i, u)
  PROVE  SessInv'
<1>1. PICK c : c = [Call("login", 0, Nobody, FALSE, FALSE) EXCEPT !.user = u] OBVIOUS
<1>2. /\ UNCHANGED <<auth, jar, store, tab, shared, strays, astray, mishaps>>
      /\ calls' = [calls EXCEPT ![i] = c]
      /\ tab.token = 0 /\ shared.step = "none" /\ \A j \in Calls : calls[j] = Idle
  BY <1>1, Places DEF SignIn, Free, troubles
<1>3. Len(auth) \in Nat /\ jar \in Tokens /\ jar \in Nat /\ 0 \in Tokens
  BY DEF SessInv, AuthRight, TabRight, Tokens
<1>4. c \in CallRec /\ c.kind = "login" /\ c.step = "sent" /\ c.again = FALSE /\ c.cookie = jar
      /\ c.got = 0 /\ c.token = 0 /\ c.user = u
  <2>1. PICK d : d = Call("login", 0, Nobody, FALSE, FALSE) OBVIOUS
  <2>2. /\ d \in CallRec /\ d.kind = "login" /\ d.step = "sent" /\ d.again = FALSE
        /\ d.cookie = jar /\ d.got = 0 /\ d.token = 0
    BY <1>3, <2>1 DEF Call, CallRec, CallKinds, CallSteps, CallStatuses, SomeUser, SomeClub
  <2>3. c = [d EXCEPT !.user = u] /\ u \in SomeUser BY <1>1, <2>1 DEF SomeUser
  <2> QED BY <2>2, <2>3 DEF CallRec
<1>5. CallRight(c) BY <1>3, <1>4 DEF CallRight, Calm, Unspent
<1>6. CallRight(c)' BY <1>2, <1>5, SameClient
<1>7. Puts(i, c) BY <1>2 DEF SessInv, CallsRight, Puts
<1>8. calls'[i] = c /\ \A j \in Calls \ {i} : calls'[j] = Idle
  BY <1>2, <1>7 DEF Puts
<1>9. Idle.kind = "none" BY DEF Idle
<1>10. LoginAlone' BY <1>2, <1>8, <1>9 DEF LoginAlone
<1>11. SharedRight' BY <1>2, SharedSame DEF StaysCalm
<1>12. TabRight' /\ WaitingIsAsking' /\ TroublesRight'
  BY <1>2 DEF SessInv, TabRight, TabRec, Tokens, WaitingIsAsking, Waiting, TroublesRight
<1> QED BY <1>2, <1>6, <1>10, <1>11, <1>12, <1>7, OneCall
-----------------------------------------------------------------------------
\* The server answers: what the tab holds stays.
LEMMA ServedSessions ==
  ASSUME SessInv, Grows, UNCHANGED jar
  PROVE  /\ UNCHANGED <<store, tab>> => TabRight'
         /\ (OwnRefused /\ UNCHANGED shared) => OwnRefused'
         /\ (/\ FreshKept /\ UNCHANGED <<shared, tab>> /\ astray' = astray
             /\ astray \/ UnspentKept) => SharedRight'
<1>1. Len(auth) \in Nat /\ TabRight /\ SharedRight BY DEF SessInv, AuthRight
<1>2. \A t \in Tokens : t \in Tokens' BY <1>1 DEF Tokens, Grows
<1>3. \A t \in Tokens : Dead(t) => ~auth'[t].live \/ t = 0 BY <1>1 DEF Tokens, Grows, Dead
<1>4. UNCHANGED <<store, tab>> => TabRight' BY <1>1, <1>2 DEF TabRight, TabRec
<1>5. (OwnRefused /\ UNCHANGED shared) => OwnRefused'
  BY <1>1, <1>3 DEF OwnRefused, Dead, TabRight, SharedRight
<1>6. ASSUME FreshKept, UNCHANGED <<shared, tab>>, astray' = astray, astray \/ UnspentKept
      PROVE  SharedRight'
  <2>1. shared' \in [step : {"none", "sent", "answered"}, cookie : Tokens', got : Tokens']
    BY <1>1, <1>2, <1>6 DEF SharedRight
  <2>2. ASSUME ~astray PROVE SharedCalm'
    <3>1. SharedCalm /\ UnspentKept BY <1>1, <1>6, <2>2 DEF SharedRight
    <3>2. shared.cookie \in Tokens /\ shared.got \in Tokens /\ jar \in Tokens
      BY <1>1 DEF SharedRight, TabRight
    <3>3. /\ Unspent(jar) => Unspent(jar)'
          /\ Unspent(shared.cookie) => Unspent(shared.cookie)'
          /\ Unspent(shared.got) => Unspent(shared.got)'
      BY <1>6, <3>1, <3>2 DEF UnspentKept, Unspent
    <3>4. Dead(shared.cookie) => Dead(shared.cookie)' BY <1>3, <1>6, <3>2 DEF Dead
    <3>5. shared.got # 0 /\ auth[shared.got].fresh => auth'[shared.got].fresh
      BY <1>1, <1>6, <3>2 DEF FreshKept, Tokens
    <3> QED BY <1>6, <3>1, <3>3, <3>4, <3>5 DEF SharedCalm
  <2> QED BY <1>1, <1>6, <2>1, <2>2 DEF SharedRight
<1> QED BY <1>4, <1>5, <1>6

LEMMA CallAnswerInv ==
  ASSUME SessInv, Grows, FreshKept, Len(auth') <= Signings,
         UNCHANGED <<jar, store, tab, shared, strays, astray, mishaps>>,
         NEW i \in Calls, calls[i] # Idle, NEW c, Puts(i, c),
         UnspentKept \/ (astray /\ calls[i].kind # "login"),
         CallRight(c)', c # Idle, c.kind = calls[i].kind
  PROVE  SessInv'
<1>1. TabRight' /\ SharedRight' /\ (OwnRefused => OwnRefused') BY ServedSessions DEF SessInv
<1>2. calls' = [j \in Calls |-> calls'[j]] /\ calls'[i] = c
      /\ \A j \in Calls \ {i} : calls'[j] = calls[j]
  BY DEF Puts
<1>3. ASSUME NEW j \in Calls, j # i, calls[j] # Idle PROVE CallRight(calls[j])'
  <2>1. CallRight(calls[j]) /\ calls'[j] = calls[j] BY <1>2, <1>3 DEF SessInv, CallsRight
  <2>2. ~astray =>
          ((calls[j].kind \in {"page", "boot"} /\ ~calls[j].retry /\ calls[j].step = "sent")
           => auth'[calls[j].token].fresh)
    BY <2>1 DEF CallRight, Calm, Tokens, FreshKept
  <2>3. calls[j].kind # "login" BY <1>3 DEF SessInv, LoginAlone
  <2>4. ~astray => (Unspent(calls[j].cookie) => Unspent(calls[j].cookie)')
    BY <2>1 DEF UnspentKept, CallRight, Unspent
  <2>5. calls'[j] = calls[j] BY <2>1
  <2> QED BY <1>1, <1>3, <2>2, <2>3, <2>4, <2>5, CallKept, JoinedAndOwn
<1>4. CallsRight' BY <1>2, <1>3 DEF SessInv, CallsRight
<1>5. LoginAlone'
  BY <1>2 DEF SessInv, LoginAlone
<1>6. WaitingIsAsking' BY <1>2 DEF SessInv, WaitingIsAsking, Waiting
<1>7. TroublesRight' BY DEF SessInv, TroublesRight, Tokens, Grows, AuthRight
<1> QED BY <1>1, <1>4, <1>5, <1>6, <1>7 DEF SessInv, Grows

\* An answer to any request but a sign-in.
LEMMA CallAnsweredInv ==
  ASSUME SessInv, Grows, FreshKept, NextKept, Len(auth') = Len(auth),
         UNCHANGED <<jar, store, tab, shared, strays, astray, mishaps>>,
         NEW i \in Calls, calls[i] # Idle, calls[i].kind # "login", calls[i].step = "sent",
         NEW c \in CallRec, Puts(i, c),
         c.step = "answered", c.status # 0, c.got = 0,
         c.kind = calls[i].kind, c.cookie = calls[i].cookie, c.token = calls[i].token,
         c.retry = calls[i].retry, c.again = calls[i].again,
         (c.kind = "boot" /\ c.status = 200) => c.boot # Nobody,
         (~astray /\ c.kind \in {"page", "boot"} /\ ~c.retry) => c.status # 401
  PROVE  SessInv'
<1>1. CallRight(calls[i]) BY Places
<1>2. Tokens' = Tokens BY DEF Tokens
<1>3. ~astray => Calm(c)' BY <1>1 DEF CallRight, Calm
<1>4. 0 \in Tokens BY DEF Tokens, SessInv, AuthRight
<1>5. CallRight(c)' BY <1>1, <1>2, <1>3, <1>4 DEF CallRight
<1>6. c # Idle BY <1>1 DEF Idle, CallRight, CallRec, CallKinds
<1>7. Len(auth') <= Signings /\ UnspentKept BY KeepsUnspent DEF SessInv
<1> QED BY <1>5, <1>6, <1>7, CallAnswerInv

LEMMA ServeInv == ASSUME SessInv, NEW i \in Calls, Serve(i) PROVE SessInv'
<1>1. PICK call : call = calls[i] OBVIOUS
<1>2. /\ call.kind \in {"login", "logout", "page", "boot"} /\ call.step = "sent" /\ calls[i] # Idle
      /\ CallRight(call) /\ UNCHANGED <<jar, store, tab, shared, strays, astray, mishaps>>
  BY <1>1, Places DEF Serve, troubles
<1>3. Len(auth) \in Nat /\ AuthRight /\ Len(auth) <= Signings /\ Signings \in Nat
      /\ Len(auth) + 1 \in Nat
  BY SessionAssumption DEF SessInv, AuthRight
<1>4. call \in CallRec BY <1>2 DEF CallRight
<1>5. "answered" \in CallSteps /\ 200 \in CallStatuses BY DEF CallSteps, CallStatuses
<1>6. CASE call.kind = "login"
  <2>1. /\ auth' = Issue(call.user) /\ Len(auth) < Signings
        /\ calls' = [calls EXCEPT ![i].step = "answered", ![i].status = 200,
                                  ![i].got = Len(auth) + 1]
    BY <1>1, <1>6 DEF Serve
  <2>2. call.user \in Users BY <1>2, <1>6 DEF CallRight
  <2>3. /\ Grows /\ FreshKept /\ NextKept /\ Len(auth') = Len(auth) + 1
        /\ auth'[Len(auth) + 1].next = 0 /\ UnspentKept
    BY <1>2, <1>3, <2>1, <2>2, IssueGrows, KeepsUnspent
  <2>4. PICK c : c = [call EXCEPT !.step = "answered", !.status = 200, !.got = Len(auth) + 1]
    OBVIOUS
  <2>5. PICK n \in Nat : n = Len(auth) + 1 BY <1>3
  <2>6. c = [call EXCEPT !.step = "answered", !.status = 200, !.got = n] BY <2>4, <2>5
  <2>7. /\ c \in CallRec /\ c.step = "answered" /\ c.got = n /\ c.kind = call.kind
        /\ c.cookie = call.cookie /\ c.token = call.token /\ c.again = call.again
        /\ c.user = call.user
    BY <1>4, <1>5, <2>6, ZenonT(60) DEF CallRec
  <2>8. /\ c \in CallRec /\ c.step = "answered" /\ c.got = Len(auth) + 1 /\ c.kind = "login"
        /\ c.cookie = call.cookie /\ c.token = call.token /\ c.again = call.again
        /\ c.user = call.user
    BY <1>6, <2>5, <2>7
  <2>9. shared.step = "none" /\ shared.got = 0
    BY <1>1, <1>6 DEF SessInv, LoginAlone, SharedRight
  <2>10. c.cookie \in Tokens' /\ c.token \in Tokens' /\ c.got \in Tokens' /\ c.got # 0
    BY <1>2, <1>3, <2>3, <2>8 DEF CallRight, Tokens
  <2>11. Unspent(c.got)'
    <3>1. Len(auth) + 1 \notin strays BY <1>3 DEF SessInv, TroublesRight, Tokens
    <3> QED BY <1>2, <2>3, <2>8, <3>1 DEF Unspent
  <2>12. ~astray => Calm(c)' BY <1>2, <2>8 DEF CallRight, Calm
  <2>13. CallRight(c)' BY <1>2, <2>2, <2>8, <2>9, <2>10, <2>11, <2>12 DEF CallRight
  <2>14. c # Idle BY <2>8 DEF Idle
  <2>15. Puts(i, c) BY <1>1, <2>1, <2>4 DEF SessInv, CallsRight, Puts
  <2>16. Len(auth') <= Signings BY <1>3, <2>1, <2>3
  <2>17. c.kind = calls[i].kind BY <1>1, <1>6, <2>8
  <2> QED BY <1>2, <2>3, <2>13, <2>14, <2>15, <2>16, <2>17, CallAnswerInv
<1>7. call.kind # "login" => call.got = 0 BY <1>2 DEF CallRight
<1>8. ASSUME call.kind # "login", NEW s \in {200, 401, 403},
             calls' = [calls EXCEPT ![i].step = "answered", ![i].status = s, ![i].got = 0],
             call.kind = "boot" => s # 200,
             (~astray /\ call.kind \in {"page", "boot"} /\ ~call.retry) => s # 401,
             Grows, FreshKept, NextKept, Len(auth') = Len(auth)
      PROVE  SessInv'
  <2>1. PICK c : c = [call EXCEPT !.step = "answered", !.status = s, !.got = 0] OBVIOUS
  <2>2. /\ c \in CallRec /\ c.step = "answered" /\ c.status = s /\ c.got = 0
        /\ c.kind = call.kind /\ c.cookie = call.cookie /\ c.token = call.token
        /\ c.retry = call.retry /\ c.again = call.again
    <3>1. s \in CallStatuses BY DEF CallStatuses
    <3> QED BY <1>4, <1>5, <2>1, <3>1 DEF CallRec
  <2>3. Puts(i, c)
    <3>1. calls' = [calls EXCEPT ![i].step = "answered", ![i].status = s, ![i].got = 0] BY <1>8
    <3> QED BY <1>1, <2>1, <3>1 DEF SessInv, CallsRight, Puts
  <2>4. /\ c.status # 0
        /\ (c.kind = "boot" /\ c.status = 200) => c.boot # Nobody
        /\ (~astray /\ c.kind \in {"page", "boot"} /\ ~c.retry) => c.status # 401
    BY <1>8, <2>2
  <2> QED BY <1>1, <1>2, <1>8, <2>2, <2>3, <2>4, CallAnsweredInv
<1>9. CASE call.kind = "logout"
  <2>1. /\ auth' = IF call.cookie = 0 THEN auth ELSE [auth EXCEPT ![call.cookie].live = FALSE]
        /\ calls' = [calls EXCEPT ![i].step = "answered", ![i].status = 200, ![i].got = 0]
    BY <1>1, <1>9 DEF Serve
  <2>2. call.cookie \in Tokens BY <1>2 DEF CallRight
  <2>3. Grows /\ FreshKept /\ NextKept /\ Len(auth') = Len(auth)
    BY <1>3, <2>1, <2>2, SameAuth, RevokedGrows, SMTT(30) DEF Tokens
  <2> QED BY <1>8, <1>9, <2>1, <2>3
<1>10. CASE call.kind \in {"page", "boot"}
  <2>1. /\ UNCHANGED auth
        /\ \/ /\ ~Valid(call.token)
              /\ calls' = [calls EXCEPT ![i].step = "answered", ![i].status = 401, ![i].got = 0]
           \/ calls' = [calls EXCEPT ![i].step = "answered", ![i].status = 403, ![i].got = 0]
           \/ /\ Valid(call.token)
              /\ calls' = [calls EXCEPT ![i].step = "answered", ![i].status = 200,
                                       ![i].boot = auth[call.token].user]
    BY <1>1, <1>10 DEF Serve
  <2>2. Grows /\ FreshKept /\ NextKept /\ Len(auth') = Len(auth) BY <1>3, <2>1, SameAuth
  <2>3. ~astray /\ ~call.retry => Valid(call.token) BY <1>2, <1>10 DEF CallRight, Calm, Valid
  <2>4. CASE /\ ~Valid(call.token)
             /\ calls' = [calls EXCEPT ![i].step = "answered", ![i].status = 401, ![i].got = 0]
    BY <1>8, <1>10, <2>2, <2>3, <2>4
  <2>5. CASE calls' = [calls EXCEPT ![i].step = "answered", ![i].status = 403, ![i].got = 0]
    BY <1>8, <1>10, <2>2, <2>5
  <2>6. CASE /\ Valid(call.token)
             /\ calls' = [calls EXCEPT ![i].step = "answered", ![i].status = 200,
                                       ![i].boot = auth[call.token].user]
    <3>1. PICK b : b = auth[call.token].user OBVIOUS
    <3>2. call.token \in 1..Len(auth) BY <1>2, <1>3, <2>6 DEF Valid, CallRight, Tokens
    <3>3. auth[call.token] \in AuthRec BY <1>3, <3>2 DEF AuthRight
    <3>4. b \in Users /\ b # Nobody BY <3>1, <3>3, SessionAssumption DEF AuthRec
    <3>5. PICK c : c = [call EXCEPT !.step = "answered", !.status = 200, !.boot = b] OBVIOUS
    <3>6. Puts(i, c) BY <1>1, <2>6, <3>1, <3>5 DEF SessInv, CallsRight, Puts
    <3>7. "answered" \in CallSteps /\ 200 \in CallStatuses /\ b \in SomeUser
      BY <3>4 DEF CallSteps, CallStatuses, SomeUser
    <3>8. /\ c \in CallRec /\ c.step = "answered" /\ c.status = 200 /\ c.got = call.got
          /\ c.kind = call.kind /\ c.cookie = call.cookie /\ c.token = call.token
          /\ c.retry = call.retry /\ c.again = call.again /\ c.boot = b
      BY <1>4, <3>5, <3>7, ZenonT(60) DEF CallRec
    <3>9. call.got = 0 BY <1>7, <1>10
    <3> QED BY <1>1, <1>2, <1>10, <2>2, <3>4, <3>6, <3>8, <3>9, CallAnsweredInv
  <2> QED BY <2>1, <2>4, <2>5, <2>6
<1> QED BY <1>2, <1>6, <1>9, <1>10
\* A step of the server that no single request is answered by.
LEMMA RequestsStay ==
  ASSUME SessInv, Grows, UNCHANGED <<jar, store, tab, calls>>, Len(auth') <= Signings,
         TroublesRight', astray' = astray, SharedRight',
         \A i \in Calls : calls[i] # Idle =>
           /\ calls[i].kind = "login" => UnspentKept /\ UNCHANGED <<shared>>
           /\ shared'.got # 0 => calls[i].got # shared'.got
           /\ ~astray =>
                /\ (calls[i].kind \in {"page", "boot"} /\ ~calls[i].retry /\ calls[i].step = "sent")
                     => auth'[calls[i].token].fresh
                /\ calls[i].step = "own" => UnspentKept
                /\ calls[i].step \in {"own", "ownAnswered"} => OwnRefused',
         shared.step # "none" => shared'.step # "none"
  PROVE  SessInv'
<1>1. TabRight' BY ServedSessions DEF SessInv
<1>2. ASSUME NEW i \in Calls, calls[i] # Idle PROVE CallRight(calls[i])'
  <2>1. CallRight(calls[i]) /\ calls'[i] = calls[i] BY <1>2, Places
  <2>2. ~astray' /\ calls[i].step = "own" =>
                           (Unspent(calls[i].cookie) => Unspent(calls[i].cookie)')
    BY <1>2, <2>1 DEF UnspentKept, Unspent, CallRight
  <2>3. calls'[i] = calls[i] BY <2>1
  <2> QED BY <1>2, <2>2, <2>3, CallKept, JoinedAndOwn
<1>3. CallsRight' BY <1>2 DEF SessInv, CallsRight
<1>4. LoginAlone' BY Places DEF SessInv, LoginAlone
<1>5. WaitingIsAsking' BY DEF SessInv, WaitingIsAsking, Waiting
<1> QED BY <1>1, <1>3, <1>4, <1>5 DEF SessInv, Grows

LEMMA ServeOwnInv == ASSUME SessInv, NEW i \in Calls, ServeOwn(i) PROVE SessInv'
<1>1. PICK call : call = calls[i] OBVIOUS
<1>2. calls[i] # Idle /\ CallRight(call) /\ call.kind = "boot" /\ call.step = "own"
      /\ UNCHANGED <<jar, store, tab, shared, strays, astray, mishaps>>
  BY <1>1, Places DEF ServeOwn, Idle, troubles
<1>3. call \in CallRec BY <1>2 DEF CallRight
<1>4. call.got = 0 BY <1>2 DEF CallRight
<1>5. "ownAnswered" \in CallSteps /\ 401 \in CallStatuses /\ 200 \in CallStatuses
  BY DEF CallSteps, CallStatuses
<1>6. Len(auth) \in Nat /\ AuthRight /\ Signings \in Nat /\ call.cookie \in Tokens
      /\ Len(auth) <= Signings
  BY <1>2, SessionAssumption DEF SessInv, AuthRight, CallRight
<1>7. CASE ~Renewable(call.cookie)
  <2>1. UNCHANGED auth /\ calls' = [calls EXCEPT ![i].step = "ownAnswered", ![i].status = 401]
    BY <1>1, <1>7 DEF ServeOwn, Renews
  <2>2. PICK c : c = [call EXCEPT !.step = "ownAnswered", !.status = 401] OBVIOUS
  <2>3. /\ c \in CallRec /\ c.step = "ownAnswered" /\ c.status = 401 /\ c.kind = call.kind
        /\ c.cookie = call.cookie /\ c.token = call.token /\ c.got = call.got
        /\ c.retry = call.retry /\ c.again = call.again
    BY <1>3, <1>5, <2>2, ZenonT(60) DEF CallRec
  <2>4. Puts(i, c) BY <1>1, <2>1, <2>2 DEF SessInv, CallsRight, Puts
  <2>5. CallRight(c) BY <1>2, <1>4, <2>3 DEF CallRight, Calm
  <2>6. CallRight(c)' BY <1>2, <2>1, <2>5, SameClient
  <2>7. c # Idle BY <1>2, <2>3 DEF Idle
  <2>8. Grows /\ FreshKept /\ Len(auth') <= Signings /\ UnspentKept
    BY <1>2, <1>6, <2>1, SameAuth, KeepsUnspent
  <2> QED BY <1>1, <1>2, <2>3, <2>4, <2>6, <2>7, <2>8, CallAnswerInv
<1>8. CASE Renewable(call.cookie)
  <2>1. /\ Len(auth) < Signings /\ auth' = Rotated(call.cookie) /\ auth[call.cookie].live
        /\ call.cookie \in 1..Len(auth)
        /\ calls' = [calls EXCEPT ![i].step = "ownAnswered", ![i].status = 200,
                                  ![i].got = Len(auth) + 1]
    BY <1>1, <1>6, <1>8 DEF ServeOwn, Renews, Renewable, Tokens
  <2>2. astray BY <1>2, <1>8 DEF CallRight, Calm, Dead, Renewable
  <2>3. Grows /\ FreshKept /\ Len(auth') = Len(auth) + 1 BY <1>6, <2>1, RotationGrows
  <2>4. PICK n \in Nat : n = Len(auth) + 1 BY <1>6
  <2>5. PICK c : c = [call EXCEPT !.step = "ownAnswered", !.status = 200, !.got = n] OBVIOUS
  <2>6. /\ c \in CallRec /\ c.step = "ownAnswered" /\ c.status = 200 /\ c.kind = call.kind
        /\ c.cookie = call.cookie /\ c.token = call.token /\ c.got = n
        /\ c.retry = call.retry /\ c.again = call.again
    BY <1>3, <1>5, <2>5, ZenonT(60) DEF CallRec
  <2>7. Puts(i, c) BY <1>1, <2>1, <2>4, <2>5 DEF SessInv, CallsRight, Puts
  <2>8. c.cookie \in Tokens' /\ c.token \in Tokens' /\ c.got \in Tokens' /\ shared.got # n
    BY <1>2, <1>6, <2>3, <2>4, <2>6 DEF CallRight, Tokens, SessInv, SharedRight
  <2>9. CallRight(c)' BY <1>2, <2>2, <2>6, <2>8 DEF CallRight
  <2>10. c # Idle BY <1>2, <2>6 DEF Idle
  <2>11. Len(auth') <= Signings BY <1>6, <2>1, <2>3
  <2> QED BY <1>1, <1>2, <2>2, <2>3, <2>6, <2>7, <2>9, <2>10, <2>11, CallAnswerInv
<1> QED BY <1>7, <1>8

LEMMA ServeSharedInv == ASSUME SessInv, ServeShared PROVE SessInv'
<1>1. /\ shared.step = "sent" /\ UNCHANGED <<jar, store, tab, calls, strays, astray, mishaps>>
      /\ Len(auth) \in Nat /\ Signings \in Nat /\ shared.cookie \in Tokens /\ shared.got = 0
      /\ (~astray => Unspent(shared.cookie) /\ jar \in {0, shared.cookie}) /\ AuthRight
      /\ shared \in [step : {"none", "sent", "answered"}, cookie : Tokens, got : Tokens]
      /\ Len(auth) <= Signings
  BY SessionAssumption DEF ServeShared, SessInv, AuthRight, SharedRight, SharedCalm, troubles
<1>2. \A i \in Calls : calls[i] # Idle =>
        /\ calls[i].kind # "login" /\ calls[i].got \in Tokens
        /\ (~astray /\ calls[i].kind \in {"page", "boot"} /\ ~calls[i].retry
              /\ calls[i].step = "sent")
             => calls[i].token \in 1..Len(auth) /\ auth[calls[i].token].fresh
  BY <1>1, Places DEF SessInv, LoginAlone, CallRight, Calm, Tokens
<1>3. CASE Renewable(shared.cookie)
  <2>1. /\ auth' = Rotated(shared.cookie) /\ Len(auth) < Signings
        /\ shared' = [shared EXCEPT !.step = "answered", !.got = Len(auth) + 1]
        /\ shared.cookie \in 1..Len(auth) /\ auth[shared.cookie].live
    BY <1>1, <1>3 DEF ServeShared, Renewable, Renews, Tokens
  <2>2. /\ Grows /\ FreshKept /\ Len(auth') = Len(auth) + 1
        /\ auth'[Len(auth) + 1].fresh /\ auth'[Len(auth) + 1].next = 0
    BY <1>1, <2>1, RotationGrows
  <2>3. ~OwnRefused BY <1>1, <1>3 DEF OwnRefused, Dead, Renewable
  <2>4. /\ shared'.step = "answered" /\ shared'.got = Len(auth) + 1
        /\ shared'.cookie = shared.cookie
        /\ shared' \in [step : {"none", "sent", "answered"}, cookie : Tokens', got : Tokens']
    <3>1. PICK n : n = Len(auth) + 1 OBVIOUS
    <3>2. shared' = [shared EXCEPT !.step = "answered", !.got = n] BY <2>1, <3>1
    <3>3. n \in Tokens' /\ shared.cookie \in Tokens' BY <1>1, <2>2, <3>1 DEF Tokens
    <3> QED BY <1>1, <3>1, <3>2, <3>3
  <2>5. /\ tab.seen # Len(auth) + 1 /\ tab.token # Len(auth) + 1 /\ Len(auth) + 1 \notin strays
        /\ \A i \in Calls : calls[i] # Idle => calls[i].got # shared'.got
    BY <1>1, <1>2, <2>4 DEF SessInv, TabRight, TabRec, TroublesRight, Tokens
  <2>6. ~astray => SharedCalm' BY <1>1, <2>2, <2>4, <2>5 DEF SharedCalm, Unspent
  <2>7. SharedRight' BY <1>1, <2>4, <2>5, <2>6 DEF SharedRight
  <2>8. Len(auth') <= Signings /\ TroublesRight'
    BY <1>1, <2>1, <2>2 DEF SessInv, TroublesRight, Tokens
  <2>9. \A i \in Calls : (calls[i] # Idle /\ ~astray) => calls[i].step \notin {"own", "ownAnswered"}
    BY <2>3, JoinedAndOwn
  <2>10. \A i \in Calls : (calls[i] # Idle /\ ~astray) =>
          (calls[i].kind \in {"page", "boot"} /\ ~calls[i].retry /\ calls[i].step = "sent"
             => auth'[calls[i].token].fresh)
    BY <1>2, <2>2 DEF FreshKept
  <2> QED BY <1>1, <1>2, <2>2, <2>4, <2>5, <2>7, <2>8, <2>9, <2>10, RequestsStay
<1>4. CASE ~Renewable(shared.cookie)
  <2>1. UNCHANGED auth /\ shared' = [shared EXCEPT !.step = "answered"]
    BY <1>1, <1>4 DEF ServeShared, Renews
  <2>2. Grows /\ FreshKept /\ UnspentKept /\ Len(auth') <= Signings /\ TroublesRight'
    BY <1>1, <2>1, SameAuth, KeepsUnspent DEF SessInv, TroublesRight, Tokens
  <2>3. /\ shared'.step = "answered" /\ shared'.got = 0 /\ shared'.cookie = shared.cookie
        /\ shared' \in [step : {"none", "sent", "answered"}, cookie : Tokens, got : Tokens]
    BY <1>1, <2>1
  <2>4. ~astray => SharedCalm'
    BY <1>1, <1>4, <2>1, <2>3 DEF SharedCalm, Unspent, Dead, Renewable
  <2>5. SharedRight' BY <1>1, <2>1, <2>3, <2>4 DEF SharedRight, Tokens
  <2>6. OwnRefused => OwnRefused' BY <1>1, <2>1, <2>3 DEF OwnRefused, Dead
  <2>7. \A i \in Calls : (calls[i] # Idle /\ ~astray) =>
          /\ calls[i].step \in {"own", "ownAnswered"} => OwnRefused'
          /\ calls[i].kind \in {"page", "boot"} /\ ~calls[i].retry /\ calls[i].step = "sent"
             => auth'[calls[i].token].fresh
    BY <1>2, <2>1, <2>6, JoinedAndOwn
  <2> QED BY <1>1, <1>2, <2>2, <2>3, <2>5, <2>7, RequestsStay
<1> QED BY <1>3, <1>4

LEMMA ServeStrayInv == ASSUME SessInv, NEW n \in 1..Signings, ServeStray(n) PROVE SessInv'
<1>1. /\ n \in strays /\ strays' = strays \ {n} /\ auth' = Rotated(n) /\ auth[n].live
      /\ Len(auth) < Signings /\ UNCHANGED <<jar, store, tab, shared, calls, astray, mishaps>>
  BY DEF ServeStray, Renews, Renewable
<1>2. /\ Len(auth) \in Nat /\ AuthRight /\ n \in 1..Len(auth) /\ Signings \in Nat
  BY <1>1, SessionAssumption DEF SessInv, AuthRight, TroublesRight, Tokens
<1>3. /\ Grows /\ FreshKept /\ Len(auth') = Len(auth) + 1
      /\ \A m \in 1..Len(auth) : m # n => auth'[m] = auth[m]
  BY <1>1, <1>2, RotationGrows
<1>4. UnspentKept BY <1>1, <1>2, <1>3 DEF UnspentKept, Unspent, Tokens
<1>5. SharedRight' /\ (OwnRefused => OwnRefused') BY <1>1, <1>3, <1>4, ServedSessions
<1>6. TroublesRight' BY <1>1, <1>2, <1>3 DEF SessInv, TroublesRight, Tokens
<1>7. \A i \in Calls : (calls[i] # Idle /\ ~astray) =>
        (calls[i].kind \in {"page", "boot"} /\ ~calls[i].retry /\ calls[i].step = "sent"
           => auth'[calls[i].token].fresh)
  BY <1>3, Places DEF CallRight, Calm, FreshKept, Tokens
<1>8. Len(auth') <= Signings BY <1>1, <1>2, <1>3
<1> QED BY <1>1, <1>3, <1>4, <1>5, <1>6, <1>7, <1>8, JoinedAndOwn, RequestsStay

LEMMA WearsInv ==
  ASSUME SessInv, NEW n \in 1..Signings, AccessLapses(n) \/ SessionEnds(n)
  PROVE  SessInv'
<1>1. AuthRight /\ Len(auth) <= Signings /\ mishaps \in 0..Mishaps /\ Mishaps \in Nat
  BY SessionAssumption DEF SessInv, TroublesRight
<1>2. /\ Mishap /\ UNCHANGED <<jar, store, tab, shared, calls, strays, astray>>
      /\ n \in 1..Len(auth)
  BY DEF AccessLapses, SessionEnds
<1>3. CASE AccessLapses(n)
  <2>1. /\ auth' = [auth EXCEPT ![n].fresh = FALSE] /\ shared.step = "none"
        /\ \A i \in Calls : calls[i].kind \in {"page", "boot"} => calls[i].retry
    BY <1>3 DEF AccessLapses
  <2>2. Grows /\ NextKept /\ Len(auth') = Len(auth) BY <1>1, <1>2, <2>1, LapseGrows
  <2>3. (OwnRefused => OwnRefused') /\ UnspentKept
    BY <1>1, <1>2, <2>2, ServedSessions, KeepsUnspent
  <2>4. SharedRight'
    <3>1. SharedRight /\ jar \in Tokens BY DEF SessInv, TabRight
    <3>2. Tokens' = Tokens BY <2>2 DEF Tokens
    <3>3. Unspent(jar) => Unspent(jar)' BY <1>2, <2>3, <3>1 DEF UnspentKept, Unspent
    <3> QED BY <1>2, <2>1, <3>1, <3>2, <3>3 DEF SharedRight, SharedCalm
  <2>5. TroublesRight' BY <1>1, <1>2, <2>2 DEF SessInv, TroublesRight, Mishap, Tokens
  <2> QED BY <1>1, <1>2, <2>1, <2>2, <2>3, <2>4, <2>5, JoinedAndOwn, RequestsStay
<1>4. CASE SessionEnds(n)
  <2>1. auth' = [auth EXCEPT ![n].live = FALSE] BY <1>4 DEF SessionEnds
  <2>2. Grows /\ FreshKept /\ NextKept /\ Len(auth') = Len(auth)
    BY <1>1, <1>2, <2>1, RevokedGrows
  <2>3. UnspentKept BY <1>1, <1>2, <2>2, KeepsUnspent
  <2>4. (OwnRefused => OwnRefused') /\ SharedRight' BY <1>2, <2>2, <2>3, ServedSessions
  <2>5. \A i \in Calls : (calls[i] # Idle /\ ~astray) =>
          (calls[i].kind \in {"page", "boot"} /\ ~calls[i].retry /\ calls[i].step = "sent"
             => auth'[calls[i].token].fresh)
    BY <2>2, Places DEF CallRight, Calm, FreshKept, Tokens
  <2>6. TroublesRight' BY <1>1, <1>2, <2>2 DEF SessInv, TroublesRight, Mishap, Tokens
  <2> QED BY <1>1, <1>2, <2>2, <2>3, <2>4, <2>5, <2>6, JoinedAndOwn, RequestsStay
<1> QED BY <1>3, <1>4
-----------------------------------------------------------------------------
\* The tab reads an answer.
LEMMA NoLogin ==
  ASSUME SessInv, NEW i \in Calls, calls[i] # Idle
  PROVE  \A j \in Calls \ {i} : calls[j].kind # "login"
BY DEF SessInv, LoginAlone

\* One request is done with, whatever became of it.
LEMMA DoneInv ==
  ASSUME SessInv, NEW i \in Calls, calls[i] # Idle, Puts(i, Idle), UNCHANGED <<auth, shared>>,
         TroublesRight', StaysCalm, TabRight', SharedRight', WaitingIsAsking',
         \/ \A j \in Calls \ {i} : calls[j] = Idle
         \/ (~astray' /\ OwnRefused) => OwnRefused'
  PROVE  SessInv'
<1>1. Idle.kind = "none" BY DEF Idle
<1>2. LoginAlone' BY <1>1, NoLogin DEF LoginAlone, Puts
<1>3. \A j \in Calls \ {i} : calls[j] # Idle =>
        /\ calls[j].kind # "login"
        /\ calls[j].step = "joined" => shared'.step # "none"
        /\ shared'.got # 0 => calls[j].got # shared'.got
        /\ (~astray' /\ calls[j].step \in {"own", "ownAnswered"}) => OwnRefused'
  BY NoLogin, JoinedAndOwn DEF StaysCalm
<1> QED BY <1>2, <1>3, OneCall

\* A refresh of its own, which the provider makes in calm times only after the shared one.
LEMMA OwnInv ==
  ASSUME SessInv, astray, NEW i \in Calls, calls[i] # Idle, calls[i].kind = "boot",
         calls[i].step = "answered",
         calls' = [calls EXCEPT ![i].step = "own", ![i].cookie = jar],
         UNCHANGED <<auth, jar, store, tab, shared, strays, astray, mishaps>>
  PROVE  SessInv'
<1>1. PICK call : call = calls[i] OBVIOUS
<1>2. call \in CallRec /\ CallRight(call) /\ call.got = 0 BY <1>1, Places DEF CallRight
<1>3. PICK c : c = [call EXCEPT !.step = "own", !.cookie = jar] OBVIOUS
<1>4. "own" \in CallSteps BY DEF CallSteps
<1>5. jar \in Tokens /\ jar \in Nat BY DEF SessInv, TabRight, Tokens
<1>6. /\ c \in CallRec /\ c.step = "own" /\ c.kind = call.kind /\ c.cookie = jar
      /\ c.token = call.token /\ c.got = call.got
  BY <1>2, <1>3, <1>4, <1>5 DEF CallRec
<1>7. Puts(i, c) BY <1>1, <1>3 DEF SessInv, CallsRight, Puts
<1>8. CallRight(c) BY <1>1, <1>2, <1>5, <1>6 DEF CallRight
<1>9. CallRight(c)' BY <1>8, SameClient
<1>10. StaysCalm /\ TroublesRight' /\ TabRight' /\ WaitingIsAsking'
  BY <1>1, <1>6, <1>7 DEF StaysCalm, SessInv, TroublesRight, TabRight, TabRec, Tokens, Puts,
     WaitingIsAsking, Waiting
<1>11. SharedRight' BY <1>10, SharedSame
<1>12. LoginAlone'
  <2>1. c.kind # "login" BY <1>1, <1>6
  <2>2. \A j \in Calls \ {i} : calls[j].kind # "login" BY NoLogin
  <2>3. \A j \in Calls : calls'[j].kind # "login" BY <1>7, <2>1, <2>2 DEF Puts
  <2> QED BY <2>3 DEF LoginAlone
<1>13. \A j \in Calls \ {i} : calls[j] # Idle =>
        /\ calls[j].kind # "login"
        /\ calls[j].step = "joined" => shared'.step # "none"
        /\ shared'.got # 0 => calls[j].got # shared'.got
  BY NoLogin, JoinedAndOwn
<1>14. astray' OBVIOUS
<1> QED BY <1>7, <1>9, <1>10, <1>11, <1>12, <1>13, <1>14, OneCall

LEMMA JoinInv ==
  ASSUME SessInv, NEW i \in Calls, Joined(i),
         UNCHANGED <<auth, jar, store, tab, strays, astray, mishaps>>,
         calls[i] # Idle, calls[i].kind \in {"page", "boot"}, calls[i].retry,
         calls[i].step = "answered"
  PROVE  SessInv'
<1>1. PICK call : call = calls[i] OBVIOUS
<1>2. CallRight(call) /\ call \in CallRec BY <1>1, Places DEF CallRight
<1>3. PICK c : c = [call EXCEPT !.step = "joined"] OBVIOUS
<1>4. "joined" \in CallSteps BY DEF CallSteps
<1>5. /\ c \in CallRec /\ c.step = "joined" /\ c.kind = call.kind /\ c.cookie = call.cookie
      /\ c.token = call.token /\ c.got = call.got /\ c.retry = call.retry /\ c.again = call.again
  BY <1>2, <1>3, <1>4 DEF CallRec
<1>6. Puts(i, c) BY <1>1, <1>3 DEF Joined, SessInv, CallsRight, Puts
<1>7. /\ shared' = IF shared.step = "none"
                   THEN [step |-> "sent", cookie |-> jar, got |-> 0] ELSE shared
      /\ SharedRight /\ TabRight /\ jar \in Tokens /\ Len(auth) \in Nat
  BY DEF Joined, SessInv, TabRight, AuthRight
<1>8. TabRight' /\ Tokens' = Tokens /\ 0 \in Tokens /\ TroublesRight' /\ StaysCalm
  BY <1>7 DEF SessInv, TabRight, TabRec, Tokens, TroublesRight, StaysCalm
<1>9. SharedRight' /\ shared'.step # "none" /\ shared'.got = shared.got
      /\ (OwnRefused => OwnRefused')
  <2>1. CASE shared.step = "none"
    <3>1. /\ shared' = [step |-> "sent", cookie |-> jar, got |-> 0] /\ shared.got = 0
          /\ ~astray => Unspent(jar)
      BY <1>7, <2>1 DEF SharedRight, SharedCalm
    <3> QED BY <1>7, <1>8, <3>1 DEF SharedRight, SharedCalm, OwnRefused, Unspent, Dead
  <2>2. CASE shared.step # "none"
    <3>1. UNCHANGED shared BY <1>7, <2>2
    <3> QED BY <1>7, <1>8, <2>2, <3>1, SharedSame
  <2> QED BY <2>1, <2>2
<1>10. CallRight(c)' BY <1>1, <1>2, <1>5, <1>8, <1>9 DEF CallRight, Calm
<1>11. LoginAlone'
  BY <1>1, <1>5, <1>6, NoLogin DEF Puts, LoginAlone
<1>12. WaitingIsAsking'
  BY <1>1, <1>5, <1>6 DEF SessInv, Puts, WaitingIsAsking, Waiting
<1> QED BY <1>6, <1>8, <1>9, <1>10, <1>11, <1>12, JoinedAndOwn, OneCall

LEMMA DeliverLoginInv == ASSUME SessInv, NEW i \in Calls, DeliverLogin(i) PROVE SessInv'
<1>1. PICK call : call = calls[i] OBVIOUS
<1>2. calls[i] # Idle /\ CallRight(call) /\ call.kind = "login" /\ call.step = "answered"
      /\ UNCHANGED <<auth, shared, strays, mishaps>>
  BY <1>1, Places DEF DeliverLogin, Idle
<1>3. /\ shared.step = "none" /\ shared.got = 0 /\ tab.token = 0
      /\ \A j \in Calls \ {i} : calls[j] = Idle
  BY <1>1, <1>2 DEF SessInv, LoginAlone, SharedRight
<1>4. Tokens' = Tokens BY <1>2 DEF Tokens
<1>5. CASE call.status = 200
  <2>1. PICK got : got = call.got OBVIOUS
  <2>2. got \in Tokens /\ got # 0 /\ Unspent(got) BY <1>2, <1>5, <2>1 DEF CallRight
  <2>3. PICK c : c = Call("boot", got, store.club, TRUE, FALSE) OBVIOUS
  <2>4. store.club \in Clubs \union {Nobody} BY DEF SessInv, TabRight
  <2>5. /\ CallRight(c) /\ c # Idle /\ c.kind = "boot" /\ c.step = "sent"
        /\ c.retry = TRUE /\ c.again = FALSE
    <3>1. CallRight(c) /\ c # Idle /\ c.kind = "boot" /\ c.step = "sent"
      BY <2>2, <2>3, <2>4, NewCall, ZenonT(60)
    <3>2. c.retry = TRUE /\ c.again = FALSE BY <2>3 DEF Call
    <3> QED BY <3>1, <3>2
  <2>6. /\ jar' = got /\ store' = [store EXCEPT !.token = got] /\ astray' = FALSE
        /\ tab' = [Loading(tab) EXCEPT !.token = got] /\ calls' = [calls EXCEPT ![i] = c]
    BY <1>1, <1>5, <2>1, <2>3 DEF DeliverLogin
  <2>7. Puts(i, c) BY <2>6 DEF SessInv, CallsRight, Puts
  <2>8. CallRight(c)' BY <1>2, <1>4, <2>5, <2>6 DEF CallRight, Calm
  <2>9. TabRight' /\ TroublesRight'
    BY <1>2, <1>4, <2>2, <2>6 DEF SessInv, TabRight, TabRec, Loading, TroublesRight
  <2>10. SharedRight'
    BY <1>2, <1>3, <1>4, <2>2, <2>6 DEF SessInv, SharedRight, SharedCalm, Unspent
  <2>11. Idle.kind = "none" BY DEF Idle
  <2>12. LoginAlone' BY <1>3, <2>5, <2>7, <2>11 DEF LoginAlone, Puts
  <2>13. WaitingIsAsking' BY <2>5, <2>7 DEF WaitingIsAsking, Puts
  <2> QED BY <1>2, <1>3, <2>7, <2>8, <2>9, <2>10, <2>12, <2>13, OneCall
<1>6. CASE call.status # 200
  <2>1. calls' = [calls EXCEPT ![i] = Idle] /\ UNCHANGED <<jar, store, tab, astray>>
    BY <1>1, <1>6 DEF DeliverLogin
  <2>2. Puts(i, Idle) BY <2>1 DEF SessInv, CallsRight, Puts
  <2>3. TabRight' /\ TroublesRight' /\ StaysCalm /\ WaitingIsAsking'
    <3>1. TroublesRight' /\ StaysCalm BY <1>2, <2>1 DEF SessInv, TroublesRight, StaysCalm, Tokens
    <3>2. TabRight' BY <1>4, <2>1 DEF SessInv, TabRight, TabRec
    <3>3. WaitingIsAsking' BY <1>3, <2>1 DEF WaitingIsAsking, Waiting
    <3> QED BY <3>1, <3>2, <3>3
  <2>4. SharedRight' BY <1>2, <2>1, <2>3, SharedSame
  <2> QED BY <1>2, <1>3, <2>2, <2>3, <2>4, DoneInv
<1> QED BY <1>5, <1>6

\* The tab gives a request up and forgets its user.
LEMMA ForgetInv ==
  ASSUME SessInv, NEW i \in Calls, calls[i] # Idle, Puts(i, Idle),
         jar' \in {0, jar}, store' = [club |-> Nobody, token |-> 0], tab' = SignedOut(tab),
         UNCHANGED <<auth, shared>>, TroublesRight', StaysCalm
  PROVE  SessInv'
<1>1. 0 \in Tokens /\ Tokens' = Tokens /\ SharedRight /\ TabRight
  BY DEF SessInv, AuthRight, Tokens
<1>2. TabRight' /\ tab'.token = 0 /\ tab'.seen = tab.seen
  BY <1>1 DEF TabRight, TabRec, SignedOut
<1>3. OwnRefused => OwnRefused' BY DEF OwnRefused, Dead
<1>4. SharedCalm /\ UNCHANGED strays => SharedCalm' BY DEF SharedCalm, Unspent, Dead
<1>5. SharedRight' BY <1>1, <1>2, <1>4 DEF SharedRight, StaysCalm
<1>6. WaitingIsAsking' BY <1>2 DEF WaitingIsAsking, Waiting
<1> QED BY <1>2, <1>3, <1>5, <1>6, DoneInv

\* A request of a signed-in tab ends: what it was told changes what the tab shows.
LEMMA ShownInv ==
  ASSUME SessInv, NEW i \in Calls, calls[i] # Idle, Puts(i, Idle),
         UNCHANGED <<auth, jar, store, shared, strays, astray, mishaps>>,
         tab' \in TabRec, tab'.token = tab.token, tab'.seen = tab.seen, WaitingIsAsking'
  PROVE  SessInv'
<1>1. StaysCalm /\ TroublesRight' /\ TabRight'
  BY DEF StaysCalm, SessInv, TroublesRight, TabRight, TabRec, Tokens
<1>2. SharedRight' /\ (OwnRefused => OwnRefused') BY <1>1, SharedSame
<1> QED BY <1>1, <1>2, DoneInv

LEMMA SameTroubles ==
  ASSUME SessInv, UNCHANGED <<auth, strays, astray, mishaps>>
  PROVE  TroublesRight' /\ StaysCalm
BY DEF SessInv, TroublesRight, StaysCalm, Tokens

LEMMA DeliverLogoutInv == ASSUME SessInv, NEW i \in Calls, DeliverLogout(i) PROVE SessInv'
<1>1. calls[i] # Idle /\ calls[i].kind = "logout" BY DEF DeliverLogout, Idle
<1>2. Puts(i, Idle) BY DEF DeliverLogout, SessInv, CallsRight, Puts
<1>3. TroublesRight' /\ StaysCalm BY SameTroubles DEF DeliverLogout, troubles
<1> QED BY <1>1, <1>2, <1>3, ForgetInv DEF DeliverLogout

LEMMA UnloadedInv ==
  ASSUME SessInv, NEW i \in Calls, calls[i] # Idle, calls' = [calls EXCEPT ![i] = Idle],
         tab' = Unloaded(tab), UNCHANGED <<auth, jar, store, shared, strays, astray, mishaps>>
  PROVE  SessInv'
<1>1. Puts(i, Idle) BY DEF SessInv, CallsRight, Puts
<1>2. tab' \in TabRec /\ tab'.token = tab.token /\ tab'.seen = tab.seen /\ tab'.failed
  BY DEF SessInv, TabRight, TabRec, Unloaded
<1>3. WaitingIsAsking' BY <1>2 DEF WaitingIsAsking
<1> QED BY <1>1, <1>2, <1>3, ShownInv

LEMMA DeliverOwnInv == ASSUME SessInv, NEW i \in Calls, DeliverOwn(i) PROVE SessInv'
<1>1. PICK call : call = calls[i] OBVIOUS
<1>2. calls[i] # Idle /\ CallRight(call) /\ call.kind = "boot" /\ call.step = "ownAnswered"
      /\ UNCHANGED <<auth, shared, strays, astray, mishaps>>
  BY <1>1, Places DEF DeliverOwn, Idle, troubles
<1>3. CASE call.status = 200
  <2>1. PICK got : got = call.got OBVIOUS
  <2>2. astray /\ got \in Tokens /\ got \in Nat /\ (shared.got # 0 => got # shared.got)
        /\ call.club \in SomeClub
    BY <1>2, <1>3, <2>1 DEF CallRight, CallRec, Calm
  <2>3. jar \in Tokens /\ jar \in Nat /\ 0 \in Tokens /\ Tokens' = Tokens
    BY <1>2 DEF SessInv, TabRight, AuthRight, Tokens
  <2>4. PICK c : c = Call("boot", got, call.club, TRUE, TRUE) OBVIOUS
  <2>5. /\ jar' = got /\ store' = [store EXCEPT !.token = got] /\ tab' = [tab EXCEPT !.token = got]
        /\ calls' = [calls EXCEPT ![i] = c]
    <3>1. /\ jar' = got /\ store' = [store EXCEPT !.token = got]
          /\ tab' = [tab EXCEPT !.token = got]
      BY <1>1, <1>3, <2>1 DEF DeliverOwn
    <3>2. calls' = [calls EXCEPT ![i] = Call("boot", calls[i].got, calls[i].club, TRUE, TRUE)]
      <4>1. calls[i].status # 401 /\ calls[i].status \in {200, 401} BY <1>1, <1>3
      <4> QED BY <4>1, Zenon DEF DeliverOwn
    <3> QED BY <1>1, <2>1, <2>4, <3>1, <3>2, Zenon
  <2>6. Puts(i, c) BY <2>5 DEF SessInv, CallsRight, Puts
  <2>7. /\ c \in CallRec /\ c.kind = "boot" /\ c.step = "sent" /\ c.cookie = jar
        /\ c.got = 0 /\ c.token = got
    BY <2>2, <2>3, <2>4 DEF Call, CallRec, CallKinds, CallSteps, CallStatuses, SomeUser
  <2>8. CallRight(c)' BY <1>2, <2>2, <2>3, <2>7 DEF CallRight
  <2>9. TabRight' /\ tab'.token = got /\ tab'.seen = tab.seen
    BY <2>2, <2>3, <2>5 DEF SessInv, TabRight, TabRec
  <2>10. SharedRight'
    <3>1. shared.got # 0 => tab.seen # shared.got BY DEF SessInv, SharedRight
    <3> QED BY <1>2, <2>2, <2>3, <2>9, <3>1 DEF SessInv, SharedRight
  <2>11. LoginAlone' BY <1>2, <2>6, <2>7, NoLogin DEF Puts, LoginAlone
  <2>12. WaitingIsAsking' BY <2>6, <2>7 DEF WaitingIsAsking, Puts
  <2>13. TroublesRight' /\ StaysCalm BY <1>2, SameTroubles
  <2>14. astray' BY <1>2, <2>2
  <2> QED BY <1>2, <2>6, <2>8, <2>9, <2>10, <2>11, <2>12, <2>13, <2>14, NoLogin, JoinedAndOwn,
             OneCall
<1>4. CASE call.status = 401
  <2>1. /\ store' = [club |-> Nobody, token |-> 0] /\ tab' = SignedOut(tab) /\ UNCHANGED jar
        /\ calls' = [calls EXCEPT ![i] = Idle]
    BY <1>1, <1>4 DEF DeliverOwn
  <2>2. Puts(i, Idle) BY <2>1 DEF SessInv, CallsRight, Puts
  <2>3. TroublesRight' /\ StaysCalm BY <1>2, SameTroubles
  <2> QED BY <1>2, <2>1, <2>2, <2>3, ForgetInv
<1>5. CASE call.status \notin {200, 401}
  <2>1. tab' = Unloaded(tab) /\ calls' = [calls EXCEPT ![i] = Idle] /\ UNCHANGED <<jar, store>>
    BY <1>1, <1>5 DEF DeliverOwn
  <2> QED BY <1>2, <2>1, UnloadedInv
<1> QED BY <1>3, <1>4, <1>5

LEMMA DeliverPageInv == ASSUME SessInv, NEW i \in Calls, DeliverPage(i) PROVE SessInv'
<1>1. calls[i] # Idle /\ calls[i].kind = "page" /\ calls[i].step = "answered"
      /\ UNCHANGED <<auth, jar, store, tab, strays, astray, mishaps>>
  BY DEF DeliverPage, Idle, troubles
<1>2. CASE calls[i].status = 401 /\ calls[i].retry BY <1>1, <1>2, JoinInv DEF DeliverPage
<1>3. CASE ~(calls[i].status = 401 /\ calls[i].retry)
  <2>1. calls' = [calls EXCEPT ![i] = Idle] /\ UNCHANGED shared
    BY <1>3 DEF DeliverPage
  <2>2. Puts(i, Idle) BY <2>1 DEF SessInv, CallsRight, Puts
  <2>3. tab' \in TabRec BY <1>1 DEF SessInv, TabRight, TabRec, Tokens
  <2>4. \A j \in Calls : calls[j].kind \in {"boot", "logout"} => calls'[j] = calls[j]
    BY <1>1, <2>2 DEF Puts
  <2>5. WaitingIsAsking' BY <1>1, <2>1, <2>4 DEF SessInv, WaitingIsAsking, Waiting
  <2> QED BY <1>1, <2>1, <2>2, <2>3, <2>5, ShownInv
<1> QED BY <1>2, <1>3

LEMMA DeliverBootInv == ASSUME SessInv, NEW i \in Calls, DeliverBoot(i) PROVE SessInv'
<1>1. PICK call : call = calls[i] OBVIOUS
<1>2. calls[i] # Idle /\ CallRight(call) /\ call.kind = "boot" /\ call.step = "answered"
      /\ call \in CallRec /\ UNCHANGED <<auth, jar, strays, astray, mishaps>>
  BY <1>1, Places DEF DeliverBoot, Idle, CallRight, troubles
<1>3. CASE call.status = 200
  <2>1. call.boot \in Users \union {Nobody} /\ call.boot # Nobody
    BY <1>2, <1>3 DEF CallRight, CallRec, SomeUser
  <2>2. /\ tab' = [tab EXCEPT !.boot = call.boot, !.initialized = TRUE, !.loading = FALSE]
        /\ calls' = [calls EXCEPT ![i] = Idle] /\ UNCHANGED <<store, shared>>
    BY <1>1, <1>3 DEF DeliverBoot
  <2>3. /\ tab' \in TabRec /\ tab'.token = tab.token /\ tab'.seen = tab.seen
        /\ tab'.initialized /\ ~tab'.loading /\ tab'.boot # Nobody
    BY <2>1, <2>2 DEF SessInv, TabRight, TabRec
  <2>4. Puts(i, Idle) BY <2>2 DEF SessInv, CallsRight, Puts
  <2>5. WaitingIsAsking' BY <2>3 DEF WaitingIsAsking, Waiting
  <2> QED BY <1>2, <2>2, <2>3, <2>4, <2>5, ShownInv
<1>4. CASE call.status \notin {200, 401}
  <2>1. tab' = Unloaded(tab) /\ calls' = [calls EXCEPT ![i] = Idle] /\ UNCHANGED <<store, shared>>
    BY <1>1, <1>4 DEF DeliverBoot
  <2> QED BY <1>2, <2>1, UnloadedInv
<1>5. CASE call.status = 401 /\ call.retry
  BY <1>1, <1>2, <1>5, JoinInv DEF DeliverBoot
<1>6. CASE call.status = 401 /\ ~call.retry
  <2>1. BootDenied(i) /\ UNCHANGED shared BY <1>1, <1>6 DEF DeliverBoot
  <2>2. astray BY <1>2, <1>6 DEF CallRight, Calm
  <2>3. CASE call.again
    <3>1. /\ calls' = [calls EXCEPT ![i] = Idle] /\ tab' = SignedOut(tab)
          /\ store' = [club |-> Nobody, token |-> 0]
      BY <1>1, <2>1, <2>3 DEF BootDenied
    <3>2. Puts(i, Idle) BY <3>1 DEF SessInv, CallsRight, Puts
    <3>3. TroublesRight' /\ StaysCalm BY <1>2, SameTroubles
    <3> QED BY <1>2, <2>1, <3>1, <3>2, <3>3, ForgetInv
  <2>4. CASE ~call.again
    BY <1>1, <1>2, <2>1, <2>2, <2>4, OwnInv DEF BootDenied
  <2> QED BY <2>3, <2>4
<1> QED BY <1>3, <1>4, <1>5, <1>6
LEMMA DeliverSharedInv == ASSUME SessInv, DeliverShared PROVE SessInv'
<1>1. PICK token : token = shared.got OBVIOUS
<1>2. /\ shared.step = "answered" /\ shared' = NoRefresh
      /\ UNCHANGED <<auth, strays, astray, mishaps>>
      /\ SharedRight /\ TabRight /\ Len(auth) \in Nat /\ token \in Tokens /\ 0 \in Tokens
      /\ Tokens' = Tokens /\ shared.cookie \in Tokens /\ token \in Nat /\ jar \in Nat
      /\ NoRefresh.step = "none" /\ NoRefresh.got = 0
  <2>1. shared.step = "answered" /\ shared' = NoRefresh
        /\ UNCHANGED <<auth, strays, astray, mishaps>>
    BY DEF DeliverShared, troubles
  <2>2. SharedRight /\ TabRight /\ Len(auth) \in Nat BY DEF SessInv, AuthRight
  <2>3. token \in Tokens /\ shared.cookie \in Tokens /\ jar \in Tokens
    BY <1>1, <2>2 DEF SharedRight, TabRight
  <2> QED BY <2>1, <2>2, <2>3 DEF Tokens, NoRefresh
<1>3. \A i \in Calls : calls[i] # Idle => CallRight(calls[i]) /\ calls[i].kind # "login"
  BY <1>2, Places DEF SessInv, LoginAlone
<1>4. Idle.kind = "none" BY DEF Idle
<1>5. \A i \in Waiters : /\ i \in Calls /\ calls[i] # Idle /\ CallRight(calls[i])
                         /\ calls[i].kind \in {"page", "boot"} /\ calls[i].step = "joined"
  BY <1>3, <1>4 DEF Waiters, CallRight, CallRec, CallKinds
<1>6. \A i \in Calls \ Waiters : calls[i] = Idle \/ calls[i].step # "joined"
  BY <1>4, Places DEF Waiters
<1>7. TroublesRight' /\ AuthRight' /\ Len(auth') <= Signings
  BY <1>2, SameTroubles DEF SessInv, AuthRight, Tokens
<1>8. CASE token # 0
  <2> DEFINE resent(i) == [Call(calls[i].kind, token, calls[i].club, FALSE, calls[i].again)
                             EXCEPT !.cookie = token]
  <2>1. /\ jar' = token /\ store' = [store EXCEPT !.token = token]
        /\ tab' = [tab EXCEPT !.token = token]
        /\ calls' = [i \in Calls |-> IF i \in Waiters THEN resent(i) ELSE calls[i]]
    BY <1>1, <1>8 DEF DeliverShared
  <2>2. (~astray => auth[token].fresh /\ Unspent(token)) /\ tab.seen # token
    BY <1>1, <1>2, <1>8 DEF SharedRight, SharedCalm
  <2>3. ~OwnRefused BY <1>1, <1>2, <1>8 DEF OwnRefused
  <2>4. ASSUME NEW i \in Waiters PROVE CallRight(calls[i])' /\ calls'[i].kind = calls[i].kind
    <3>1. PICK call : call = calls[i] OBVIOUS
    <3>2. PICK c : c = [Call(call.kind, token, call.club, FALSE, call.again)
                          EXCEPT !.cookie = token]
      OBVIOUS
    <3>3. calls'[i] = c BY <1>5, <2>1, <3>1, <3>2
    <3>4. call \in CallRec /\ call.kind \in {"page", "boot"} /\ (~astray => ~call.again)
      BY <1>5, <3>1 DEF CallRight, Calm
    <3>5. /\ call.kind \in CallKinds /\ call.club \in SomeClub
          /\ "sent" \in CallSteps /\ 0 \in CallStatuses /\ Nobody \in SomeUser
          /\ call.again \in BOOLEAN
      BY <3>4 DEF CallRec, CallSteps, CallStatuses, SomeUser
    <3>6. /\ c \in CallRec /\ c.step = "sent" /\ c.kind = call.kind /\ c.cookie = token
          /\ c.token = token /\ c.got = 0 /\ c.retry = FALSE /\ c.again = call.again
      BY <1>2, <3>2, <3>5 DEF Call, CallRec
    <3>7. CallRight(c)' BY <1>2, <1>8, <2>2, <3>4, <3>6 DEF CallRight, Calm
    <3> QED BY <3>1, <3>3, <3>6, <3>7
  <2>5. ASSUME NEW i \in Calls \ Waiters, calls[i] # Idle PROVE CallRight(calls[i])'
    <3>1. calls'[i] = calls[i] BY <2>1
    <3>2. ~astray => calls[i].step \notin {"own", "ownAnswered"} BY <2>3, <2>5, JoinedAndOwn
    <3>3. ~astray => ((calls[i].kind \in {"page", "boot"} /\ ~calls[i].retry
                         /\ calls[i].step = "sent") => auth'[calls[i].token].fresh)
      BY <1>2, <1>3, <2>5 DEF CallRight, Calm
    <3> QED BY <1>2, <1>3, <1>6, <2>5, <3>1, <3>2, <3>3, SameAuth, CallKept DEF SessInv
  <2>6. CallsRight' BY <2>1, <2>4, <2>5 DEF CallsRight
  <2>7. LoginAlone'
    <3>1. \A i \in Calls : calls'[i].kind # "login"
      BY <1>3, <1>4, <1>5, <2>1, <2>4
    <3> QED BY <3>1 DEF LoginAlone
  <2>8. TabRight' /\ tab'.token = token /\ tab'.seen = tab.seen
    BY <1>2, <2>1 DEF TabRight, TabRec
  <2>9. SharedRight'
    <3>1. NoRefresh \in [step : {"none", "sent", "answered"}, cookie : Tokens', got : Tokens']
      BY <1>2 DEF NoRefresh
    <3>2. ~astray => Unspent(jar)' BY <1>2, <2>1, <2>2 DEF Unspent
    <3> QED BY <1>2, <3>1, <3>2 DEF SharedRight, SharedCalm
  <2>10. WaitingIsAsking' BY <2>2, <2>8 DEF WaitingIsAsking
  <2> QED BY <1>7, <2>6, <2>7, <2>8, <2>9, <2>10 DEF SessInv
<1>9. CASE token = 0
  <2> DEFINE refused(i) == IF calls[i].kind = "page" \/ calls[i].again THEN Idle
                           ELSE [calls[i] EXCEPT !.step = "own", !.cookie = jar]
  <2>1. /\ \E k \in {Nobody, store.club} : store' = [club |-> k, token |-> 0]
        /\ tab' = SignedOut(tab) /\ UNCHANGED jar
        /\ calls' = [i \in Calls |-> IF i \in Waiters THEN refused(i) ELSE calls[i]]
    BY <1>1, <1>9 DEF DeliverShared
  <2>2. ~astray => Dead(jar) /\ Unspent(jar)
    BY <1>1, <1>2, <1>9 DEF SharedRight, SharedCalm, Dead, Unspent
  <2>3. ~astray => Dead(jar)' /\ Unspent(jar)' /\ OwnRefused'
    BY <1>2, <2>1, <2>2 DEF OwnRefused, Dead, Unspent
  <2>4. ASSUME NEW i \in Waiters
        PROVE  calls'[i] = Idle \/ (CallRight(calls[i])' /\ calls'[i].kind = "boot")
    <3>1. PICK call : call = calls[i] OBVIOUS
    <3>2. call \in CallRec /\ call.kind \in {"page", "boot"} /\ CallRight(call)
          /\ call.step = "joined"
      BY <1>5, <3>1 DEF CallRight
    <3>3. CASE call.kind = "page" \/ call.again BY <1>5, <2>1, <3>1, <3>3
    <3>4. CASE call.kind = "boot" /\ ~call.again
      <4>1. PICK c : c = [call EXCEPT !.step = "own", !.cookie = jar] OBVIOUS
      <4>2. calls'[i] = c BY <1>5, <2>1, <3>1, <3>2, <3>4, <4>1
      <4>3. "own" \in CallSteps BY DEF CallSteps
      <4>4. /\ c \in CallRec /\ c.step = "own" /\ c.kind = call.kind /\ c.cookie = jar
            /\ c.token = call.token /\ c.got = call.got /\ c.retry = call.retry
            /\ c.again = call.again
        BY <1>2, <3>2, <4>1, <4>3 DEF CallRec
      <4>5. jar \in Tokens BY <1>2 DEF TabRight
      <4>6. ~astray => call.retry BY <3>2 DEF CallRight, Calm
      <4>7. ~astray => Calm(c)' BY <1>2, <2>1, <2>3, <3>2, <3>4, <4>4, <4>6 DEF Calm
      <4>8. CallRight(c)' BY <1>2, <2>1, <3>2, <3>4, <4>4, <4>5, <4>7 DEF CallRight
      <4> QED BY <3>4, <4>2, <4>4, <4>8
    <3> QED BY <3>2, <3>3, <3>4
  <2>5. ASSUME NEW i \in Calls \ Waiters, calls[i] # Idle PROVE CallRight(calls[i])'
    <3>1. calls'[i] = calls[i] BY <2>1
    <3>2. ~astray => ((calls[i].kind \in {"page", "boot"} /\ ~calls[i].retry
                         /\ calls[i].step = "sent") => auth'[calls[i].token].fresh)
      BY <1>2, <1>3, <2>5 DEF CallRight, Calm
    <3>3. Unspent(calls[i].cookie) => Unspent(calls[i].cookie)' BY <1>2, <3>1 DEF Unspent
    <3> QED BY <1>2, <1>3, <1>6, <2>3, <2>5, <3>1, <3>2, <3>3, SameAuth, CallKept DEF SessInv
  <2>6. CallsRight' BY <2>1, <2>4, <2>5 DEF CallsRight
  <2>7. LoginAlone'
    <3>1. \A i \in Calls : calls'[i].kind # "login"
      BY <1>3, <1>4, <1>5, <2>1, <2>4
    <3> QED BY <3>1 DEF LoginAlone
  <2>8. TabRight' /\ tab'.token = 0
    <3>1. tab \in TabRec /\ store.club \in Clubs \union {Nobody} /\ jar' \in Tokens
      BY <1>2, <2>1 DEF TabRight
    <3>2. tab' \in TabRec /\ tab'.token = 0
      BY <1>2, <2>1, <3>1 DEF SignedOut, TabRec
    <3>3. PICK k \in {Nobody, store.club} : store' = [club |-> k, token |-> 0] BY <2>1
    <3>4. k \in Clubs \union {Nobody} BY <3>1
    <3>5. store' \in [club : Clubs \union {Nobody}, token : Tokens] /\ store'.token = 0
      BY <1>2, <3>3, <3>4
    <3> QED BY <1>2, <3>1, <3>2, <3>5 DEF TabRight, TabRec
  <2>9. SharedRight'
    <3>1. NoRefresh \in [step : {"none", "sent", "answered"}, cookie : Tokens', got : Tokens']
      BY <1>2 DEF NoRefresh
    <3> QED BY <1>2, <2>2, <2>3, <3>1 DEF SharedRight, SharedCalm
  <2>10. WaitingIsAsking' BY <2>8 DEF WaitingIsAsking, Waiting
  <2> QED BY <1>7, <2>6, <2>7, <2>8, <2>9, <2>10 DEF SessInv
<1> QED BY <1>8, <1>9
-----------------------------------------------------------------------------
\* What goes wrong on the way.
LEMMA MishapCounts ==
  ASSUME SessInv, Mishap, UNCHANGED auth, strays' \subseteq Tokens, astray' \in BOOLEAN
  PROVE  TroublesRight'
<1>1. mishaps \in 0..Mishaps /\ Mishaps \in Nat
  BY SessionAssumption DEF SessInv, TroublesRight
<1> QED BY <1>1 DEF Mishap, TroublesRight, Tokens

LEMMA Retyped ==
  ASSUME NEW c \in CallRec, NEW s \in CallStatuses, NEW n \in Nat, NEW p \in CallSteps
  PROVE  [c EXCEPT !.status = s, !.got = n, !.step = p] \in CallRec
BY DEF CallRec

LEMMA ErrsInv == ASSUME SessInv, NEW i \in Calls, Errs(i) PROVE SessInv'
<1>1. PICK call : call = calls[i] OBVIOUS
<1>2. PICK step : step = IF Owning(call) THEN "ownAnswered" ELSE "answered" OBVIOUS
<1>3. /\ calls[i] # Idle /\ CallRight(call) /\ call \in CallRec /\ call.step # "joined"
      /\ call.kind \in {"login", "logout", "page", "boot"}
      /\ UNCHANGED <<auth, jar, store, tab, shared>> /\ Mishap
      /\ calls' = [calls EXCEPT ![i] = [call EXCEPT !.status = 500, !.got = 0, !.step = step]]
      /\ strays' = strays \union (IF call.step = "own" THEN {call.cookie} ELSE {})
      /\ astray' = (astray \/ Owning(call))
  BY <1>1, <1>2, Places DEF Errs, Idle, CallRight
<1>4. step \in CallSteps /\ step # "joined" /\ 500 \in CallStatuses
  BY <1>2 DEF CallSteps, CallStatuses
<1>5. PICK c : c = [call EXCEPT !.status = 500, !.got = 0, !.step = step] OBVIOUS
<1>6. /\ c \in CallRec /\ c.step = step /\ c.kind = call.kind /\ c.cookie = call.cookie
      /\ c.token = call.token /\ c.got = 0 /\ c.retry = call.retry /\ c.again = call.again
      /\ c.status = 500 /\ c.user = call.user
  <2>1. 0 \in Nat OBVIOUS
  <2>2. call \in CallRec /\ step \in CallSteps /\ 500 \in CallStatuses BY <1>3, <1>4
  <2>3. [call EXCEPT !.status = 500, !.got = 0, !.step = step] \in CallRec
    BY <2>1, <2>2, Retyped, ZenonT(60)
  <2>4. c \in CallRec BY <1>5, <2>3, Zenon
  <2>5. /\ c.step = step /\ c.got = 0 /\ c.status = 500
    BY <1>3, <1>5 DEF CallRec
  <2>6. /\ c.kind = call.kind /\ c.cookie = call.cookie /\ c.token = call.token
        /\ c.retry = call.retry /\ c.again = call.again /\ c.user = call.user
    BY <1>3, <1>5 DEF CallRec
  <2> QED BY <2>4, <2>5, <2>6
<1>7. Puts(i, c)
  <2>1. calls' = [calls EXCEPT ![i] = c] BY <1>3, <1>5
  <2> QED BY <2>1 DEF SessInv, CallsRight, Puts
<1>8. astray \in BOOLEAN /\ strays \subseteq Tokens /\ call.cookie \in Tokens /\ 0 \in Tokens
      /\ Tokens' = Tokens
  BY <1>3 DEF SessInv, TroublesRight, CallRight, Tokens, AuthRight
<1>9. Owning(call) => call.kind = "boot" BY <1>3 DEF CallRight, Owning
<1>10. TroublesRight' /\ StaysCalm
  <2>1. strays' \subseteq Tokens /\ astray' \in BOOLEAN BY <1>3, <1>8
  <2> QED BY <1>3, <2>1, MishapCounts DEF StaysCalm, Owning
<1>11. ~astray' => Calm(c)'
  <2>1. ~astray' => ~astray /\ step = "answered" /\ Calm(call) BY <1>2, <1>3 DEF CallRight
  <2> QED BY <1>6, <2>1 DEF Calm
<1>12. CallRight(c)' BY <1>2, <1>3, <1>4, <1>6, <1>8, <1>9, <1>11 DEF CallRight, Unspent
<1>13. SharedRight' BY <1>3, <1>10, SharedSame
<1>14. TabRight' BY <1>3, <1>8 DEF SessInv, TabRight, TabRec
<1>15. \A j \in Calls : calls'[j].kind = calls[j].kind BY <1>1, <1>6, <1>7 DEF Puts
<1>16. LoginAlone' /\ WaitingIsAsking'
  <2>1. ASSUME NEW j \in Calls, calls'[j].kind = "login"
        PROVE  tab'.token = 0 /\ shared'.step = "none" /\ \A k \in Calls \ {j} : calls'[k] = Idle
    <3>1. /\ tab.token = 0 /\ shared.step = "none"
          /\ \A k \in Calls \ {j} : calls[k] = Idle
      BY <1>15, <2>1 DEF SessInv, LoginAlone
    <3>2. i = j BY <1>3, <3>1
    <3> QED BY <1>3, <1>7, <3>1, <3>2 DEF Puts
  <2>2. LoginAlone' BY <2>1 DEF LoginAlone
  <2> QED BY <1>3, <1>15, <2>2 DEF SessInv, WaitingIsAsking, Waiting
<1>17. OwnRefused' = OwnRefused BY <1>3 DEF OwnRefused, Dead
<1>18. \A j \in Calls \ {i} : calls[j] # Idle =>
         /\ StaysCalm
         /\ calls[j].kind = "login" => UNCHANGED strays
         /\ calls[j].step = "joined" => shared'.step # "none"
         /\ shared'.got # 0 => calls[j].got # shared'.got
         /\ (~astray' /\ calls[j].step \in {"own", "ownAnswered"}) => OwnRefused'
  BY <1>3, <1>10, <1>17, NoLogin, JoinedAndOwn DEF StaysCalm
<1> QED BY <1>3, <1>7, <1>10, <1>12, <1>13, <1>14, <1>16, <1>18, OneCall

\* The shared refresh went astray: what is left of it, and of those who waited for it.
LEMMA SharedGone ==
  ASSUME SessInv, shared.step # "none", UNCHANGED auth, astray', TroublesRight',
         shared' \in [step : {"none", "sent", "answered"}, cookie : Tokens, got : Tokens],
         shared'.got = 0, TabRight', tab'.token = tab.token, WaitingIsAsking',
         calls' = [i \in Calls |-> calls'[i]],
         \A i \in Calls : \/ calls'[i] = Idle
                          \/ /\ calls'[i] = calls[i]
                             /\ calls[i].step = "joined" => shared'.step # "none"
  PROVE  SessInv'
<1>1. Grows /\ Tokens' = Tokens /\ AuthRight' BY SameAuth DEF SessInv, Tokens, Grows
<1>2. \A i \in Calls : calls[i] # Idle => calls[i].kind # "login"
  BY Places DEF SessInv, LoginAlone
<1>3. ASSUME NEW i \in Calls, calls'[i] # Idle PROVE CallRight(calls[i])'
  <2>1. /\ calls'[i] = calls[i] /\ calls[i] # Idle
        /\ calls[i].step = "joined" => shared'.step # "none"
    BY <1>3
  <2> QED BY <1>1, <1>2, <2>1, CallKept
<1>4. CallsRight' BY <1>3 DEF CallsRight
<1>5. Idle.kind = "none" BY DEF Idle
<1>6. \A i \in Calls : calls'[i].kind # "login" BY <1>2, <1>5
<1>7. LoginAlone' BY <1>6 DEF LoginAlone
<1>8. SharedRight' BY <1>1 DEF SharedRight
<1> QED BY <1>1, <1>4, <1>7, <1>8 DEF SessInv

LEMMA SharedErrsInv == ASSUME SessInv, SharedErrs PROVE SessInv'
<1>1. /\ shared.step # "none" /\ Mishap /\ UNCHANGED <<auth, jar, store, tab, calls>> /\ astray'
      /\ shared' = [shared EXCEPT !.step = "answered", !.got = 0]
      /\ strays' \subseteq strays \union {shared.cookie}
  BY DEF SharedErrs
<1>2. /\ shared \in [step : {"none", "sent", "answered"}, cookie : Tokens, got : Tokens]
      /\ strays \subseteq Tokens /\ 0 \in Tokens /\ Tokens' = Tokens
  BY <1>1 DEF SessInv, SharedRight, TroublesRight, Tokens, AuthRight
<1>3. TroublesRight'
  <2>1. astray' = TRUE BY DEF SharedErrs
  <2>2. strays' \subseteq Tokens BY <1>1, <1>2
  <2> QED BY <1>1, <2>1, <2>2, MishapCounts
<1>4. TabRight' /\ WaitingIsAsking'
  BY <1>1, <1>2 DEF SessInv, TabRight, TabRec, WaitingIsAsking, Waiting
<1>5. /\ shared' \in [step : {"none", "sent", "answered"}, cookie : Tokens, got : Tokens]
      /\ shared'.got = 0 /\ shared'.step = "answered"
  BY <1>1, <1>2
<1>6. calls' = [i \in Calls |-> calls'[i]] BY <1>1 DEF SessInv, CallsRight
<1> QED BY <1>1, <1>3, <1>4, <1>5, <1>6, SharedGone

LEMMA SharedLostInv == ASSUME SessInv, SharedLost PROVE SessInv'
<1>1. /\ shared.step # "none" /\ Mishap /\ UNCHANGED <<auth, store>> /\ astray'
      /\ shared' = NoRefresh /\ jar' \in {jar, shared.got}
      /\ calls' = [i \in Calls |-> IF i \in Waiters THEN Idle ELSE calls[i]]
      /\ strays' \subseteq strays \union {shared.cookie}
      /\ tab' = IF \E i \in Waiters : calls[i].kind = "boot" THEN Unloaded(tab) ELSE tab
  BY DEF SharedLost
<1>2. /\ shared \in [step : {"none", "sent", "answered"}, cookie : Tokens, got : Tokens]
      /\ strays \subseteq Tokens /\ 0 \in Tokens /\ Tokens' = Tokens
      /\ jar \in Tokens /\ tab \in TabRec /\ store.token = tab.token
      /\ store \in [club : Clubs \union {Nobody}, token : Tokens]
  BY <1>1 DEF SessInv, SharedRight, TroublesRight, Tokens, AuthRight, TabRight
<1>3. TroublesRight'
  <2>1. astray' = TRUE BY DEF SharedLost
  <2>2. strays' \subseteq Tokens BY <1>1, <1>2
  <2> QED BY <1>1, <2>1, <2>2, MishapCounts
<1>4. /\ Unloaded(tab) \in TabRec /\ Unloaded(tab).token = tab.token
      /\ Unloaded(tab).seen = tab.seen /\ Unloaded(tab).failed
  BY <1>2 DEF Unloaded, TabRec
<1>5. /\ tab' \in TabRec /\ tab'.token = tab.token
  BY <1>1, <1>2, <1>4
<1>6. TabRight' BY <1>1, <1>2, <1>5 DEF TabRight, TabRec
<1>7. WaitingIsAsking'
  <2>1. CASE \E i \in Waiters : calls[i].kind = "boot"
    <3>1. tab'.failed BY <1>1, <1>4, <2>1
    <3> QED BY <3>1 DEF WaitingIsAsking
  <2>2. CASE ~\E i \in Waiters : calls[i].kind = "boot"
    <3>1. \A i \in Waiters : calls[i].kind \notin {"boot", "logout"}
      BY <2>2, Places DEF Waiters, CallRight, Idle
    <3>2. \A i \in Calls : calls[i].kind \in {"boot", "logout"} => calls'[i] = calls[i]
      BY <1>1, <3>1
    <3>3. UNCHANGED tab BY <1>1, <2>2
    <3> QED BY <3>2, <3>3 DEF SessInv, WaitingIsAsking, Waiting
  <2> QED BY <2>1, <2>2
<1>8. shared' \in [step : {"none", "sent", "answered"}, cookie : Tokens, got : Tokens]
      /\ shared'.got = 0
  BY <1>1, <1>2 DEF NoRefresh
<1>9. \A i \in Calls : \/ calls'[i] = Idle
                       \/ /\ calls'[i] = calls[i]
                          /\ calls[i].step = "joined" => shared'.step # "none"
  <2>1. \A i \in Calls \ Waiters : calls[i] = Idle \/ calls[i].step # "joined"
    BY Places DEF Waiters, Idle
  <2> QED BY <1>1, <2>1
<1> QED BY <1>1, <1>3, <1>5, <1>6, <1>7, <1>8, <1>9, SharedGone
LEMMA LostInv == ASSUME SessInv, NEW i \in Calls, Lost(i) PROVE SessInv'
<1>1. PICK call : call = calls[i] OBVIOUS
<1>2. /\ calls[i] # Idle /\ CallRight(call) /\ call.step # "joined" /\ Mishap
      /\ call.kind \in {"login", "logout", "page", "boot"}
      /\ calls' = [calls EXCEPT ![i] = Idle] /\ jar' \in CookieAfter(call)
      /\ store' = IF call.kind = "logout" THEN [club |-> Nobody, token |-> 0] ELSE store
      /\ tab' = CASE call.kind = "logout" -> SignedOut(tab)
                  [] call.kind = "boot" -> Unloaded(tab)
                  [] OTHER -> tab
      /\ strays' = strays \union (IF call.step = "own" THEN {call.cookie} ELSE {})
      /\ astray' = (astray \/ Owning(call)) /\ UNCHANGED <<auth, shared>>
  BY <1>1, Places DEF Lost, Idle
<1>3. Puts(i, Idle) BY <1>2 DEF SessInv, CallsRight, Puts
<1>4. /\ astray \in BOOLEAN /\ strays \subseteq Tokens /\ call.cookie \in Tokens /\ 0 \in Tokens
      /\ Tokens' = Tokens /\ jar \in Tokens /\ call.got \in Tokens
      /\ tab \in TabRec /\ store.token = tab.token
      /\ store \in [club : Clubs \union {Nobody}, token : Tokens] /\ SharedRight
  BY <1>2 DEF SessInv, TroublesRight, CallRight, Tokens, AuthRight, TabRight
<1>5. TroublesRight' /\ StaysCalm
  <2>1. strays' \subseteq Tokens /\ astray' \in BOOLEAN BY <1>2, <1>4
  <2> QED BY <1>2, <2>1, MishapCounts DEF StaysCalm, Owning
<1>6. jar' \in Tokens BY <1>2, <1>4 DEF CookieAfter
<1>7. /\ SignedOut(tab) \in TabRec /\ SignedOut(tab).token = 0
      /\ SignedOut(tab).seen = tab.seen
      /\ Unloaded(tab) \in TabRec /\ Unloaded(tab).token = tab.token
      /\ Unloaded(tab).seen = tab.seen /\ Unloaded(tab).failed
  BY <1>4 DEF SignedOut, Unloaded, TabRec
<1>8. /\ tab' \in TabRec /\ tab'.seen = tab.seen /\ tab'.token \in {tab.token, 0}
      /\ store'.token = tab'.token /\ store' \in [club : Clubs \union {Nobody}, token : Tokens]
      /\ call.kind = "logout" => tab'.token = 0
      /\ call.kind = "boot" => tab'.failed
      /\ call.kind \in {"login", "page"} => UNCHANGED tab
  BY <1>2, <1>4, <1>7
<1>9. TabRight' BY <1>4, <1>6, <1>8 DEF TabRight, TabRec
<1>10. WaitingIsAsking'
  <2>1. CASE call.kind = "logout" BY <1>8, <2>1 DEF WaitingIsAsking, Waiting
  <2>2. CASE call.kind = "boot" BY <1>8, <2>2 DEF WaitingIsAsking
  <2>3. CASE call.kind \in {"login", "page"}
    <3>1. \A j \in Calls : calls[j].kind \in {"boot", "logout"} => calls'[j] = calls[j]
      BY <1>1, <1>3, <2>3 DEF Puts
    <3> QED BY <1>8, <2>3, <3>1 DEF SessInv, WaitingIsAsking, Waiting
  <2> QED BY <1>2, <2>1, <2>2, <2>3
<1>11. CASE call.kind = "login"
  <2>1. /\ shared.step = "none" /\ shared.got = 0 /\ Unspent(call.got)
        /\ \A j \in Calls \ {i} : calls[j] = Idle
    BY <1>1, <1>2, <1>4, <1>11 DEF SessInv, LoginAlone, CallRight, SharedRight
  <2>2. ~astray' => ~astray /\ UNCHANGED strays BY <1>5 DEF StaysCalm
  <2>3. jar' \in {jar, call.got} BY <1>2, <1>11 DEF CookieAfter
  <2>4. ~astray => Unspent(jar) BY <1>4, <2>1 DEF SharedRight, SharedCalm
  <2>5. ~astray' => Unspent(jar)' BY <1>2, <2>1, <2>2, <2>3, <2>4 DEF Unspent
  <2>6. SharedRight' BY <1>2, <1>4, <2>1, <2>5 DEF SharedRight, SharedCalm
  <2> QED BY <1>2, <1>3, <1>5, <1>9, <1>10, <2>1, <2>6, DoneInv
<1>12. CASE call.kind # "login"
  <2>1. call.got # 0 => astray' BY <1>2, <1>12 DEF CallRight, Owning
  <2>2. ~astray' => jar' \in {jar, 0} BY <1>2, <2>1 DEF CookieAfter
  <2>3. ~astray' => ~astray /\ UNCHANGED strays BY <1>5 DEF StaysCalm
  <2>4. (~astray' /\ OwnRefused) => OwnRefused' BY <1>2, <2>2 DEF OwnRefused, Dead
  <2>5. ~astray' => SharedCalm'
    BY <1>2, <1>4, <2>2, <2>3 DEF SharedRight, SharedCalm, Unspent, Dead
  <2>6. SharedRight' BY <1>2, <1>4, <1>8, <2>5 DEF SharedRight
  <2> QED BY <1>2, <1>3, <1>5, <1>9, <1>10, <2>4, <2>6, DoneInv
<1> QED BY <1>11, <1>12

LEMMA ReloadInv == ASSUME SessInv, Reload PROVE SessInv'
<1>1. /\ Mishap /\ UNCHANGED <<auth, store>> /\ shared' = NoRefresh
      /\ calls' = [i \in Calls |-> Idle]
      /\ tab' = [boot |-> Nobody, token |-> store.token, seen |-> 0, loading |-> FALSE,
                 initialized |-> FALSE, failed |-> FALSE]
      /\ jar' \in {jar} \union (IF shared.got # 0 THEN {shared.got} ELSE {})
                        \union UNION {CookieAfter(calls[i]) : i \in Calls \ Free}
      /\ strays' = strays \union (IF shared.step = "sent" THEN {shared.cookie} ELSE {})
                     \union {calls[i].cookie : i \in {j \in Calls \ Free : calls[j].step = "own"}}
      /\ astray' = (astray \/ shared.step # "none" \/ \E i \in Calls \ Free : Owning(calls[i]))
  BY DEF Reload
<1>2. \A i \in Calls \ Free : calls[i] # Idle /\ CallRight(calls[i])
  BY Places DEF Free
<1>3. /\ astray \in BOOLEAN /\ strays \subseteq Tokens /\ 0 \in Tokens /\ Tokens' = Tokens
      /\ jar \in Tokens /\ store \in [club : Clubs \union {Nobody}, token : Tokens]
      /\ shared.cookie \in Tokens /\ shared.got \in Tokens /\ SharedRight /\ AuthRight
      /\ \A i \in Calls \ Free : calls[i].cookie \in Tokens /\ calls[i].got \in Tokens
  BY <1>1, <1>2 DEF SessInv, TroublesRight, CallRight, Tokens, AuthRight, TabRight, SharedRight
<1>4. TroublesRight'
  <2>1. strays' \subseteq Tokens BY <1>1, <1>3
  <2>2. astray' \in BOOLEAN BY <1>1
  <2> QED BY <1>1, <2>1, <2>2, MishapCounts
<1>5. /\ jar' \in Tokens
      /\ \/ jar' \in {jar, 0, shared.got}
         \/ \E i \in Calls \ Free : jar' = calls[i].got /\ calls[i].got # 0
  BY <1>1, <1>3 DEF CookieAfter
<1>6. /\ tab' \in TabRec /\ tab'.token = store.token /\ tab'.seen = 0 /\ ~tab'.initialized
  BY <1>1, <1>3 DEF TabRec
<1>7. TabRight' BY <1>1, <1>3, <1>5, <1>6 DEF TabRight, TabRec
<1>8. WaitingIsAsking' BY <1>6 DEF WaitingIsAsking, Waiting
<1>9. Idle.kind = "none" BY DEF Idle
<1>10. CallsRight' /\ LoginAlone' BY <1>1, <1>9 DEF CallsRight, LoginAlone
<1>11. ASSUME ~astray' PROVE Unspent(jar)'
  <2>1. ~astray /\ shared.step = "none" /\ \A i \in Calls \ Free : ~Owning(calls[i])
    BY <1>1, <1>11
  <2>2. Unspent(jar) /\ shared.got = 0 BY <1>3, <2>1 DEF SharedRight, SharedCalm
  <2>3. strays' = strays BY <1>1, <2>1 DEF Owning
  <2>4. \A i \in Calls \ Free : calls[i].got # 0 => Unspent(calls[i].got)
    BY <1>2, <2>1 DEF CallRight, Owning
  <2> QED BY <1>1, <1>5, <2>2, <2>3, <2>4 DEF Unspent
<1>12. NoRefresh \in [step : {"none", "sent", "answered"}, cookie : Tokens', got : Tokens']
       /\ NoRefresh.step = "none" /\ NoRefresh.got = 0
  BY <1>3 DEF NoRefresh
<1>13. SharedRight' BY <1>1, <1>11, <1>12 DEF SharedRight, SharedCalm
<1>14. AuthRight' /\ Len(auth') <= Signings BY <1>1 DEF SessInv, AuthRight, Tokens
<1> QED BY <1>4, <1>7, <1>8, <1>10, <1>13, <1>14 DEF SessInv
-----------------------------------------------------------------------------
LEMMA SessionInitInv == ASSUME SessionInit PROVE SessInv
<1>1. Len(auth) = 0 /\ Signings \in Nat /\ Mishaps \in Nat /\ auth \in Seq(AuthRec)
  BY SessionAssumption DEF SessionInit
<1>2. Tokens = {0} BY <1>1 DEF Tokens
<1>3. AuthRight BY <1>1 DEF AuthRight
<1>4. TabRight BY <1>2 DEF SessionInit, TabRight, TabRec
<1>5. Idle.kind = "none" BY DEF Idle
<1>6. CallsRight /\ LoginAlone BY <1>5 DEF SessionInit, CallsRight, LoginAlone
<1>7. SharedRight BY <1>2 DEF SessionInit, SharedRight, SharedCalm, NoRefresh, Unspent
<1>8. WaitingIsAsking BY DEF SessionInit, WaitingIsAsking, Waiting
<1>9. TroublesRight
  <2>1. strays = {} /\ astray = FALSE /\ mishaps = 0 BY DEF SessionInit
  <2>2. mishaps \in 0..Mishaps BY <1>1, <2>1
  <2>3. strays \subseteq Tokens BY <2>1, Zenon
  <2> QED BY <2>1, <2>2, <2>3, Zenon DEF TroublesRight
<1> QED BY <1>1, <1>3, <1>4, <1>6, <1>7, <1>8, <1>9 DEF SessInv

LEMMA SessionStepInv == ASSUME Settled PROVE SessInv /\ [SessionNext]_sessionVars => SessInv'
<1> SUFFICES ASSUME SessInv, [SessionNext]_sessionVars PROVE SessInv' OBVIOUS
<1>1. CASE UNCHANGED sessionVars
  <2>1. UNCHANGED <<auth, jar, store, tab, shared, calls, strays, astray, mishaps>>
    BY <1>1 DEF sessionVars
  <2>2. /\ AuthRight' = AuthRight /\ TabRight' = TabRight /\ LoginAlone' = LoginAlone
        /\ SharedRight' = SharedRight /\ WaitingIsAsking' = WaitingIsAsking
        /\ TroublesRight' = TroublesRight
    BY <2>1 DEF AuthRight, TabRight, TabRec, LoginAlone, SharedRight, SharedCalm, Dead, Unspent,
       WaitingIsAsking, Waiting, TroublesRight, Tokens
  <2>3. ASSUME NEW i \in Calls, CallRight(calls[i]) PROVE CallRight(calls[i])'
    <3>1. CallRight(calls[i])' = CallRight(calls[i])
      BY <2>1 DEF CallRight, Calm, OwnRefused, Dead, Unspent, Tokens
    <3> QED BY <2>3, <3>1
  <2>4. CallsRight' BY <2>1, <2>3 DEF SessInv, CallsRight
  <2> QED BY <2>1, <2>2, <2>4 DEF SessInv
<1>2. CASE Acts BY <1>2, SignInInv, LogOutInv, AskForPageInv, SelectClubInv DEF Acts
<1>3. CASE Wears BY <1>3, WearsInv DEF Wears
<1>4. CASE Answers
  BY <1>4, ServeInv, ServeOwnInv, ServeSharedInv, ServeStrayInv, DeliverLoginInv,
     DeliverLogoutInv, DeliverPageInv, DeliverBootInv, DeliverOwnInv, DeliverSharedInv
     DEF Answers
<1>5. CASE Effects BY <1>5, TokenEffectInv DEF Effects
<1>6. CASE Breaks BY <1>6, ErrsInv, LostInv, SharedErrsInv, SharedLostInv, ReloadInv DEF Breaks
<1> QED BY <1>1, <1>2, <1>3, <1>4, <1>5, <1>6 DEF SessionNext

LEMMA SessionInvariance == ASSUME Settled PROVE SessionSpec => []SessInv
BY SessionInitInv, SessionStepInv, PTL DEF SessionSpec

\* As long as every refresh was answered with a token or a refusal, none is on its way with a
\* cookie that another refresh of the tab has used up.
THEOREM CookiesSpentOnce == ASSUME Settled PROVE SessionSpec => []CookieSpentOnce
<1>1. SessInv => CookieSpentOnce
  <2> SUFFICES ASSUME SessInv, ~astray PROVE CookieSpentOnce BY DEF CookieSpentOnce
  <2>1. shared.step = "sent" => Unspent(shared.cookie) BY DEF SessInv, SharedRight, SharedCalm
  <2>2. ASSUME NEW i \in Calls, calls[i].kind = "boot", calls[i].step = "own"
        PROVE  Unspent(calls[i].cookie)
    BY <2>2, Places DEF CallRight, Calm, Idle
  <2> QED BY <2>1, <2>2 DEF CookieSpentOnce, Unspent
<1> QED BY <1>1, SessionInvariance, PTL

\* A tab that shows that it loads has asked, or is about to, unless its last bootstrap failed.
THEOREM WaitingAlwaysAsks == ASSUME Settled PROVE SessionSpec => []WaitingIsAsking
<1>1. SessInv => WaitingIsAsking BY DEF SessInv
<1> QED BY <1>1, SessionInvariance, PTL

\* The session's variables have their types.
THEOREM SessionTypeCorrect == ASSUME Settled PROVE SessionSpec => []SessionTypeOK
<1>1. SessInv => SessionTypeOK
  <2> SUFFICES ASSUME SessInv PROVE SessionTypeOK OBVIOUS
  <2>1. auth \in Seq([user : Users, fresh : BOOLEAN, live : BOOLEAN, next : Tokens])
    <3> DEFINE R == [user : Users, fresh : BOOLEAN, live : BOOLEAN, next : Tokens]
    <3>1. auth \in Seq(AuthRec) /\ \A n \in 1..Len(auth) : auth[n].next \in Tokens
      BY DEF SessInv, AuthRight
    <3>2. ASSUME NEW n \in 1..Len(auth) PROVE auth[n] \in R
      <4>1. PICK r : r = auth[n] OBVIOUS
      <4>2. r \in AuthRec /\ r.next \in Tokens BY <3>1, <4>1
      <4>3. r \in R BY <4>2 DEF AuthRec
      <4> QED BY <4>1, <4>3
    <3> HIDE DEF R
    <3>3. auth \in Seq(R) BY <3>1, <3>2
    <3> QED BY <3>3 DEF R
  <2>2. ASSUME NEW i \in Calls PROVE calls[i] \in Request \union {Idle}
    <3>1. CASE calls[i] # Idle
      <4>1. /\ calls[i] \in CallRec /\ calls[i].cookie \in Tokens /\ calls[i].got \in Tokens
            /\ calls[i].token \in Tokens
        BY <3>1, Places DEF CallRight
      <4>2. calls[i] \in Request
        BY <4>1 DEF CallRec, Request, CallStatuses, CallSteps, CallKinds, SomeUser, SomeClub
      <4> QED BY <4>2
    <3> QED BY <3>1
  <2>3. calls = [i \in Calls |-> calls[i]] BY DEF SessInv, CallsRight
  <2>4. /\ jar \in Tokens /\ store \in [club : Clubs \union {Nobody}, token : Tokens]
        /\ tab \in TabRec /\ Len(auth) <= Signings
        /\ shared \in [step : {"none", "sent", "answered"}, cookie : Tokens, got : Tokens]
        /\ strays \subseteq Tokens /\ astray \in BOOLEAN /\ mishaps \in 0..Mishaps
    BY DEF SessInv, TabRight, SharedRight, TroublesRight
  <2> QED BY <2>1, <2>2, <2>3, <2>4 DEF SessionTypeOK, TabRec
<1> QED BY <1>1, SessionInvariance, PTL

\* As long as every refresh was answered with a token or a refusal, the tab forgets its user only
\* after a logout or with a cookie the server refuses.
THEOREM SignedOutOnlyForAReason == ASSUME Settled PROVE SessionSpec => SignedOutForAReason
<1> DEFINE Reason == (tab.token # 0 /\ tab'.token = 0)
                       => \/ \E i \in Calls : calls[i].kind = "logout"
                          \/ ~Renewable(jar) \/ astray
<1>1. SessInv /\ [SessionNext]_sessionVars => [Reason]_sessionVars
  <2> SUFFICES ASSUME SessInv, SessionNext, tab.token # 0, tab'.token = 0, ~astray,
                      \A i \in Calls : calls[i].kind # "logout"
               PROVE  ~Renewable(jar)
    OBVIOUS
  <2>1. tab' # tab OBVIOUS
  <2>2. tab \in TabRec /\ store.token = tab.token BY DEF SessInv, TabRight
  <2>3. CASE Acts \/ Effects
    BY <2>1, <2>2, <2>3
       DEF Acts, Effects, SignIn, LogOut, AskForPage, SelectClub, TokenEffect, TabRec, Loading
  <2>4. CASE Wears BY <2>1, <2>4 DEF Wears, AccessLapses, SessionEnds
  <2>5. CASE ServeShared \/ \E n \in 1..Signings : ServeStray(n)
    BY <2>1, <2>5 DEF ServeShared, ServeStray
  <2>6. ASSUME NEW i \in Calls, Serve(i) \/ ServeOwn(i) PROVE FALSE
    BY <2>1, <2>6 DEF Serve, ServeOwn
  <2>7. ASSUME NEW i \in Calls, DeliverLogin(i) PROVE FALSE
    BY <2>7 DEF SessInv, LoginAlone, DeliverLogin
  <2>8. ASSUME NEW i \in Calls, DeliverLogout(i) \/ DeliverPage(i) PROVE FALSE
    BY <2>1, <2>8 DEF DeliverLogout, DeliverPage
  <2>9. ASSUME NEW i \in Calls, DeliverBoot(i) PROVE FALSE
    <3>1. CallRight(calls[i]) BY <2>9, Places DEF DeliverBoot, Idle
    <3>2. ~(calls[i].status = 401 /\ ~calls[i].retry)
      BY <2>9, <3>1 DEF DeliverBoot, CallRight, Calm
    <3>3. /\ tab' = [tab EXCEPT !.boot = calls[i].boot, !.initialized = TRUE, !.loading = FALSE]
             \/ tab' = Unloaded(tab)
      BY <2>1, <2>9, <3>2 DEF DeliverBoot
    <3> QED BY <2>2, <3>3 DEF TabRec, Unloaded
  <2>10. ASSUME NEW i \in Calls, DeliverOwn(i) PROVE ~Renewable(jar)
    <3>1. calls[i] # Idle /\ calls[i].step = "ownAnswered" BY <2>10 DEF DeliverOwn, Idle
    <3> QED BY <3>1, JoinedAndOwn DEF OwnRefused, Dead, Renewable
  <2>11. CASE DeliverShared
    <3>1. shared.got = 0
      <4>1. shared.got # 0 => tab' = [tab EXCEPT !.token = shared.got] BY <2>11 DEF DeliverShared
      <4> QED BY <2>2, <4>1 DEF TabRec
    <3> QED BY <2>11, <3>1
        DEF DeliverShared, SessInv, SharedRight, SharedCalm, Dead, Renewable
  <2>12. CASE Breaks
    <3>1. ASSUME NEW i \in Calls, Errs(i) \/ Lost(i) PROVE FALSE
      <4>1. tab' \in {tab, Unloaded(tab)} BY <2>1, <3>1 DEF Errs, Lost
      <4> QED BY <2>1, <2>2, <4>1 DEF Unloaded, TabRec
    <3>2. CASE SharedErrs \/ SharedLost
      <4>1. tab' \in {tab, Unloaded(tab)} BY <3>2 DEF SharedErrs, SharedLost
      <4> QED BY <2>1, <2>2, <4>1 DEF Unloaded, TabRec
    <3>3. CASE Reload BY <2>2, <3>3 DEF Reload
    <3> QED BY <2>12, <3>1, <3>2, <3>3 DEF Breaks
  <2> QED BY <2>3, <2>4, <2>5, <2>6, <2>7, <2>8, <2>9, <2>10, <2>11, <2>12
      DEF SessionNext, Answers
<1> QED BY <1>1, SessionInvariance, PTL DEF SessionSpec, SignedOutForAReason, Reason

-----------------------------------------------------------------------------
(***************************************************************************)
(* Router: the guard settles, and shows no page of a module that is off.   *)
(***************************************************************************)

\* Facts about short paths and about prefixes.
LEMMA OneWord ==
  ASSUME NEW S, NEW a \in S
  PROVE  <<a>> \in Seq(S) /\ Len(<<a>>) = 1 /\ <<a>>[1] = a
OBVIOUS

LEMMA TwoWords ==
  ASSUME NEW S, NEW a \in S, NEW b \in S
  PROVE  <<a, b>> \in Seq(S) /\ Len(<<a, b>>) = 2 /\ <<a, b>>[1] = a /\ <<a, b>>[2] = b
OBVIOUS

LEMMA ThreeWords ==
  ASSUME NEW S, NEW a \in S, NEW b \in S, NEW c \in S
  PROVE  /\ <<a, b, c>> \in Seq(S) /\ Len(<<a, b, c>>) = 3
         /\ <<a, b, c>>[1] = a /\ <<a, b, c>>[2] = b /\ <<a, b, c>>[3] = c
OBVIOUS

LEMMA HeadIsFirst ==
  ASSUME NEW S, NEW s \in Seq(S), Len(s) # 0
  PROVE  Head(s) = s[1] /\ s # <<>>
OBVIOUS

\* The words the addresses are made of.
Words == {"admin", "superadmin", "player", "dashboard", "golf", "tee-sheet", "settings", "orders",
          "people", "members", "targets", "finance", "communications", "halfway", "pro-shop",
          "reports", "pos-terminal", "modules", "overview", "clubs", "accounting-profiles", "home",
          "book", "order", "profile", "login", "accept-invitation", "select-club", "onboarding",
          "welcome", "popia", "complete", "club", "token", "*"}
\* The module a page of the menu needs, as its address tells it.
NeedsAt(word) ==
  CASE word = "finance" -> "finance"
    [] word \in {"halfway", "pro-shop", "orders", "pos-terminal", "order"} -> "pos"
    [] word = "communications" -> "communications"
    [] word = "book" -> "golf"
    [] OTHER -> ""
ModuleAt(path) == IF path[2] = "golf" THEN IF path[3] = "settings" THEN "" ELSE "golf"
                  ELSE NeedsAt(path[2])
\* Long enough for its address to tell.
Telling(path) == path \in Seq(Words) /\ Len(path) >= 2 /\ (path[2] = "golf" => Len(path) >= 3)

LEMMA AdminOne ==
  ASSUME NEW S, "admin" \in S, NEW a \in S
  PROVE  Admin(<<a>>) = <<"admin", a>>
<1>1. PICK h : h = <<"admin">> OBVIOUS
<1>2. PICK p : p = <<a>> OBVIOUS
<1>3. h \in Seq(S) /\ Len(h) = 1 /\ h[1] = "admin" BY <1>1, OneWord
<1>4. p \in Seq(S) /\ Len(p) = 1 /\ p[1] = a BY <1>2, OneWord
<1>5. Len(h \o p) = 2 /\ h \o p \in Seq(S) BY <1>3, <1>4, ConcatProperties
<1>6. (h \o p)[1] = "admin" /\ (h \o p)[2] = a BY <1>3, <1>4, ConcatProperties
<1>7. PICK q : q = <<"admin", a>> OBVIOUS
<1>8. q \in Seq(S) /\ Len(q) = 2 /\ q[1] = "admin" /\ q[2] = a BY <1>7, TwoWords
<1>9. h \o p = q BY <1>5, <1>6, <1>8, SeqEqual
<1> QED BY <1>1, <1>2, <1>9, <1>7 DEF Admin

LEMMA AdminTwo ==
  ASSUME NEW S, "admin" \in S, NEW a \in S, NEW b \in S
  PROVE  Admin(<<a, b>>) = <<"admin", a, b>>
<1>1. PICK h : h = <<"admin">> OBVIOUS
<1>2. PICK p : p = <<a, b>> OBVIOUS
<1>3. h \in Seq(S) /\ Len(h) = 1 /\ h[1] = "admin" BY <1>1, OneWord
<1>4. p \in Seq(S) /\ Len(p) = 2 /\ p[1] = a /\ p[2] = b BY <1>2, TwoWords
<1>5. Len(h \o p) = 3 /\ h \o p \in Seq(S) BY <1>3, <1>4, ConcatProperties
<1>6. (h \o p)[1] = "admin" /\ (h \o p)[2] = a /\ (h \o p)[3] = b
  BY <1>3, <1>4, ConcatProperties, SMTT(30)
<1>7. PICK q : q = <<"admin", a, b>> OBVIOUS
<1>8. q \in Seq(S) /\ Len(q) = 3 /\ q[1] = "admin" /\ q[2] = a /\ q[3] = b
  BY <1>7, ThreeWords
<1>9. \A i \in 1..3 : i = 1 \/ i = 2 \/ i = 3 OBVIOUS
<1>10. \A i \in 1..3 : (h \o p)[i] = q[i] BY <1>6, <1>8, <1>9
<1>11. h \o p = q BY <1>5, <1>8, <1>10, SeqEqual
<1> QED BY <1>1, <1>2, <1>11, <1>7 DEF Admin

\* What a path of two words, and one of three, tells.
LEMMA TwoTell ==
  ASSUME NEW x \in {"admin", "superadmin", "player"}, NEW a \in Words, a # "golf"
  PROVE  /\ Telling(<<x, a>>) /\ ModuleAt(<<x, a>>) = NeedsAt(a) /\ ShellOf(<<x, a>>) = x
         /\ Len(<<x, a>>) = 2
<1>1. PICK q : q = <<x, a>> OBVIOUS
<1>2. x \in Words BY DEF Words
<1>3. q \in Seq(Words) /\ Len(q) = 2 /\ q[1] = x /\ q[2] = a BY <1>1, <1>2, TwoWords
<1>4. Head(q) = x /\ q # <<>> BY <1>3, HeadIsFirst
<1>5. Telling(q) BY <1>3 DEF Telling
<1>6. ModuleAt(q) = NeedsAt(a) BY <1>3 DEF ModuleAt
<1>7. ShellOf(q) = x BY <1>4 DEF ShellOf, Root
<1> QED BY <1>1, <1>3, <1>5, <1>6, <1>7

LEMMA ThreeTell ==
  ASSUME NEW a \in Words, NEW b \in Words
  PROVE  /\ Telling(<<"admin", a, b>>) /\ ShellOf(<<"admin", a, b>>) = "admin"
         /\ a # "golf" => ModuleAt(<<"admin", a, b>>) = NeedsAt(a)
         /\ a = "golf" /\ b = "settings" => ModuleAt(<<"admin", a, b>>) = ""
         /\ a = "golf" /\ b # "settings" => ModuleAt(<<"admin", a, b>>) = "golf"
         /\ Len(<<"admin", a, b>>) = 3
<1>1. PICK q : q = <<"admin", a, b>> OBVIOUS
<1>2. "admin" \in Words BY DEF Words
<1>3. q \in Seq(Words) /\ Len(q) = 3 /\ q[1] = "admin" /\ q[2] = a /\ q[3] = b
  BY <1>1, <1>2, ThreeWords
<1>4. Head(q) = "admin" /\ q # <<>> BY <1>3, HeadIsFirst
<1>5. Telling(q) BY <1>3 DEF Telling
<1>6. /\ a # "golf" => ModuleAt(q) = NeedsAt(a)
      /\ a = "golf" /\ b = "settings" => ModuleAt(q) = ""
      /\ a = "golf" /\ b # "settings" => ModuleAt(q) = "golf"
  BY <1>3 DEF ModuleAt
<1>7. ShellOf(q) = "admin" BY <1>4 DEF ShellOf, Root
<1> QED BY <1>1, <1>3, <1>5, <1>6, <1>7

LEMMA CoversSame ==
  ASSUME NEW item, Telling(item), NEW path \in Seq(Words), Covers(item, path)
  PROVE  ModuleAt(item) = ModuleAt(path)
<1>1. SubSeq(path, 1, Len(item)) = item /\ Len(item) <= Len(path) BY DEF Covers
<1>2. Len(item) \in Nat /\ Len(item) >= 2 /\ Len(path) \in Nat BY DEF Telling
<1>3. \A k \in 1..Len(item) : path[k] \in Words
  <2> SUFFICES ASSUME NEW k \in 1..Len(item) PROVE path[k] \in Words OBVIOUS
  <2>1. k \in 1..Len(path) BY <1>1, <1>2
  <2> QED BY <2>1
<1>4. \A k \in 1..Len(item) : SubSeq(path, 1, Len(item))[k] = path[k]
  <2>1. 1 \in Int /\ Len(item) \in Int BY <1>2
  <2>2. \A k \in 1..(Len(item) - 1 + 1) : SubSeq(path, 1, Len(item))[k] = path[1 + k - 1]
    BY <1>3, <2>1, SubSeqProperties
  <2> QED BY <1>2, <2>2
<1>5. path[2] = item[2] /\ (item[2] = "golf" => path[3] = item[3])
  BY <1>1, <1>2, <1>4 DEF Telling
<1> QED BY <1>5 DEF ModuleAt

LEMMA CoversItself ==
  ASSUME NEW path \in Seq(Words)
  PROVE  Covers(path, path)
<1>1. Len(path) \in Nat OBVIOUS
<1>2. \A k \in 1..Len(path) : path[k] \in Words OBVIOUS
<1>3. PICK s : s = SubSeq(path, 1, Len(path)) OBVIOUS
<1>4. s \in Seq(Words) /\ Len(s) = Len(path) /\ \A k \in 1..Len(path) : s[k] = path[k]
  <2>1. /\ s \in Seq(Words) /\ Len(s) = IF 1 <= Len(path) THEN Len(path) - 1 + 1 ELSE 0
        /\ \A k \in 1..(Len(path) - 1 + 1) : s[k] = path[1 + k - 1]
    BY <1>1, <1>2, <1>3, SubSeqProperties
  <2> QED BY <1>1, <2>1
<1>5. s = path BY <1>4, SeqEqual
<1> QED BY <1>1, <1>3, <1>5 DEF Covers

LEMMA AdminOneTells ==
  ASSUME NEW a \in Words, a # "golf"
  PROVE  /\ Telling(Admin(<<a>>)) /\ ModuleAt(Admin(<<a>>)) = NeedsAt(a)
         /\ ShellOf(Admin(<<a>>)) = "admin" /\ Len(Admin(<<a>>)) = 2
<1>1. "admin" \in Words /\ "admin" \in {"admin", "superadmin", "player"} BY DEF Words
<1>2. Admin(<<a>>) = <<"admin", a>> BY <1>1, AdminOne
<1> QED BY <1>1, <1>2, TwoTell

LEMMA AdminTwoTells ==
  ASSUME NEW a \in Words, NEW b \in Words
  PROVE  /\ Telling(Admin(<<a, b>>)) /\ ShellOf(Admin(<<a, b>>)) = "admin"
         /\ a # "golf" => ModuleAt(Admin(<<a, b>>)) = NeedsAt(a)
         /\ a = "golf" /\ b = "settings" => ModuleAt(Admin(<<a, b>>)) = ""
         /\ a = "golf" /\ b # "settings" => ModuleAt(Admin(<<a, b>>)) = "golf"
         /\ Len(Admin(<<a, b>>)) = 3
<1>1. "admin" \in Words BY DEF Words
<1>2. PICK q : q = <<"admin", a, b>> OBVIOUS
<1>3. Admin(<<a, b>>) = q BY <1>1, <1>2, AdminTwo
<1>4. /\ Telling(q) /\ ShellOf(q) = "admin" /\ Len(q) = 3
      /\ a # "golf" => ModuleAt(q) = NeedsAt(a)
      /\ a = "golf" /\ b = "settings" => ModuleAt(q) = ""
      /\ a = "golf" /\ b # "settings" => ModuleAt(q) = "golf"
  BY <1>2, ThreeTell
<1> QED BY <1>3, <1>4

\* A path that tells, of a shell.
Of(path, shell) == Telling(path) /\ ShellOf(path) = shell

LEMMA AdminPagesTell ==
  ASSUME NEW p \in AdminPages
  PROVE  Of(Admin(p), "admin") /\ Len(Admin(p)) \in {2, 3}
<1>1. ASSUME NEW a \in {"dashboard", "tee-sheet", "orders", "members", "targets", "finance",
                        "communications", "halfway", "pro-shop", "reports", "pos-terminal",
                        "settings"}, p = <<a>>
      PROVE  Of(Admin(p), "admin") /\ Len(Admin(p)) \in {2, 3}
  <2>1. a \in Words /\ a # "golf" BY <1>1 DEF Words
  <2> QED BY <1>1, <2>1, AdminOneTells DEF Of
<1>2. ASSUME NEW a \in {"golf", "people", "finance", "settings"},
             NEW b \in {"dashboard", "tee-sheet", "settings", "modules"}, p = <<a, b>>
      PROVE  Of(Admin(p), "admin") /\ Len(Admin(p)) \in {2, 3}
  <2>1. a \in Words /\ b \in Words BY DEF Words
  <2> QED BY <1>2, <2>1, AdminTwoTells DEF Of
<1> QED BY <1>1, <1>2 DEF AdminPages

LEMMA OthersTell ==
  /\ \A p \in SuperadminPages : Of(Superadmin(p), "superadmin") /\ Len(Superadmin(p)) = 2
  /\ \A p \in PlayerPages : Of(Player(p), "player") /\ Len(Player(p)) = 2
<1>1. SuperadminPages \subseteq Words \ {"golf"} BY DEF SuperadminPages, Words
<1>2. PlayerPages \subseteq Words \ {"golf"} BY DEF PlayerPages, Words
<1> QED BY <1>1, <1>2, TwoTell DEF Superadmin, Player, Of

\* An item of the menu, and the module its address tells.
ItemTells(item) ==
  /\ Telling(item[1]) /\ item[2] = ModuleAt(item[1])
  /\ ShellOf(item[1]) \in {"admin", "superadmin", "player"}

LEMMA ItemsTell ==
  ASSUME NEW item \in MenuItems
  PROVE  ItemTells(item)
<1>0. \A p, m : <<p, m>>[1] = p /\ <<p, m>>[2] = m OBVIOUS
<1>1. ASSUME NEW p \in SuperadminPages, item = <<Superadmin(p), "">> PROVE ItemTells(item)
  <2>1. p \in Words /\ p # "golf" /\ NeedsAt(p) = ""
    BY DEF SuperadminPages, Words, NeedsAt
  <2>2. /\ Telling(Superadmin(p)) /\ ModuleAt(Superadmin(p)) = ""
        /\ ShellOf(Superadmin(p)) = "superadmin"
    BY <2>1, TwoTell DEF Superadmin
  <2> QED BY <1>0, <1>1, <2>2 DEF ItemTells
<1>2. ASSUME NEW a \in {"dashboard", "members", "reports", "targets", "settings"},
             item = <<Admin(<<a>>), "">> PROVE ItemTells(item)
  <2>1. a \in Words /\ a # "golf" /\ NeedsAt(a) = "" BY DEF Words, NeedsAt
  <2>2. /\ Telling(Admin(<<a>>)) /\ ModuleAt(Admin(<<a>>)) = ""
        /\ ShellOf(Admin(<<a>>)) = "admin"
    BY <2>1, AdminOneTells
  <2> QED BY <1>0, <1>2, <2>2 DEF ItemTells
<1>3. ASSUME NEW a \in Words, NEW b \in Words, a # "golf", NeedsAt(a) = "",
             item = <<Admin(<<a, b>>), "">>
      PROVE ItemTells(item)
  <2>1. PICK q : q = Admin(<<a, b>>) OBVIOUS
  <2>2. Telling(q) BY <2>1, AdminTwoTells
  <2>3. ShellOf(q) = "admin" BY <2>1, AdminTwoTells
  <2>4. ModuleAt(q) = NeedsAt(a) BY <1>3, <2>1, AdminTwoTells
  <2> QED BY <1>0, <1>3, <2>1, <2>2, <2>3, <2>4 DEF ItemTells
<1>4. ASSUME NEW b \in {"tee-sheet", "dashboard"}, item = <<Admin(<<"golf", b>>), "golf">>
      PROVE ItemTells(item)
  <2>1. "golf" \in Words /\ b \in Words /\ b # "settings" BY DEF Words
  <2>2. /\ Telling(Admin(<<"golf", b>>)) /\ ModuleAt(Admin(<<"golf", b>>)) = "golf"
        /\ ShellOf(Admin(<<"golf", b>>)) = "admin"
    BY <2>1, AdminTwoTells
  <2> QED BY <1>0, <1>4, <2>2 DEF ItemTells
<1>5. ASSUME item = <<Admin(<<"finance", "dashboard">>), "finance">> PROVE ItemTells(item)
  <2>1. "finance" \in Words /\ "dashboard" \in Words /\ NeedsAt("finance") = "finance"
    BY DEF Words, NeedsAt
  <2>2. /\ Telling(Admin(<<"finance", "dashboard">>))
        /\ ModuleAt(Admin(<<"finance", "dashboard">>)) = "finance"
        /\ ShellOf(Admin(<<"finance", "dashboard">>)) = "admin"
    BY <2>1, AdminTwoTells, ZenonT(60)
  <2> QED BY <1>0, <1>5, <2>2 DEF ItemTells
<1>6. ASSUME NEW a \in Words, a # "golf", item = <<Admin(<<a>>), NeedsAt(a)>>
      PROVE ItemTells(item)
  <2>1. /\ Telling(Admin(<<a>>)) /\ ModuleAt(Admin(<<a>>)) = NeedsAt(a)
        /\ ShellOf(Admin(<<a>>)) = "admin"
    BY <1>6, AdminOneTells
  <2> QED BY <1>0, <1>6, <2>1 DEF ItemTells
<1>7. ASSUME NEW a \in Words, a # "golf", item = <<Player(a), NeedsAt(a)>>
      PROVE ItemTells(item)
  <2>1. /\ Telling(Player(a)) /\ ModuleAt(Player(a)) = NeedsAt(a)
        /\ ShellOf(Player(a)) = "player"
    BY <1>7, TwoTell DEF Player
  <2> QED BY <1>0, <1>7, <2>1 DEF ItemTells
<1>8. CASE item \in {<<Superadmin(p), "">> : p \in SuperadminPages} BY <1>1, <1>8
<1>9. CASE item \in {<<Admin(p), "">> : p \in {<<"dashboard">>, <<"members">>, <<"reports">>,
                        <<"targets">>, <<"people", "dashboard">>, <<"settings">>,
                        <<"golf", "settings">>, <<"settings", "modules">>}}
  <2>1. PICK p \in {<<"dashboard">>, <<"members">>, <<"reports">>, <<"targets">>,
                    <<"people", "dashboard">>, <<"settings">>, <<"golf", "settings">>,
                    <<"settings", "modules">>} : item = <<Admin(p), "">>
    BY <1>9
  <2>2. CASE \E a \in {"dashboard", "members", "reports", "targets", "settings"} : p = <<a>>
    BY <1>2, <2>1, <2>2
  <2>3. CASE p = <<"people", "dashboard">>
    <3>1. "people" \in Words /\ "dashboard" \in Words /\ "people" # "golf" /\ NeedsAt("people") = ""
      BY DEF Words, NeedsAt
    <3> QED BY <1>3, <2>1, <2>3, <3>1
  <2>4. CASE p = <<"golf", "settings">>
    <3>1. "golf" \in Words /\ "settings" \in Words BY DEF Words
    <3>2. /\ Telling(Admin(<<"golf", "settings">>)) /\ ModuleAt(Admin(<<"golf", "settings">>)) = ""
          /\ ShellOf(Admin(<<"golf", "settings">>)) = "admin"
      BY <3>1, AdminTwoTells
    <3> QED BY <1>0, <2>1, <2>4, <3>2 DEF ItemTells
  <2>5. CASE p = <<"settings", "modules">>
    <3>1. "settings" \in Words /\ "modules" \in Words /\ "settings" # "golf"
                               /\ NeedsAt("settings") = ""
      BY DEF Words, NeedsAt
    <3> QED BY <1>3, <2>1, <2>5, <3>1
  <2>6. \/ \E a \in {"dashboard", "members", "reports", "targets", "settings"} : p = <<a>>
        \/ p = <<"people", "dashboard">> \/ p = <<"golf", "settings">>
        \/ p = <<"settings", "modules">>
    BY <2>1
  <2> QED BY <2>2, <2>3, <2>4, <2>5, <2>6
<1>10. CASE item \in {<<Admin(p), "golf">> : p \in {<<"golf", "tee-sheet">>,
                                                     <<"golf", "dashboard">>}}
  BY <1>4, <1>10
<1>11. CASE item \in {<<Admin(p), "finance">> : p \in {<<"finance", "dashboard">>, <<"finance">>}}
  <2>1. CASE item = <<Admin(<<"finance", "dashboard">>), "finance">> BY <1>5, <2>1
  <2>2. CASE item = <<Admin(<<"finance">>), "finance">>
    <3>1. "finance" \in Words /\ "finance" # "golf" /\ NeedsAt("finance") = "finance"
      BY DEF Words, NeedsAt
    <3> QED BY <1>6, <2>2, <3>1
  <2> QED BY <1>11, <2>1, <2>2
<1>12. CASE item \in {<<Admin(p), "pos">> : p \in {<<"halfway">>, <<"pro-shop">>, <<"orders">>,
                                                    <<"pos-terminal">>}}
  <2>1. PICK a \in {"halfway", "pro-shop", "orders", "pos-terminal"} :
          item = <<Admin(<<a>>), "pos">>
    BY <1>12
  <2>2. a \in Words /\ a # "golf" /\ NeedsAt(a) = "pos" BY DEF Words, NeedsAt
  <2> QED BY <1>6, <2>1, <2>2
<1>13. CASE item = <<Admin(<<"communications">>), "communications">>
  <2>1. /\ "communications" \in Words /\ "communications" # "golf"
        /\ NeedsAt("communications") = "communications"
    BY DEF Words, NeedsAt
  <2> QED BY <1>6, <1>13, <2>1
<1>14. CASE item \in {<<Player("home"), "">>, <<Player("profile"), "">>,
                      <<Player("book"), "golf">>, <<Player("order"), "pos">>}
  <2>1. CASE item = <<Player("home"), "">>
    <3>1. "home" \in Words /\ "home" # "golf" /\ NeedsAt("home") = "" BY DEF Words, NeedsAt
    <3> QED BY <1>7, <2>1, <3>1
  <2>2. CASE item = <<Player("profile"), "">>
    <3>1. "profile" \in Words /\ "profile" # "golf" /\ NeedsAt("profile") = "" BY DEF Words, NeedsAt
    <3> QED BY <1>7, <2>2, <3>1
  <2>3. CASE item = <<Player("book"), "golf">>
    <3>1. "book" \in Words /\ "book" # "golf" /\ NeedsAt("book") = "golf" BY DEF Words, NeedsAt
    <3> QED BY <1>7, <2>3, <3>1
  <2>4. CASE item = <<Player("order"), "pos">>
    <3>1. "order" \in Words /\ "order" # "golf" /\ NeedsAt("order") = "pos" BY DEF Words, NeedsAt
    <3> QED BY <1>7, <2>4, <3>1
  <2> QED BY <1>14, <2>1, <2>2, <2>3, <2>4
<1> QED BY <1>8, <1>9, <1>10, <1>11, <1>12, <1>13, <1>14 DEF MenuItems

-----------------------------------------------------------------------------
Shells == {"superadmin", "admin", "player"}
Plain == {Root, Login, Invitation, InvitationLink, SelectClubPath}
         \union {Onboarding(step) : step \in {"welcome", "popia", "complete"}}

LEMMA PlainHasNoShell ==
  ASSUME NEW path \in Plain
  PROVE  ShellOf(path) = NoOne
<1>1. CASE path = Root BY <1>1 DEF ShellOf
<1>2. ASSUME NEW w \in {"login", "accept-invitation", "select-club"}, path = <<w>>
      PROVE  ShellOf(path) = NoOne
  <2>1. w \in Words BY DEF Words
  <2>2. path \in Seq(Words) /\ Len(path) # 0 /\ path[1] = w BY <1>2, <2>1, OneWord
  <2>3. Head(path) = w BY <2>2, HeadIsFirst
  <2> QED BY <2>3 DEF ShellOf
<1>3. ASSUME NEW w \in {"welcome", "popia", "complete"}, path = <<"onboarding", w>>
      PROVE  ShellOf(path) = NoOne
  <2>1. w \in Words /\ "onboarding" \in Words BY DEF Words
  <2>2. path \in Seq(Words) /\ Len(path) # 0 /\ path[1] = "onboarding" BY <1>3, <2>1, TwoWords
  <2>3. Head(path) = "onboarding" BY <2>2, HeadIsFirst
  <2> QED BY <2>3 DEF ShellOf
<1>4. CASE path = <<"accept-invitation", "token">>
  <2>1. "accept-invitation" \in Words /\ "token" \in Words BY DEF Words
  <2>2. path \in Seq(Words) /\ Len(path) # 0 /\ path[1] = "accept-invitation"
    BY <1>4, <2>1, TwoWords
  <2>3. Head(path) = "accept-invitation" BY <2>2, HeadIsFirst
  <2> QED BY <2>3 DEF ShellOf
<1> QED
  BY <1>1, <1>2, <1>3, <1>4
     DEF Plain, Login, Invitation, InvitationLink, SelectClubPath, Onboarding

LEMMA RoutesTell ==
  ASSUME NEW path \in Pages, ShellOf(path) # NoOne
  PROVE  Telling(path)
<1>1. path \notin Plain BY PlainHasNoShell
<1>2. CASE \E p \in AdminPages : path = Admin(p) BY <1>2, AdminPagesTell DEF Of
<1>3. CASE \E p \in SuperadminPages : path = Superadmin(p) BY <1>3, OthersTell DEF Of
<1>4. CASE \E p \in PlayerPages : path = Player(p) BY <1>4, OthersTell DEF Of
<1> QED BY <1>1, <1>2, <1>3, <1>4 DEF Pages, Plain

\* The page of the menu a shell starts with.
LandingOf(shell) == IF shell = "superadmin" THEN Superadmin("clubs")
                    ELSE IF shell = "admin" THEN Admin(<<"dashboard">>) ELSE Player("home")
EnabledFor(boot) == IF boot.club = NoOne THEN {} ELSE ModulesOf[boot.club]
BootRight(boot) ==
  /\ boot.shell \in Shells \union {NoOne}
  /\ boot.shell # NoOne => /\ ~boot.choose /\ boot.menu = Menu(boot.shell, EnabledFor(boot))
                          /\ boot.landing = LandingOf(boot.shell)
  /\ boot.shell = NoOne => boot.landing = IF boot.choose THEN SelectClubPath ELSE Login
  /\ boot.shell \in {"admin", "player"} => boot.club # NoOne

LEMMA BootstrapRight ==
  ASSUME NEW p, NEW wanted
  PROVE  BootRight(Bootstrap(p, wanted))
<1> DEFINE club == ClubFor(p, wanted)
           choose == ~IsSuperadmin[p] /\ DOMAIN RoleIn[p] # {} /\ club = NoOne
           shell == IF IsSuperadmin[p] THEN "superadmin"
                    ELSE IF club = NoOne THEN NoOne
                    ELSE IF RoleIn[p][club] = "member" THEN "player" ELSE "admin"
           modules == IF club = NoOne THEN {} ELSE ModulesOf[club]
           landing == CASE shell = "superadmin" -> Superadmin("clubs")
                        [] shell = "admin" -> Admin(<<"dashboard">>)
                        [] shell = "player" -> Player("home")
                        [] OTHER -> IF choose THEN SelectClubPath ELSE Login
<1>1. PICK b : b = Bootstrap(p, wanted) OBVIOUS
<1>2. /\ b.club = club /\ b.shell = shell /\ b.choose = choose /\ b.menu = Menu(shell, modules)
      /\ b.landing = landing
  BY <1>1 DEF Bootstrap
<1>3. NoOne \notin {"admin", "superadmin", "player"} BY RouterAssumption
<1>4. shell \in Shells \union {NoOne} BY DEF Shells
<1>5. shell # NoOne => ~choose BY <1>3
<1>6. shell \in {"admin", "player"} => club # NoOne BY <1>3
<1>7. shell # NoOne => landing = LandingOf(shell) BY <1>3, <1>4 DEF LandingOf, Shells
<1>8. shell = NoOne => landing = IF choose THEN SelectClubPath ELSE Login BY <1>3
<1>9. EnabledFor(b) = modules BY <1>2 DEF EnabledFor
<1> HIDE DEF club, choose, shell, modules, landing
<1> QED BY <1>1, <1>2, <1>4, <1>5, <1>6, <1>7, <1>8, <1>9 DEF BootRight

LEMMA NoBootRight == BootRight(NoBoot)
BY RouterAssumption DEF BootRight, NoBoot

LEMMA LandingListed ==
  ASSUME NEW boot, BootRight(boot), boot.shell # NoOne
  PROVE  /\ boot.landing \in Pages /\ ShellOf(boot.landing) = boot.shell
         /\ boot.landing \in boot.menu /\ Listed(boot, boot.landing)
<1>1. boot.shell \in Shells /\ boot.landing = LandingOf(boot.shell)
      /\ boot.menu = Menu(boot.shell, EnabledFor(boot))
  BY DEF BootRight
<1>2. /\ boot.landing \in Pages /\ ShellOf(boot.landing) = boot.shell
      /\ <<boot.landing, "">> \in MenuItems
  <2>1. CASE boot.shell = "superadmin"
    <3>1. boot.landing = Superadmin("clubs") BY <1>1, <2>1 DEF LandingOf
    <3>2. "clubs" \in SuperadminPages BY DEF SuperadminPages
    <3> QED BY <2>1, <3>1, <3>2, OthersTell DEF Of, Pages, MenuItems
  <2>2. CASE boot.shell = "admin"
    <3>1. boot.landing = Admin(<<"dashboard">>) BY <1>1, <2>2 DEF LandingOf
    <3>2. <<"dashboard">> \in AdminPages BY DEF AdminPages
    <3> QED BY <2>2, <3>1, <3>2, AdminPagesTell DEF Of, Pages, MenuItems
  <2>3. CASE boot.shell = "player"
    <3>1. boot.landing = Player("home") BY <1>1, <2>3 DEF LandingOf
    <3>2. "home" \in PlayerPages BY DEF PlayerPages
    <3> QED BY <2>3, <3>1, <3>2, OthersTell DEF Of, Pages, MenuItems
  <2> QED BY <1>1, <2>1, <2>2, <2>3 DEF Shells
<1>3. boot.landing \in boot.menu
  <2>1. PICK item : item = <<boot.landing, "">> OBVIOUS
  <2>2. item \in MenuItems /\ item[1] = boot.landing /\ item[2] = "" BY <1>2, <2>1
  <2> QED BY <1>1, <1>2, <2>2 DEF Menu
<1>4. boot.landing \in Seq(Words) BY <1>2, RoutesTell DEF Telling
<1>5. Covers(boot.landing, boot.landing) BY <1>4, CoversItself
<1>6. Listed(boot, boot.landing) BY <1>3, <1>5 DEF Listed
<1> QED BY <1>2, <1>3, <1>6

-----------------------------------------------------------------------------
\* The addresses that are sent on: what tells them from the pages.
LEMMA ForwardedTell ==
  ASSUME NEW path \in Forwarded
  PROVE  /\ path \in Seq(Words) /\ Len(path) \in {1, 2, 3} /\ path[1] \in Sections
         /\ Head(path) = path[1] /\ path # <<>>
         /\ Len(path) = 2 => path[2] = "*"
         /\ path \in ToSettings => Len(path) = 3 /\ path[1] = "admin"
<1>1. Sections \subseteq Words /\ {"admin", "superadmin", "player"} \subseteq Sections
      /\ {"settings", "club", "profile", "finance", "clubs", "book", "*"} \subseteq Words
  BY DEF Sections, Words
<1> DEFINE Tells == /\ path \in Seq(Words) /\ Len(path) \in {1, 2, 3} /\ path[1] \in Sections
                    /\ Len(path) = 2 => path[2] = "*"
                    /\ path \in ToSettings => Len(path) = 3 /\ path[1] = "admin"
<1>2. ASSUME NEW a \in {"admin", "superadmin", "player"},
             NEW b \in {"settings", "finance", "clubs", "book"},
             NEW c \in {"club", "profile", "*"}, path = <<a, b, c>>, b = "settings" => a = "admin"
      PROVE  path \in Seq(Words) /\ Len(path) = 3 /\ path[1] = a /\ path[2] = b
  <2>1. a \in Words /\ b \in Words /\ c \in Words BY <1>1
  <2> QED BY <1>2, <2>1, ThreeWords
<1>3. CASE path \in ToSettings
  <2>1. PICK c \in {"club", "profile"} : path = <<"admin", "settings", c>>
    BY <1>3 DEF ToSettings
  <2>2. path \in Seq(Words) /\ Len(path) = 3 /\ path[1] = "admin" BY <1>2, <2>1
  <2> QED BY <1>1, <2>2
<1>4. ASSUME NEW a \in Sections, path = <<a>> PROVE Tells
  <2>1. path \in Seq(Words) /\ Len(path) = 1 /\ path[1] = a BY <1>1, <1>4, OneWord
  <2> QED BY <1>3, <2>1
<1>5. ASSUME NEW a \in Sections, path = <<a, "*">> PROVE Tells
  <2>1. path \in Seq(Words) /\ Len(path) = 2 /\ path[1] = a /\ path[2] = "*"
    BY <1>1, <1>5, TwoWords
  <2> QED BY <1>3, <2>1
<1>6. CASE path \in {<<"admin", "finance", "*">>, <<"superadmin", "clubs", "*">>,
                     <<"player", "book", "*">>}
  <2>1. /\ path \in Seq(Words) /\ Len(path) = 3
        /\ path[1] \in {"admin", "superadmin", "player"}
    BY <1>2, <1>6
  <2>2. Len(path) \in {1, 2, 3} /\ path[1] \in Sections /\ Len(path) # 2 BY <1>1, <2>1
  <2> QED BY <1>3, <2>1, <2>2
<1>7. Tells BY <1>1, <1>3, <1>4, <1>5, <1>6 DEF Forwarded
<1>8. Head(path) = path[1] /\ path # <<>> BY <1>7, HeadIsFirst
<1> QED BY <1>7, <1>8

LEMMA TwoStay ==
  ASSUME NEW a \in Words, NEW b \in Words, b # "*"
  PROVE  <<a, b>> \notin Forwarded
<1>1. PICK q : q = <<a, b>> OBVIOUS
<1>2. Len(q) = 2 /\ q[2] = b BY <1>1, TwoWords
<1> QED BY <1>1, <1>2, ForwardedTell

\* The pages that others are sent to show themselves.
Targets == {SelectClubPath, Onboarding("welcome"), Admin(<<"settings">>), Admin(<<"dashboard">>),
            Superadmin("overview"), Superadmin("clubs"), Player("home")}
Starts == {"welcome", "settings", "dashboard", "overview", "clubs", "home"}
LEMMA TargetsStay ==
  ASSUME NEW path \in Targets
  PROVE  /\ path \notin Forwarded /\ Forward(path) = path /\ path \in Pages
         /\ path = SelectClubPath \/ (path \in Seq(Words) /\ Len(path) = 2 /\ path[2] \in Starts)
<1>1. CASE path = SelectClubPath
  <2>1. "select-club" \in Words /\ "select-club" \notin Sections BY DEF Words, Sections
  <2>2. path[1] = "select-club" BY <1>1, <2>1, OneWord DEF SelectClubPath
  <2>3. path \notin Forwarded BY <2>1, <2>2, ForwardedTell
  <2> QED BY <1>1, <2>3 DEF Forward, Pages
<1>2. ASSUME NEW a \in Sections, NEW b \in Starts, path = <<a, b>>, path \in Pages
      PROVE  /\ path \notin Forwarded /\ Forward(path) = path
             /\ path \in Seq(Words) /\ Len(path) = 2 /\ path[2] \in Starts
  <2>1. a \in Words /\ b \in Words /\ b # "*" BY DEF Words, Sections, Starts
  <2> QED BY <1>2, <2>1, TwoStay, TwoWords DEF Forward
<1>3. CASE path = Onboarding("welcome")
  BY <1>2, <1>3 DEF Onboarding, Sections, Pages, Starts
<1>4. ASSUME NEW b \in {"settings", "dashboard"}, path = Admin(<<b>>)
      PROVE  path = <<"admin", b>> /\ path \in Pages
  <2>1. "admin" \in Words /\ b \in Words BY DEF Words
  <2>2. <<b>> \in AdminPages BY DEF AdminPages
  <2> QED BY <1>4, <2>1, <2>2, AdminOne DEF Pages
<1>5. CASE path \in {Admin(<<"settings">>), Admin(<<"dashboard">>)}
  <2>1. "admin" \in Sections /\ {"settings", "dashboard"} \subseteq Starts BY DEF Sections, Starts
  <2> QED BY <1>2, <1>4, <1>5, <2>1
<1>6. CASE path \in {Superadmin("overview"), Superadmin("clubs")}
  BY <1>2, <1>6 DEF Superadmin, SuperadminPages, Sections, Pages, Starts
<1>7. CASE path = Player("home")
  BY <1>2, <1>7 DEF Player, PlayerPages, Sections, Pages, Starts
<1> QED BY <1>1, <1>3, <1>5, <1>6, <1>7 DEF Targets

LEMMA SentToTargets ==
  ASSUME NEW path \in Forwarded
  PROVE  Forward(path) \in Targets \ {SelectClubPath} /\ Forward(path) # path
<1>1. Forward(path) \in {Onboarding("welcome"), Admin(<<"settings">>), Admin(<<"dashboard">>),
                         Superadmin("overview"), Player("home")}
  <2>1. Head(path) \in Sections BY ForwardedTell
  <2>2. CASE path \in ToSettings BY <2>2 DEF Forward
  <2>3. CASE path \notin ToSettings BY <2>1, <2>3 DEF Forward, Sections
  <2> QED BY <2>2, <2>3
<1>2. Forward(path) \in Targets BY <1>1 DEF Targets
<1>3. Forward(path) # path BY <1>2, TargetsStay
<1>4. SelectClubPath \in Seq(Words) /\ Len(SelectClubPath) = 1
  <2>1. "select-club" \in Words BY DEF Words
  <2> QED BY <2>1, OneWord DEF SelectClubPath
<1>5. \A t \in {Onboarding("welcome"), Admin(<<"settings">>), Admin(<<"dashboard">>),
                Superadmin("overview"), Player("home")} : Len(t) = 2
  <2>1. {"onboarding", "admin", "superadmin", "player", "welcome", "settings", "dashboard",
         "overview", "home"} \subseteq Words
    BY DEF Words
  <2>2. /\ Admin(<<"settings">>) = <<"admin", "settings">>
        /\ Admin(<<"dashboard">>) = <<"admin", "dashboard">>
    BY <2>1, AdminOne
  <2> QED BY <2>1, <2>2, TwoWords DEF Onboarding, Superadmin, Player
<1> QED BY <1>1, <1>2, <1>3, <1>4, <1>5

-----------------------------------------------------------------------------
\* The addresses that answer for themselves are six.
LEMMA PlacesApart ==
  /\ Root \notin {Login, Invitation, InvitationLink, SelectClubPath, SelectClubAlias}
  /\ Login \notin {Invitation, InvitationLink, SelectClubPath, SelectClubAlias}
  /\ Invitation \notin {InvitationLink, SelectClubPath, SelectClubAlias}
  /\ InvitationLink \notin {SelectClubPath, SelectClubAlias}
  /\ SelectClubPath # SelectClubAlias
<1>1. {"login", "accept-invitation", "select-club", "token", "admin"} \subseteq Words BY DEF Words
<1>2. Len(Login) = 1 /\ Login[1] = "login" BY <1>1, OneWord DEF Login
<1>3. Len(Invitation) = 1 /\ Invitation[1] = "accept-invitation"
  BY <1>1, OneWord DEF Invitation
<1>4. Len(SelectClubPath) = 1 /\ SelectClubPath[1] = "select-club"
  BY <1>1, OneWord DEF SelectClubPath
<1>5. Len(InvitationLink) = 2 /\ InvitationLink[1] = "accept-invitation"
  BY <1>1, TwoWords DEF InvitationLink
<1>6. Len(SelectClubAlias) = 2 /\ SelectClubAlias[1] = "admin"
  BY <1>1, TwoWords DEF SelectClubAlias
<1>7. Len(Root) = 0 BY DEF Root
<1> QED BY <1>2, <1>3, <1>4, <1>5, <1>6, <1>7

\* Where a tab with this sign-in and this bootstrap is sent from a path.
Leads(who, boot, path) ==
  IF path \in {Root, Login} THEN IF who = NoOne THEN Login ELSE boot.landing
  ELSE IF path = InvitationLink THEN InvitationLink
  ELSE IF path = Invitation THEN IF who = NoOne THEN Invitation ELSE boot.landing
  ELSE IF path = SelectClubAlias THEN SelectClubPath
  ELSE IF who = NoOne THEN Login ELSE Guarded(boot, path)

LEMMA GoesWhereItLeads ==
  ASSUME NEW n
  PROVE  GoesTo(n) = Leads(n.who, n.boot, n.at)
BY PlacesApart DEF GoesTo, Leads, RootRedirect, LoginPage, InvitationPage

\* A page the guard lets a signed-in person see shows itself.
LEMMA GuardedTarget ==
  ASSUME NEW who, who # NoOne, NEW boot, NEW to \in Targets \ {SelectClubPath},
         ProtectedRoute(boot, to) = to
  PROVE  to \in Routes /\ Leads(who, boot, to) = to
<1>1. /\ to \in Pages /\ Forward(to) = to /\ to \in Seq(Words) /\ Len(to) = 2
      /\ to[2] \in Starts
  BY TargetsStay
<1>2. {"login", "accept-invitation", "select-club", "token", "admin"} \subseteq Words BY DEF Words
<1>3. /\ Len(Root) = 0 /\ Len(Login) = 1 /\ Len(Invitation) = 1
      /\ InvitationLink[2] = "token" /\ SelectClubAlias[2] = "select-club"
  BY <1>2, OneWord, TwoWords DEF Root, Login, Invitation, InvitationLink, SelectClubAlias
<1>4. to \notin {Root, Login, Invitation, InvitationLink, SelectClubAlias}
  BY <1>1, <1>3 DEF Starts
<1>5. Guarded(boot, to) = to BY <1>1 DEF Guarded
<1> QED BY <1>1, <1>4, <1>5 DEF Leads, Routes

\* Where the guard sends people shows itself to them.
LEMMA LandingStays ==
  ASSUME NEW who, who # NoOne, NEW boot, BootRight(boot)
  PROVE  /\ boot.landing \in Routes /\ Leads(who, boot, boot.landing) = boot.landing
         /\ SelectClubPath \in Routes /\ Leads(who, boot, SelectClubPath) = SelectClubPath
<1>1. SelectClubPath \in Targets /\ SelectClubPath \in Plain BY DEF Targets, Plain
<1>2. SelectClubPath \in Routes /\ Forward(SelectClubPath) = SelectClubPath
  BY <1>1, TargetsStay DEF Routes
<1>3. ShellOf(SelectClubPath) = NoOne BY <1>1, PlainHasNoShell
<1>4. ProtectedRoute(boot, SelectClubPath) = SelectClubPath BY <1>3 DEF ProtectedRoute
<1>5. Guarded(boot, SelectClubPath) = SelectClubPath BY <1>2, <1>4 DEF Guarded
<1>6. Leads(who, boot, SelectClubPath) = SelectClubPath BY <1>5, PlacesApart DEF Leads
<1>7. CASE boot.shell = NoOne /\ boot.choose
  <2>1. boot.landing = SelectClubPath BY <1>7 DEF BootRight
  <2> QED BY <1>2, <1>6, <2>1
<1>8. CASE boot.shell = NoOne /\ ~boot.choose
  <2>1. boot.landing = Login BY <1>8 DEF BootRight
  <2>2. Login \in Routes BY DEF Routes, Pages
  <2>3. Leads(who, boot, Login) = boot.landing BY DEF Leads
  <2> QED BY <1>2, <1>6, <2>1, <2>2, <2>3
<1>9. CASE boot.shell # NoOne
  <2>1. /\ boot.landing \in Pages /\ ShellOf(boot.landing) = boot.shell
        /\ Listed(boot, boot.landing) /\ ~boot.choose
    BY <1>9, LandingListed DEF BootRight
  <2>2. boot.landing \in Targets BY <1>9 DEF BootRight, LandingOf, Targets
  <2>3. SelectClubPath # boot.landing BY <1>3, <1>9, <2>1
  <2>4. ProtectedRoute(boot, boot.landing) = boot.landing
    BY <1>9, <2>1 DEF ProtectedRoute
  <2> QED BY <1>2, <1>6, <2>2, <2>3, <2>4, GuardedTarget
<1> QED BY <1>7, <1>8, <1>9

\* The guard lets through where it sends an address that it lets through.
LEMMA SentOnStays ==
  ASSUME NEW who, who # NoOne, NEW boot, BootRight(boot), NEW path \in Forwarded,
         ~NoAccess(boot), ProtectedRoute(boot, path) = path
  PROVE  /\ Forward(path) \in Routes /\ Leads(who, boot, Forward(path)) = Forward(path)
<1>1. PICK to : to = Forward(path) OBVIOUS
<1>2. to \in Targets \ {SelectClubPath} BY <1>1, SentToTargets
<1>3. to \in Pages /\ Forward(to) = to BY <1>2, TargetsStay
<1>4. path # SelectClubPath
  <2>1. "select-club" \in Words /\ "select-club" \notin Sections BY DEF Words, Sections
  <2>2. SelectClubPath[1] = "select-club" BY <2>1, OneWord DEF SelectClubPath
  <2> QED BY <2>1, <2>2, ForwardedTell
<1>5. ~boot.choose /\ boot.shell # NoOne
  BY <1>4 DEF NoAccess, ProtectedRoute, BootRight
<1>6. Head(path) \in Sections /\ path # Root BY ForwardedTell DEF Root
<1>7. path \in ToSettings => Head(path) = "admin" BY ForwardedTell
<1>8. {"onboarding", "admin", "superadmin", "player", "welcome", "settings", "dashboard",
       "overview", "home"} \subseteq Words
  BY DEF Words
<1>9. CASE Head(path) = "onboarding"
  <2>1. to = Onboarding("welcome") BY <1>1, <1>7, <1>9 DEF Forward
  <2>2. to \in Plain BY <2>1 DEF Plain
  <2>3. ShellOf(to) = NoOne BY <2>2, PlainHasNoShell
  <2>4. ProtectedRoute(boot, to) = to BY <1>5, <2>3 DEF ProtectedRoute
  <2> QED BY <1>1, <1>2, <2>4, GuardedTarget
<1>10. CASE Head(path) # "onboarding"
  <2>1. ShellOf(path) = Head(path) /\ Head(path) \in Shells
    BY <1>6, <1>10 DEF ShellOf, Sections, Shells
  <2>2. ShellOf(to) = Head(path) /\ <<to, "">> \in MenuItems
    <3>1. CASE to = Admin(<<"settings">>) /\ Head(path) = "admin"
      <4>1. ShellOf(to) = "admin" BY <1>8, <3>1, AdminOneTells
      <4> QED BY <3>1, <4>1 DEF MenuItems
    <3>2. CASE to = Admin(<<"dashboard">>) /\ Head(path) = "admin"
      <4>1. ShellOf(to) = "admin" BY <1>8, <3>2, AdminOneTells
      <4> QED BY <3>2, <4>1 DEF MenuItems
    <3>3. CASE to = Superadmin("overview") /\ Head(path) = "superadmin"
      <4>1. "overview" \in SuperadminPages BY DEF SuperadminPages
      <4> QED BY <3>3, <4>1, OthersTell DEF MenuItems, Of
    <3>4. CASE to = Player("home") /\ Head(path) = "player"
      <4>1. "home" \in PlayerPages BY DEF PlayerPages
      <4> QED BY <3>4, <4>1, OthersTell DEF MenuItems, Of
    <3>5. \/ to = Admin(<<"settings">>) /\ Head(path) = "admin"
          \/ to = Admin(<<"dashboard">>) /\ Head(path) = "admin"
          \/ to = Superadmin("overview") /\ Head(path) = "superadmin"
          \/ to = Player("home") /\ Head(path) = "player"
      BY <1>1, <1>6, <1>7, <1>10 DEF Forward, Sections
    <3> QED BY <3>1, <3>2, <3>3, <3>4, <3>5
  <2>3. CASE Head(path) = boot.shell
    <3>1. to \in boot.menu
      <4>1. PICK item : item = <<to, "">> OBVIOUS
      <4>2. item \in MenuItems /\ item[1] = to /\ item[2] = "" BY <2>2, <4>1
      <4>3. boot.menu = Menu(boot.shell, EnabledFor(boot)) BY <1>5 DEF BootRight
      <4> QED BY <2>2, <2>3, <4>2, <4>3 DEF Menu
    <3>2. to \in Seq(Words) BY <1>2, TargetsStay
    <3>3. Listed(boot, to) BY <3>1, <3>2, CoversItself DEF Listed
    <3>4. ProtectedRoute(boot, to) = to BY <1>5, <2>2, <2>3, <3>3 DEF ProtectedRoute
    <3> QED BY <1>1, <1>2, <1>3, <3>4, GuardedTarget
  <2>4. CASE Head(path) # boot.shell
    <3>1. Bridge(boot, path) \/ boot.landing = path
      BY <1>5, <2>1, <2>4, RouterAssumption DEF ProtectedRoute, NoAccess, Shells
    <3>2. boot.landing # path
      <4>1. ShellOf(boot.landing) = boot.shell BY <1>5, LandingListed
      <4> QED BY <2>1, <2>4, <4>1
    <3>3. Bridge(boot, to) BY <2>1, <2>2, <3>1, <3>2 DEF Bridge
    <3>4. ProtectedRoute(boot, to) = to
      BY <1>5, <2>1, <2>2, <2>4, <3>3 DEF ProtectedRoute
    <3> QED BY <1>1, <1>2, <1>3, <3>4, GuardedTarget
  <2> QED BY <2>3, <2>4
<1> QED BY <1>9, <1>10

\* One redirect, two for who is not signed in and comes by the old address.
Twice(who, path) == who = NoOne /\ path = SelectClubAlias
LEMMA LeadsSettles ==
  ASSUME NEW who, NEW boot, BootRight(boot), NEW path \in Routes
  PROVE  /\ Leads(who, boot, path) \in Routes
         /\ ~Twice(who, path)
              => Leads(who, boot, Leads(who, boot, path)) = Leads(who, boot, path)
         /\ Twice(who, path) => Leads(who, boot, path) = SelectClubPath
         /\ who = NoOne => Leads(who, boot, SelectClubPath) = Login
<1> DEFINE to == Leads(who, boot, path)
<1>0. {Login, Invitation, InvitationLink, SelectClubPath} \subseteq Routes BY DEF Routes, Pages
<1>1. CASE who = NoOne
  <2>1. Leads(who, boot, SelectClubPath) = Login BY <1>1, PlacesApart DEF Leads
  <2>2. CASE path = SelectClubAlias
    <3>1. Leads(who, boot, path) = SelectClubPath BY <2>2, PlacesApart DEF Leads
    <3> QED BY <1>0, <1>1, <2>1, <2>2, <3>1 DEF Twice
  <2>3. CASE path # SelectClubAlias
    <3>1. to \in {Login, Invitation, InvitationLink} BY <1>1, <2>3 DEF Leads
    <3>2. \A p \in {Login, Invitation, InvitationLink} : Leads(who, boot, p) = p
      BY <1>1, PlacesApart DEF Leads
    <3> HIDE DEF to
    <3>3. to \in Routes /\ Leads(who, boot, to) = to BY <1>0, <3>1, <3>2
    <3> QED BY <2>1, <2>3, <3>3 DEF Twice, to
  <2> QED BY <2>2, <2>3
<1>2. CASE who # NoOne
  <2>1. ASSUME to \in Routes, Leads(who, boot, to) = to
        PROVE  /\ Leads(who, boot, path) \in Routes
               /\ ~Twice(who, path)
                    => Leads(who, boot, Leads(who, boot, path)) = Leads(who, boot, path)
               /\ Twice(who, path) => Leads(who, boot, path) = SelectClubPath
               /\ who = NoOne => Leads(who, boot, SelectClubPath) = Login
    BY <1>2, <2>1 DEF Twice
  <2>2. ASSUME NEW p \in {boot.landing, SelectClubPath}, to = p
        PROVE  to \in Routes /\ Leads(who, boot, to) = to
    <3> HIDE DEF to
    <3> QED BY <1>2, <2>2, LandingStays
  <2>3. ASSUME to = path PROVE to \in Routes /\ Leads(who, boot, to) = to
    <3>1. Leads(who, boot, path) = path BY <2>3
    <3> HIDE DEF to
    <3> QED BY <2>3, <3>1
  <2>4. CASE path \in {Root, Login} BY <1>2, <2>2, <2>4, <2>1 DEF Leads
  <2>5. CASE path \in {InvitationLink, Invitation}
    <3>1. to = path \/ to = boot.landing BY <1>2, <2>5, PlacesApart DEF Leads
    <3> HIDE DEF to
    <3> QED BY <2>1, <2>2, <2>3, <3>1
  <2>6. CASE path = SelectClubAlias
    <3>1. to = SelectClubPath BY <2>6, PlacesApart DEF Leads
    <3> HIDE DEF to
    <3> QED BY <2>1, <2>2, <3>1
  <2>7. CASE path \notin {Root, Login, InvitationLink, Invitation, SelectClubAlias}
    <3>1. to = Guarded(boot, path) BY <1>2, <2>7 DEF Leads
    <3>2. \/ ProtectedRoute(boot, path) \in {boot.landing, SelectClubPath}
          \/ ProtectedRoute(boot, path) = path
      BY DEF ProtectedRoute
    <3>3. CASE NoAccess(boot) \/ ProtectedRoute(boot, path) # path
      <4>1. to = ProtectedRoute(boot, path) BY <3>1, <3>3 DEF Guarded
      <4> HIDE DEF to
      <4> QED BY <2>1, <2>2, <2>3, <3>2, <4>1
    <3>4. CASE ~NoAccess(boot) /\ ProtectedRoute(boot, path) = path
      <4>1. to = Forward(path) BY <3>1, <3>4 DEF Guarded
      <4>2. CASE path \in Forwarded
        <5>1. Forward(path) \in Routes /\ Leads(who, boot, Forward(path)) = Forward(path)
          BY <1>2, <3>4, <4>2, SentOnStays
        <5> HIDE DEF to
        <5> QED BY <2>1, <4>1, <5>1
      <4>3. CASE path \notin Forwarded
        <5>1. Forward(path) = path BY <4>3 DEF Forward
        <5> HIDE DEF to
        <5> QED BY <2>1, <2>3, <4>1, <5>1
      <4> QED BY <4>2, <4>3
    <3> QED BY <3>3, <3>4
  <2> QED BY <2>4, <2>5, <2>6, <2>7
<1> QED BY <1>1, <1>2

-----------------------------------------------------------------------------
\* The inductive invariant of the routes.
RouterInv ==
  /\ nav = [club |-> nav.club, at |-> nav.at, who |-> nav.who, boot |-> nav.boot,
            hops |-> nav.hops, consent |-> nav.consent]
  /\ nav.at \in Routes
  /\ BootRight(nav.boot)
  /\ \/ nav.hops = 0 \/ (nav.hops = 1 /\ AtRest)
     \/ nav.hops = 1 /\ nav.who = NoOne /\ nav.at = SelectClubPath
     \/ nav.hops = 2 /\ nav.who = NoOne /\ nav.at = Login

LEMMA VisitKeepsInv ==
  ASSUME RouterInv, NEW path \in Routes, nav' = Visit(path)
  PROVE  RouterInv'
<1>1. nav' = [club |-> nav.club, at |-> path, who |-> nav.who, boot |-> nav.boot,
              hops |-> 0, consent |-> TRUE]
  BY DEF RouterInv, Visit
<1>2. nav' = [club |-> nav'.club, at |-> nav'.at, who |-> nav'.who, boot |-> nav'.boot,
              hops |-> nav'.hops, consent |-> nav'.consent]
  BY <1>1
<1>3. nav'.at \in Routes /\ BootRight(nav'.boot) /\ nav'.hops = 0 BY <1>1 DEF RouterInv
<1> QED BY <1>2, <1>3 DEF RouterInv

LEMMA RouterStepInv ==
  ASSUME RouterInv, [RouterNext]_nav
  PROVE  RouterInv'
<1>1. CASE Redirect
  <2>1. nav' = [club |-> nav.club, at |-> GoesTo(nav), who |-> nav.who, boot |-> nav.boot,
                hops |-> nav.hops + 1, consent |-> nav.consent]
    BY <1>1 DEF Redirect, RouterInv
  <2>2. GoesTo(nav) = Leads(nav.who, nav.boot, nav.at)
        /\ GoesTo(nav') = Leads(nav'.who, nav'.boot, nav'.at)
    BY GoesWhereItLeads
  <2>3. nav'.who = nav.who /\ nav'.boot = nav.boot /\ nav'.at = GoesTo(nav)
        /\ nav'.hops = nav.hops + 1
    BY <2>1
  <2>4. nav' = [club |-> nav'.club, at |-> nav'.at, who |-> nav'.who, boot |-> nav'.boot,
                hops |-> nav'.hops, consent |-> nav'.consent]
    BY <2>1
  <2>5. nav'.at \in Routes /\ BootRight(nav'.boot)
    BY <2>2, <2>3, LeadsSettles DEF RouterInv
  <2>6. ~(nav.hops = 1 /\ AtRest) BY <1>1 DEF Redirect
  <2>7. ~(nav.hops = 2 /\ nav.who = NoOne /\ nav.at = Login)
    <3>1. Leads(NoOne, nav.boot, Login) = Login BY DEF Leads
    <3> QED BY <1>1, <2>2, <3>1 DEF Redirect, AtRest
  <2>8. CASE nav.hops = 0 /\ ~Twice(nav.who, nav.at)
    <3>1. GoesTo(nav') = nav'.at BY <2>2, <2>3, <2>8, LeadsSettles DEF RouterInv
    <3>2. nav'.hops = 1 BY <2>3, <2>8
    <3> QED BY <2>4, <2>5, <3>1, <3>2 DEF RouterInv, AtRest
  <2>9. CASE nav.hops = 0 /\ Twice(nav.who, nav.at)
    <3>1. nav'.at = SelectClubPath BY <2>2, <2>3, <2>9, LeadsSettles DEF RouterInv
    <3>2. nav'.hops = 1 /\ nav'.who = NoOne BY <2>3, <2>9 DEF Twice
    <3> QED BY <2>4, <2>5, <3>1, <3>2 DEF RouterInv
  <2>10. CASE nav.hops = 1 /\ nav.who = NoOne /\ nav.at = SelectClubPath
    <3>1. nav'.at = Login BY <2>2, <2>3, <2>10, LeadsSettles DEF RouterInv
    <3>2. nav'.hops = 2 /\ nav'.who = NoOne BY <2>3, <2>10
    <3> QED BY <2>4, <2>5, <3>1, <3>2 DEF RouterInv
  <2> QED BY <2>6, <2>7, <2>8, <2>9, <2>10 DEF RouterInv
<1>2. CASE SignOut
  <2>1. nav' = [club |-> NoOne, at |-> nav.at, who |-> NoOne, boot |-> NoBoot, hops |-> 0,
                consent |-> TRUE]
    BY <1>2 DEF SignOut, Visit, RouterInv
  <2>2. nav' = [club |-> nav'.club, at |-> nav'.at, who |-> nav'.who, boot |-> nav'.boot,
              hops |-> nav'.hops, consent |-> nav'.consent]
    BY <2>1
  <2>3. nav'.at \in Routes /\ BootRight(nav'.boot) /\ nav'.hops = 0
    BY <2>1, NoBootRight DEF RouterInv
  <2> QED BY <2>2, <2>3 DEF RouterInv
<1>3. Root \in Routes BY DEF Routes, Pages
<1>4. ASSUME NEW p \in People, SubmitLogin(p) PROVE RouterInv'
  <2>1. nav' = [club |-> nav.club, at |-> Root, who |-> p, boot |-> Bootstrap(p, nav.club),
                hops |-> 0, consent |-> TRUE]
    BY <1>4 DEF SubmitLogin, Visit, RouterInv
  <2>2. nav' = [club |-> nav'.club, at |-> nav'.at, who |-> nav'.who, boot |-> nav'.boot,
              hops |-> nav'.hops, consent |-> nav'.consent]
    BY <2>1
  <2>3. nav'.at \in Routes /\ BootRight(nav'.boot) /\ nav'.hops = 0 BY <1>3, <2>1, BootstrapRight
  <2> QED BY <2>2, <2>3 DEF RouterInv
<1>5. ASSUME NEW c \in DOMAIN ModulesOf, SelectClubPage(c) PROVE RouterInv'
  <2>1. nav' = [club |-> c, at |-> Root, who |-> nav.who, boot |-> Bootstrap(nav.who, c),
                hops |-> 0, consent |-> TRUE]
    BY <1>5 DEF SelectClubPage, Visit, RouterInv
  <2>2. nav' = [club |-> nav'.club, at |-> nav'.at, who |-> nav'.who, boot |-> nav'.boot,
              hops |-> nav'.hops, consent |-> nav'.consent]
    BY <2>1
  <2>3. nav'.at \in Routes /\ BootRight(nav'.boot) /\ nav'.hops = 0 BY <1>3, <2>1, BootstrapRight
  <2> QED BY <2>2, <2>3 DEF RouterInv
<1>6. ASSUME NEW path \in Routes, Address(path) \/ Follow(path) PROVE RouterInv'
  BY <1>6, VisitKeepsInv DEF Address, Follow
<1>7. {Onboarding("welcome"), Onboarding("popia"), Onboarding("complete"),
       Admin(<<"dashboard">>)} \subseteq Routes
  <2>1. <<"dashboard">> \in AdminPages BY DEF AdminPages
  <2> QED BY <2>1 DEF Routes, Pages
<1>8. CASE BeginSetup BY <1>7, <1>8, VisitKeepsInv DEF BeginSetup
<1>9. CASE Consent
  <2>1. nav' = [club |-> nav.club, at |-> nav.at, who |-> nav.who, boot |-> nav.boot,
                hops |-> nav.hops, consent |-> ~nav.consent]
    BY <1>9 DEF Consent, RouterInv
  <2>2. GoesTo(nav) = Leads(nav.who, nav.boot, nav.at)
        /\ GoesTo(nav') = Leads(nav'.who, nav'.boot, nav'.at)
    BY GoesWhereItLeads
  <2>3. GoesTo(nav') = nav'.at BY <1>9, <2>1, <2>2 DEF Consent, AtRest
  <2>4. nav' = [club |-> nav'.club, at |-> nav'.at, who |-> nav'.who, boot |-> nav'.boot,
                hops |-> nav'.hops, consent |-> nav'.consent]
    BY <2>1
  <2>5. /\ nav'.at = nav.at /\ nav'.who = nav.who /\ nav'.boot = nav.boot
        /\ nav'.hops = nav.hops
    BY <2>1
  <2> QED BY <2>3, <2>4, <2>5 DEF RouterInv, AtRest
<1>10. CASE LeaveConsent BY <1>7, <1>10, VisitKeepsInv DEF LeaveConsent
<1>11. CASE FinishSetup BY <1>7, <1>11, VisitKeepsInv DEF FinishSetup
<1>12. CASE UNCHANGED nav BY <1>12 DEF RouterInv, AtRest
<1>13. CASE ActivateInvitation
  <2>1. nav' = [club |-> nav.club, at |-> Root, who |-> nav.who,
                boot |-> Bootstrap(nav.who, nav.club), hops |-> 0, consent |-> TRUE]
    BY <1>13 DEF ActivateInvitation, Visit, RouterInv
  <2>2. nav' = [club |-> nav'.club, at |-> nav'.at, who |-> nav'.who, boot |-> nav'.boot,
              hops |-> nav'.hops, consent |-> nav'.consent]
    BY <2>1
  <2>3. nav'.at \in Routes /\ BootRight(nav'.boot) /\ nav'.hops = 0 BY <1>3, <2>1, BootstrapRight
  <2> QED BY <2>2, <2>3 DEF RouterInv
<1> QED
  BY <1>1, <1>2, <1>4, <1>5, <1>6, <1>8, <1>9, <1>10, <1>11, <1>12, <1>13 DEF RouterNext

LEMMA RouterInitInv == RouterInit => RouterInv
<1> SUFFICES ASSUME RouterInit PROVE RouterInv OBVIOUS
<1>1. PICK path \in Routes : nav = [club |-> NoOne, at |-> path, who |-> NoOne, boot |-> NoBoot,
                                    hops |-> 0, consent |-> TRUE]
  BY DEF RouterInit
<1>2. nav = [club |-> nav.club, at |-> nav.at, who |-> nav.who, boot |-> nav.boot,
             hops |-> nav.hops, consent |-> nav.consent]
  BY <1>1
<1>3. nav.at \in Routes /\ BootRight(nav.boot) /\ nav.hops = 0 BY <1>1, NoBootRight
<1> QED BY <1>2, <1>3 DEF RouterInv

\* What the shell shows is of a module its club has.
LEMMA ListedIsEnabled ==
  ASSUME NEW boot, BootRight(boot), boot.shell # NoOne, NEW path \in Pages,
         ShellOf(path) = boot.shell, Listed(boot, path)
  PROVE  ModuleAt(path) \in EnabledFor(boot) \union {""}
<1>1. path \in Seq(Words) /\ Len(path) >= 2 BY RoutesTell DEF Telling
<1>2. PICK items : items = {i \in boot.menu : ShellOf(i) = ShellOf(path)} OBVIOUS
<1>3. boot.landing \in items BY <1>2, LandingListed
<1>4. path # <<ShellOf(path)>>
  <2>1. ShellOf(path) \in Words BY DEF BootRight, Shells, Words
  <2>2. Len(<<ShellOf(path)>>) = 1 BY <2>1, OneWord
  <2>3. PICK q : q = <<ShellOf(path)>> OBVIOUS
  <2>4. Len(q) = 1 BY <2>2, <2>3
  <2>5. Len(path) # 1
    <3>1. Len(path) \in Nat BY <1>1
    <3>2. \A n \in Nat : n >= 2 => n # 1 OBVIOUS
    <3> QED BY <1>1, <3>1, <3>2
  <2>6. path # q BY <2>4, <2>5
  <2> QED BY <2>3, <2>6
<1>5. PICK i \in items : Covers(i, path) \/ \E a \in Aliases(i) : Covers(a, path)
  BY <1>2, <1>3, <1>4 DEF Listed
<1>6. CASE Covers(i, path)
  <2>1. i \in Menu(boot.shell, EnabledFor(boot)) BY <1>2, <1>5 DEF BootRight
  <2>2. PICK item \in MenuItems : item[1] = i /\ item[2] \in EnabledFor(boot) \union {""}
    BY <2>1 DEF Menu
  <2>3. Telling(i) /\ item[2] = ModuleAt(i) BY <2>2, ItemsTell DEF ItemTells
  <2>4. ModuleAt(i) = ModuleAt(path) BY <1>1, <1>6, <2>3, CoversSame
  <2> QED BY <2>2, <2>3, <2>4
<1>7. ASSUME NEW a \in Aliases(i), Covers(a, path) PROVE ModuleAt(path) = ""
  <2>1. a \in {Admin(<<"golf", "settings">>), Admin(<<"settings", "modules">>)}
    BY <1>7 DEF Aliases
  <2>2. {"golf", "settings", "modules"} \subseteq Words /\ NeedsAt("settings") = ""
    BY DEF Words, NeedsAt
  <2>3. /\ Telling(Admin(<<"golf", "settings">>))
        /\ ModuleAt(Admin(<<"golf", "settings">>)) = ""
    BY <2>2, AdminTwoTells
  <2>4. /\ Telling(Admin(<<"settings", "modules">>))
        /\ ModuleAt(Admin(<<"settings", "modules">>)) = NeedsAt("settings")
    BY <2>2, AdminTwoTells
  <2>5. Telling(a) /\ ModuleAt(a) = "" BY <2>1, <2>2, <2>3, <2>4
  <2> QED BY <1>1, <1>7, <2>5, CoversSame
<1> QED BY <1>5, <1>6, <1>7

LEMMA RouterInvIsRight == RouterInv => GuardIsRight
<1> SUFFICES ASSUME RouterInv PROVE RedirectsSettle /\ OnlyEnabledModules BY DEF GuardIsRight
<1>1. RedirectsSettle BY LandingListed DEF RouterInv, RedirectsSettle
<1>2. SUFFICES ASSUME AtRest, nav.boot.shell \in {"admin", "player"},
                      ShellOf(nav.at) = nav.boot.shell,
                      NEW item \in NeedsModule, Covers(item[1], nav.at)
               PROVE  item[2] \in ModulesOf[nav.boot.club]
  BY <1>1 DEF OnlyEnabledModules
<1>3. PICK boot : boot = nav.boot OBVIOUS
<1>4. PICK path : path = nav.at OBVIOUS
<1>5. /\ BootRight(boot) /\ path \in Routes /\ boot.shell # NoOne
      /\ ShellOf(path) = boot.shell
  BY <1>2, <1>3, <1>4, RouterAssumption DEF RouterInv
<1>6. path \notin Plain BY <1>5, PlainHasNoShell
<1>7. Leads(nav.who, boot, path) = path BY <1>2, <1>3, <1>4, GoesWhereItLeads DEF AtRest
<1>8. /\ ProtectedRoute(boot, path) = path /\ path \in Pages
  <2>1. path # SelectClubAlias BY <1>7, PlacesApart DEF Leads
  <2>2. Guarded(boot, path) = path BY <1>6, <1>7, <2>1 DEF Leads, Plain
  <2>3. ~NoAccess(boot) BY <1>5 DEF NoAccess
  <2>4. ProtectedRoute(boot, path) = path /\ Forward(path) = path
    BY <2>2, <2>3 DEF Guarded
  <2>5. path \notin Forwarded BY <2>4, SentToTargets
  <2> QED BY <1>5, <2>1, <2>4, <2>5 DEF Routes
<1>9. Listed(boot, path)
  <2>1. ~boot.choose BY <1>5 DEF BootRight
  <2>2. Listed(boot, path) \/ boot.landing = path
    BY <1>5, <1>8, <2>1 DEF ProtectedRoute, NoAccess
  <2> QED BY <1>5, <2>2, LandingListed
<1>10. ModuleAt(path) \in EnabledFor(boot) \union {""} BY <1>5, <1>8, <1>9, ListedIsEnabled
<1>11. item \in MenuItems /\ item[2] # "" BY <1>2 DEF NeedsModule
<1>12. Telling(item[1]) /\ item[2] = ModuleAt(item[1]) BY <1>11, ItemsTell DEF ItemTells
<1>13. path \in Seq(Words) BY <1>5, <1>8, RoutesTell DEF Telling
<1>14. ModuleAt(item[1]) = ModuleAt(path) BY <1>2, <1>4, <1>12, <1>13, CoversSame
<1>15. EnabledFor(boot) = ModulesOf[boot.club] BY <1>2, <1>3, <1>5 DEF BootRight, EnabledFor
<1> QED BY <1>3, <1>10, <1>11, <1>12, <1>14, <1>15

(* However a person comes to a page, by a link, an address, an invitation or a sign-in, and  *)
(* whatever club and modules they have: after one redirect the tab stays (after two, on the *)
(* login page, when nobody is signed in and the address was the old one of the club         *)
(* selection), the landing page is one their menu lists (route-guards.tsx), and a member of *)
(* staff or a player sees no page of a module the club has switched off.                    *)
THEOREM GuardAlwaysRight == RouterSpec => []GuardIsRight
<1>1. RouterInit => RouterInv BY RouterInitInv
<1>2. RouterInv /\ [RouterNext]_nav => RouterInv' BY RouterStepInv
<1>3. RouterInv => GuardIsRight BY RouterInvIsRight
<1> QED BY <1>1, <1>2, <1>3, PTL DEF RouterSpec

-----------------------------------------------------------------------------
\* What the menu lists and the landing page are pages of the router.
LEMMA MenuIsPages == \A item \in MenuItems : item[1] \in Pages
<1>1. \A p \in AdminPages : Admin(p) \in Pages BY DEF Pages
<1>2. \A p \in SuperadminPages : Superadmin(p) \in Pages BY DEF Pages
<1>3. \A p \in PlayerPages : Player(p) \in Pages BY DEF Pages
<1>4. ASSUME NEW S, S \subseteq AdminPages, NEW m, NEW item \in {<<Admin(p), m>> : p \in S}
      PROVE  item[1] \in Pages
  <2>1. PICK p \in S : item = <<Admin(p), m>> OBVIOUS
  <2>2. item[1] = Admin(p) BY <2>1
  <2> QED BY <1>1, <1>4, <2>2
<1>5. ASSUME NEW item \in {<<Superadmin(p), "">> : p \in SuperadminPages} PROVE item[1] \in Pages
  <2>1. PICK p \in SuperadminPages : item = <<Superadmin(p), "">> OBVIOUS
  <2>2. item[1] = Superadmin(p) BY <2>1
  <2> QED BY <1>2, <2>2
<1>6. ASSUME NEW item \in {<<Player("home"), "">>, <<Player("profile"), "">>,
                           <<Player("book"), "golf">>, <<Player("order"), "pos">>}
      PROVE  item[1] \in Pages
  <2>1. PICK a, m : item = <<a, m>> /\ a \in {Player("home"), Player("profile"), Player("book"),
                                            Player("order")}
    OBVIOUS
  <2>2. item[1] = a BY <2>1
  <2>3. {"home", "profile", "book", "order"} \subseteq PlayerPages BY DEF PlayerPages
  <2> QED BY <1>3, <2>1, <2>2, <2>3
<1>7. <<"communications">> \in AdminPages BY DEF AdminPages
<1>8. Admin(<<"communications">>) \in Pages BY <1>1, <1>7
<1>9. /\ {<<"dashboard">>, <<"members">>, <<"reports">>, <<"targets">>, <<"people", "dashboard">>,
          <<"settings">>, <<"golf", "settings">>, <<"settings", "modules">>} \subseteq AdminPages
      /\ {<<"golf", "tee-sheet">>, <<"golf", "dashboard">>} \subseteq AdminPages
      /\ {<<"finance", "dashboard">>, <<"finance">>} \subseteq AdminPages
      /\ {<<"halfway">>, <<"pro-shop">>, <<"orders">>, <<"pos-terminal">>} \subseteq AdminPages
  BY DEF AdminPages
<1> SUFFICES ASSUME NEW item \in MenuItems PROVE item[1] \in Pages OBVIOUS
<1>10. CASE item \in {<<Admin(<<"communications">>), "communications">>}
  <2>1. item[1] = Admin(<<"communications">>) BY <1>10
  <2> QED BY <1>8, <2>1
<1>11. \/ item \in {<<Superadmin(p), "">> : p \in SuperadminPages}
       \/ \E S, m : S \subseteq AdminPages /\ item \in {<<Admin(p), m>> : p \in S}
       \/ item \in {<<Admin(<<"communications">>), "communications">>}
       \/ item \in {<<Player("home"), "">>, <<Player("profile"), "">>,
                    <<Player("book"), "golf">>, <<Player("order"), "pos">>}
  BY <1>9, Zenon DEF MenuItems
<1> QED BY <1>4, <1>5, <1>6, <1>10, <1>11

LEMMA PlacesArePages ==
  /\ SelectClubPath \in Pages /\ Login \in Pages /\ Superadmin("clubs") \in Pages
  /\ Admin(<<"dashboard">>) \in Pages /\ Player("home") \in Pages
<1>1. "clubs" \in SuperadminPages /\ <<"dashboard">> \in AdminPages /\ "home" \in PlayerPages
  BY DEF SuperadminPages, AdminPages, PlayerPages
<1> QED BY <1>1 DEF Pages

LEMMA BootstrapTyped ==
  ASSUME NEW p \in People, NEW wanted \in RoutedClubs PROVE Bootstrap(p, wanted) \in Boots
<1> DEFINE club == ClubFor(p, wanted)
           choose == ~IsSuperadmin[p] /\ DOMAIN RoleIn[p] # {} /\ club = NoOne
           shell == IF IsSuperadmin[p] THEN "superadmin"
                    ELSE IF club = NoOne THEN NoOne
                    ELSE IF RoleIn[p][club] = "member" THEN "player" ELSE "admin"
           modules == IF club = NoOne THEN {} ELSE ModulesOf[club]
           landing == CASE shell = "superadmin" -> Superadmin("clubs")
                        [] shell = "admin" -> Admin(<<"dashboard">>)
                        [] shell = "player" -> Player("home")
                        [] OTHER -> IF choose THEN SelectClubPath ELSE Login
<1>1. club \in RoutedClubs
  <2>1. ASSUME NEW c \in DOMAIN RoleIn[p] PROVE c \in RoutedClubs BY DEF RoutedClubs
  <2>2. NoOne \in RoutedClubs BY DEF RoutedClubs
  <2> QED BY <2>1, <2>2 DEF ClubFor
<1>2. choose \in BOOLEAN BY ZenonT(30)
<1>3. shell \in {"admin", "superadmin", "player", NoOne} OBVIOUS
<1>4. Menu(shell, modules) \in SUBSET Pages BY MenuIsPages DEF Menu
<1>5. landing \in Pages BY PlacesArePages
<1>6. IsSuperadmin[p] \in BOOLEAN BY RouterAssumption
<1>7. PICK ch, sh, mn, ln, cl : /\ ch = choose /\ sh = shell /\ mn = Menu(shell, modules)
                               /\ ln = landing /\ cl = club
  OBVIOUS
<1>8. Bootstrap(p, wanted) = [club |-> cl, shell |-> sh, choose |-> ch, super |-> IsSuperadmin[p],
                             menu |-> mn, landing |-> ln]
  BY <1>7, Zenon DEF Bootstrap
<1> HIDE DEF club, choose, shell, modules, landing
<1> QED BY <1>1, <1>2, <1>3, <1>4, <1>5, <1>6, <1>7, <1>8 DEF Boots

LEMMA NoBootTyped == NoBoot \in Boots
<1>1. PICK no \in BOOLEAN : NoBoot = [club |-> NoOne, shell |-> NoOne, choose |-> no, super |-> no,
                                     menu |-> {}, landing |-> Login]
  BY Zenon DEF NoBoot
<1>2. NoOne \in RoutedClubs /\ Login \in Pages BY PlacesArePages DEF RoutedClubs
<1> QED BY <1>1, <1>2 DEF Boots

RouterTypes ==
  /\ nav.who \in People \union {NoOne} /\ nav.club \in RoutedClubs /\ nav.boot \in Boots
  /\ nav.consent \in BOOLEAN

LEMMA RouterTypesStep ==
  ASSUME RouterInv, RouterTypes, [RouterNext]_nav PROVE RouterTypes'
<1>1. PICK yes \in BOOLEAN : \A path : Visit(path) =
        [club |-> nav.club, at |-> path, who |-> nav.who, boot |-> nav.boot, hops |-> 0,
         consent |-> yes]
  <2>1. PICK yes \in BOOLEAN : yes = TRUE BY Zenon
  <2>2. \A path : Visit(path) = [nav EXCEPT !.at = path, !.hops = 0, !.consent = yes]
    BY <2>1 DEF Visit
  <2> QED BY <2>2 DEF RouterInv
<1>2. ASSUME NEW path, nav' = Visit(path) PROVE RouterTypes' BY <1>1, <1>2 DEF RouterTypes
<1>3. CASE Redirect BY <1>3 DEF Redirect, RouterInv, RouterTypes
<1>4. CASE SignOut
  <2>1. nav' = [club |-> NoOne, at |-> nav.at, who |-> NoOne, boot |-> NoBoot, hops |-> 0,
                consent |-> yes]
    BY <1>1, <1>4 DEF SignOut
  <2>2. NoOne \in RoutedClubs BY DEF RoutedClubs
  <2> QED BY <2>1, <2>2, NoBootTyped DEF RouterTypes
<1>5. ASSUME NEW p \in People, SubmitLogin(p) PROVE RouterTypes'
  <2>1. PICK b : b = Bootstrap(p, nav.club) OBVIOUS
  <2>2. nav' = [club |-> nav.club, at |-> Root, who |-> p, boot |-> b, hops |-> 0, consent |-> yes]
    BY <1>1, <1>5, <2>1 DEF SubmitLogin
  <2> QED BY <2>1, <2>2, BootstrapTyped DEF RouterTypes
<1>6. ASSUME NEW c \in DOMAIN ModulesOf, SelectClubPage(c) PROVE RouterTypes'
  <2>1. PICK b : b = Bootstrap(nav.who, c) OBVIOUS
  <2>2. nav' = [club |-> c, at |-> Root, who |-> nav.who, boot |-> b, hops |-> 0, consent |-> yes]
    BY <1>1, <1>6, <2>1 DEF SelectClubPage
  <2>3. c \in RoutedClubs /\ nav.who \in People BY <1>6 DEF RoutedClubs, SelectClubPage, RouterTypes
  <2> QED BY <2>1, <2>2, <2>3, BootstrapTyped DEF RouterTypes
<1>7. CASE ActivateInvitation
  <2>1. PICK b : b = Bootstrap(nav.who, nav.club) OBVIOUS
  <2>2. nav' = [club |-> nav.club, at |-> Root, who |-> nav.who, boot |-> b, hops |-> 0,
                consent |-> yes]
    BY <1>1, <1>7, <2>1 DEF ActivateInvitation
  <2>3. nav.who \in People BY <1>7 DEF ActivateInvitation, RouterTypes
  <2> QED BY <2>1, <2>2, <2>3, BootstrapTyped DEF RouterTypes
<1>8. CASE Consent
  <2>1. PICK c \in BOOLEAN : nav' = [nav EXCEPT !.consent = c]
    <3>1. (~nav.consent) \in BOOLEAN BY ZenonT(30)
    <3> QED BY <1>8, <3>1 DEF Consent
  <2>2. nav' = [club |-> nav.club, at |-> nav.at, who |-> nav.who, boot |-> nav.boot,
                hops |-> nav.hops, consent |-> c]
    BY <2>1 DEF RouterInv
  <2> QED BY <2>2 DEF RouterTypes
<1>9. CASE BeginSetup \/ LeaveConsent \/ FinishSetup
  BY <1>2, <1>9 DEF BeginSetup, LeaveConsent, FinishSetup
<1>10. CASE \E path \in Routes : Address(path) \/ Follow(path)
  BY <1>2, <1>10 DEF Address, Follow
<1>11. CASE UNCHANGED nav BY <1>11 DEF RouterTypes
<1> QED BY <1>3, <1>4, <1>5, <1>6, <1>7, <1>8, <1>9, <1>10, <1>11 DEF RouterNext

LEMMA RouterTypesStart == RouterInit => RouterTypes
<1> SUFFICES ASSUME RouterInit PROVE RouterTypes OBVIOUS
<1>1. /\ nav.who = NoOne /\ nav.club = NoOne /\ nav.boot = NoBoot /\ nav.consent \in {TRUE}
  BY DEF RouterInit
<1>2. nav.consent \in BOOLEAN BY <1>1, Zenon
<1>3. NoOne \in RoutedClubs BY DEF RoutedClubs
<1> QED BY <1>1, <1>2, <1>3, NoBootTyped DEF RouterTypes

LEMMA RouterTyped == RouterInv /\ RouterTypes => RouterTypeOK
<1> SUFFICES ASSUME RouterInv, RouterTypes PROVE RouterTypeOK OBVIOUS
<1>1. nav.hops \in 0..2 BY DEF RouterInv
<1>2. /\ nav = [club |-> nav.club, at |-> nav.at, who |-> nav.who, boot |-> nav.boot,
                hops |-> nav.hops, consent |-> nav.consent]
      /\ nav.at \in Routes
  BY DEF RouterInv
<1> QED BY <1>1, <1>2 DEF RouterTypes, RouterTypeOK

-----------------------------------------------------------------------------
(***************************************************************************)
(* MCConsole: the pages together, one at a time. A page that is left keeps  *)
(* its state, and a step of the browser is one of the page it is on.        *)
(***************************************************************************)

consoleVars ==
  <<surface, sessionVars, nav, sheetVars, deskVars, swapVars, pageVars, golfVars, clubsVars,
    membersVars, closeVars>>

\* A step of the browser is for each page a step of its own, or none.
LEMMA OnePage ==
  [ConsoleNext]_consoleVars =>
    /\ [SessionNext]_sessionVars /\ [RouterNext]_nav /\ [SheetNext]_sheetVars
    /\ [DeskNext]_deskVars /\ [SwapNext]_swapVars /\ [PageNext]_pageVars
    /\ [GolfNext]_golfVars /\ [ClubsNext]_clubsVars /\ [MembersNext]_membersVars
    /\ [CloseNext]_closeVars
BY DEF ConsoleNext, Only, consoleVars

\* A run of the browser is for each page a run of its own: what is proved of a page holds in
\* the browser.
LEMMA PagesKeepApart ==
  ConsoleSpec =>
    /\ SessionSpec /\ RouterSpec /\ SheetInit /\ [][SheetNext]_sheetVars
    /\ DrawerSpec /\ SwapSpec /\ PageSpec /\ GolfSpec /\ ClubsSpec /\ MembersSpec /\ CloseSpec
<1>1. ConsoleInit =>
        /\ SessionInit /\ RouterInit /\ SheetInit /\ DeskInit /\ SwapInit /\ PageInit
        /\ GolfInit /\ ClubsInit /\ MembersInit /\ CloseInit
  BY DEF ConsoleInit
<1>2. ConsoleSpec => ConsoleInit /\ [][ConsoleNext]_consoleVars BY PTL DEF ConsoleSpec, consoleVars
<1> QED
  BY <1>1, <1>2, OnePage, PTL
     DEF SessionSpec, RouterSpec, DrawerSpec, SwapSpec, PageSpec, GolfSpec, ClubsSpec,
         MembersSpec, CloseSpec

LEMMA SheetSafe == SheetInit /\ [][SheetNext]_sheetVars => []SheetTypeOK
BY TypesOfSheet, SheetInitInv, SheetTypesStart, SheetNextInv, SheetNextTypes, PTL

LEMMA RouterSafe == RouterSpec => []RouterTypeOK
<1>1. RouterInit => RouterInv BY RouterInitInv
<1>2. RouterInv /\ [RouterNext]_nav => RouterInv' BY RouterStepInv
<1>3. RouterInit => RouterTypes BY RouterTypesStart
<1>4. RouterInv /\ RouterTypes /\ [RouterNext]_nav => RouterTypes' BY RouterTypesStep
<1>5. RouterInv /\ RouterTypes => RouterTypeOK BY RouterTyped
<1> QED BY <1>1, <1>2, <1>3, <1>4, <1>5, PTL DEF RouterSpec

(* The type invariant of the browser, page by page, where a user signs in when no call of the *)
(* last one is on its way and staff finish one drop before the next.                          *)
THEOREM ConsoleTypeCorrect == ASSUME Settled, Patient PROVE ConsoleSpec => []ConsoleTypeOK
<1>1. SessionSpec => []SessionTypeOK BY SessionTypeCorrect
<1>2. SwapSpec => []SwapTypeOK BY SwapTypeCorrect
<1>3. /\ SessionTypeOK /\ RouterTypeOK /\ SheetTypeOK /\ DeskTypeOK /\ SwapTypeOK /\ PageTypeOK
      /\ GolfTypeOK /\ ClubsTypeOK /\ MembersTypeOK /\ CloseTypeOK
      => ConsoleTypeOK
  BY DEF ConsoleTypeOK
<1> QED
  BY <1>1, <1>2, <1>3, PagesKeepApart, SheetSafe, RouterSafe, DrawerTypeCorrect,
     PageTypeCorrect, GolfTypeCorrect, ClubsTypeCorrect, MembersTypeCorrect, CloseTypeCorrect, PTL

(* The other safety properties that the browser's run checks hold at every state and step of  *)
(* it: those of the session as long as no refresh was lost, of the guard, of the live sheet   *)
(* and its drawer, of the phase 10 page and its swaps, of the settings, the clubs, the        *)
(* members and the close of the day.                                                          *)
THEOREM ConsoleSafe ==
  ASSUME Settled, Patient
  PROVE  ConsoleSpec =>
           /\ [](/\ CookieSpentOnce /\ WaitingIsAsking /\ GuardIsRight /\ NobodyTwice
                 /\ PartySentIsItsOwn /\ PointsAtARow /\ OnlyPublishedInForce
                 /\ DetailsStayWithTheirClub /\ SavesAreWholeAndTheirOwn /\ DriftIsNotExported)
           /\ SignedOutForAReason /\ SwapTells
<1>1. SessionSpec => []CookieSpentOnce BY CookiesSpentOnce
<1>2. SessionSpec => []WaitingIsAsking BY WaitingAlwaysAsks
<1>3. SessionSpec => SignedOutForAReason BY SignedOutOnlyForAReason
<1>4. SwapSpec => SwapTells BY SwapAlwaysTells
<1>5. SheetInit /\ [][SheetNext]_sheetVars => []NobodyTwice
  BY OnTheSheetOnce, SheetInitInv, SheetNextInv, PTL
<1> QED
  BY <1>1, <1>2, <1>3, <1>4, <1>5, PagesKeepApart, GuardAlwaysRight, PartySentAlways,
     AlwaysPointsAtARow, PublishedInForce, DetailsStay, SavesAlwaysWhole, DriftStaysInside, PTL
=============================================================================
