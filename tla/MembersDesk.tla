----------------------------- MODULE MembersDesk -----------------------------
(***************************************************************************)
(* The members page: a directory, and an editor that saves a member as up  *)
(* to three requests in a row, the person, the membership and the finance  *)
(* account.  Any of them may be refused or its answer lost, the editor may *)
(* be closed while they run, and another administrator works on the same   *)
(* members.                                                                *)
(***************************************************************************)
EXTENDS Naturals, FiniteSets

CONSTANTS
  PersonIds, \* people that may be created
  Enrolled, \* those who are members when the page opens
  Says, \* what a person's or a membership's fields may say
  NewTerms, \* what the empty form says of role, status and date, and every record at first
  Codes, \* account codes and membership numbers
  Blank, \* an empty field, no record, no one
  MaxTyped, \* bound: fields typed into
  MaxSubmits, \* bound: saves of this page
  MaxForeign \* bound: changes by the other administrator

(* What the server has of a person: the name, e-mail and phone, the terms and  *)
(* the number of the membership, the code of the finance account.              *)
Person == [terms : Says \union {Blank}, number : Codes \union {Blank},
           code : Codes \union {Blank}, contact : Says \union {Blank}, fields : Says]

ASSUME MembersAssumption ==
  /\ Enrolled \subseteq PersonIds /\ NewTerms \in Says
  /\ Blank \notin PersonIds \union Says \union Codes \union Person
  /\ MaxTyped \in Nat /\ MaxSubmits \in Nat /\ MaxForeign \in Nat

VARIABLES
  person, \* PersonIds -> Blank or the person's record
  seen, \* the directory and the accounts as last read
  picked, \* selectedPersonId
  editor, \* Blank, or [mode, entry, account, form]
  saving, \* Blank, or the save under way
  told, \* Blank, or the save the page last called a success
  entered, \* fields typed into (bound)
  saved, \* saves started (bound)
  foreign \* changes of the other administrator (bound)

membersVars == <<person, seen, picked, editor, saving, told, entered, saved, foreign>>

Recorded == {p \in PersonIds : person[p] # Blank}
Directory(s) == {p \in PersonIds : s[p] # Blank /\ s[p].terms # Blank}
CodeTaken(c) == \E p \in Recorded : person[p].code = c
NumberTaken(n, p) == n # Blank /\ \E q \in Recorded \ {p} : person[q].number = n
New(f) == [terms |-> Blank, number |-> Blank, code |-> Blank, contact |-> Blank, fields |-> f]

MembersInit ==
  /\ person = [p \in PersonIds |->
                 IF p \in Enrolled
                 THEN [New(NewTerms) EXCEPT !.terms = NewTerms, !.contact = NewTerms] ELSE Blank]
  /\ seen = [p \in PersonIds |-> Blank]
  /\ picked = Blank /\ editor = Blank /\ saving = Blank /\ told = Blank
  /\ entered = 0 /\ saved = 0 /\ foreign = 0

-----------------------------------------------------------------------------
(* The page.  The editor covers it.                                           *)
memberFormValues(p) ==
  IF p = Blank
  THEN [of |-> Blank, terms |-> NewTerms, number |-> Blank, code |-> Blank,
        contact |-> Blank, fields |-> Blank]
  ELSE [of |-> p, terms |-> seen[p].terms, number |-> seen[p].number, code |-> Blank,
        contact |-> seen[p].contact, fields |-> seen[p].fields]
buildMemberEditorState(mode, p) ==
  [mode |-> mode, form |-> memberFormValues(p), entry |-> p,
   account |-> IF p = Blank THEN Blank ELSE seen[p].code]
canSubmitMemberForm(form) == form.fields # Blank /\ form.terms # Blank

SelectMember(p) ==
  /\ editor = Blank /\ p \in Directory(seen)
  /\ picked' = IF picked = p THEN Blank ELSE p
  /\ UNCHANGED <<person, seen, editor, saving, told, entered, saved, foreign>>
openCreateMember ==
  /\ editor = Blank /\ told' = Blank /\ editor' = buildMemberEditorState("create", Blank)
  /\ UNCHANGED <<person, seen, picked, saving, entered, saved, foreign>>
openEditMember ==
  /\ editor = Blank /\ picked \in Directory(seen)
  /\ told' = Blank /\ editor' = buildMemberEditorState("edit", picked)
  /\ UNCHANGED <<person, seen, picked, saving, entered, saved, foreign>>
TypeMember(field, v) ==
  /\ editor # Blank /\ editor' = [editor EXCEPT !.form[field] = v]
  /\ field = "code" => editor.account = Blank
  /\ entered < MaxTyped /\ entered' = entered + 1
  /\ UNCHANGED <<person, seen, picked, saving, told, saved, foreign>>
closeEditor ==
  /\ editor # Blank /\ editor' = Blank
  /\ UNCHANGED <<person, seen, picked, saving, told, entered, saved, foreign>>
(* One save at a time, whatever editor it was started from.                   *)
handleEditorSubmit ==
  /\ editor # Blank /\ saving = Blank /\ canSubmitMemberForm(editor.form)
  /\ saved < MaxSubmits /\ saved' = saved + 1
  /\ told' = Blank
  /\ saving' = [who |-> editor.entry, next |-> "person", mode |-> editor.mode,
                form |-> editor.form, account |-> editor.account, stored |-> {}, since |-> foreign]
  /\ UNCHANGED <<person, seen, picked, editor, entered, foreign>>

-----------------------------------------------------------------------------
(* The three requests.                                                        *)
Target(s) ==
  IF s.mode = "create" /\ s.next = "person" THEN PersonIds \ Recorded ELSE {s.who}
(* update_person and update_membership skip what the page sends as null, and   *)
(* an empty e-mail, phone or number is sent as null: it stays what it was.     *)
Given(new, old) == IF new = Blank THEN old ELSE new
PersonAfter(s, p) ==
  CASE s.next = "person" /\ s.mode = "create" ->
         [New(s.form.fields) EXCEPT !.contact = s.form.contact]
    [] s.next = "person" /\ s.mode = "edit" ->
         [person[p] EXCEPT !.fields = s.form.fields, !.contact = Given(s.form.contact, @)]
    [] s.next = "membership" ->
         [person[p] EXCEPT !.terms = s.form.terms, !.number = Given(s.form.number, @)]
    [] s.next = "account" -> [person[p] EXCEPT !.code = s.form.code]
Refusable(s) ==
  \/ s.next = "membership" /\ NumberTaken(s.form.number, s.who)
  \/ s.next = "account" /\ (CodeTaken(s.form.code) \/ person[s.who].code # Blank)
AsksForAccount(s) == s.form.code # Blank /\ s.account = Blank
\* Mutant: the account is asked for only when a member is edited.
FollowingEdit(s) ==
  CASE s.next = "person" -> "membership"
    [] s.next = "membership" /\ s.mode = "edit" /\ AsksForAccount(s) -> "account"
    [] OTHER -> "done"
Following(s) ==
  CASE s.next = "person" -> "membership"
    [] s.next = "membership" /\ AsksForAccount(s) -> "account"
    [] OTHER -> "done"
(* Answered well: every query is read again, then the next request is sent;   *)
(* after the last the page says so and closes the editor that is open.        *)
StepSaved ==
  /\ saving # Blank /\ ~Refusable(saving)
  /\ \E p \in Target(saving) :
       LET s == [saving EXCEPT !.who = p, !.next = Following(saving),
                               !.stored = @ \union {saving.next}] IN
       /\ person' = [person EXCEPT ![p] = PersonAfter(saving, p)]
       /\ IF s.next = "done"
          THEN saving' = Blank /\ told' = s /\ editor' = Blank
          ELSE saving' = s /\ UNCHANGED <<told, editor>>
  /\ seen' = person'
  /\ UNCHANGED <<picked, entered, saved, foreign>>
(* Refused, or its answer lost on the way: what was stored stays stored, the  *)
(* editor stays open, and the same form may be submitted again.               *)
StepFailed ==
  /\ saving # Blank /\ saving' = Blank
  /\ \/ person' = person
     \/ /\ ~Refusable(saving)
        /\ \E p \in Target(saving) :
             person' = [person EXCEPT ![p] = PersonAfter(saving, p)]
  /\ UNCHANGED <<seen, picked, editor, told, entered, saved, foreign>>
DirectoryRead ==
  /\ seen # person /\ seen' = person
  /\ UNCHANGED <<person, picked, editor, saving, told, entered, saved, foreign>>
(* The other administrator writes a member's fields, gives the membership a    *)
(* number or links an account.                                                 *)
EditedElsewhere(p) ==
  /\ p \in Recorded /\ foreign < MaxForeign /\ foreign' = foreign + 1
  /\ \/ \E v \in Says : person' = [person EXCEPT ![p].fields = v]
     \/ /\ person[p].code = Blank
        /\ \E c \in Codes : ~CodeTaken(c) /\ person' = [person EXCEPT ![p].code = c]
     \/ /\ person[p].terms # Blank
        /\ \E n \in Codes : ~NumberTaken(n, p) /\ person' = [person EXCEPT ![p].number = n]
  /\ UNCHANGED <<seen, picked, editor, saving, told, entered, saved>>

MembersNext ==
  \/ openCreateMember \/ openEditMember \/ closeEditor \/ handleEditorSubmit
  \/ StepSaved \/ StepFailed \/ DirectoryRead
  \/ \E p \in PersonIds : SelectMember(p) \/ EditedElsewhere(p)
  \/ \E v \in Says : TypeMember("fields", v) \/ TypeMember("terms", v)
  \/ \E v \in Says \union {Blank} : TypeMember("contact", v)
  \/ \E c \in Codes \union {Blank} : TypeMember("code", c) \/ TypeMember("number", c)
MembersSpec == MembersInit /\ [][MembersNext]_membersVars

-----------------------------------------------------------------------------
MemberForm ==
  [of : PersonIds \union {Blank}, terms : Says \union {Blank}, number : Codes \union {Blank},
   code : Codes \union {Blank}, contact : Says \union {Blank}, fields : Says \union {Blank}]
MemberEditor ==
  [mode : {"create", "edit"}, form : MemberForm, entry : PersonIds \union {Blank},
   account : Codes \union {Blank}]
MemberSave ==
  [who : PersonIds \union {Blank}, next : {"person", "membership", "account", "done"},
   mode : {"create", "edit"}, form : MemberForm, account : Codes \union {Blank},
   stored : SUBSET {"person", "membership", "account"}, since : 0..MaxForeign]
MembersTypeOK ==
  /\ person \in [PersonIds -> Person \union {Blank}]
  /\ seen \in [PersonIds -> Person \union {Blank}]
  /\ picked \in PersonIds \union {Blank}
  /\ editor \in MemberEditor \union {Blank}
  /\ saving \in MemberSave \union {Blank} /\ told \in MemberSave \union {Blank}
  /\ entered \in 0..MaxTyped /\ saved \in 0..MaxSubmits /\ foreign \in 0..MaxForeign

(* What the server has of a save's person is what was typed, wherever            *)
(* something was.                                                              *)
Holds(s) ==
  /\ "person" \in s.stored =>
       person[s.who].fields = s.form.fields /\ s.form.contact \in {Blank, person[s.who].contact}
  /\ "membership" \in s.stored =>
       person[s.who].terms = s.form.terms /\ s.form.number \in {Blank, person[s.who].number}
  /\ "account" \in s.stored => person[s.who].code = s.form.code
(* What is typed over one member is written to that member.  A success that    *)
(* the page tells stored the person, the membership and the account if one was *)
(* asked for, and the server has all that was typed unless someone else wrote   *)
(* since the save began; a field left blank asks for nothing, and what it said  *)
(* before is still there.  No two people share an account code or a number.     *)
SavesAreWholeAndTheirOwn ==
  /\ saving # Blank /\ saving.mode = "edit" => saving.form.of = saving.who
  /\ told # Blank => /\ {"person", "membership"} \subseteq told.stored
                     /\ AsksForAccount(told) => "account" \in told.stored
                     /\ told.since = foreign => Holds(told)
  /\ \A p, q \in Recorded : p # q /\ person[p].code # Blank => person[p].code # person[q].code
  /\ \A p \in Recorded : ~NumberTaken(person[p].number, p)
=============================================================================
