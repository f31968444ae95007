------------------------------- MODULE Admin -------------------------------
(***************************************************************************)
(* The admin's forms: src/src/admin/site.ts and widgets.ts.  A form is     *)
(* rendered from a row, filled in by somebody who takes their time, parsed *)
(* field by field and written with one UPDATE of every editable field.     *)
(* Nothing ties a form to the state of the row it was rendered from.       *)
(*                                                                         *)
(* Values and inputs are strings, and "" is an empty input.  A select      *)
(* shows its first option when none is marked: that is the browser's part. *)
(***************************************************************************)
EXTENDS Naturals, FiniteSets

CONSTANTS
  Sites,        \* registrations: the specs of the fields, what is allowed, the guard
  Editors,
  Staff,        \* the editors who pass the configured permissions
  Pks,          \* primary keys, in the order they are given out
  FirstRows,    \* what the first row may hold
  Targets,      \* rows of the related model
  ChoiceLimit,  \* RELATION_CHOICE_LIMIT
  Typed,        \* what may be typed into a field of a kind
  Carried,      \* what a form carries of a value: a date to its minute, a text trimmed
  Null,
  Gone, Unborn, \* a row that was deleted, one that is not there yet
  MaxForms      \* bound: forms opened

ASSUME AdminConstants ==
  /\ Staff \subseteq Editors /\ Pks \subseteq Nat \ {0} /\ 1 \in Pks
  /\ ChoiceLimit \in Nat \ {0} /\ MaxForms \in Nat

\* A form carries a value as it carried it before; "" is nothing, and a checkbox has two values.
ASSUME FormConstants ==
  /\ Null \notin DOMAIN Carried /\ {"", "on", "off"} \cup Targets \subseteq DOMAIN Carried
  /\ \A v \in {"", "on", "off"} : Carried[v] = v
  /\ \A v \in DOMAIN Carried : Carried[v] \in DOMAIN Carried /\ Carried[Carried[v]] = Carried[v]
  /\ \A s \in Sites : \A a \in DOMAIN s.fields :
       /\ s.fields[a].hasDefault => s.fields[a].default \in DOMAIN Carried
       /\ Typed[s.fields[a].kind] \subseteq DOMAIN Carried

VARIABLES
  site,     \* the registration
  records,  \* the table
  related,  \* rows of the related model that exist
  forms,    \* the page each editor is at
  opened    \* forms opened so far

adminVars == <<site, records, related, forms, opened>>

Attrs == DOMAIN site.fields
Kind(attr) == site.fields[attr].kind
\* formFields without readonlyFields: what has an input.
Editable(attr) == site.fields[attr].editable
Alive(pk) == records[pk] \notin {Gone, Unborn}

\* "values" is what the form is rendered from, "inputs" what the browser holds.  History: the row
\* the form was opened on, and the inputs that were touched.
NoForm == [pc |-> "none", pk |-> 0, values |-> <<>>, inputs |-> <<>>, row |-> Unborn, touched |-> {}]

\* What a column holds: NULL where it may, a flag, or a value a form carries somehow.
Holds(spec, value) ==
  \/ value = Null /\ spec.null
  \/ value \in IF spec.kind = "boolean" THEN {"on", "off"} ELSE DOMAIN Carried

AdminInit ==
  /\ site \in Sites /\ related = Targets /\ opened = 0
  /\ \E first \in FirstRows : /\ \A a \in Attrs : Holds(site.fields[a], first[a])
                             /\ records = [pk \in Pks |-> IF pk = 1 THEN first ELSE Unborn]
  /\ forms = [e \in Editors |-> NoForm]

At(e, pc) == forms[e].pc = pc
Guarded(e) == site.guard = "open" \/ (site.guard = "permissions" /\ e \in Staff)

-----------------------------------------------------------------------------
(* Rendering *)

\* widget: an input shows its value, a checkbox is checked or not.
ShownUnchecked(attr, value) ==
  IF value = Null \/ Kind(attr) = "boolean" THEN "" ELSE Carried[value]
Shown(attr, value) ==
  IF value = Null \/ (Kind(attr) = "boolean" /\ value # "on") THEN "" ELSE Carried[value]

\* A select shows the option that is marked; else the blank one, or whichever comes first.
Selections(attr, value, choices) ==
  IF value \in choices THEN {value}
  ELSE IF site.fields[attr].null \/ choices = {} THEN {""} ELSE choices

\* relationChoices: no more than the limit.
Choices == {C \in SUBSET related :
              Cardinality(C) = IF Cardinality(related) > ChoiceLimit THEN ChoiceLimit ELSE Cardinality(related)}

\* renderForm, after it has awaited the choices.
Render(e) ==
  /\ At(e, "rendering")
  /\ \E choices \in Choices :
     \E picked \in [{a \in Attrs : Editable(a) /\ Kind(a) = "foreignKey"} -> Targets \cup {""}] :
       /\ \A a \in DOMAIN picked : picked[a] \in Selections(a, forms[e].values[a], choices)
       /\ forms' = [forms EXCEPT ![e].pc = "open",
            ![e].inputs = [a \in {b \in Attrs : Editable(b)} |->
                             IF a \in DOMAIN picked THEN picked[a] ELSE Shown(a, forms[e].values[a])]]
  /\ UNCHANGED <<site, records, related, opened>>

\* addForm renders the defaults; changeForm a row, whose relations stand under <attr>Id.
Defaults == [a \in Attrs |-> IF site.fields[a].hasDefault THEN site.fields[a].default ELSE Null]
Fetched(row) == [a \in Attrs |-> IF Kind(a) = "foreignKey" THEN Null ELSE row[a]]
AddForm(e) ==
  /\ At(e, "none") /\ Guarded(e) /\ site.canAdd /\ opened < MaxForms
  /\ forms' = [forms EXCEPT ![e] = [NoForm EXCEPT !.pc = "rendering", !.values = Defaults]]
  /\ opened' = opened + 1
  /\ UNCHANGED <<site, records, related>>
ChangeForm(e, pk) ==
  /\ At(e, "none") /\ Guarded(e) /\ Alive(pk) /\ opened < MaxForms
  /\ forms' = [forms EXCEPT ![e] = [NoForm EXCEPT !.pc = "rendering", !.pk = pk,
                                      !.values = Fetched(records[pk]), !.row = records[pk]]]
  /\ opened' = opened + 1
  /\ UNCHANGED <<site, records, related>>

\* Somebody fills in a field, once per form.
Fill(e, attr, raw) ==
  /\ At(e, "open") /\ forms[e].touched = {} /\ Editable(attr) /\ raw # forms[e].inputs[attr]
  /\ forms' = [forms EXCEPT ![e].inputs[attr] = raw, ![e].touched = {attr}]
  /\ UNCHANGED <<site, records, related, opened>>

-----------------------------------------------------------------------------
(* Saving *)

\* parseValue.  A blank input is NULL, or leaves a field with a default out, or is an empty text
\* where that is allowed ("blank"), or is an error.
Blank(raw) == Carried[raw] = ""
Required(attr, raw) ==
  LET spec == site.fields[attr]
  IN Blank(raw) /\ spec.kind # "boolean" /\ ~spec.null /\ ~spec.hasDefault /\ ~spec.blank
LeftOut(attr, raw) ==
  Blank(raw) /\ Kind(attr) # "boolean" /\ ~site.fields[attr].null /\ site.fields[attr].hasDefault
Parsed(attr, raw) ==
  IF Kind(attr) = "boolean" THEN IF raw = "on" THEN "on" ELSE "off"
  ELSE IF Blank(raw) /\ site.fields[attr].null THEN Null ELSE Carried[raw]

\* readForm: what the form says of a row that held "row".
Read(e, row) ==
  [a \in Attrs |-> IF ~Editable(a) \/ LeftOut(a, forms[e].inputs[a]) THEN row[a]
                   ELSE Parsed(a, forms[e].inputs[a])]

\* A form comes back with what was submitted and a message.
Again(e) ==
  forms' = [forms EXCEPT ![e].pc = "rendering",
              ![e].values = [a \in Attrs |-> IF Editable(a) THEN forms[e].inputs[a] ELSE forms[e].values[a]]]
Gone404(e) == forms[e].pk # 0 /\ ~Alive(forms[e].pk)

\* create and update, up to the statement.  A post from another origin or of somebody without
\* permission is refused first, and changes nothing.
Submit(e) ==
  /\ At(e, "open") /\ Guarded(e)
  /\ IF forms[e].pk = 0 THEN site.canAdd ELSE site.canChange
  /\ IF Gone404(e) THEN forms' = [forms EXCEPT ![e] = NoForm]
     ELSE IF \E a \in DOMAIN forms[e].inputs : Required(a, forms[e].inputs[a]) THEN Again(e)
     ELSE forms' = [forms EXCEPT ![e].pc = "saving"]
  /\ UNCHANGED <<site, records, related, opened>>

\* What the database refuses, put into words by describeWriteError.
Violates(row, pk) ==
  \/ \E a \in Attrs, other \in Pks : /\ site.fields[a].unique /\ row[a] # Null /\ other # pk
                                     /\ Alive(other) /\ records[other][a] = row[a]
  \/ \E a \in Attrs : Kind(a) = "foreignKey" /\ row[a] # Null /\ row[a] \notin related

\* The UPDATE of a row that has gone by then changes nothing, and is answered as a save.
Save(e) ==
  LET new == {pk \in Pks : records[pk] = Unborn}
      pk == IF forms[e].pk # 0 THEN forms[e].pk ELSE CHOOSE p \in new : \A q \in new : p <= q
      row == Read(e, IF forms[e].pk # 0 THEN records[pk] ELSE Defaults)
  IN /\ At(e, "saving") /\ (forms[e].pk = 0 => new # {})
     /\ \/ /\ forms[e].pk = 0 \/ Alive(pk)
           /\ IF Violates(row, pk) THEN Again(e) /\ UNCHANGED records
              ELSE /\ records' = [records EXCEPT ![pk] = row]
                   /\ forms' = [forms EXCEPT ![e] = NoForm]
        \/ /\ Gone404(e)
           /\ forms' = [forms EXCEPT ![e] = NoForm] /\ UNCHANGED records
     /\ UNCHANGED <<site, related, opened>>

\* destroy: the row is fetched, and deleted.
DestroyRow(e, pk) ==
  /\ At(e, "none") /\ Guarded(e) /\ site.canDelete /\ Alive(pk)
  /\ forms' = [forms EXCEPT ![e] = [NoForm EXCEPT !.pc = "deleting", !.pk = pk]]
  /\ UNCHANGED <<site, records, related, opened>>
Delete(e) ==
  /\ At(e, "deleting")
  /\ records' = [records EXCEPT ![forms[e].pk] = Gone]
  /\ forms' = [forms EXCEPT ![e] = NoForm]
  /\ UNCHANGED <<site, related, opened>>

\* A row of the related model goes: "set null" where it may, "cascade" where not.
TargetGoes(t) ==
  LET refers(pk) == {a \in Attrs : Kind(a) = "foreignKey" /\ records[pk][a] = t}
  IN /\ t \in related
     /\ related' = related \ {t}
     /\ records' = [pk \in Pks |-> IF ~Alive(pk) THEN records[pk]
                                ELSE IF \E a \in refers(pk) : ~site.fields[a].null THEN Gone
                                ELSE [a \in Attrs |-> IF a \in refers(pk) THEN Null ELSE records[pk][a]]]
     /\ UNCHANGED <<site, forms, opened>>

AdminNext ==
  \/ \E e \in Editors :
       \/ AddForm(e) \/ Render(e) \/ Save(e) \/ Delete(e)
       \/ \E pk \in Pks : ChangeForm(e, pk) \/ DestroyRow(e, pk)
       \/ \E attr \in Attrs : \E raw \in Typed[Kind(attr)] : Fill(e, attr, raw)
       \/ Submit(e)
  \/ \E t \in Targets : TargetGoes(t)
AdminSpec == AdminInit /\ [][AdminNext]_adminVars

-----------------------------------------------------------------------------
Changed(pk, a) == Alive(pk) /\ records'[pk] # Gone /\ records'[pk][a] # records[pk][a]
Saves(e, pk) == At(e, "saving") /\ forms[e].pk = pk /\ forms'[e].pc = "none"

\* What the inputs cannot say of a value: NULL of a checkbox (widgets.ts:207 reads false), a blank
\* text where NULL may stand (213 reads NULL), seconds and outer spaces.
Lost(attr, before, after) ==
  \/ before = Null /\ Kind(attr) = "boolean" /\ after = "off"
  \/ before # Null /\ after = Carried[before]
  \/ before # Null /\ Blank(before) /\ site.fields[attr].null /\ after = Null

(* A form posts every field, and the admin writes them all, also when the    *)
(* form came back with an error in between.  A field that the editor left    *)
(* alone changes only in one of four ways: somebody else had changed it      *)
(* since the form was opened, and the save puts it back; it is a relation;   *)
(* the inputs cannot say what it held ("Lost"); or its related row goes.     *)
(* What is not in the form never changes.  The first two are the admin's     *)
(* lost updates, which this property grants; ShowsCurrentValues is about     *)
(* the second.                                                               *)
UntouchedFieldsStay ==
  [][\A pk \in Pks : \A a \in Attrs : Changed(pk, a) =>
       \/ \E e \in Editors : /\ Saves(e, pk) /\ Editable(a)
                             /\ \/ a \in forms[e].touched \/ forms[e].row[a] # records[pk][a]
                                \/ Kind(a) = "foreignKey" \/ Lost(a, records[pk][a], records'[pk][a])
       \/ related' # related /\ Kind(a) = "foreignKey" /\ records'[pk][a] = Null]_adminVars

(* A change form shows the values of its row (the admin's tests say so).     *)
ShowsCurrentValues ==
  \A e \in Editors : At(e, "open") /\ forms[e].pk # 0 /\ forms[e].touched = {} =>
    \A a \in DOMAIN forms[e].inputs :
      LET value == forms[e].row[a] IN
        forms[e].inputs[a] = IF value \in {Null, "off"} THEN "" ELSE Carried[value]
=============================================================================
