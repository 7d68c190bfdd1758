-------------------------- MODULE DeploymentProofs --------------------------
(***************************************************************************)
(* Proofs about Deployment, for any rows, writes, filed items, deploys and *)
(* rollbacks.                                                              *)
(*                                                                         *)
(* Migrations. The statements of a migration are one list (FullScript); a  *)
(* transaction runs a section of it and stands before its k-th statement.  *)
(* What the rows of its view are by then is said for each k (SessionAt,    *)
(* QuestionAt, EventAt): what the statements so far made of what the       *)
(* programs wrote, and what the checks that passed have shown. The rows    *)
(* that are committed are those of a transaction that is about to begin.   *)
(***************************************************************************)
EXTENDS Deployment, FiniteSetTheorems, TLAPS

-----------------------------------------------------------------------------
(* The rows                                                                *)

IsDb(d) == d = [sessions |-> d.sessions, events |-> d.events, questions |-> d.questions,
                appointments |-> d.appointments]
IsTx(t) == t = [on |-> t.on, target |-> t.target, todo |-> t.todo, done |-> t.done,
                view |-> t.view]

Outcomes == {"IN_PROGRESS", "RESOLVED", "SCHEDULED", "ABANDONED", "OUT_OF_SCOPE", "NO_SLOT",
             "DECLINED", "MANAGED_APPOINTMENT"}
Steps    == ABANDONED_STEPS \cup {"FINISHED"}

SessionRows == [status: {"IN_PROGRESS", "FINISHED", "ABANDONED"}, step: Steps,
                outcome: Outcomes \cup {NoneSet}, abandonedAt: Steps \cup {NoneSet}]

QuestionRows == [title: {"fits", "blankStart"}, short: {NoneSet, "trimmed", "padded", "blank"},
                 inPerson: BOOLEAN, outOfScope: BOOLEAN, llm: BOOLEAN]

StatusOf(outcome) == IF outcome = "IN_PROGRESS" THEN "IN_PROGRESS"
                     ELSE IF outcome = "ABANDONED" THEN "ABANDONED" ELSE "FINISHED"

\* A session as the first version keeps it: the outcome can be told from the
\* status, and where it stands or was abandoned from the step.
Kept10(row, st) ==
    /\ st.outcome \in {"IN_PROGRESS", "RESOLVED", "ABANDONED"}
    /\ row.status = StatusOf(st.outcome)
    /\ st.outcome \in {"IN_PROGRESS", "ABANDONED"} => row.step = st.at
    /\ st.at \in ABANDONED_STEPS

\* The same, in the columns that migration 11 adds.
Kept11(row, st) ==
    /\ st.outcome \in Outcomes
    /\ row.outcome = st.outcome
    /\ row.status = StatusOf(st.outcome)
    /\ row.abandonedAt = IF st.outcome = "ABANDONED" THEN st.at ELSE NoneSet
    /\ st.outcome = "IN_PROGRESS" => row.step = st.at
    /\ st.at \in ABANDONED_STEPS

\* The questions that programs file, before migration 11, after it and after 12.
Filed10(row) == row.title = "fits" /\ ~row.inPerson
Filed11(row) ==
    Filed10(row) /\ row.short \in {"trimmed", "padded"} /\ ~(row.outOfScope /\ row.llm)
Filed12(row) == Filed11(row) /\ row.short = "trimmed"

\* An event as the programs write it, in the keys of today or of before, and as
\* the statement that renames the first key leaves it.
Written(row, event) ==
    LET built == BuildConversationEventRow(event) IN row \in {built, OldKeys(built)}
LlmRenamed(row) == RenameKey(row, "ANSWER_SENT", "llmStatus", "llm")
AttendeeRenamed(row) == RenameKey(row, "ATTENDEE_CHOSEN", "byRepresentative", "by_representative")
HalfRenamed(row, event) ==
    LET built == BuildConversationEventRow(event)
    IN  row \in {LlmRenamed(built), LlmRenamed(OldKeys(built))}

-----------------------------------------------------------------------------
(* The rows before the k-th statement                                      *)

FullScript ==
    <<"addContentColumns", "fillContent", "checkContent", "newSteps", "fillOutcome",
      "checkOutcomes", "guardAppointments", "recreateTables",
      "trimTexts", "checkTexts",
      "renameLlm", "renameAttendee", "checkEvents", "validateEvents",
      "closeSteps", "checkSessionSteps", "validateSessions">>

First(v) == IF v = 10 THEN 1 ELSE IF v = 11 THEN 9 ELSE 11
Last(v)  == IF v = 11 THEN 8 ELSE IF v = 12 THEN 10 ELSE 17

SessionAt(k, row, s) ==
    /\ row \in SessionRows
    /\ s \notin odd =>
          /\ s \in DOMAIN stood
          /\ IF version = 10 /\ k <= 5 THEN Kept10(row, stood[s]) ELSE Kept11(row, stood[s])
          /\ k > 15 => (row.status # "IN_PROGRESS" => row.step = "FINISHED")
    /\ (version >= 11 \/ k > 6) => SessionLawful(11, row)
    /\ k > 17 => SessionLawful(13, row)

QuestionAt(k, row, q) ==
    /\ row \in QuestionRows
    /\ q \notin odd => IF version = 10 /\ k <= 2 THEN Filed10(row)
                       ELSE IF k <= 9 THEN Filed11(row) ELSE Filed12(row)
    /\ (version >= 11 \/ k > 3) => QuestionLawful(11, row)
    /\ (version >= 12 \/ k > 10) => QuestionLawful(12, row)

EventAt(k, row, e) ==
    /\ version >= 11
    /\ e \notin odd =>
          /\ e \in DOMAIN meant /\ meant[e] \in Recorded
          /\ IF k <= 11 THEN Written(row, meant[e])
             ELSE IF k = 12 THEN HalfRenamed(row, meant[e])
             ELSE row = BuildConversationEventRow(meant[e])
    /\ k > 14 => EventLawful(13, row)

RowsAt(k, d) ==
    /\ \A s \in DOMAIN d.sessions : SessionAt(k, d.sessions[s], s)
    /\ \A q \in DOMAIN d.questions : QuestionAt(k, d.questions[q], q)
    /\ \A e \in DOMAIN d.events : EventAt(k, d.events[e], e)

\* The transaction stands before the k-th statement of the full script.
StandsAt(k) ==
    /\ k \in First(version) .. (Last(tx.target) + 1)
    /\ tx.todo = [i \in 1 .. (Last(tx.target) + 1 - k) |-> FullScript[k + i - 1]]
    /\ tx.done = {FullScript[i] : i \in First(version) .. (k - 1)}
    /\ RowsAt(k, tx.view)

MigrationInv ==
    /\ version \in 10..13
    /\ IsDb(db) /\ IsTx(tx) /\ tx.on \in BOOLEAN /\ (~tx.on => tx = Idle)
    /\ RowsAt(First(version), db)
    /\ RowsMeetSchema
    /\ tx.on =>
          /\ version < tx.target /\ tx.target \in 11..13
          /\ IsDb(tx.view)
          /\ \E k \in 1 .. 18 : StandsAt(k)
    /\ RefusedForAReason

-----------------------------------------------------------------------------
(* The stages of a deploy                                                  *)

StageInv ==
    /\ stage \in {"none", "migrate", "migrating", "seed", "seeding", "start", "check"}
    /\ backend \in {"old", "down", "new"}
    /\ (stage \in {"seed", "seeding", "start", "check"} \/ backend = "new") =>
          version = Latest /\ ~tx.on
    /\ stage = "migrate" => ~tx.on
    /\ Running <=> stage = "seeding"

-----------------------------------------------------------------------------
(* The seed                                                                *)

IsRow(r) == r = [key |-> r.key, title |-> r.title, of |-> r.of, values |-> r.values,
                 docs |-> r.docs, edited |-> r.edited]

IsTable(rows) == rows = [id \in DOMAIN rows |-> rows[id]]
IsSeed(s) == s = [step |-> s.step, at |-> s.at, row |-> s.row, parent |-> s.parent,
                  mine |-> s.mine, made |-> s.made]

\* Rows are numbered from 1; a key has one row; the row with the key of an item
\* comes before all rows of its title that have none.
Table(rows) ==
    /\ IsTable(rows)
    /\ Cardinality(DOMAIN rows) \in Nat /\ DOMAIN rows = 1..Cardinality(DOMAIN rows)
    /\ \A id \in DOMAIN rows :
          IsRow(rows[id]) /\ rows[id].key \in ItemKeys \cup {NoKey} /\ rows[id].edited \in BOOLEAN
    /\ \A id, other \in DOMAIN rows : rows[id].key # NoKey =>
          /\ rows[other].key = rows[id].key => other = id
          /\ (/\ rows[other].key = NoKey /\ rows[other].title = rows[id].key
              /\ rows[other].of = rows[id].of) => id < other

\* The row of an item is as filed, or edited.
AsFiled(row, item) ==
    row.edited \/ (row.values = "filed" /\ (item.of = NoKey \/ row.docs = "filed"))
ItemFiled(i, rows) ==
    \E id \in DOMAIN rows : rows[id].key = File[i].key /\ AsFiled(rows[id], File[i])

BaseFiled == \A name \in Once : base[name] \in {"initial", "staff"}

SeedShape ==
    /\ IsSeed(seed)
    /\ seed.step \in {"idle", "find", "match", "update", "docs", "replace", "config", "whatsapp", "commit"}
    /\ seed.at \in 1..Len(File)
    /\ seed.made \subseteq Once
    /\ ~Running => seed = Asleep

\* What the transaction has done so far, and where it is.
SeedProgress ==
    /\ Running => \A i \in 1..Len(File) :
          (i < seed.at \/ seed.step \in {"config", "whatsapp", "commit"}) => ItemFiled(i, View)
    /\ seed.step = "match" => \A id \in DOMAIN View : View[id].key # Item.key
    /\ seed.step \in {"update", "docs", "replace"} =>
          seed.row \in DOMAIN View /\ View[seed.row].key = Item.key
    /\ seed.step \in {"docs", "replace"} => View[seed.row].edited \/ View[seed.row].values = "filed"

\* What is created once is there, or will be with the COMMIT.
BaseInv ==
    /\ base \in [Once -> {"none", "initial", "staff", "plain"}]
    /\ \A name \in Once \ {"admin"} : base[name] # "plain"
    /\ base["schedule"] # "none" => base["ranges"] # "none" /\ base["documents"] # "none"
    /\ Running => ("admin" \in seed.made \/ base["admin"] \in {"initial", "staff"})
    /\ seed.step \in {"whatsapp", "commit"} =>
          \A name \in {"schedule", "ranges", "documents"} : name \in seed.made \/ base[name] # "none"
    /\ seed.step = "commit" => "whatsapp" \in seed.made \/ base["whatsapp"] # "none"

\* The rows the panel saved, in the table and in the transaction's view.
PanelRow(row, id) == row.edited /\ row.values = "panel" /\ (id \in raced \/ row.docs = "panel")
OwnedInv ==
    /\ owned \subseteq DOMAIN content
    /\ \A id \in owned : PanelRow(content[id], id) /\ PanelRow(View[id], id)
    /\ (seed.step \in {"update", "docs", "replace"} /\ seed.row \in owned) => seed.row \in raced

\* The seed has run, and nothing took away what it did.
FiledInv ==
    /\ (backend = "new" \/ stage \in {"start", "check"}) =>
          BaseFiled /\ \A i \in 1..Len(File) : ItemFiled(i, content)
    /\ backend = "new" => \A i \in 1..Len(File) : ItemFiled(i, View)

SeedCore == SeedShape /\ Table(content) /\ Table(View) /\ SeedProgress /\ BaseInv /\ OwnedInv
SeedInv  == SeedCore /\ FiledInv

DeploymentInv == MigrationInv /\ StageInv /\ SeedInv

-----------------------------------------------------------------------------
(* Lemmas about events and their keys                                      *)

\* The keys that rows of events may have, with the kind of their value.
LEMMA FieldKinds ==
    ASSUME NEW type \in EVENT_TYPES, NEW f \in EVENT_FIELDS[type]
    PROVE  /\ f = [name |-> f.name, kind |-> f.kind, at |-> f.at, inData |-> f.inData]
           /\ f.inData \in BOOLEAN
           /\ f.inData =>
                 /\ f.at \in DataKeys(type)
                 /\ \/ f.at = "llm" /\ f.kind = "llm"
                    \/ f.at = "reason" /\ f.kind = "reason"
                    \/ f.at = "step" /\ f.kind = "step"
                    \/ f.at \in {"resolved", "by_representative"} /\ f.kind = "boolean"
                    \/ f.at \in {"from", "to"} /\ f.kind = "datetime"
<1> DEFINE Known == {IdField("categoryId"), IdField("questionId"), IdField("appointmentId")}
<1>1. type \in {"STARTED", "CATEGORY_CHOSEN", "QUESTION_CHOSEN", "ANSWER_SENT", "RESOLVED_ANSWERED",
                "SCHEDULE_OFFERED", "NO_SLOT", "SCHEDULE_DECLINED", "ATTENDEE_CHOSEN",
                "PHONE_NOTICE_SHOWN", "APPOINTMENT_CREATED", "APPOINTMENT_CONSULTED",
                "APPOINTMENT_RESCHEDULED", "APPOINTMENT_CANCELED", "ABANDONED"}
  BY DEF EVENT_TYPES, EVENT_FIELDS
<1>2. /\ EVENT_FIELDS["ANSWER_SENT"] \subseteq Known \cup {DataField("llm", "llm", "llm")}
      /\ EVENT_FIELDS["RESOLVED_ANSWERED"] = {DataField("resolved", "boolean", "resolved")}
      /\ EVENT_FIELDS["SCHEDULE_OFFERED"] = {DataField("reason", "reason", "reason")}
      /\ EVENT_FIELDS["ATTENDEE_CHOSEN"] =
            {DataField("byRepresentative", "boolean", "by_representative")}
      /\ EVENT_FIELDS["APPOINTMENT_RESCHEDULED"] \subseteq
            Known \cup {DataField("from", "datetime", "from"), DataField("to", "datetime", "to")}
      /\ EVENT_FIELDS["ABANDONED"] = {DataField("step", "step", "step")}
  BY DEF EVENT_FIELDS
<1>3. \/ f \in Known
      \/ type = "ANSWER_SENT" /\ f = DataField("llm", "llm", "llm")
      \/ type = "RESOLVED_ANSWERED" /\ f = DataField("resolved", "boolean", "resolved")
      \/ type = "SCHEDULE_OFFERED" /\ f = DataField("reason", "reason", "reason")
      \/ type = "ATTENDEE_CHOSEN" /\ f = DataField("byRepresentative", "boolean", "by_representative")
      \/ type = "APPOINTMENT_RESCHEDULED" /\ f \in {DataField("from", "datetime", "from"),
                                                    DataField("to", "datetime", "to")}
      \/ type = "ABANDONED" /\ f = DataField("step", "step", "step")
  <2>1. CASE type \in {"STARTED", "CATEGORY_CHOSEN", "QUESTION_CHOSEN", "NO_SLOT", "SCHEDULE_DECLINED",
                       "PHONE_NOTICE_SHOWN", "APPOINTMENT_CREATED", "APPOINTMENT_CONSULTED",
                       "APPOINTMENT_CANCELED"}
    <3>1. EVENT_FIELDS[type] \subseteq Known
      BY <2>1 DEF EVENT_FIELDS
    <3> QED BY <3>1
  <2> HIDE DEF Known
  <2> QED BY <1>1, <1>2, <2>1
<1>4. CASE f \in Known
  <2>1. \/ f = [name |-> "categoryId", kind |-> "id", at |-> "categoryId", inData |-> FALSE]
        \/ f = [name |-> "questionId", kind |-> "id", at |-> "questionId", inData |-> FALSE]
        \/ f = [name |-> "appointmentId", kind |-> "id", at |-> "appointmentId", inData |-> FALSE]
    BY <1>4 DEF IdField
  <2>2. f.inData = FALSE
    BY <2>1
  <2>3. f = [name |-> f.name, kind |-> f.kind, at |-> f.at, inData |-> f.inData]
    BY <2>1
  <2> QED BY <2>2, <2>3
<1>5. CASE f \notin Known
  <2> HIDE DEF Known
  <2>1. \/ /\ type = "ANSWER_SENT"
           /\ f = [name |-> "llm", kind |-> "llm", at |-> "llm", inData |-> TRUE]
        \/ /\ type = "RESOLVED_ANSWERED"
           /\ f = [name |-> "resolved", kind |-> "boolean", at |-> "resolved", inData |-> TRUE]
        \/ /\ type = "SCHEDULE_OFFERED"
           /\ f = [name |-> "reason", kind |-> "reason", at |-> "reason", inData |-> TRUE]
        \/ /\ type = "ATTENDEE_CHOSEN"
           /\ f = [name |-> "byRepresentative", kind |-> "boolean", at |-> "by_representative",
                   inData |-> TRUE]
        \/ /\ type = "APPOINTMENT_RESCHEDULED"
           /\ f = [name |-> "from", kind |-> "datetime", at |-> "from", inData |-> TRUE]
        \/ /\ type = "APPOINTMENT_RESCHEDULED"
           /\ f = [name |-> "to", kind |-> "datetime", at |-> "to", inData |-> TRUE]
        \/ type = "ABANDONED" /\ f = [name |-> "step", kind |-> "step", at |-> "step", inData |-> TRUE]
    BY <1>3, <1>5 DEF DataField
  <2>2. f.inData = TRUE
    BY <2>1
  <2>3. f = [name |-> f.name, kind |-> f.kind, at |-> f.at, inData |-> f.inData]
    BY <2>1
  <2>4. /\ f.at \in DataKeys(type)
        /\ \/ f.at = "llm" /\ f.kind = "llm"
           \/ f.at = "reason" /\ f.kind = "reason"
           \/ f.at = "step" /\ f.kind = "step"
           \/ f.at \in {"resolved", "by_representative"} /\ f.kind = "boolean"
           \/ f.at \in {"from", "to"} /\ f.kind = "datetime"
    BY <2>1 DEF DataKeys
  <2> QED BY <2>2, <2>3, <2>4
<1> QED BY <1>4, <1>5

\* Renaming a key and back leaves the row, if the new key was not in use.
LEMMA KeyRestored ==
    ASSUME NEW row, NEW type, NEW old, NEW new, old # new,
           row = [type |-> row.type, columns |-> row.columns, data |-> row.data],
           row.data = [key \in DOMAIN row.data |-> row.data[key]],
           new \notin DOMAIN row.data
    PROVE  /\ RenameKey(RenameKey(row, type, old, new), type, new, old) = row
           /\ RenameKey(row, type, new, old) = row
<1> DEFINE changed == RenameKey(row, type, old, new)
<1>1. RenameKey(row, type, new, old) = row
  BY DEF RenameKey
<1>2. CASE row.type = type /\ old \in DOMAIN row.data
  <2> DEFINE keys  == (DOMAIN row.data \ {old}) \cup {new}
             data1 == [key \in keys |-> IF key = new THEN row.data[old] ELSE row.data[key]]
             back  == (keys \ {new}) \cup {old}
             data2 == [key \in back |-> IF key = old THEN data1[new] ELSE data1[key]]
  <2>1. changed = [row EXCEPT !.data = data1]
    BY <1>2 DEF RenameKey
  <2>2. changed = [type |-> row.type, columns |-> row.columns, data |-> data1]
    BY <2>1
  <2>3. changed.type = type /\ changed.data = data1 /\ DOMAIN changed.data = keys
    BY <2>2, <1>2
  <2>4. new \in DOMAIN changed.data /\ old \notin DOMAIN changed.data
    BY <2>3
  <2>5. RenameKey(changed, type, new, old) = [changed EXCEPT !.data = data2]
    <3> HIDE DEF changed, data1
    <3> QED BY <2>3, <2>4 DEF RenameKey
  <2>6. back = DOMAIN row.data
    BY <1>2
  <2>7. \A key \in back : data2[key] = row.data[key]
    BY <1>2
  <2>8. data2 = row.data
    <3> HIDE DEF back
    <3> data2 = [key \in back |-> data2[key]]
      OBVIOUS
    <3> HIDE DEF data2
    <3> QED BY <2>6, <2>7
  <2> HIDE DEF changed, data1, data2, back
  <2>9. [changed EXCEPT !.data = data2] = row
    BY <2>2, <2>8
  <2> QED BY <1>1, <2>5, <2>9 DEF changed
<1>3. CASE ~(row.type = type /\ old \in DOMAIN row.data)
  BY <1>1, <1>3 DEF RenameKey
<1> QED BY <1>2, <1>3

\* A valid field in data has a value, which is what its key asks for.
LEMMA FieldValue ==
    ASSUME NEW event, ValidConversationEvent(event),
           NEW f \in EVENT_FIELDS[event.type], f.inData
    PROVE  /\ f.name \in DOMAIN event.fields
           /\ IsValidValue(f.kind, event.fields[f.name])
<1>1. event.type \in EVENT_TYPES /\ IsValidValue(f.kind, ValueOf(event.fields, f.name))
  BY DEF ValidConversationEvent
<1>2. f.kind \in {"llm", "reason", "step", "boolean", "datetime"}
  BY <1>1, FieldKinds
<1>3. ~IsValidValue(f.kind, Missing)
  BY <1>2 DEF IsValidValue, Missing, IsOneOf
<1> QED BY <1>1, <1>3 DEF ValueOf

\* What the program builds for a valid event: a row that the checks of migration
\* 13 admit, without the keys of older programs.
LEMMA BuiltRow ==
    ASSUME NEW event, ValidConversationEvent(event),
           NEW built, built = BuildConversationEventRow(event)
    PROVE  /\ built = [type |-> built.type, columns |-> built.columns, data |-> built.data]
           /\ built.data = [key \in DOMAIN built.data |-> built.data[key]]
           /\ built.type = event.type
           /\ EventAdmitted(built)
<1> DEFINE fields == EVENT_FIELDS[event.type]
           inData == {f \in fields : f.inData /\ event.fields[f.name].kind \in {"string", "boolean"}}
           keys   == {f.at : f \in inData}
           data   == [key \in keys |-> event.fields[(CHOOSE f \in inData : f.at = key).name]]
           columns == [c \in Columns |-> IF \E f \in fields : ~f.inData /\ f.at = c
                                         THEN event.fields[c] ELSE Null]
<1>1. built = [type |-> event.type, columns |-> columns, data |-> data]
  BY Zenon DEF BuildConversationEventRow
<1>2. built.type = event.type /\ built.data = data /\ DOMAIN data = keys
  <2> HIDE DEF keys, columns
  <2>1. DOMAIN data = keys
    OBVIOUS
  <2> HIDE DEF data
  <2> QED BY <1>1, <2>1
<1>3. event.type \in EVENT_TYPES
  BY DEF ValidConversationEvent
<1>4. ASSUME NEW key \in keys
      PROVE  /\ key \in DataKeys(event.type)
             /\ \E f \in fields : f.inData /\ f.at = key /\ data[key] = event.fields[f.name]
  <2> DEFINE g == CHOOSE f \in inData : f.at = key
  <2>1. g \in inData /\ g.at = key
    <3> \E f \in inData : f.at = key
      BY <1>4
    <3> QED BY Zenon
  <2>2. data[key] = event.fields[g.name]
    BY <1>4
  <2> HIDE DEF g, data
  <2>3. g \in fields /\ g.inData
    BY <2>1
  <2> QED BY <2>1, <2>2, <2>3, <1>3, FieldKinds
<1>5. ASSUME NEW key \in keys
      PROVE  LET value == data[key]
             IN  CASE key = "llm"    -> IsOneOf(LLM_STATUSES, value)
                   [] key = "reason" -> IsOneOf(SCHEDULE_OFFER_REASONS, value)
                   [] key = "step"   -> IsOneOf(ABANDONED_STEPS, value)
                   [] key \in {"resolved", "by_representative"} -> value.kind = "boolean"
                   [] key \in {"from", "to"} -> IsOneOf(ISO_DATETIME, value)
                   [] OTHER -> TRUE
  <2>1. PICK f \in fields : f.inData /\ f.at = key /\ data[key] = event.fields[f.name]
    BY <1>4, <1>5
  <2>2. IsValidValue(f.kind, data[key])
    BY <2>1, FieldValue
  <2> HIDE DEF data
  <2>3. \/ key = "llm" /\ f.kind = "llm"
        \/ key = "reason" /\ f.kind = "reason"
        \/ key = "step" /\ f.kind = "step"
        \/ key \in {"resolved", "by_representative"} /\ f.kind = "boolean"
        \/ key \in {"from", "to"} /\ f.kind = "datetime"
    BY <2>1, <1>3, FieldKinds
  <2> QED BY <2>2, <2>3 DEF IsValidValue, IsOneOf, ISO_DATETIME
<1> HIDE DEF data, keys
<1>6. EventAdmitted(built)
  BY <1>2, <1>4, <1>5 DEF EventAdmitted, DataKeysHold, DataValuesHold
<1>7. data = [key \in DOMAIN data |-> data[key]]
  BY DEF data
<1> QED BY <1>1, <1>2, <1>6, <1>7

\* Migration 13 gives the events of older programs the keys they have today, and
\* leaves alone those that have them.
LEMMA KeysRenamed ==
    ASSUME NEW event, ValidConversationEvent(event), NEW row
    PROVE  /\ Written(row, event) => HalfRenamed(LlmRenamed(row), event)
           /\ HalfRenamed(row, event) => AttendeeRenamed(row) = BuildConversationEventRow(event)
<1> DEFINE built == BuildConversationEventRow(event)
           attendee(r) == RenameKey(r, "ATTENDEE_CHOSEN", "by_representative", "byRepresentative")
           llm(r)      == RenameKey(r, "ANSWER_SENT", "llm", "llmStatus")
<1>1. /\ built = [type |-> built.type, columns |-> built.columns, data |-> built.data]
      /\ built.data = [key \in DOMAIN built.data |-> built.data[key]]
      /\ DOMAIN built.data \subseteq DataKeys(built.type)
  BY BuiltRow DEF EventAdmitted, DataKeysHold
<1>2. "llmStatus" \notin DOMAIN built.data /\ "byRepresentative" \notin DOMAIN built.data
  BY <1>1 DEF DataKeys
<1> HIDE DEF built
<1>3. Written(row, event) => row \in {built, OldKeys(built)}
  BY DEF Written, built
<1>4. HalfRenamed(row, event) <=> row \in {LlmRenamed(built), LlmRenamed(OldKeys(built))}
  BY DEF HalfRenamed, built
<1>5. OldKeys(built) = attendee(llm(built))
  BY DEF OldKeys
<1>6. LlmRenamed(built) = built /\ LlmRenamed(llm(built)) = built
  BY <1>1, <1>2, KeyRestored DEF LlmRenamed
<1>7. AttendeeRenamed(built) = built /\ AttendeeRenamed(attendee(built)) = built
  BY <1>1, <1>2, KeyRestored DEF AttendeeRenamed
<1>8. CASE built.type = "ATTENDEE_CHOSEN"
  <2>1. llm(built) = built
    BY <1>8 DEF RenameKey
  <2>2. attendee(built).type = "ATTENDEE_CHOSEN"
    BY <1>8, <1>1 DEF RenameKey
  <2>3. LlmRenamed(attendee(built)) = attendee(built)
    BY <2>2 DEF LlmRenamed, RenameKey
  <2> QED BY <2>1, <2>3, <1>3, <1>4, <1>5, <1>6, <1>7 DEF HalfRenamed, built
<1>9. CASE built.type # "ATTENDEE_CHOSEN"
  <2>1. llm(built).type = built.type
    BY <1>1 DEF RenameKey
  <2>2. attendee(llm(built)) = llm(built)
    BY <1>9, <2>1 DEF RenameKey
  <2> QED BY <2>2, <1>3, <1>4, <1>5, <1>6, <1>7 DEF HalfRenamed, built
<1> QED BY <1>8, <1>9 DEF built

-----------------------------------------------------------------------------
(* Lemmas about the rows and the statements                                *)

TypeAt == version \in 10..13

\* A transaction runs statements from 1, from 9 or from 11 on.
Runs(k) == version = 10 \/ (version = 11 /\ k >= 9) \/ (version = 12 /\ k >= 11)

\* What a row may be that is written now: fit for every point of a transaction at
\* which its table is not locked.
SessionFits(row, s) ==
    /\ row \in SessionRows /\ SessionLawful(version, row)
    /\ s \notin odd =>
          /\ s \in DOMAIN stood
          /\ IF version = 10 THEN Kept10(row, stood[s]) ELSE Kept11(row, stood[s])
QuestionFits(row, q) ==
    /\ row \in QuestionRows /\ QuestionLawful(version, row)
    /\ q \notin odd => IF version = 10 THEN Filed10(row) ELSE Filed11(row)
EventFits(row, e) ==
    /\ version >= 11 /\ EventLawful(version, row)
    /\ e \notin odd => e \in DOMAIN meant /\ meant[e] \in Recorded /\ Written(row, meant[e])

\* What the schema asks of the tables, row by row.
LEMMA RowsLawful ==
    RowsMeetSchema <=>
        /\ \A s \in DOMAIN db.sessions : SessionLawful(version, db.sessions[s])
        /\ \A e \in DOMAIN db.events : EventLawful(version, db.events[e])
        /\ \A q \in DOMAIN db.questions : QuestionLawful(version, db.questions[q])
BY DEF RowsMeetSchema, Unlawful

\* The statements of the three migrations, by their place.
LEMMA FullScriptAt ==
    /\ FullScript[1] = "addContentColumns" /\ FullScript[2] = "fillContent"
    /\ FullScript[3] = "checkContent" /\ FullScript[4] = "newSteps"
    /\ FullScript[5] = "fillOutcome" /\ FullScript[6] = "checkOutcomes"
    /\ FullScript[7] = "guardAppointments" /\ FullScript[8] = "recreateTables"
    /\ FullScript[9] = "trimTexts" /\ FullScript[10] = "checkTexts"
    /\ FullScript[11] = "renameLlm" /\ FullScript[12] = "renameAttendee"
    /\ FullScript[13] = "checkEvents" /\ FullScript[14] = "validateEvents"
    /\ FullScript[15] = "closeSteps" /\ FullScript[16] = "checkSessionSteps"
    /\ FullScript[17] = "validateSessions"
BY DEF FullScript

\* Where nothing touches a table, its rows are after a statement what they were
\* before it.
LEMMA SessionRests ==
    ASSUME TypeAt, NEW k \in 1..17, Runs(k), k \notin {5, 6, 15, 17}, NEW row, NEW s, SessionAt(k, row, s)
    PROVE  SessionAt(k + 1, row, s)
BY DEF TypeAt, Runs, SessionAt

\* So does a question, but for the checks of the texts.
LEMMA QuestionRests ==
    ASSUME TypeAt, NEW k \in 1..17, Runs(k), k \notin {2, 3, 9, 10}, NEW row, NEW q, QuestionAt(k, row, q)
    PROVE  QuestionAt(k + 1, row, q)
BY DEF TypeAt, Runs, QuestionAt

\* So does an event, but where a key is renamed or checked.
LEMMA EventRests ==
    ASSUME TypeAt, NEW k \in 1..17, Runs(k), k \notin {11, 12, 14}, NEW row, NEW e, EventAt(k, row, e)
    PROVE  EventAt(k + 1, row, e)
BY DEF TypeAt, Runs, EventAt

\* The rows a migration cannot refuse: none of those the programs wrote.
LEMMA KeptIsLawful ==
    ASSUME NEW row, NEW st, Kept11(row, st)
    PROVE  /\ SessionLawful(11, row)
           /\ (row.status # "IN_PROGRESS" => row.step = "FINISHED") => SessionLawful(13, row)
BY DEF Kept11, StatusOf, SessionLawful, Outcomes, NoneSet, ABANDONED_STEPS

\* A question as programs file it passes the checks of its version.
LEMMA FiledIsLawful ==
    ASSUME NEW row, Filed11(row)
    PROVE  QuestionLawful(11, row) /\ (Filed12(row) => QuestionLawful(12, row))
BY DEF Filed12, Filed11, Filed10, QuestionLawful

\* What the k-th statement makes of a row.
SessionAfter(k, s) ==
    IF k = 5
    THEN [s EXCEPT !.outcome = CASE s.status = "FINISHED"  -> "RESOLVED"
                                 [] s.status = "ABANDONED" -> "ABANDONED"
                                 [] OTHER                  -> "IN_PROGRESS",
                   !.abandonedAt = IF s.status = "ABANDONED" THEN s.step ELSE NoneSet]
    ELSE IF k = 15 /\ s.status # "IN_PROGRESS" THEN [s EXCEPT !.step = "FINISHED"]
    ELSE s

QuestionAfter(k, q) ==
    IF k = 2
    THEN [q EXCEPT !.short = IF q.title = "blankStart" THEN "blank" ELSE "trimmed",
                   !.llm = ~q.outOfScope]
    ELSE IF k = 9 THEN [q EXCEPT !.short = IF @ = "padded" THEN "trimmed" ELSE @]
    ELSE q

EventAfter(k, e) == IF k = 11 THEN LlmRenamed(e) ELSE IF k = 12 THEN AttendeeRenamed(e) ELSE e

StatementDone(k, d, after) ==
    /\ IsDb(after)
    /\ DOMAIN after.sessions = DOMAIN d.sessions
    /\ \A s \in DOMAIN d.sessions : after.sessions[s] = SessionAfter(k, d.sessions[s])
    /\ DOMAIN after.questions = DOMAIN d.questions
    /\ \A q \in DOMAIN d.questions : after.questions[q] = QuestionAfter(k, d.questions[q])
    /\ DOMAIN after.events = IF k = 8 THEN {} ELSE DOMAIN d.events
    /\ k # 8 => \A e \in DOMAIN d.events : after.events[e] = EventAfter(k, d.events[e])

\* Which statements touch no session, no question, no event.
LEMMA RowsAfter ==
    ASSUME NEW k \in 1..17, NEW row
    PROVE  /\ k \notin {5, 15} => SessionAfter(k, row) = row
           /\ k \notin {2, 9} => QuestionAfter(k, row) = row
           /\ k \notin {11, 12} => EventAfter(k, row) = row
BY DEF SessionAfter, QuestionAfter, EventAfter

\* A statement changes each row by the function for its place.
LEMMA StatementRows ==
    ASSUME NEW k \in 1..17, NEW d, IsDb(d)
    PROVE  StatementDone(k, d, Statement(FullScript[k], d))
<1> DEFINE after == Statement(FullScript[k], d)
<1> SUFFICES StatementDone(k, d, after)
  OBVIOUS
<1>1. CASE k = 2
  <2> DEFINE F(q) == [q EXCEPT !.short = IF q.title = "blankStart" THEN "blank" ELSE "trimmed",
                               !.llm = ~q.outOfScope]
  <2>1. after = [d EXCEPT !.questions = MapRows(d.questions, F)]
    BY <1>1, FullScriptAt DEF Statement, FillContent
  <2>2. /\ IsDb(after) /\ after.sessions = d.sessions /\ after.events = d.events
        /\ after.questions = MapRows(d.questions, F)
    BY <2>1 DEF IsDb
  <2>3. /\ DOMAIN after.questions = DOMAIN d.questions
        /\ \A q \in DOMAIN d.questions : after.questions[q] = F(d.questions[q])
    BY <2>2 DEF MapRows
  <2>4. \A q : F(q) = QuestionAfter(k, q)
    BY <1>1 DEF QuestionAfter
  <2>5. \A q \in DOMAIN d.questions : after.questions[q] = QuestionAfter(k, d.questions[q])
    BY <2>3, <2>4
  <2> HIDE DEF after, F
  <2> QED BY <2>2, <2>3, <2>5, <1>1, RowsAfter DEF StatementDone
<1>2. CASE k = 9
  <2> DEFINE F(q) == [q EXCEPT !.short = IF @ = "padded" THEN "trimmed" ELSE @]
  <2>1. after = [d EXCEPT !.questions = MapRows(d.questions, F)]
    BY <1>2, FullScriptAt DEF Statement, TrimTexts
  <2>2. /\ IsDb(after) /\ after.sessions = d.sessions /\ after.events = d.events
        /\ after.questions = MapRows(d.questions, F)
    BY <2>1 DEF IsDb
  <2>3. /\ DOMAIN after.questions = DOMAIN d.questions
        /\ \A q \in DOMAIN d.questions : after.questions[q] = F(d.questions[q])
    BY <2>2 DEF MapRows
  <2>4. \A q : F(q) = QuestionAfter(k, q)
    BY <1>2 DEF QuestionAfter
  <2>5. \A q \in DOMAIN d.questions : after.questions[q] = QuestionAfter(k, d.questions[q])
    BY <2>3, <2>4
  <2> HIDE DEF after, F
  <2> QED BY <2>2, <2>3, <2>5, <1>2, RowsAfter DEF StatementDone
<1>3. CASE k = 5
  <2> DEFINE F(s) == [s EXCEPT !.outcome = CASE s.status = "FINISHED"  -> "RESOLVED"
                                            [] s.status = "ABANDONED" -> "ABANDONED"
                                            [] OTHER                  -> "IN_PROGRESS",
                              !.abandonedAt = IF s.status = "ABANDONED" THEN s.step ELSE NoneSet]
  <2>1. after = [d EXCEPT !.sessions = MapRows(d.sessions, F)]
    BY <1>3, FullScriptAt DEF Statement, FillOutcome
  <2>2. /\ IsDb(after) /\ after.questions = d.questions /\ after.events = d.events
        /\ after.sessions = MapRows(d.sessions, F)
    BY <2>1 DEF IsDb
  <2>3. /\ DOMAIN after.sessions = DOMAIN d.sessions
        /\ \A s \in DOMAIN d.sessions : after.sessions[s] = F(d.sessions[s])
    BY <2>2 DEF MapRows
  <2>4. \A s : F(s) = SessionAfter(k, s)
    BY <1>3 DEF SessionAfter
  <2>5. \A s \in DOMAIN d.sessions : after.sessions[s] = SessionAfter(k, d.sessions[s])
    BY <2>3, <2>4
  <2> HIDE DEF after, F
  <2> QED BY <2>2, <2>3, <2>5, <1>3, RowsAfter DEF StatementDone
<1>4. CASE k = 15
  <2> DEFINE F(s) == IF s.status # "IN_PROGRESS" THEN [s EXCEPT !.step = "FINISHED"] ELSE s
  <2>1. after = [d EXCEPT !.sessions = MapRows(d.sessions, F)]
    BY <1>4, FullScriptAt DEF Statement, CloseSteps
  <2>2. /\ IsDb(after) /\ after.questions = d.questions /\ after.events = d.events
        /\ after.sessions = MapRows(d.sessions, F)
    BY <2>1 DEF IsDb
  <2>3. /\ DOMAIN after.sessions = DOMAIN d.sessions
        /\ \A s \in DOMAIN d.sessions : after.sessions[s] = F(d.sessions[s])
    BY <2>2 DEF MapRows
  <2>4. \A s : F(s) = SessionAfter(k, s)
    BY <1>4 DEF SessionAfter
  <2>5. \A s \in DOMAIN d.sessions : after.sessions[s] = SessionAfter(k, d.sessions[s])
    BY <2>3, <2>4
  <2> HIDE DEF after, F
  <2> QED BY <2>2, <2>3, <2>5, <1>4, RowsAfter DEF StatementDone
<1>5. CASE k = 11
  <2>1. after = [d EXCEPT !.events = MapRows(d.events, LlmRenamed)]
    BY <1>5, FullScriptAt DEF Statement, RenameLlm, LlmRenamed, MapRows
  <2>2. /\ IsDb(after) /\ after.questions = d.questions /\ after.sessions = d.sessions
        /\ after.events = MapRows(d.events, LlmRenamed)
    BY <2>1 DEF IsDb
  <2>3. /\ DOMAIN after.events = DOMAIN d.events
        /\ \A e \in DOMAIN d.events : after.events[e] = LlmRenamed(d.events[e])
    BY <2>2 DEF MapRows
  <2>4. \A e \in DOMAIN d.events : after.events[e] = EventAfter(k, d.events[e])
    BY <2>3, <1>5 DEF EventAfter
  <2> HIDE DEF after
  <2> QED BY <2>2, <2>3, <2>4, <1>5, RowsAfter DEF StatementDone
<1>6. CASE k = 12
  <2>1. after = [d EXCEPT !.events = MapRows(d.events, AttendeeRenamed)]
    BY <1>6, FullScriptAt DEF Statement, RenameAttendee, AttendeeRenamed, MapRows
  <2>2. /\ IsDb(after) /\ after.questions = d.questions /\ after.sessions = d.sessions
        /\ after.events = MapRows(d.events, AttendeeRenamed)
    BY <2>1 DEF IsDb
  <2>3. /\ DOMAIN after.events = DOMAIN d.events
        /\ \A e \in DOMAIN d.events : after.events[e] = AttendeeRenamed(d.events[e])
    BY <2>2 DEF MapRows
  <2>4. \A e \in DOMAIN d.events : after.events[e] = EventAfter(k, d.events[e])
    BY <2>3, <1>6 DEF EventAfter
  <2> HIDE DEF after
  <2> QED BY <2>2, <2>3, <2>4, <1>6, RowsAfter DEF StatementDone
<1>7. CASE k = 8
  <2>1. after = [d EXCEPT !.events = <<>>, !.appointments = FALSE]
    BY <1>7, FullScriptAt DEF Statement
  <2>2. /\ IsDb(after) /\ after.questions = d.questions /\ after.sessions = d.sessions
        /\ after.events = <<>>
    BY <2>1 DEF IsDb
  <2>3. DOMAIN after.events = {}
    BY <2>2
  <2> HIDE DEF after
  <2> QED BY <2>2, <2>3, <1>7, RowsAfter DEF StatementDone
<1>8. CASE k \notin {2, 5, 8, 9, 11, 12, 15}
  <2>1. k \in {1, 3, 4, 6, 7, 10, 13, 14, 16, 17}
    BY <1>8
  <2>2. after = d
    BY <2>1, FullScriptAt DEF Statement
  <2> HIDE DEF after
  <2> QED BY <2>1, <2>2, RowsAfter DEF StatementDone
<1> QED BY <1>1, <1>2, <1>3, <1>4, <1>5, <1>6, <1>7, <1>8

\* A row that stood before a statement stands after it, as the statement left it.
LEMMA SessionStep ==
    ASSUME TypeAt, NEW k \in 1..17, Runs(k), NEW row, NEW s, SessionAt(k, row, s),
           k = 6 => SessionLawful(11, row),
           k = 17 => SessionLawful(13, row)
    PROVE  SessionAt(k + 1, SessionAfter(k, row), s)
<1> DEFINE after == SessionAfter(k, row)
<1>0. /\ row = [status |-> row.status, step |-> row.step, outcome |-> row.outcome,
               abandonedAt |-> row.abandonedAt]
      /\ row.status \in {"IN_PROGRESS", "FINISHED", "ABANDONED"} /\ row.step \in Steps
      /\ row.outcome \in Outcomes \cup {NoneSet} /\ row.abandonedAt \in Steps \cup {NoneSet}
  BY DEF SessionAt, SessionRows
<1>1. CASE k \notin {5, 6, 15, 17}
  BY <1>1, SessionRests, RowsAfter
<1>2. CASE k \in {6, 17}
  <2>1. after = row
    BY <1>2, RowsAfter
  <2> QED BY <2>1, <1>2 DEF SessionAt, TypeAt, Runs
<1>3. CASE k = 5
  <2>1. version = 10
    BY <1>3 DEF Runs
  <2>2. /\ after.status = row.status /\ after.step = row.step
        /\ after.outcome = IF row.status = "FINISHED" THEN "RESOLVED" ELSE row.status
        /\ after.abandonedAt = IF row.status = "ABANDONED" THEN row.step ELSE NoneSet
        /\ after \in SessionRows
    BY <1>3, <1>0 DEF SessionAfter, SessionRows, Outcomes
  <2>3. s \notin odd => s \in DOMAIN stood /\ Kept10(row, stood[s])
    BY <1>3, <2>1 DEF SessionAt
  <2> HIDE DEF after
  <2>4. s \notin odd => Kept11(after, stood[s])
    BY <2>2, <2>3 DEF Kept10, Kept11, StatusOf, Outcomes
  <2> QED BY <1>3, <2>1, <2>2, <2>3, <2>4 DEF SessionAt, after
<1>4. CASE k = 15
  <2>1. version \in 10..12
    BY DEF Runs
  <2>2. /\ after.status = row.status /\ after.outcome = row.outcome
        /\ after.abandonedAt = row.abandonedAt
        /\ after.step = IF row.status # "IN_PROGRESS" THEN "FINISHED" ELSE row.step
        /\ after \in SessionRows
    BY <1>4, <1>0 DEF SessionAfter, SessionRows, Steps
  <2>3. /\ SessionLawful(11, row)
        /\ s \notin odd => s \in DOMAIN stood /\ Kept11(row, stood[s])
    BY <1>4 DEF SessionAt
  <2> HIDE DEF after
  <2>4. s \notin odd => Kept11(after, stood[s])
    BY <2>2, <2>3 DEF Kept11, StatusOf
  <2>5. SessionLawful(11, after)
    BY <2>2, <2>3 DEF SessionLawful
  <2> QED BY <1>4, <2>1, <2>2, <2>3, <2>4, <2>5 DEF SessionAt, after
<1> QED BY <1>1, <1>2, <1>3, <1>4

\* The same of a question.
LEMMA QuestionStep ==
    ASSUME TypeAt, NEW k \in 1..17, Runs(k), NEW row, NEW q, QuestionAt(k, row, q),
           k = 3 => QuestionLawful(11, row),
           k = 10 => QuestionLawful(12, row)
    PROVE  QuestionAt(k + 1, QuestionAfter(k, row), q)
<1> DEFINE after == QuestionAfter(k, row)
<1>0. /\ row = [title |-> row.title, short |-> row.short, inPerson |-> row.inPerson,
               outOfScope |-> row.outOfScope, llm |-> row.llm]
      /\ row.title \in {"fits", "blankStart"}
      /\ row.short \in {NoneSet, "trimmed", "padded", "blank"}
      /\ row.inPerson \in BOOLEAN /\ row.outOfScope \in BOOLEAN /\ row.llm \in BOOLEAN
  BY DEF QuestionAt, QuestionRows
<1>1. CASE k \notin {2, 3, 9, 10}
  BY <1>1, QuestionRests, RowsAfter
<1>2. CASE k \in {3, 10}
  <2>1. after = row
    BY <1>2, RowsAfter
  <2> QED BY <2>1, <1>2 DEF QuestionAt, TypeAt, Runs, QuestionLawful
<1>3. CASE k = 2
  <2>1. version = 10
    BY <1>3 DEF Runs
  <2>2. /\ after.title = row.title /\ after.inPerson = row.inPerson
        /\ after.outOfScope = row.outOfScope /\ after.llm = ~row.outOfScope
        /\ after.short = IF row.title = "blankStart" THEN "blank" ELSE "trimmed"
        /\ after \in QuestionRows
    BY <1>3, <1>0 DEF QuestionAfter, QuestionRows
  <2>3. q \notin odd => Filed10(row)
    BY <1>3, <2>1 DEF QuestionAt
  <2> HIDE DEF after
  <2>4. q \notin odd => Filed11(after)
    BY <2>2, <2>3, <1>0 DEF Filed10, Filed11
  <2> QED BY <1>3, <2>1, <2>2, <2>3, <2>4 DEF QuestionAt, after
<1>4. CASE k = 9
  <2>1. version \in {10, 11}
    BY <1>4 DEF Runs
  <2>2. /\ after.title = row.title /\ after.inPerson = row.inPerson
        /\ after.outOfScope = row.outOfScope /\ after.llm = row.llm
        /\ after.short = IF row.short = "padded" THEN "trimmed" ELSE row.short
        /\ after \in QuestionRows
    BY <1>4, <1>0 DEF QuestionAfter, QuestionRows
  <2>3. /\ q \notin odd => Filed11(row)
        /\ QuestionLawful(11, row)
    BY <1>4, <2>1 DEF QuestionAt
  <2> HIDE DEF after
  <2>4. q \notin odd => Filed12(after)
    BY <2>2, <2>3 DEF Filed10, Filed11, Filed12
  <2>5. QuestionLawful(11, after)
    BY <2>2, <2>3 DEF QuestionLawful
  <2> QED BY <1>4, <2>1, <2>2, <2>4, <2>5 DEF QuestionAt, after
<1> QED BY <1>1, <1>2, <1>3, <1>4

\* The same of an event.
LEMMA EventStep ==
    ASSUME TypeAt, NEW k \in 1..17, Runs(k), NEW row, NEW e, EventAt(k, row, e),
           k = 14 => EventLawful(13, row)
    PROVE  EventAt(k + 1, EventAfter(k, row), e)
<1>1. CASE k \notin {11, 12, 14}
  BY <1>1, EventRests, RowsAfter
<1>2. CASE k = 14
  <2>1. EventAfter(k, row) = row
    BY <1>2, RowsAfter
  <2> QED BY <2>1, <1>2 DEF EventAt, TypeAt, Runs
<1>3. CASE k = 11
  <2>1. EventAfter(k, row) = LlmRenamed(row)
    BY <1>3 DEF EventAfter
  <2>2. e \notin odd => /\ e \in DOMAIN meant /\ meant[e] \in Recorded
                        /\ Written(row, meant[e]) /\ ValidConversationEvent(meant[e])
    BY <1>3, MigrationAssumption DEF EventAt
  <2>3. e \notin odd => HalfRenamed(LlmRenamed(row), meant[e])
    BY <2>2, KeysRenamed
  <2> QED BY <1>3, <2>1, <2>2, <2>3 DEF EventAt
<1>4. CASE k = 12
  <2>1. EventAfter(k, row) = AttendeeRenamed(row)
    BY <1>4 DEF EventAfter
  <2>2. e \notin odd => /\ e \in DOMAIN meant /\ meant[e] \in Recorded
                        /\ HalfRenamed(row, meant[e]) /\ ValidConversationEvent(meant[e])
    BY <1>4, MigrationAssumption DEF EventAt
  <2>3. e \notin odd => AttendeeRenamed(row) = BuildConversationEventRow(meant[e])
    BY <2>2, KeysRenamed
  <2> QED BY <1>4, <2>1, <2>2, <2>3 DEF EventAt
<1> QED BY <1>1, <1>2, <1>3, <1>4

\* The statements that check, and the rows that each would refuse.
LEMMA OffendersAt ==
    ASSUME NEW k \in 1..17, NEW d
    PROVE  Offenders(FullScript[k], d) =
              CASE k = 3  -> {q \in DOMAIN d.questions : ~QuestionLawful(11, d.questions[q])}
                [] k = 10 -> {q \in DOMAIN d.questions : ~QuestionLawful(12, d.questions[q])}
                [] k = 6  -> {s \in DOMAIN d.sessions : ~SessionLawful(11, d.sessions[s])}
                [] k = 7  -> IF d.appointments THEN {"appointments"} ELSE {}
                [] k = 14 -> {e \in DOMAIN d.events : ~EventLawful(13, d.events[e])}
                [] k = 17 -> {s \in DOMAIN d.sessions : ~SessionLawful(13, d.sessions[s])}
                [] OTHER  -> {}
<1>1. CASE k \in {3, 10}
  BY <1>1, FullScriptAt DEF Offenders, Unlawful
<1>2. CASE k \in {6, 17}
  BY <1>2, FullScriptAt DEF Offenders, Unlawful
<1>3. CASE k \in {7, 14}
  BY <1>3, FullScriptAt DEF Offenders, Unlawful
<1>4. CASE k \in {1, 2, 4, 5, 8, 9, 11, 12, 13, 15, 16}
  BY <1>4, FullScriptAt DEF Offenders
<1> QED BY <1>1, <1>2, <1>3, <1>4

\* A statement that does not fail leaves every row as the next one expects it.
LEMMA StatementKeeps ==
    ASSUME TypeAt, NEW k \in 1..17, Runs(k),
           NEW d, IsDb(d), RowsAt(k, d), Offenders(FullScript[k], d) = {}
    PROVE  /\ IsDb(Statement(FullScript[k], d))
           /\ RowsAt(k + 1, Statement(FullScript[k], d))
<1> DEFINE after == Statement(FullScript[k], d)
<1>1. StatementDone(k, d, after)
  BY StatementRows
<1> HIDE DEF after
<1>2. ASSUME NEW s \in DOMAIN after.sessions PROVE SessionAt(k + 1, after.sessions[s], s)
  <2>1. s \in DOMAIN d.sessions /\ after.sessions[s] = SessionAfter(k, d.sessions[s])
    BY <1>1, <1>2 DEF StatementDone
  <2>2. SessionAt(k, d.sessions[s], s)
    BY <2>1 DEF RowsAt
  <2>3. k = 6 => SessionLawful(11, d.sessions[s])
    BY <2>1, OffendersAt
  <2>4. k = 17 => SessionLawful(13, d.sessions[s])
    BY <2>1, OffendersAt
  <2> QED BY <2>1, <2>2, <2>3, <2>4, SessionStep
<1>3. ASSUME NEW q \in DOMAIN after.questions PROVE QuestionAt(k + 1, after.questions[q], q)
  <2>1. q \in DOMAIN d.questions /\ after.questions[q] = QuestionAfter(k, d.questions[q])
    BY <1>1, <1>3 DEF StatementDone
  <2>2. QuestionAt(k, d.questions[q], q)
    BY <2>1 DEF RowsAt
  <2>3. /\ k = 3 => QuestionLawful(11, d.questions[q])
        /\ k = 10 => QuestionLawful(12, d.questions[q])
    BY <2>1, OffendersAt
  <2> QED BY <2>1, <2>2, <2>3, QuestionStep
<1>4. ASSUME NEW e \in DOMAIN after.events PROVE EventAt(k + 1, after.events[e], e)
  <2>1. e \in DOMAIN d.events /\ after.events[e] = EventAfter(k, d.events[e])
    BY <1>1, <1>4 DEF StatementDone
  <2>2. EventAt(k, d.events[e], e)
    BY <2>1 DEF RowsAt
  <2>3. k = 14 => EventLawful(13, d.events[e])
    BY <2>1, OffendersAt
  <2> QED BY <2>1, <2>2, <2>3, EventStep
<1> QED BY <1>1, <1>2, <1>3, <1>4 DEF StatementDone, RowsAt, after

\* A statement fails for no row that a program wrote in time.
LEMMA StatementRefuses ==
    ASSUME TypeAt, NEW k \in 1..17, Runs(k), NEW d, RowsAt(k, d)
    PROVE  Offenders(FullScript[k], d) \subseteq odd \cup {"appointments"}
<1>1. CASE k \in {3, 10}
  <2>1. ASSUME NEW q \in DOMAIN d.questions, q \notin odd
        PROVE  QuestionLawful(11, d.questions[q]) /\ (k = 10 => QuestionLawful(12, d.questions[q]))
    <3>1. Filed11(d.questions[q]) /\ (k = 10 => Filed12(d.questions[q]))
      BY <1>1, <2>1 DEF RowsAt, QuestionAt, Filed12
    <3> QED BY <3>1, FiledIsLawful
  <2> QED BY <1>1, <2>1, OffendersAt
<1>2. CASE k \in {6, 17}
  <2>1. ASSUME NEW s \in DOMAIN d.sessions, s \notin odd
        PROVE  SessionLawful(IF k = 6 THEN 11 ELSE 13, d.sessions[s])
    <3>1. /\ Kept11(d.sessions[s], stood[s])
          /\ k = 17 => (d.sessions[s].status # "IN_PROGRESS" => d.sessions[s].step = "FINISHED")
      BY <1>2, <2>1 DEF RowsAt, SessionAt
    <3> QED BY <1>2, <3>1, KeptIsLawful
  <2> QED BY <1>2, <2>1, OffendersAt
<1>3. CASE k = 14
  <2>1. ASSUME NEW e \in DOMAIN d.events, e \notin odd
        PROVE  EventLawful(13, d.events[e])
    <3>1. meant[e] \in Recorded /\ d.events[e] = BuildConversationEventRow(meant[e])
      BY <1>3, <2>1 DEF RowsAt, EventAt
    <3>2. ValidConversationEvent(meant[e])
      BY <3>1, MigrationAssumption
    <3> QED BY <3>1, <3>2, BuiltRow DEF EventLawful
  <2> QED BY <1>3, <2>1, OffendersAt
<1>4. CASE k \notin {3, 6, 10, 14, 17}
  BY <1>4, OffendersAt
<1> QED BY <1>1, <1>2, <1>3, <1>4

-----------------------------------------------------------------------------
(* The runner                                                              *)

\* What a transaction that begins has to do is its section of the full script.
LEMMA SectionOfScript ==
    ASSUME TypeAt, NEW to \in 11..13, version < to
    PROVE  ScriptsTo(to) = [i \in 1 .. (Last(to) + 1 - First(version)) |-> FullScript[First(version) + i - 1]]
<1>1. CASE version = 10 /\ to = 11
  BY <1>1 DEF ScriptsTo, Pending, Script, First, Last, FullScript
<1>2. CASE version = 10 /\ to = 12
  BY <1>2 DEF ScriptsTo, Pending, Script, First, Last, FullScript
<1>3. CASE version = 10 /\ to = 13
  BY <1>3 DEF ScriptsTo, Pending, Script, First, Last, FullScript
<1>4. CASE version = 11 /\ to = 12
  BY <1>4 DEF ScriptsTo, Pending, Script, First, Last, FullScript
<1>5. CASE version = 11 /\ to = 13
  BY <1>5 DEF ScriptsTo, Pending, Script, First, Last, FullScript
<1>6. CASE version = 12 /\ to = 13
  BY <1>6 DEF ScriptsTo, Pending, Script, First, Last, FullScript
<1> QED BY <1>1, <1>2, <1>3, <1>4, <1>5, <1>6 DEF TypeAt

\* What is said of rows depends on these variables alone.
LEMMA RowsUnchanged ==
    ASSUME NEW k, NEW d, UNCHANGED <<version, meant, stood, odd>>
    PROVE  RowsAt(k, d)' <=> RowsAt(k, d)
BY DEF RowsAt, SessionAt, QuestionAt, EventAt

\* The committed rows are as before when nobody writes.
LEMMA CommittedUnchanged ==
    ASSUME MigrationInv, UNCHANGED <<version, db, meant, stood, odd>>
    PROVE  (TypeAt /\ IsDb(db) /\ RowsAt(First(version), db) /\ RowsMeetSchema)'
<1>1. RowsAt(First(version), db)'
  BY RowsUnchanged DEF MigrationInv, First
<1>2. RowsMeetSchema'
  BY DEF MigrationInv, RowsMeetSchema, Unlawful
<1> QED BY <1>1, <1>2 DEF MigrationInv, TypeAt, IsDb

\* The runner begins with the first statement of its version.
LEMMA BeginKeeps ==
    ASSUME MigrationInv, NEW to \in 11..13, Begin(to)
    PROVE  MigrationInv'
<1>1. /\ ~tx.on /\ version < to
      /\ tx' = [on |-> TRUE, target |-> to, todo |-> ScriptsTo(to), done |-> {}, view |-> db]
      /\ refused' = {}
      /\ UNCHANGED <<version, db, meant, stood, odd>>
  BY DEF Begin, rowVars
<1>2. /\ tx'.on = TRUE /\ tx'.target = to /\ tx'.todo = ScriptsTo(to)
      /\ tx'.done = {} /\ tx'.view = db /\ IsTx(tx')
  BY <1>1 DEF IsTx
<1>3. TypeAt /\ First(version) \in 1..18
  BY DEF MigrationInv, TypeAt, First
<1>4. StandsAt(First(version))'
  <2>1. First(version) \in First(version) .. (Last(to) + 1)
    BY <1>1, <1>3 DEF First, Last, TypeAt
  <2>2. {FullScript[i] : i \in First(version) .. (First(version) - 1)} = {}
    BY <1>3 
  <2>3. RowsAt(First(version), db)'
    BY <1>1, RowsUnchanged DEF MigrationInv
  <2> QED BY <1>1, <1>2, <1>3, <2>1, <2>2, <2>3, SectionOfScript DEF StandsAt
<1>5. (TypeAt /\ IsDb(db) /\ RowsAt(First(version), db) /\ RowsMeetSchema)'
  BY <1>1, CommittedUnchanged
<1>6. RefusedForAReason'
  BY <1>1 DEF RefusedForAReason
<1>7. IsDb(tx.view)' /\ First(version)' \in 1..18
  BY <1>1, <1>2, <1>3 DEF MigrationInv, IsDb, First
<1>8. (\E k \in 1..18 : StandsAt(k))'
  BY <1>4, <1>3, <1>1 DEF First
<1> QED BY <1>1, <1>2, <1>3, <1>5, <1>6, <1>7, <1>8 DEF MigrationInv, TypeAt

\* A transaction that is idle again has left the rows as they were.
LEMMA IdleKeeps ==
    ASSUME MigrationInv, tx' = Idle, UNCHANGED <<version, db, meant, stood, odd>>, RefusedForAReason'
    PROVE  MigrationInv'
<1>1. (TypeAt /\ IsDb(db) /\ RowsAt(First(version), db) /\ RowsMeetSchema)'
  BY CommittedUnchanged
<1>2. IsTx(tx') /\ tx'.on = FALSE
  BY DEF IsTx, Idle
<1> QED BY <1>1, <1>2 DEF MigrationInv, TypeAt, Idle

\* A transaction in course stands before a statement of the full script.
LEMMA InCourse ==
    ASSUME MigrationInv, tx.on
    PROVE  \E k \in 1..18 :
              /\ StandsAt(k)
              /\ tx.todo = <<>> <=> k = Last(tx.target) + 1
              /\ tx.todo # <<>> => /\ k \in 1..17 /\ Runs(k) /\ k + 1 \in First(version)..(Last(tx.target) + 1)
                                   /\ Head(tx.todo) = FullScript[k]
                                   /\ Tail(tx.todo) = [i \in 1 .. (Last(tx.target) - k) |-> FullScript[k + i]]
<1>1. version \in 10..12 /\ tx.target \in 11..13 /\ version < tx.target
  BY DEF MigrationInv
<1>2. PICK k \in 1..18 : StandsAt(k)
  BY DEF MigrationInv
<1> DEFINE n == Last(tx.target) + 1 - k
<1>3. /\ Last(tx.target) \in {8, 10, 17} /\ n \in Nat /\ k \in First(version) .. (Last(tx.target) + 1)
      /\ tx.todo = [i \in 1..n |-> FullScript[k + i - 1]]
      /\ First(version) \in {1, 9, 11}
  BY <1>2 DEF StandsAt, Last, First
<1>4. CASE n = 0
  <2>1. tx.todo = <<>>
    BY <1>3, <1>4
  <2> QED BY <1>2, <1>3, <1>4, <2>1
<1>5. CASE n # 0
  <2>1. 1 \in 1..n
    BY <1>3, <1>5
  <2>2. tx.todo # <<>> /\ tx.todo[1] = FullScript[k]
    BY <1>3, <2>1
  <2> DEFINE names == {FullScript[i] : i \in 1..17}
  <2>3. tx.todo \in [1..n -> names]
    <3>1. n \in Nat /\ k \in 1..18 /\ k + n <= 18
      BY <1>2, <1>3
    <3> HIDE DEF n
    <3>2. \A i \in 1..n : k + i - 1 \in 1..17
      BY <3>1
    <3>3. \A i \in 1..n : FullScript[k + i - 1] \in names
      BY <3>2
    <3> HIDE DEF names
    <3> QED BY <1>3, <3>3
  <2> HIDE DEF names
  <2>4. tx.todo \in Seq(names) /\ Len(tx.todo) = n
    <3>1. n \in Nat /\ DOMAIN tx.todo = 1..n
      BY <1>3
    <3> HIDE DEF n
    <3> QED BY <2>3, <3>1
  <2>5. Tail(tx.todo) = [i \in 1 .. (Last(tx.target) - k) |-> FullScript[k + i]]
    <3>1. Tail(tx.todo) = [i \in 1 .. (n - 1) |-> tx.todo[i + 1]]
      <4> HIDE DEF n
      <4> QED BY <2>4
    <3>2. n - 1 = Last(tx.target) - k
      BY <1>3
    <3>3. \A i \in 1 .. (n - 1) : tx.todo[i + 1] = FullScript[k + i]
      <4> SUFFICES ASSUME NEW i \in 1 .. (n - 1) PROVE tx.todo[i + 1] = FullScript[k + i]
        OBVIOUS
      <4>1. i + 1 \in 1..n /\ k + (i + 1) - 1 = k + i
        BY <1>3
      <4> HIDE DEF n
      <4> QED BY <1>3, <4>1
    <3> HIDE DEF n
    <3> QED BY <3>1, <3>2, <3>3
  <2>6. k \in 1..17 /\ k + 1 \in First(version) .. (Last(tx.target) + 1)
    <3>1. First(version) \in {1, 9, 11} /\ Last(tx.target) \in {8, 10, 17}
      BY DEF First, Last
    <3>2. k \in First(version) .. (Last(tx.target) + 1) /\ k # Last(tx.target) + 1
      BY <1>3, <1>5
    <3> QED BY ONLY <3>1, <3>2
  <2>7. Runs(k)
    BY <1>1, <1>3 DEF Runs, First
  <2>8. Head(tx.todo) = FullScript[k] /\ k # Last(tx.target) + 1
    BY <2>2, <1>3, <1>5
  <2> QED BY <1>2, <2>2, <2>5, <2>6, <2>7, <2>8
<1> QED BY <1>3, <1>4, <1>5

\* The next statement runs in the view of the transaction, or is refused.
LEMMA RunStatementKeeps ==
    ASSUME MigrationInv, RunStatement
    PROVE  MigrationInv'
<1>1. tx.on /\ tx.todo # <<>> /\ UNCHANGED <<version, db, meant, stood, odd>>
  BY DEF RunStatement, rowVars
<1>2. PICK k \in 1..18 :
          /\ StandsAt(k) /\ k \in 1..17 /\ Runs(k)
          /\ k + 1 \in First(version) .. (Last(tx.target) + 1)
          /\ Head(tx.todo) = FullScript[k]
          /\ Tail(tx.todo) = [i \in 1 .. (Last(tx.target) - k) |-> FullScript[k + i]]
  BY <1>1, InCourse
<1>3. TypeAt /\ IsDb(tx.view) /\ IsTx(tx) /\ RowsAt(k, tx.view)
  BY <1>1, <1>2 DEF MigrationInv, StandsAt, TypeAt
<1>4. CASE Offenders(FullScript[k], tx.view) # {}
  <2>1. tx' = Idle /\ refused' = Offenders(FullScript[k], tx.view)
    BY <1>2, <1>4 DEF RunStatement
  <2>2. refused' \subseteq odd \cup {"appointments"}
    BY <2>1, <1>2, <1>3, StatementRefuses
  <2>3. RefusedForAReason'
    BY <1>1, <2>2 DEF RefusedForAReason
  <2> QED BY <1>1, <2>1, <2>3, IdleKeeps
<1>5. CASE Offenders(FullScript[k], tx.view) = {}
  <2> DEFINE after == Statement(FullScript[k], tx.view)
  <2>1. /\ tx' = [tx EXCEPT !.todo = Tail(@), !.done = @ \cup {FullScript[k]},
                            !.view = Statement(FullScript[k], @)]
        /\ refused' = refused
    BY <1>2, <1>5 DEF RunStatement
  <2>2. /\ tx'.on = TRUE /\ tx'.target = tx.target /\ tx'.todo = Tail(tx.todo)
        /\ tx'.done = tx.done \cup {FullScript[k]} /\ tx'.view = after /\ IsTx(tx')
    <3>1. tx.on = TRUE
      BY <1>1 DEF MigrationInv
    <3> QED BY <2>1, <3>1, <1>3 DEF IsTx
  <2>3. IsDb(after) /\ RowsAt(k + 1, after)
    BY <1>2, <1>3, <1>5, StatementKeeps
  <2> HIDE DEF after
  <2>4. RowsAt(k + 1, tx.view)'
    BY <2>2, <2>3, <1>1, RowsUnchanged
  <2>5. tx'.todo = [i \in 1 .. (Last(tx.target) + 1 - (k + 1)) |-> FullScript[(k + 1) + i - 1]]
    <3>1. Last(tx.target) + 1 - (k + 1) = Last(tx.target) - k
      BY DEF Last
    <3>2. \A i \in 1 .. (Last(tx.target) - k) : (k + 1) + i - 1 = k + i
      BY DEF Last
    <3> QED BY <1>2, <2>2, <3>1, <3>2
  <2>6. tx'.done = {FullScript[i] : i \in First(version) .. ((k + 1) - 1)}
    <3>1. First(version) .. ((k + 1) - 1) = (First(version) .. (k - 1)) \cup {k}
      BY <1>2 DEF StandsAt, First
    <3>2. tx.done = {FullScript[i] : i \in First(version) .. (k - 1)}
      BY <1>2 DEF StandsAt
    <3> QED BY <2>2, <3>1, <3>2
  <2>7. StandsAt(k + 1)'
    BY <1>1, <1>2, <2>2, <2>4, <2>5, <2>6 DEF StandsAt
  <2>8. (TypeAt /\ IsDb(db) /\ RowsAt(First(version), db) /\ RowsMeetSchema)'
    BY <1>1, CommittedUnchanged
  <2>9. RefusedForAReason'
    BY <1>1, <2>1 DEF MigrationInv, RefusedForAReason
  <2>10. IsDb(tx.view)'
    BY <2>2, <2>3 DEF IsDb
  <2>11. (\E j \in 1..18 : StandsAt(j))'
    <3>1. k + 1 \in 1..18
      BY <1>2
    <3> QED BY <2>7, <3>1
  <2> QED BY <1>1, <2>2, <2>8, <2>9, <2>10, <2>11 DEF MigrationInv, TypeAt
<1> QED BY <1>4, <1>5

\* What is committed is at the start of the script of the new version.
LEMMA CommitKeeps ==
    ASSUME MigrationInv, Commit
    PROVE  MigrationInv'
<1>1. /\ tx.on /\ tx.todo = <<>> /\ db' = tx.view /\ version' = tx.target /\ tx' = Idle
      /\ UNCHANGED <<refused, meant, stood, odd>>
  BY DEF Commit
<1>2. PICK k \in 1..18 : StandsAt(k) /\ k = Last(tx.target) + 1
  BY <1>1, InCourse
<1>3. /\ version \in 10..12 /\ tx.target \in 11..13 /\ version < tx.target
      /\ IsDb(tx.view) /\ RowsAt(k, tx.view)
  BY <1>1, <1>2 DEF MigrationInv, StandsAt
<1>0. PICK f \in {9, 11} : f = IF tx.target = 11 THEN 9 ELSE 11
  OBVIOUS
<1>4. IsTx(tx') /\ tx'.on = FALSE
  BY <1>1 DEF IsTx, Idle
<1>5. ASSUME NEW s \in DOMAIN tx.view.sessions, NEW row, row = tx.view.sessions[s]
      PROVE  SessionAt(f, row, s)' /\ SessionLawful(tx.target, row)
  <2>1. SessionAt(k, row, s)
    BY <1>5, <1>3 DEF RowsAt
  <2>2. /\ k \in {9, 11, 18} /\ (k = 18 <=> tx.target = 13) /\ (k = 9 <=> tx.target = 11)
        /\ f = 9 <=> tx.target = 11
    BY <1>0, <1>2, <1>3 DEF Last
  <2>3. SessionLawful(11, row) /\ SessionLawful(tx.target, row)
    BY <1>3, <2>1, <2>2 DEF SessionAt, SessionLawful
  <2>4. s \notin odd => s \in DOMAIN stood /\ Kept11(row, stood[s])
    BY <1>3, <2>1, <2>2 DEF SessionAt
  <2>5. row \in SessionRows
    BY <2>1 DEF SessionAt
  <2> QED BY <1>1, <1>3, <2>2, <2>3, <2>4, <2>5 DEF SessionAt
<1>6. ASSUME NEW q \in DOMAIN tx.view.questions, NEW row, row = tx.view.questions[q]
      PROVE  QuestionAt(f, row, q)' /\ QuestionLawful(tx.target, row)
  <2>1. QuestionAt(k, row, q)
    BY <1>6, <1>3 DEF RowsAt
  <2>2. /\ k \in {9, 11, 18} /\ (k = 18 <=> tx.target = 13) /\ (k = 9 <=> tx.target = 11)
        /\ f = 9 <=> tx.target = 11
    BY <1>0, <1>2, <1>3 DEF Last
  <2>3. /\ QuestionLawful(11, row) /\ QuestionLawful(tx.target, row)
        /\ tx.target >= 12 => QuestionLawful(12, row)
    BY <1>3, <2>1, <2>2 DEF QuestionAt, QuestionLawful
  <2>4. q \notin odd => IF k <= 9 THEN Filed11(row) ELSE Filed12(row)
    BY <1>3, <2>1, <2>2 DEF QuestionAt
  <2>5. row \in QuestionRows
    BY <2>1 DEF QuestionAt
  <2> QED BY <1>1, <1>3, <2>2, <2>3, <2>4, <2>5 DEF QuestionAt
<1>7. ASSUME NEW e \in DOMAIN tx.view.events, NEW row, row = tx.view.events[e]
      PROVE  EventAt(f, row, e)' /\ EventLawful(tx.target, row)
  <2>1. EventAt(k, row, e)
    BY <1>7, <1>3 DEF RowsAt
  <2>2. /\ k \in {9, 11, 18} /\ (k = 18 <=> tx.target = 13) /\ (k = 9 <=> tx.target = 11)
        /\ f = 9 <=> tx.target = 11
    BY <1>0, <1>2, <1>3 DEF Last
  <2>3. EventLawful(tx.target, row)
    BY <1>3, <2>1, <2>2 DEF EventAt, EventLawful
  <2>4. e \notin odd => e \in DOMAIN meant /\ meant[e] \in Recorded /\ Written(row, meant[e])
    BY <1>3, <2>1, <2>2 DEF EventAt, Written
  <2> QED BY <1>1, <1>3, <2>2, <2>3, <2>4 DEF EventAt
<1>8. First(version)' = f
  BY <1>0, <1>1, <1>3 DEF First
<1>9. RowsAt(First(version), db)'
  BY <1>1, <1>5, <1>6, <1>7, <1>8 DEF RowsAt
<1>10. RowsMeetSchema'
  BY <1>1, <1>5, <1>6, <1>7 DEF RowsMeetSchema, Unlawful
<1>11. RefusedForAReason'
  BY <1>1 DEF MigrationInv, RefusedForAReason
<1>12. version' \in 10..13 /\ IsDb(db)'
  BY <1>1, <1>3 DEF IsDb
<1> QED BY <1>1, <1>4, <1>12, <1>9, <1>10, <1>11 DEF MigrationInv

\* A rollback leaves rows the earlier version could have left, or odd ones.
LEMMA RollbackKeeps ==
    ASSUME MigrationInv, NEW to \in 10..12, Rollback(to)
    PROVE  MigrationInv'
<1>1. /\ ~tx.on /\ version > to /\ version' = to /\ refused' = {}
      /\ UNCHANGED <<tx, meant, stood>>
  BY DEF Rollback
<1>2. version \in 11..13 /\ IsDb(db) /\ RowsAt(First(version), db) /\ RowsMeetSchema /\ tx = Idle
  BY <1>1 DEF MigrationInv
<1>3. IsTx(tx') /\ tx'.on = FALSE
  BY <1>1, <1>2 DEF IsTx, Idle
<1>4. CASE to = 12
  <2>1. UNCHANGED <<db, odd>> /\ version = 13
    BY <1>1, <1>2, <1>4 DEF Rollback
  <2>2. RowsAt(11, db)'
    BY <1>1, <1>2, <1>4, <2>1 DEF First, RowsAt, SessionAt, QuestionAt, EventAt
  <2>3. RowsMeetSchema'
    BY <1>1, <1>2, <1>4, <2>1, RowsLawful
       DEF RowsMeetSchema, Unlawful, SessionLawful, QuestionLawful, EventLawful
  <2> QED BY <1>1, <1>2, <1>3, <1>4, <2>1, <2>2, <2>3 DEF MigrationInv, IsDb, First, RefusedForAReason
<1>6. CASE to = 11
  <2>1. UNCHANGED <<db, odd>> /\ version \in {12, 13} /\ First(version) = 11
    BY <1>1, <1>2, <1>6 DEF Rollback, First
  <2>2. RowsAt(9, db)'
    BY <1>1, <1>2, <1>6, <2>1 DEF RowsAt, SessionAt, QuestionAt, EventAt, Filed12
  <2>3. RowsMeetSchema'
    BY <1>1, <1>2, <1>6, <2>1, RowsLawful
       DEF RowsMeetSchema, Unlawful, SessionLawful, QuestionLawful, EventLawful
  <2> QED BY <1>1, <1>2, <1>3, <1>6, <2>1, <2>2, <2>3 DEF MigrationInv, IsDb, First, RefusedForAReason
<1>5. CASE to = 10
  <2>1. /\ db' = [sessions |-> MapRows(db.sessions, CutSession), events |-> <<>>,
                  questions |-> MapRows(db.questions, CutQuestion), appointments |-> FALSE]
        /\ odd' = odd \cup {s \in DOMAIN db.sessions : LosesItsEnd(db.sessions[s])}
    BY <1>5 DEF Rollback
  <2>2. /\ DOMAIN db'.sessions = DOMAIN db.sessions
        /\ \A s \in DOMAIN db.sessions : db'.sessions[s] = CutSession(db.sessions[s])
        /\ DOMAIN db'.questions = DOMAIN db.questions
        /\ \A q \in DOMAIN db.questions : db'.questions[q] = CutQuestion(db.questions[q])
    BY <2>1 DEF MapRows
  <2>3. IsDb(db') /\ db'.events = <<>> /\ DOMAIN db'.events = {}
    BY <2>1 DEF IsDb
  <2>4. ASSUME NEW s \in DOMAIN db.sessions, NEW cut, cut = CutSession(db.sessions[s])
        PROVE  SessionAt(1, cut, s)' /\ SessionLawful(10, cut)
    <3> DEFINE row == db.sessions[s]
    <3>1. SessionAt(First(version), row, s)
      BY <1>2 DEF RowsAt
    <3>2. /\ row = [status |-> row.status, step |-> row.step, outcome |-> row.outcome,
                    abandonedAt |-> row.abandonedAt]
          /\ row.status \in {"IN_PROGRESS", "FINISHED", "ABANDONED"} /\ row.step \in Steps
      BY <3>1 DEF SessionAt, SessionRows
    <3>3. /\ cut.status = row.status
          /\ cut.step = IF row.step \in {"AWAITING_CATEGORY", "AWAITING_QUESTION", "FINISHED"} THEN row.step
                        ELSE IF row.status = "IN_PROGRESS" THEN "AWAITING_CATEGORY" ELSE "FINISHED"
          /\ cut \in SessionRows
      BY <2>4, <3>2 DEF CutSession, SessionRows, Steps, ABANDONED_STEPS
    <3>4. s \notin odd' => s \notin odd /\ ~LosesItsEnd(row)
      BY <2>1
    <3>5. s \notin odd => s \in DOMAIN stood /\ Kept11(row, stood[s])
      BY <1>2, <3>1 DEF SessionAt
    <3>6. s \notin odd' => Kept10(cut, stood[s])
      <4> SUFFICES ASSUME s \notin odd' PROVE Kept10(cut, stood[s])
        OBVIOUS
      <4>1. Kept11(row, stood[s]) /\ ~LosesItsEnd(row)
        BY <3>4, <3>5
      <4>2. /\ row.status = "IN_PROGRESS" => cut.step = row.step
            /\ row.status = "FINISHED" => row.outcome = "RESOLVED"
            /\ row.status = "ABANDONED" => cut.step = row.abandonedAt
        BY <2>4, <4>1 DEF LosesItsEnd
      <4> HIDE DEF row
      <4> QED BY <4>1, <4>2, <3>3 DEF Kept10, Kept11, StatusOf, Outcomes
    <3> HIDE DEF row
    <3>7. SessionLawful(10, cut)
      BY <3>3 DEF SessionLawful
    <3> QED BY <1>1, <1>5, <3>3, <3>4, <3>5, <3>6, <3>7 DEF SessionAt, row
  <2>5. ASSUME NEW q \in DOMAIN db.questions, NEW cut, cut = CutQuestion(db.questions[q])
        PROVE  QuestionAt(1, cut, q)' /\ QuestionLawful(10, cut)
    <3> DEFINE row == db.questions[q]
    <3>1. QuestionAt(First(version), row, q)
      BY <1>2 DEF RowsAt
    <3>2. /\ row = [title |-> row.title, short |-> row.short, inPerson |-> row.inPerson,
                    outOfScope |-> row.outOfScope, llm |-> row.llm]
          /\ row.title \in {"fits", "blankStart"}
          /\ row.inPerson \in BOOLEAN /\ row.outOfScope \in BOOLEAN
      BY <3>1 DEF QuestionAt, QuestionRows
    <3>3. cut.title = row.title /\ cut.inPerson = row.inPerson /\ cut \in QuestionRows
      BY <2>5, <3>2 DEF CutQuestion, QuestionRows
    <3>4. q \notin odd => Filed10(row)
      BY <1>2, <3>1 DEF QuestionAt, Filed11, Filed12
    <3> HIDE DEF row
    <3>5. q \notin odd' => Filed10(cut)
      BY <2>1, <3>3, <3>4 DEF Filed10
    <3>6. QuestionLawful(10, cut)
      BY DEF QuestionLawful
    <3> QED BY <1>1, <1>5, <3>3, <3>5, <3>6 DEF QuestionAt, row
  <2>6. RowsAt(1, db)'
    BY <2>2, <2>3, <2>4, <2>5 DEF RowsAt
  <2>7. RowsMeetSchema'
    BY <1>1, <1>5, <2>2, <2>3, <2>4, <2>5 DEF RowsMeetSchema, Unlawful
  <2> QED BY <1>1, <1>2, <1>3, <1>5, <2>3, <2>6, <2>7 DEF MigrationInv, IsDb, First, RefusedForAReason
<1> QED BY <1>4, <1>5, <1>6

\* A correction leaves lawful rows only.
LEMMA CorrectKeeps ==
    ASSUME MigrationInv, Correct
    PROVE  MigrationInv'
<1>1. /\ ~tx.on /\ refused' = {}
      /\ db' = [sessions |-> [s \in DOMAIN db.sessions \ refused |-> db.sessions[s]],
                events |-> [e \in DOMAIN db.events \ refused |-> db.events[e]],
                questions |-> [q \in DOMAIN db.questions \ refused |-> db.questions[q]],
                appointments |-> db.appointments /\ "appointments" \notin refused]
      /\ odd' = odd \ refused
      /\ UNCHANGED <<version, tx, meant, stood>>
  BY DEF Correct
<1>2. IsDb(db) /\ RowsAt(First(version), db) /\ RowsMeetSchema /\ tx = Idle /\ IsTx(tx)
  BY <1>1 DEF MigrationInv
<1>3. IsDb(db')
  BY <1>1 DEF IsDb
<1>4. /\ DOMAIN db'.sessions = DOMAIN db.sessions \ refused
      /\ \A s \in DOMAIN db'.sessions : db'.sessions[s] = db.sessions[s]
      /\ DOMAIN db'.events = DOMAIN db.events \ refused
      /\ \A e \in DOMAIN db'.events : db'.events[e] = db.events[e]
      /\ DOMAIN db'.questions = DOMAIN db.questions \ refused
      /\ \A q \in DOMAIN db'.questions : db'.questions[q] = db.questions[q]
  BY <1>1
<1>5. RowsAt(First(version), db)'
  BY <1>1, <1>2, <1>4 DEF RowsAt, SessionAt, QuestionAt, EventAt, First
<1>6. RowsMeetSchema'
  BY <1>1, <1>2, <1>4 DEF RowsMeetSchema, Unlawful
<1> QED BY <1>1, <1>2, <1>3, <1>5, <1>6 DEF MigrationInv, RefusedForAReason

-----------------------------------------------------------------------------
(* The writers                                                             *)

Put(old, table, rows) ==
    [id \in DOMAIN old \cup {r[2] : r \in {x \in rows : x[1] = table}} |->
        IF id \in {r[2] : r \in {x \in rows : x[1] = table}}
        THEN (CHOOSE r \in rows : r[1] = table /\ r[2] = id)[3] ELSE old[id]]

PutAll(d, rows) ==
    [d EXCEPT !.sessions = Put(@, "sessions", rows), !.events = Put(@, "events", rows),
              !.questions = Put(@, "questions", rows)]

\* Every row of the table is one that was there, or one of those written.
IsPut(old, new, table, rows) ==
    \A id \in DOMAIN new :
        \/ id \in DOMAIN old /\ new[id] = old[id] /\ ~ \E r \in rows : r[1] = table /\ r[2] = id
        \/ \E r \in rows : r[1] = table /\ r[2] = id /\ r[3] = new[id]

\* What a write of some rows does to one table.
LEMMA PutTable ==
    ASSUME NEW old, NEW table, NEW rows
    PROVE  IsPut(old, Put(old, table, rows), table, rows)
<1> DEFINE ids == {r[2] : r \in {x \in rows : x[1] = table}}
           new == Put(old, table, rows)
<1>1. /\ DOMAIN new = DOMAIN old \cup ids
      /\ \A id \in DOMAIN new : new[id] = IF id \in ids
                                          THEN (CHOOSE r \in rows : r[1] = table /\ r[2] = id)[3]
                                          ELSE old[id]
  BY DEF Put
<1> HIDE DEF new
<1>2. ASSUME NEW id \in DOMAIN new, id \notin ids
      PROVE  id \in DOMAIN old /\ new[id] = old[id] /\ ~ \E r \in rows : r[1] = table /\ r[2] = id
  BY <1>1, <1>2
<1>3. ASSUME NEW id \in ids, id \in DOMAIN new
      PROVE  \E r \in rows : r[1] = table /\ r[2] = id /\ r[3] = new[id]
  <2> DEFINE row == CHOOSE r \in rows : r[1] = table /\ r[2] = id
  <2>1. \E r \in rows : r[1] = table /\ r[2] = id
    BY <1>3
  <2>2. row \in rows /\ row[1] = table /\ row[2] = id
    BY <2>1
  <2>3. new[id] = row[3]
    BY <1>1, <1>3
  <2> HIDE DEF row
  <2> QED BY <2>2, <2>3
<1> HIDE DEF ids
<1> QED BY <1>2, <1>3 DEF IsPut, new

\* The same, of the three tables.
LEMMA PutTables ==
    ASSUME NEW d, IsDb(d), NEW rows, NEW new, new = PutAll(d, rows)
    PROVE  /\ IsDb(new) /\ new.appointments = d.appointments
           /\ IsPut(d.sessions, new.sessions, "sessions", rows)
           /\ IsPut(d.events, new.events, "events", rows)
           /\ IsPut(d.questions, new.questions, "questions", rows)
<1>1. new = [sessions |-> Put(d.sessions, "sessions", rows), events |-> Put(d.events, "events", rows),
             questions |-> Put(d.questions, "questions", rows), appointments |-> d.appointments]
  BY DEF PutAll, IsDb
<1>2. /\ new.sessions = Put(d.sessions, "sessions", rows)
      /\ new.events = Put(d.events, "events", rows)
      /\ new.questions = Put(d.questions, "questions", rows)
      /\ IsDb(new) /\ new.appointments = d.appointments
  BY <1>1 DEF IsDb
<1> QED BY <1>2, PutTable

\* What is known of the rows that are written: they are fit, and the history is
\* that of the other rows as before.
WritesFit(rows) ==
    \A r \in rows : /\ r[1] = "sessions" => SessionFits(r[3], r[2])
                    /\ r[1] = "questions" => QuestionFits(r[3], r[2])
                    /\ r[1] = "events" => EventFits(r[3], r[2])

\* A row at rest stays what it was when others are written.
LEMMA RestsBeside ==
    ASSUME UNCHANGED version, odd \subseteq odd', NEW k, NEW row, NEW id
    PROVE  /\ SessionAt(k, row, id) /\ (id \in DOMAIN stood => id \in DOMAIN stood' /\ stood'[id] = stood[id])
                 => SessionAt(k, row, id)'
           /\ QuestionAt(k, row, id) => QuestionAt(k, row, id)'
           /\ EventAt(k, row, id) /\ (id \in DOMAIN meant => id \in DOMAIN meant' /\ meant'[id] = meant[id])
                 => EventAt(k, row, id)'
BY DEF SessionAt, QuestionAt, EventAt

\* How far a transaction has come tells what is locked, and which rows are late.
LEMMA LockedAt ==
    ASSUME TypeAt, NEW k \in 1..18, StandsAt(k), Runs(k)
    PROVE  /\ ~Locked("sessions") => (version = 10 /\ k <= 4) \/ (version \in {11, 12} /\ k <= 16)
           /\ ~Locked("questions") => (version = 10 /\ k = 1) \/ (version = 11 /\ k <= 10) \/ version = 12
           /\ ~Locked("events") => version = 10 \/ k <= 13
           /\ k > 15 => tx.done \cap Fixes("sessions") # {}
           /\ k > 11 => tx.done \cap Fixes("events") # {}
           /\ (version = 11 /\ k > 9) => tx.done \cap Fixes("questions") # {}
<1>1. \A i \in First(version) .. (k - 1) : FullScript[i] \in tx.done
  BY DEF StandsAt
<1>2. /\ version = 10 => First(version) = 1
      /\ version = 11 => First(version) = 9
      /\ version = 12 => First(version) = 11
      /\ version \in 10..12
  BY DEF First, Runs
<1>3. /\ (version = 10 /\ k > 4) => "newSteps" \in tx.done
      /\ k > 16 => "checkSessionSteps" \in tx.done
      /\ (version = 10 /\ k > 1) => "addContentColumns" \in tx.done
      /\ k > 13 => "checkEvents" \in tx.done
      /\ k > 15 => "closeSteps" \in tx.done
      /\ k > 11 => "renameLlm" \in tx.done
      /\ (version = 11 /\ k > 9) => "trimTexts" \in tx.done
      /\ (version = 11 /\ k > 10) => "checkTexts" \in tx.done
  BY <1>1, <1>2, FullScriptAt
<1>4. /\ "sessions" \in Locks("newSteps") /\ "sessions" \in Locks("checkSessionSteps")
      /\ "questions" \in Locks("addContentColumns") /\ "events" \in Locks("checkEvents")
      /\ "questions" \in Locks("checkTexts") /\ "trimTexts" \in Fixes("questions")
      /\ "closeSteps" \in Fixes("sessions") /\ "renameLlm" \in Fixes("events")
  BY DEF Locks, Fixes
<1> QED BY <1>2, <1>3, <1>4 DEF Locked

\* Rows written beside a transaction fit if each of them does.
LEMMA RowsPut ==
    ASSUME UNCHANGED version, odd \subseteq odd', NEW k, NEW d, RowsAt(k, d), NEW rows, NEW new,
           IsPut(d.sessions, new.sessions, "sessions", rows),
           IsPut(d.events, new.events, "events", rows),
           IsPut(d.questions, new.questions, "questions", rows),
           \A s \in DOMAIN stood : (~ \E r \in rows : r[1] = "sessions" /\ r[2] = s) =>
               s \in DOMAIN stood' /\ stood'[s] = stood[s],
           \A e \in DOMAIN meant : (~ \E r \in rows : r[1] = "events" /\ r[2] = e) =>
               e \in DOMAIN meant' /\ meant'[e] = meant[e],
           \A r \in rows : /\ r[1] = "sessions" => SessionAt(k, r[3], r[2])'
                           /\ r[1] = "questions" => QuestionAt(k, r[3], r[2])'
                           /\ r[1] = "events" => EventAt(k, r[3], r[2])'
    PROVE  RowsAt(k, new)'
<1>1. ASSUME NEW s \in DOMAIN new.sessions PROVE SessionAt(k, new.sessions[s], s)'
  <2>1. CASE s \in DOMAIN d.sessions /\ new.sessions[s] = d.sessions[s]
             /\ ~ \E r \in rows : r[1] = "sessions" /\ r[2] = s
    BY <2>1, RestsBeside DEF RowsAt
  <2>2. CASE \E r \in rows : r[1] = "sessions" /\ r[2] = s /\ r[3] = new.sessions[s]
    BY <2>2
  <2> QED BY <1>1, <2>1, <2>2 DEF IsPut
<1>2. ASSUME NEW q \in DOMAIN new.questions PROVE QuestionAt(k, new.questions[q], q)'
  <2>1. CASE q \in DOMAIN d.questions /\ new.questions[q] = d.questions[q]
    BY <2>1, RestsBeside DEF RowsAt
  <2>2. CASE \E r \in rows : r[1] = "questions" /\ r[2] = q /\ r[3] = new.questions[q]
    BY <2>2
  <2> QED BY <1>2, <2>1, <2>2 DEF IsPut
<1>3. ASSUME NEW e \in DOMAIN new.events PROVE EventAt(k, new.events[e], e)'
  <2>1. CASE e \in DOMAIN d.events /\ new.events[e] = d.events[e]
             /\ ~ \E r \in rows : r[1] = "events" /\ r[2] = e
    BY <2>1, RestsBeside DEF RowsAt
  <2>2. CASE \E r \in rows : r[1] = "events" /\ r[2] = e /\ r[3] = new.events[e]
    BY <2>2
  <2> QED BY <1>3, <2>1, <2>2 DEF IsPut
<1> QED BY <1>1, <1>2, <1>3 DEF RowsAt

\* Rows that are fit may be written at any time, beside a transaction or not.
LEMMA WriteKeeps ==
    ASSUME MigrationInv, NEW rows, NEW byHand, Write(rows, byHand),
           \A r \in rows : r[1] \in {"sessions", "events", "questions"},
           \A s \in DOMAIN stood : (~ \E r \in rows : r[1] = "sessions" /\ r[2] = s) =>
               s \in DOMAIN stood' /\ stood'[s] = stood[s],
           \A e \in DOMAIN meant : (~ \E r \in rows : r[1] = "events" /\ r[2] = e) =>
               e \in DOMAIN meant' /\ meant'[e] = meant[e],
           WritesFit(rows)'
    PROVE  MigrationInv'
<1>1. /\ \A r \in rows : ~Locked(r[1]) /\ RowLawful(r[1], r[3])
      /\ db' = PutAll(db, rows)
      /\ tx' = IF tx.on THEN [tx EXCEPT !.view = PutAll(@, rows)] ELSE tx
      /\ odd' = odd \cup {r[2] : r \in {x \in rows : byHand \/ tx.done \cap Fixes(x[1]) # {}}}
      /\ UNCHANGED <<version, refused>>
  BY DEF Write, PutAll, Put
<1>2. TypeAt /\ TypeAt' /\ First(version)' = First(version) /\ IsDb(db) /\ IsTx(tx)
  BY <1>1 DEF MigrationInv, TypeAt, First
<1>3. /\ IsDb(db') /\ IsPut(db.sessions, db'.sessions, "sessions", rows)
      /\ IsPut(db.events, db'.events, "events", rows)
      /\ IsPut(db.questions, db'.questions, "questions", rows)
  BY <1>1, <1>2, PutTables
<1>4. odd \subseteq odd' /\ RefusedForAReason'
  BY <1>1 DEF MigrationInv, RefusedForAReason
<1>5. RowsAt(First(version), db)'
  <2> DEFINE k == First(version)
  <2>1. k \in First(version)..18 /\ k \in {1, 9, 11}
    BY <1>2 DEF First, TypeAt
  <2>2. RowsAt(k, db)
    BY DEF MigrationInv
  <2>3. \A r \in rows : /\ r[1] = "sessions" => SessionAt(First(version), r[3], r[2])'
                        /\ r[1] = "questions" => QuestionAt(First(version), r[3], r[2])'
                        /\ r[1] = "events" => EventAt(First(version), r[3], r[2])'
    BY <1>1, <1>2 DEF WritesFit, SessionFits, QuestionFits, EventFits, SessionAt, QuestionAt, EventAt,
                      First, TypeAt, SessionLawful, QuestionLawful, Filed11, Filed12
  <2> QED BY <1>1, <1>2, <1>3, <1>4, <2>2, <2>3, RowsPut
<1>6. RowsMeetSchema'
  <2>1. ASSUME NEW s \in DOMAIN db'.sessions PROVE SessionLawful(version, db'.sessions[s])
    <3>1. CASE s \in DOMAIN db.sessions /\ db'.sessions[s] = db.sessions[s]
      BY <3>1, RowsLawful DEF MigrationInv
    <3>2. CASE \E r \in rows : r[1] = "sessions" /\ r[2] = s /\ r[3] = db'.sessions[s]
      BY <1>1, <3>2 DEF RowLawful
    <3> QED BY <1>3, <2>1, <3>1, <3>2 DEF IsPut
  <2>2. ASSUME NEW e \in DOMAIN db'.events PROVE EventLawful(version, db'.events[e])
    <3>1. CASE e \in DOMAIN db.events /\ db'.events[e] = db.events[e]
      BY <3>1, RowsLawful DEF MigrationInv
    <3>2. CASE \E r \in rows : r[1] = "events" /\ r[2] = e /\ r[3] = db'.events[e]
      BY <1>1, <3>2 DEF RowLawful
    <3> QED BY <1>3, <2>2, <3>1, <3>2 DEF IsPut
  <2>3. ASSUME NEW q \in DOMAIN db'.questions PROVE QuestionLawful(version, db'.questions[q])
    <3>1. CASE q \in DOMAIN db.questions /\ db'.questions[q] = db.questions[q]
      BY <3>1, RowsLawful DEF MigrationInv
    <3>2. CASE \E r \in rows : r[1] = "questions" /\ r[2] = q /\ r[3] = db'.questions[q]
      BY <1>1, <3>2 DEF RowLawful
    <3> QED BY <1>3, <2>3, <3>1, <3>2 DEF IsPut
  <2> QED BY <1>1, <2>1, <2>2, <2>3 DEF RowsMeetSchema, Unlawful
<1>7. CASE ~tx.on
  <2>1. tx' = tx /\ tx = Idle /\ tx.on = FALSE
    BY <1>1, <1>7 DEF MigrationInv
  <2> QED BY <1>1, <1>2, <1>3, <1>4, <1>5, <1>6, <2>1 DEF MigrationInv, TypeAt
<1>8. CASE tx.on
  <2>1. /\ tx.on = TRUE /\ IsDb(tx.view) /\ version \in 10..12 /\ tx.target \in 11..13
        /\ version < tx.target
    BY <1>8 DEF MigrationInv
  <2>2. tx' = [tx EXCEPT !.view = PutAll(tx.view, rows)]
    BY <1>1, <1>8
  <2>3. /\ tx'.on = TRUE /\ tx'.target = tx.target /\ tx'.todo = tx.todo /\ tx'.done = tx.done
        /\ tx'.view = PutAll(tx.view, rows) /\ IsTx(tx')
    BY <1>2, <2>1, <2>2 DEF IsTx
  <2>4. /\ IsDb(tx'.view) /\ IsPut(tx.view.sessions, tx'.view.sessions, "sessions", rows)
        /\ IsPut(tx.view.events, tx'.view.events, "events", rows)
        /\ IsPut(tx.view.questions, tx'.view.questions, "questions", rows)
    BY <2>1, <2>3, PutTables
  <2>5. PICK k \in 1..18 : StandsAt(k)
    BY <1>8 DEF MigrationInv
  <2>6. Runs(k) /\ k \in First(version)..18 /\ RowsAt(k, tx.view)
    BY <2>1, <2>5 DEF StandsAt, Runs, First
  <2>7. ASSUME NEW r \in rows, r[1] = "sessions" PROVE SessionAt(k, r[3], r[2])'
    <3>1. (version = 10 /\ k <= 4) \/ (version \in {11, 12} /\ k <= 16)
      BY <1>1, <1>2, <2>5, <2>6, <2>7, LockedAt
    <3>2. k > 15 => r[2] \in odd'
      <4>1. k > 15 => tx.done \cap Fixes(r[1]) # {}
        BY <1>2, <2>5, <2>6, <2>7, LockedAt
      <4> QED BY <1>1, <4>1, <2>7
    <3>3. SessionFits(r[3], r[2])'
      BY <2>7 DEF WritesFit
    <3> QED BY <1>1, <2>6, <3>1, <3>2, <3>3 DEF SessionFits, SessionAt, SessionLawful
  <2>8. ASSUME NEW r \in rows, r[1] = "questions" PROVE QuestionAt(k, r[3], r[2])'
    <3>1. (version = 10 /\ k = 1) \/ (version = 11 /\ k <= 10) \/ version = 12
      BY <1>1, <1>2, <2>5, <2>6, <2>8, LockedAt
    <3>3. (version = 11 /\ k > 9) => r[2] \in odd'
      <4>1. (version = 11 /\ k > 9) => tx.done \cap Fixes(r[1]) # {}
        BY <1>2, <2>5, <2>6, <2>8, LockedAt
      <4> QED BY <1>1, <4>1, <2>8
    <3>2. QuestionFits(r[3], r[2])'
      BY <2>8 DEF WritesFit
    <3> QED BY <1>1, <2>6, <3>1, <3>2, <3>3
           DEF QuestionFits, QuestionAt, QuestionLawful, First, Filed11, Filed12
  <2>9. ASSUME NEW r \in rows, r[1] = "events" PROVE EventAt(k, r[3], r[2])'
    <3>1. EventFits(r[3], r[2])'
      BY <2>9 DEF WritesFit
    <3>2. version \in {11, 12} /\ k <= 13
      <4>1. version = 10 \/ k <= 13
        BY <1>1, <1>2, <2>5, <2>6, <2>9, LockedAt
      <4> QED BY <1>1, <2>1, <3>1, <4>1 DEF EventFits
    <3>3. k > 11 => r[2] \in odd'
      <4>1. k > 11 => tx.done \cap Fixes(r[1]) # {}
        BY <1>2, <2>5, <2>6, <2>9, LockedAt
      <4> QED BY <1>1, <4>1, <2>9
    <3> QED BY <1>1, <2>6, <3>1, <3>2, <3>3 DEF EventFits, EventAt
  <2>10. RowsAt(k, tx.view)'
    BY <1>1, <1>4, <2>4, <2>6, <2>7, <2>8, <2>9, RowsPut
  <2>11. StandsAt(k)'
    BY <1>1, <2>3, <2>5, <2>10 DEF StandsAt, First
  <2> QED BY <1>1, <1>2, <1>3, <1>4, <1>5, <1>6, <2>1, <2>3, <2>4, <2>5, <2>11 DEF MigrationInv, TypeAt, IsDb
<1> QED BY <1>7, <1>8

\* The row of a session that is left at a step, as SessionRow makes it.
LEMMA SessionRowFits ==
    ASSUME TypeAt, NEW outcome \in Outcomes, NEW step \in Steps, NEW at,
           outcome = "ABANDONED" => at \in Steps
    PROVE  /\ SessionRow(outcome, step, at) \in SessionRows
           /\ SessionRow(outcome, step, at).status = StatusOf(outcome)
           /\ SessionRow(outcome, step, at).step = step
           /\ version > 10 =>
                 /\ SessionRow(outcome, step, at).outcome = outcome
                 /\ SessionRow(outcome, step, at).abandonedAt =
                        IF outcome = "ABANDONED" THEN at ELSE NoneSet
BY DEF SessionRow, SessionRows, StatusOf, TypeAt

\* Where a session in progress stands.
LEMMA Standing ==
    ASSUME MigrationInv, NEW s, InProgress(s)
    PROVE  /\ db.sessions[s].step \in Steps
           /\ s \notin odd => s \in DOMAIN stood /\ db.sessions[s].step \in ABANDONED_STEPS
<1>1. SessionAt(First(version), db.sessions[s], s) /\ db.sessions[s].status = "IN_PROGRESS"
  BY DEF MigrationInv, RowsAt, InProgress
<1>2. db.sessions[s].step \in Steps
  BY <1>1 DEF SessionAt, SessionRows
<1>3. s \notin odd => \/ Kept10(db.sessions[s], stood[s]) /\ s \in DOMAIN stood
                      \/ Kept11(db.sessions[s], stood[s]) /\ s \in DOMAIN stood
  BY <1>1 DEF SessionAt
<1> QED BY <1>1, <1>2, <1>3 DEF Kept10, Kept11, StatusOf, Outcomes

\* A row written by hand counts as odd.
LEMMA HandIsOdd ==
    ASSUME NEW rows, NEW byHand, Write(rows, byHand), byHand, NEW r \in rows
    PROVE  r[2] \in odd'
<1> DEFINE late == {x \in rows : byHand \/ tx.done \cap Fixes(x[1]) # {}}
<1>1. odd' = odd \cup {x[2] : x \in late}
  BY DEF Write
<1>2. r \in late
  OBVIOUS
<1> HIDE DEF late
<1> QED BY <1>1, <1>2

\* One session is written, and what is known of it.
LEMMA SessionWritten ==
    ASSUME MigrationInv, NEW s, NEW row, NEW byHand, NEW outcome, NEW at,
           Write({<<"sessions", s, row>>}, byHand), Stands(s, outcome, at), UNCHANGED meant,
           row \in SessionRows,
           byHand \/ s \in odd \/
              LET st == [outcome |-> outcome, at |-> at]
              IN  IF version = 10 THEN Kept10(row, st) ELSE Kept11(row, st)
    PROVE  MigrationInv'
<1> DEFINE rows == {<<"sessions", s, row>>}
           st   == [outcome |-> outcome, at |-> at]
<1>1. /\ RowLawful("sessions", row) /\ UNCHANGED version /\ odd \subseteq odd'
      /\ byHand => s \in odd'
  <2>1. /\ \A r \in rows : RowLawful(r[1], r[3])
        /\ UNCHANGED version /\ odd \subseteq odd'
    BY DEF Write
  <2>2. byHand => <<"sessions", s, row>>[2] \in odd'
    BY HandIsOdd
  <2> QED BY <2>1, <2>2
<1>2. /\ s \in DOMAIN stood' /\ stood'[s] = st
      /\ \A x \in DOMAIN stood : x # s => x \in DOMAIN stood' /\ stood'[x] = stood[x]
  BY DEF Stands, With
<1>3. SessionFits(row, s)'
  BY <1>1, <1>2 DEF SessionFits, RowLawful
<1>4. WritesFit(rows)'
  BY <1>3 DEF WritesFit
<1>5. \A x \in DOMAIN stood : (~ \E r \in rows : r[1] = "sessions" /\ r[2] = x) =>
          x \in DOMAIN stood' /\ stood'[x] = stood[x]
  BY <1>2
<1>6. \A r \in rows : r[1] \in {"sessions", "events", "questions"}
  OBVIOUS
<1> HIDE DEF rows
<1> QED BY <1>4, <1>5, <1>6, WriteKeeps DEF rows

\* A program starts a session.
LEMMA StartSessionKeeps ==
    ASSUME MigrationInv, NEW s, StartSession(s)
    PROVE  MigrationInv'
<1> DEFINE st == [outcome |-> "IN_PROGRESS", at |-> "AWAITING_CATEGORY"]
<1>1. PICK row : row = SessionRow("IN_PROGRESS", "AWAITING_CATEGORY", NoneSet)
  OBVIOUS
<1>2. TypeAt /\ "AWAITING_CATEGORY" \in Steps /\ "IN_PROGRESS" \in Outcomes
  BY DEF MigrationInv, TypeAt, Steps, ABANDONED_STEPS, Outcomes
<1>3. row \in SessionRows /\ IF version = 10 THEN Kept10(row, st) ELSE Kept11(row, st)
  BY <1>1, <1>2, SessionRowFits DEF Kept10, Kept11, TypeAt, ABANDONED_STEPS, Outcomes
<1> QED BY <1>1, <1>3, SessionWritten DEF StartSession

\* A program moves a session on.
LEMMA MoveSessionKeeps ==
    ASSUME MigrationInv, NEW s, NEW step \in ABANDONED_STEPS, MoveSession(s, step)
    PROVE  MigrationInv'
<1> DEFINE st == [outcome |-> "IN_PROGRESS", at |-> step]
<1>1. PICK row : row = SessionRow("IN_PROGRESS", step, NoneSet)
  OBVIOUS
<1>2. TypeAt /\ step \in Steps /\ "IN_PROGRESS" \in Outcomes
  BY DEF MigrationInv, TypeAt, Steps, Outcomes
<1>3. row \in SessionRows /\ IF version = 10 THEN Kept10(row, st) ELSE Kept11(row, st)
  BY <1>1, <1>2, SessionRowFits DEF Kept10, Kept11, TypeAt, Outcomes
<1> QED BY <1>1, <1>3, SessionWritten DEF MoveSession

\* A program of the first version ends a session.
LEMMA OldEndKeeps ==
    ASSUME MigrationInv, NEW s, NEW outcome \in {"RESOLVED", "SCHEDULED", "ABANDONED"},
           NEW step \in Steps, OldEnd(s, outcome, step)
    PROVE  MigrationInv'
<1>1. PICK at : at = db.sessions[s].step
  OBVIOUS
<1>2. PICK row : row = SessionRow(outcome, step, at)
  OBVIOUS
<1> DEFINE st == [outcome |-> outcome, at |-> at]
<1>3. TypeAt /\ outcome \in Outcomes
  BY DEF MigrationInv, TypeAt, Outcomes
<1>4. /\ at \in Steps
      /\ s \notin odd => at \in ABANDONED_STEPS
      /\ version = 10 => outcome # "SCHEDULED" /\ (outcome = "ABANDONED" => step = at)
  BY <1>1, Standing DEF OldEnd
<1>5. row \in SessionRows
  BY <1>2, <1>3, <1>4, SessionRowFits
<1>6. s \notin odd => IF version = 10 THEN Kept10(row, st) ELSE Kept11(row, st)
  BY <1>2, <1>3, <1>4, SessionRowFits DEF Kept10, Kept11, TypeAt
<1> QED BY <1>1, <1>2, <1>5, <1>6, SessionWritten DEF OldEnd

\* One event is written, and what it was recorded for.
LEMMA EventWritten ==
    ASSUME MigrationInv, NEW e, NEW row, NEW event \in Recorded,
           Write({<<"events", e, row>>}, FALSE), meant' = With(meant, e, event), UNCHANGED stood,
           Written(row, event)
    PROVE  MigrationInv'
<1> DEFINE rows == {<<"events", e, row>>}
<1>1. RowLawful("events", row) /\ UNCHANGED version
  BY DEF Write
<1>2. /\ e \in DOMAIN meant' /\ meant'[e] = event
      /\ \A x \in DOMAIN meant : x # e => x \in DOMAIN meant' /\ meant'[x] = meant[x]
  BY DEF With
<1>3. EventFits(row, e)'
  BY <1>1, <1>2 DEF EventFits, RowLawful
<1>4. WritesFit(rows)'
  BY <1>3 DEF WritesFit
<1>5. \A x \in DOMAIN meant : (~ \E r \in rows : r[1] = "events" /\ r[2] = x) =>
          x \in DOMAIN meant' /\ meant'[x] = meant[x]
  BY <1>2
<1>6. \A r \in rows : r[1] \in {"sessions", "events", "questions"}
  OBVIOUS
<1> HIDE DEF rows
<1> QED BY <1>4, <1>5, <1>6, WriteKeeps DEF rows

\* A program of an earlier version records an event.
LEMMA OldEventKeeps ==
    ASSUME MigrationInv, NEW e, NEW event \in Recorded, OldEvent(e, event)
    PROVE  MigrationInv'
<1>1. Written(OldKeys(BuildConversationEventRow(event)), event)
  BY DEF Written
<1> QED BY <1>1, EventWritten DEF OldEvent

\* The program of today records an event.
LEMMA NewEventKeeps ==
    ASSUME MigrationInv, NEW e, NEW event \in Recorded, NewEvent(e, event)
    PROVE  MigrationInv'
<1>1. Written(BuildConversationEventRow(event), event)
  BY DEF Written
<1> QED BY <1>1, EventWritten DEF NewEvent

\* One question is written.
LEMMA QuestionWritten ==
    ASSUME MigrationInv, NEW q, NEW row \in QuestionRows, NEW byHand,
           Write({<<"questions", q, row>>}, byHand), UNCHANGED <<meant, stood>>,
           byHand \/ (IF version = 10 THEN Filed10(row) ELSE Filed11(row))
    PROVE  MigrationInv'
<1> DEFINE rows == {<<"questions", q, row>>}
<1>1. /\ RowLawful("questions", row) /\ UNCHANGED version
      /\ byHand => q \in odd'
  <2>1. /\ \A r \in rows : RowLawful(r[1], r[3])
        /\ UNCHANGED version /\ odd \subseteq odd'
    BY DEF Write
  <2>2. byHand => <<"questions", q, row>>[2] \in odd'
    BY HandIsOdd
  <2> QED BY <2>1, <2>2
<1>2. QuestionFits(row, q)'
  BY <1>1 DEF QuestionFits, RowLawful
<1>3. WritesFit(rows)'
  BY <1>2 DEF WritesFit
<1>4. \A r \in rows : r[1] \in {"sessions", "events", "questions"}
  OBVIOUS
<1> HIDE DEF rows
<1> QED BY <1>3, <1>4, WriteKeeps DEF rows

\* A question is filed.
LEMMA FileQuestionKeeps ==
    ASSUME MigrationInv, NEW q, NEW outOfScope \in BOOLEAN, NEW short \in {NoneSet, "trimmed", "padded"},
           FileQuestion(q, outOfScope, short)
    PROVE  MigrationInv'
<1>1. PICK llm \in BOOLEAN : llm = (version > 10 /\ ~outOfScope)
  OBVIOUS
<1>2. PICK row : row = [title |-> "fits", short |-> short, inPerson |-> FALSE,
                        outOfScope |-> outOfScope, llm |-> llm]
  OBVIOUS
<1>3. row \in QuestionRows
  BY <1>2 DEF QuestionRows
<1>4. /\ Write({<<"questions", q, row>>}, FALSE) /\ UNCHANGED <<meant, stood>>
      /\ (version = 10) <=> (short = NoneSet)
  BY <1>1, <1>2 DEF FileQuestion
<1>5. QuestionLawful(version, row)
  BY <1>4 DEF Write, RowLawful
<1>6. Filed10(row)
  BY <1>2 DEF Filed10
<1>7. version # 10 => Filed11(row)
  <2>1. version # 10 => row.short \in {"trimmed", "padded"}
    BY <1>2, <1>4, <1>5 DEF QuestionLawful, MigrationInv
  <2>2. ~(row.outOfScope /\ row.llm)
    BY <1>1, <1>2
  <2> QED BY <1>6, <2>1, <2>2 DEF Filed11
<1> QED BY <1>3, <1>4, <1>6, <1>7, QuestionWritten

\* The program of today ends a session with its event.
LEMMA NewEndKeeps ==
    ASSUME MigrationInv, NEW s, NEW e, NEW event \in Recorded,
           NEW outcome \in Outcomes \ {"IN_PROGRESS"}, NewEnd(s, e, outcome, event)
    PROVE  MigrationInv'
<1>1. PICK at : at = db.sessions[s].step
  OBVIOUS
<1>2. PICK row : row = SessionRow(outcome, "FINISHED", at)
  OBVIOUS
<1>3. PICK built : built = BuildConversationEventRow(event)
  OBVIOUS
<1> DEFINE rows == {<<"sessions", s, row>>, <<"events", e, built>>}
           st   == [outcome |-> outcome, at |-> at]
<1>4. /\ InProgress(s) /\ Write(rows, FALSE) /\ Stands(s, outcome, at) /\ meant' = With(meant, e, event)
  BY <1>1, <1>2, <1>3 DEF NewEnd
<1>5. /\ SessionLawful(version, row) /\ version >= 11 /\ EventLawful(version, built)
      /\ UNCHANGED version /\ odd \subseteq odd'
  <2>1. RowLawful("sessions", row) /\ RowLawful("events", built)
    BY <1>4 DEF Write
  <2>2. UNCHANGED version /\ odd \subseteq odd'
    BY <1>4 DEF Write
  <2> QED BY <2>1, <2>2 DEF RowLawful
<1>6. /\ TypeAt /\ at \in Steps /\ "FINISHED" \in Steps
      /\ s \notin odd => at \in ABANDONED_STEPS
  BY <1>1, <1>4, Standing DEF MigrationInv, TypeAt, Steps
<1>7. row \in SessionRows
  BY <1>2, <1>6, SessionRowFits
<1>8. s \notin odd => Kept11(row, st)
  BY <1>2, <1>5, <1>6, SessionRowFits DEF Kept11, TypeAt
<1>9. /\ s \in DOMAIN stood' /\ stood'[s] = st
      /\ \A x \in DOMAIN stood : x # s => x \in DOMAIN stood' /\ stood'[x] = stood[x]
      /\ e \in DOMAIN meant' /\ meant'[e] = event
      /\ \A x \in DOMAIN meant : x # e => x \in DOMAIN meant' /\ meant'[x] = meant[x]
  BY <1>4 DEF Stands, With
<1>10. SessionFits(row, s)'
  BY <1>5, <1>7, <1>8, <1>9 DEF SessionFits
<1>11. EventFits(built, e)'
  BY <1>3, <1>5, <1>9 DEF EventFits, Written
<1>12. WritesFit(rows)'
  BY <1>10, <1>11 DEF WritesFit
<1>13. /\ \A x \in DOMAIN stood : (~ \E r \in rows : r[1] = "sessions" /\ r[2] = x) =>
              x \in DOMAIN stood' /\ stood'[x] = stood[x]
       /\ \A x \in DOMAIN meant : (~ \E r \in rows : r[1] = "events" /\ r[2] = x) =>
              x \in DOMAIN meant' /\ meant'[x] = meant[x]
  BY <1>9
<1>14. \A r \in rows : r[1] \in {"sessions", "events", "questions"}
  OBVIOUS
<1> HIDE DEF rows
<1> QED BY <1>4, <1>12, <1>13, <1>14, WriteKeeps

\* Somebody writes a row by hand.
LEMMA HandWriteKeeps ==
    ASSUME MigrationInv, HandWrite
    PROVE  MigrationInv'
<1>1. ASSUME NEW s \in SessionId, InProgress(s),
             Write({<<"sessions", s, SessionRow("IN_PROGRESS", "FINISHED", NoneSet)>>}, TRUE),
             Stands(s, "IN_PROGRESS", "FINISHED"), UNCHANGED meant
      PROVE  MigrationInv'
  <2>1. PICK row : row = SessionRow("IN_PROGRESS", "FINISHED", NoneSet)
    OBVIOUS
  <2>2. TypeAt /\ "FINISHED" \in Steps /\ "IN_PROGRESS" \in Outcomes
    BY DEF MigrationInv, TypeAt, Steps, Outcomes
  <2>3. row \in SessionRows
    BY <2>1, <2>2, SessionRowFits
  <2> QED BY <1>1, <2>1, <2>3, SessionWritten
<1>2. ASSUME NEW e \in EventId \ DOMAIN db.events,
             Write({<<"events", e, [type |-> "STARTED", columns |-> [c \in Columns |-> Null],
                                    data |-> [note |-> Str("free text")]]>>}, TRUE),
             UNCHANGED <<meant, stood>>
      PROVE  MigrationInv'
  <2>1. PICK row : row = [type |-> "STARTED", columns |-> [c \in Columns |-> Null],
                          data |-> [note |-> Str("free text")]]
    OBVIOUS
  <2> DEFINE rows == {<<"events", e, row>>}
  <2>2. Write(rows, TRUE)
    BY <1>2, <2>1
  <2>3. RowLawful("events", row) /\ UNCHANGED version /\ e \in odd'
    <3>1. (\A r \in rows : RowLawful(r[1], r[3])) /\ UNCHANGED version
      BY <2>2 DEF Write
    <3>2. <<"events", e, row>>[2] \in odd'
      BY <2>2, HandIsOdd
    <3> QED BY <3>1, <3>2
  <2>4. EventFits(row, e)'
    BY <2>3 DEF EventFits, RowLawful
  <2>5. WritesFit(rows)'
    BY <2>4 DEF WritesFit
  <2>6. \A r \in rows : r[1] \in {"sessions", "events", "questions"}
    OBVIOUS
  <2> HIDE DEF rows
  <2> QED BY <1>2, <2>2, <2>5, <2>6, WriteKeeps
<1>3. ASSUME NEW q \in QuestionId \ DOMAIN db.questions, NEW title \in {"fits", "blankStart"},
             Write({<<"questions", q, [title |-> title, short |-> NoneSet, inPerson |-> TRUE,
                                       outOfScope |-> title = "fits", llm |-> FALSE]>>}, TRUE),
             UNCHANGED <<meant, stood>>
      PROVE  MigrationInv'
  <2>1. PICK outOfScope \in BOOLEAN : outOfScope = (title = "fits")
    OBVIOUS
  <2>2. PICK row : row = [title |-> title, short |-> NoneSet, inPerson |-> TRUE,
                          outOfScope |-> outOfScope, llm |-> FALSE]
    OBVIOUS
  <2>3. row \in QuestionRows
    BY <2>2 DEF QuestionRows
  <2>4. Write({<<"questions", q, row>>}, TRUE)
    BY <1>3, <2>1, <2>2
  <2> QED BY <1>3, <2>3, <2>4, QuestionWritten
<1> QED BY <1>1, <1>2, <1>3 DEF HandWrite

\* A program of the first version books an appointment.
LEMMA OldAppointmentKeeps ==
    ASSUME MigrationInv, OldAppointment
    PROVE  MigrationInv'
<1>1. /\ version = 10 /\ db' = [db EXCEPT !.appointments = TRUE]
      /\ tx' = IF tx.on THEN [tx EXCEPT !.view.appointments = TRUE] ELSE tx
      /\ UNCHANGED <<version, refused, meant, stood, odd>>
  BY DEF OldAppointment
<1>2. /\ IsDb(db') /\ db'.sessions = db.sessions /\ db'.events = db.events
      /\ db'.questions = db.questions
  BY <1>1 DEF MigrationInv, IsDb
<1>3. RowsAt(First(version), db)' /\ RowsMeetSchema'
  BY <1>1, <1>2 DEF MigrationInv, RowsMeetSchema, Unlawful, RowsAt, SessionAt, QuestionAt, EventAt, First
<1>4. RefusedForAReason'
  BY <1>1 DEF MigrationInv, RefusedForAReason
<1>5. CASE ~tx.on
  BY <1>1, <1>2, <1>3, <1>4, <1>5 DEF MigrationInv
<1>6. CASE tx.on
  <2>1. PICK k \in 1..18 : StandsAt(k)
    BY <1>6 DEF MigrationInv
  <2>2. IsTx(tx) /\ IsDb(tx.view) /\ tx.on = TRUE /\ RowsAt(k, tx.view)
    BY <1>6, <2>1 DEF MigrationInv, StandsAt
  <2>3. /\ tx'.on = TRUE /\ tx'.target = tx.target /\ tx'.todo = tx.todo /\ tx'.done = tx.done
        /\ tx'.view = [tx.view EXCEPT !.appointments = TRUE] /\ IsTx(tx')
    BY <1>1, <1>6, <2>2 DEF IsTx
  <2>4. /\ IsDb(tx'.view) /\ tx'.view.sessions = tx.view.sessions
        /\ tx'.view.events = tx.view.events /\ tx'.view.questions = tx.view.questions
    BY <2>2, <2>3 DEF IsDb
  <2>5. RowsAt(k, tx.view)'
    BY <1>1, <2>2, <2>4 DEF RowsAt, SessionAt, QuestionAt, EventAt
  <2>6. StandsAt(k)'
    BY <1>1, <2>1, <2>3, <2>5 DEF StandsAt, First
  <2> QED BY <1>1, <1>2, <1>3, <1>4, <1>6, <2>1, <2>3, <2>4, <2>6 DEF MigrationInv, IsDb
<1> QED BY <1>5, <1>6

\* Steps of the others leave the rows alone.
LEMMA MigrationUnchanged ==
    ASSUME MigrationInv, UNCHANGED migrationVars
    PROVE  MigrationInv'
<1>1. UNCHANGED <<version, db, tx, refused, meant, stood, odd>>
  BY DEF migrationVars
<1>2. (TypeAt /\ IsDb(db) /\ RowsAt(First(version), db) /\ RowsMeetSchema)'
  BY <1>1, CommittedUnchanged
<1>3. RefusedForAReason'
  BY <1>1 DEF MigrationInv, RefusedForAReason
<1>4. CASE ~tx.on
  BY <1>1, <1>2, <1>3, <1>4 DEF MigrationInv, TypeAt
<1>5. CASE tx.on
  <2>1. PICK k \in 1..18 : StandsAt(k)
    BY <1>5 DEF MigrationInv
  <2>2. StandsAt(k)'
    BY <1>1, <2>1 DEF StandsAt, RowsAt, SessionAt, QuestionAt, EventAt, First
  <2> QED BY <1>1, <1>2, <1>3, <1>5, <2>1, <2>2 DEF MigrationInv, TypeAt, IsDb
<1> QED BY <1>4, <1>5

\* At first there are no rows.
LEMMA MigrationsBegin == InitMigrations => MigrationInv
<1> SUFFICES ASSUME InitMigrations PROVE MigrationInv
  OBVIOUS
<1>1. /\ version = 10 /\ db = NoRows /\ tx = Idle /\ refused = {} /\ odd = {}
  BY DEF InitMigrations
<1>2. /\ IsDb(db) /\ IsTx(tx) /\ tx.on = FALSE
      /\ db.sessions = <<>> /\ db.events = <<>> /\ db.questions = <<>>
  BY <1>1 DEF NoRows, Idle, IsDb, IsTx
<1>3. /\ DOMAIN db.sessions = {} /\ DOMAIN db.events = {} /\ DOMAIN db.questions = {}
      /\ version \in 10..13
  BY <1>1, <1>2
<1> QED BY <1>1, <1>2, <1>3 DEF MigrationInv, RowsAt, RowsMeetSchema, Unlawful, RefusedForAReason

\* The steps of the runner, together.
LEMMA RunnerKeeps ==
    ASSUME MigrationInv, Runner
    PROVE  MigrationInv'
<1>1. CASE RunStatement
  BY <1>1, RunStatementKeeps
<1>2. CASE Commit
  BY <1>2, CommitKeeps
<1>3. CASE RunnerDies
  <2>1. tx' = Idle /\ UNCHANGED <<version, db, meant, stood, odd, refused>>
    BY <1>3 DEF RunnerDies, rowVars
  <2>2. RefusedForAReason'
    BY <2>1 DEF MigrationInv, RefusedForAReason
  <2> QED BY <2>1, <2>2, IdleKeeps
<1> QED BY <1>1, <1>2, <1>3 DEF Runner

\* The writes of the programs before, together.
LEMMA OldWritesKeep ==
    ASSUME MigrationInv, OldWrites
    PROVE  MigrationInv'
<1>1. ASSUME NEW s \in SessionId, StartSession(s) PROVE MigrationInv'
  BY <1>1, StartSessionKeeps
<1>2. ASSUME NEW s \in SessionId, NEW step \in {"AWAITING_QUESTION", "AWAITING_SLOT"}, MoveSession(s, step)
      PROVE  MigrationInv'
  <2>1. step \in ABANDONED_STEPS
    BY DEF ABANDONED_STEPS
  <2> QED BY <1>2, <2>1, MoveSessionKeeps
<1>3. ASSUME NEW s \in SessionId, NEW outcome \in {"RESOLVED", "SCHEDULED", "ABANDONED"},
             NEW step \in ABANDONED_STEPS \cup {"FINISHED"}, OldEnd(s, outcome, step)
      PROVE  MigrationInv'
  BY <1>3, OldEndKeeps DEF Steps
<1>4. ASSUME NEW e \in EventId, NEW event \in Recorded, OldEvent(e, event) PROVE MigrationInv'
  BY <1>4, OldEventKeeps
<1>5. ASSUME NEW q \in QuestionId, NEW outOfScope \in BOOLEAN,
             NEW short \in {NoneSet, "trimmed", "padded"}, FileQuestion(q, outOfScope, short)
      PROVE  MigrationInv'
  BY <1>5, FileQuestionKeeps
<1>6. CASE OldAppointment
  BY <1>6, OldAppointmentKeeps
<1> QED BY <1>1, <1>2, <1>3, <1>4, <1>5, <1>6 DEF OldWrites

\* The writes of the program of today, together.
LEMMA NewWritesKeep ==
    ASSUME MigrationInv, NewWrites
    PROVE  MigrationInv'
<1>1. ASSUME NEW s \in SessionId, StartSession(s) PROVE MigrationInv'
  BY <1>1, StartSessionKeeps
<1>2. ASSUME NEW s \in SessionId, NEW step \in {"AWAITING_QUESTION", "AWAITING_SLOT"}, MoveSession(s, step)
      PROVE  MigrationInv'
  <2>1. step \in ABANDONED_STEPS
    BY DEF ABANDONED_STEPS
  <2> QED BY <1>2, <2>1, MoveSessionKeeps
<1>3. ASSUME NEW e \in EventId, NEW event \in Recorded, NewEvent(e, event) PROVE MigrationInv'
  BY <1>3, NewEventKeeps
<1>4. ASSUME NEW s \in SessionId, NEW e \in EventId, NEW event \in Recorded,
             NEW outcome \in {"RESOLVED", "SCHEDULED", "OUT_OF_SCOPE", "NO_SLOT", "DECLINED",
                              "MANAGED_APPOINTMENT", "ABANDONED"},
             NewEnd(s, e, outcome, event)
      PROVE  MigrationInv'
  <2>1. outcome \in Outcomes \ {"IN_PROGRESS"}
    BY DEF Outcomes
  <2> QED BY <1>4, <2>1, NewEndKeeps
<1> QED BY <1>1, <1>2, <1>3, <1>4 DEF NewWrites

\* Every step of the system leaves the migrations and their rows in order.
LEMMA MigrationsKept ==
    ASSUME MigrationInv, [Next]_vars
    PROVE  MigrationInv'
<1>1. ASSUME UNCHANGED migrationVars PROVE MigrationInv'
  BY <1>1, MigrationUnchanged
<1>2. CASE StartMigrate
  <2>1. CASE Begin(Latest)
    BY <2>1, BeginKeeps DEF Latest
  <2> QED BY <1>1, <1>2, <2>1 DEF StartMigrate
<1>3. CASE MigrateByHand
  <2>1. PICK to \in 11..13 : Begin(to)
    BY <1>3 DEF MigrateByHand, Beside, Latest
  <2> QED BY <2>1, BeginKeeps
<1>4. CASE RollbackByHand
  <2>1. PICK to \in 10..12 : Rollback(to)
    BY <1>4 DEF RollbackByHand, Beside
  <2> QED BY <2>1, RollbackKeeps
<1>5. CASE CorrectByHand
  BY <1>5, CorrectKeeps DEF CorrectByHand, Beside
<1>6. CASE RunnerSteps
  BY <1>6, RunnerKeeps DEF RunnerSteps
<1>7. CASE RowsWritten
  BY <1>7, OldWritesKeep, NewWritesKeep, HandWriteKeeps DEF RowsWritten
<1>8. CASE BeginDeploy \/ MigrateEnds \/ RunSeed \/ SeedStep \/ StartBackend \/ CheckRelease
           \/ SwitchByHand \/ PanelWrites \/ UNCHANGED vars
  <2>1. UNCHANGED migrationVars
    BY <1>8 DEF BeginDeploy, MigrateEnds, RunSeed, SeedStep, StartBackend, CheckRelease,
                SwitchByHand, Beside, PanelWrites, vars
  <2> QED BY <1>1, <2>1
<1> QED BY <1>2, <1>3, <1>4, <1>5, <1>6, <1>7, <1>8 DEF Next

-----------------------------------------------------------------------------
(* The stages of a deploy                                                  *)

\* A step of the seed that does not end it leaves it running.
LEMMA SeedGoesOn ==
    ASSUME SeedShape, SeedWork
    PROVE  seed'.step \in {"find", "match", "update", "docs", "replace", "config", "whatsapp", "commit"}
<1> DEFINE Going(s) == s.step \in {"find", "match", "update", "docs", "replace", "config", "whatsapp", "commit"}
<1>1. ASSUME NEW s, IsSeed(s), NEW id PROVE Going(Done(s, id))
  <2>1. Done(s, id).step = IF s.at = Len(File) THEN "config" ELSE "find"
    BY <1>1 DEF Done, IsSeed
  <2> QED BY <2>1
<1>2. ASSUME NEW s, IsSeed(s), NEW id, NEW row PROVE IsSeed(Wrote(s, id, row)) /\ Wrote(s, id, row).step = s.step
  BY <1>2 DEF Wrote, IsSeed
<1>3. ASSUME NEW s, IsSeed(s), NEW id
      PROVE  /\ Going([s EXCEPT !.step = "update", !.row = id]) /\ Going([s EXCEPT !.step = "match"])
             /\ Going([s EXCEPT !.step = "docs"]) /\ Going([s EXCEPT !.step = "replace"])
  BY <1>3 DEF IsSeed
<1>4. IsSeed(seed)
  BY DEF SeedShape
<1> SUFFICES Going(seed')
  OBVIOUS
<1> HIDE DEF Going
<1>5. CASE FindBySeedKey
  <2>1. CASE seed' = [seed EXCEPT !.step = "match"]
    BY <1>3, <1>4, <2>1
  <2>2. ASSUME NEW id \in DOMAIN View, Moves(IF View[id].edited THEN Done(seed, id)
                                             ELSE [seed EXCEPT !.step = "update", !.row = id])
        PROVE  Going(seed')
    <3>1. CASE seed' = Done(seed, id)
      BY <1>1, <1>4, <3>1
    <3>2. CASE seed' = [seed EXCEPT !.step = "update", !.row = id]
      BY <1>3, <1>4, <3>2
    <3> QED BY <2>2, <3>1, <3>2 DEF Moves
  <2> QED BY <1>5, <2>1, <2>2 DEF FindBySeedKey, Moves
<1>6. CASE BackfillOrInsert
  <2>1. \/ \E id, row : seed' = Done(Wrote(seed, id, row), id)
        \/ \E id, row : seed' = [Wrote(seed, id, row) EXCEPT !.step = "update", !.row = id]
    <3> DEFINE id == Min(Candidates)
               row == [View[id] EXCEPT !.key = Item.key]
    <3>1. \/ \E new : seed' = Done(Wrote(seed, new, FiledRow), new)
          \/ seed' = Done(Wrote(seed, id, row), id)
          \/ seed' = [Wrote(seed, id, row) EXCEPT !.step = "update", !.row = id]
      BY <1>6 DEF BackfillOrInsert, Moves
    <3> HIDE DEF id, row
    <3> QED BY <3>1
  <2>2. ASSUME NEW id, NEW row, seed' = Done(Wrote(seed, id, row), id) PROVE Going(seed')
    BY <1>1, <1>2, <1>4, <2>2
  <2>3. ASSUME NEW id, NEW row, seed' = [Wrote(seed, id, row) EXCEPT !.step = "update", !.row = id]
        PROVE  Going(seed')
    BY <1>2, <1>3, <1>4, <2>3
  <2> QED BY <2>1, <2>2, <2>3
<1>7. CASE UpdateRow
  BY <1>1, <1>2, <1>3, <1>4, <1>7 DEF UpdateRow, Moves
<1>8. CASE SyncRequiredDocuments
  BY <1>1, <1>3, <1>4, <1>8 DEF SyncRequiredDocuments, Moves
<1>10. CASE ReplaceDocuments
  <2>1. PICK docs : seed' = Done(Wrote(seed, seed.row, [View[seed.row] EXCEPT !.docs = docs]), seed.row)
    BY <1>10 DEF ReplaceDocuments, Moves
  <2> QED BY <1>1, <1>2, <1>4, <2>1
<1>9. CASE SeedInitialConfig \/ SeedWhatsApp
  <2>1. PICK new : \/ seed' = [seed EXCEPT !.step = "whatsapp", !.made = new]
                   \/ seed' = [seed EXCEPT !.step = "commit", !.made = new]
    <3>1. CASE SeedInitialConfig
      BY <3>1 DEF SeedInitialConfig, Moves
    <3>2. CASE SeedWhatsApp
      BY <3>2 DEF SeedWhatsApp, Moves
    <3> QED BY <1>9, <3>1, <3>2
  <2>2. Going(seed')
    BY <1>4, <2>1 DEF Going, IsSeed
  <2> QED BY <2>2
<1> QED BY <1>5, <1>6, <1>7, <1>8, <1>9, <1>10 DEF SeedWork

\* Whoever writes rows leaves the version and a runner that is not there.
LEMMA WritersLeaveRunner ==
    ASSUME RowsWritten
    PROVE  UNCHANGED version /\ (~tx.on => UNCHANGED tx)
<1>1. ASSUME NEW rows, NEW byHand, Write(rows, byHand)
      PROVE  UNCHANGED version /\ (~tx.on => UNCHANGED tx)
  BY <1>1 DEF Write
<1>2. CASE OldWrites
  BY <1>1, <1>2 DEF OldWrites, StartSession, MoveSession, OldEnd, OldEvent, FileQuestion, OldAppointment
<1>3. CASE NewWrites
  BY <1>1, <1>3 DEF NewWrites, StartSession, MoveSession, NewEvent, NewEnd
<1>4. CASE HandWrite
  BY <1>1, <1>4 DEF HandWrite
<1> QED BY <1>2, <1>3, <1>4 DEF RowsWritten

\* At first nothing is deployed.
LEMMA StagesBegin == Init => StageInv
BY DEF Init, InitMigrations, InitSeed, StageInv, Idle, Asleep, Running

\* A program of this repository serves, and a deploy goes on from its migrations,
\* only over a database at the last version.
LEMMA StagesKept ==
    ASSUME MigrationInv, StageInv, SeedShape, [Next]_vars
    PROVE  StageInv'
<1> USE DEF StageInv, Latest
<1>1. CASE BeginDeploy
  BY <1>1 DEF BeginDeploy, migrationVars, seedVars, Running
<1>2. CASE StartMigrate
  BY <1>2 DEF StartMigrate, migrationVars, seedVars, Running, Begin
<1>3. CASE MigrateEnds
  BY <1>3 DEF MigrateEnds, migrationVars, seedVars, Running
<1>4. CASE RunSeed
  <2>1. seed'.step = "find"
    BY <1>4 DEF RunSeed, StartSeed, Asleep
  <2> QED BY <1>4, <2>1 DEF RunSeed, migrationVars, Running
<1>5. CASE SeedStep
  <2>0. stage = "seeding" /\ UNCHANGED <<migrationVars, backend>>
    BY <1>5 DEF SeedStep
  <2>1. CASE CommitSeed /\ stage' = "start"
    BY <2>0, <2>1 DEF CommitSeed, Asleep, migrationVars, Running
  <2>2. CASE SeedFails /\ stage' = "none"
    BY <2>0, <2>2 DEF SeedFails, Asleep, migrationVars, Running
  <2>3. CASE SeedWork /\ UNCHANGED stage
    <3>1. seed'.step # "idle"
      BY <2>3, SeedGoesOn
    <3> QED BY <2>0, <2>3, <3>1 DEF migrationVars, Running
  <2> QED BY <1>5, <2>1, <2>2, <2>3 DEF SeedStep
<1>6. CASE StartBackend
  BY <1>6 DEF StartBackend, migrationVars, seedVars, Running
<1>7. CASE CheckRelease
  BY <1>7 DEF CheckRelease, migrationVars, seedVars, Running
<1>8. CASE MigrateByHand \/ CorrectByHand
  BY <1>8 DEF MigrateByHand, CorrectByHand, Beside, seedVars, Running, Correct
<1>9. CASE RollbackByHand
  BY <1>9 DEF RollbackByHand, Beside, seedVars, Running
<1>10. CASE SwitchByHand
  BY <1>10 DEF SwitchByHand, Beside, seedVars, migrationVars, Running
<1>11. CASE RunnerSteps
  <2>1. tx.on
    BY <1>11 DEF RunnerSteps, Runner, RunStatement, Commit, RunnerDies
  <2> QED BY <1>11, <2>1 DEF RunnerSteps, deployVars, seedVars, Running
<1>12. CASE RowsWritten
  BY <1>12, WritersLeaveRunner DEF RowsWritten, deployVars, seedVars, Running
<1>13. CASE PanelWrites
  BY <1>13 DEF PanelWrites, PanelSteps, PanelSaves, StaffChanges, deployVars, migrationVars, Running
<1>14. CASE UNCHANGED vars
  BY <1>14 DEF vars, migrationVars, seedVars, deployVars, Running
<1> QED BY <1>1, <1>2, <1>3, <1>4, <1>5, <1>6, <1>7, <1>8, <1>9, <1>10, <1>11, <1>12, <1>13, <1>14 DEF Next

-----------------------------------------------------------------------------
(* Lemmas about the rows of the catalogue                                  *)

\* The marks for no key and for other titles are no keys.
LEMMA KeysApart == NoKey \notin ItemKeys /\ "other" \notin ItemKeys
BY SeedAssumption

\* A key is filed in one place.
LEMMA Filed ==
    ASSUME NEW i \in 1..Len(File)
    PROVE  /\ File[i].key \in ItemKeys /\ File[i].key # NoKey /\ File[i].key # "other"
           /\ \A j \in 1..Len(File) : File[j].key = File[i].key => j = i
           /\ Len(File) \in Nat
BY SeedAssumption, KeysApart DEF ItemKeys

\* A row that keeps its key and its category may be changed, its title only to one
\* that is not filed.
LEMMA TableChanged ==
    ASSUME NEW rows, Table(rows), NEW id \in DOMAIN rows, NEW row, IsRow(row),
           row.key = rows[id].key, row.of = rows[id].of, row.edited \in BOOLEAN,
           row.key = NoKey => row.title \in {rows[id].title, "other"}
    PROVE  Table(With(rows, id, row))
<1> DEFINE new == With(rows, id, row)
<1>1. /\ DOMAIN new = DOMAIN rows /\ new[id] = row
      /\ \A x \in DOMAIN rows : x # id => new[x] = rows[x]
      /\ IsTable(new)
  <2>1. /\ DOMAIN new = DOMAIN rows \cup {id} /\ new[id] = row
        /\ \A x \in DOMAIN rows : x # id => new[x] = rows[x]
    BY DEF With
  <2>2. IsTable(new)
    BY DEF With, IsTable
  <2>3. DOMAIN rows \cup {id} = DOMAIN rows
    OBVIOUS
  <2> QED BY <2>1, <2>2, <2>3
<1> SUFFICES Table(new)
  OBVIOUS
<1> HIDE DEF new
<1>2. \A x \in DOMAIN rows : new[x].key = rows[x].key /\ new[x].of = rows[x].of
  BY <1>1
<1>3. \A x \in DOMAIN new : IsRow(new[x]) /\ new[x].key \in ItemKeys \cup {NoKey} /\ new[x].edited \in BOOLEAN
  BY <1>1 DEF Table
<1>4. ASSUME NEW x \in DOMAIN new, NEW other \in DOMAIN new, new[x].key # NoKey
      PROVE  /\ new[other].key = new[x].key => other = x
             /\ (/\ new[other].key = NoKey /\ new[other].title = new[x].key
                 /\ new[other].of = new[x].of) => x < other
  <2>1. rows[x].key \in ItemKeys /\ rows[x].key # "other"
    BY <1>1, <1>2, <1>4, KeysApart DEF Table
  <2>2. new[other].key = NoKey /\ new[other].title = rows[x].key => rows[other].title = rows[x].key
    BY <1>1, <2>1
  <2> QED BY <1>1, <1>2, <1>4, <2>2 DEF Table
<1> QED BY <1>1, <1>3, <1>4 DEF Table

\* A row without key gets the key of its title, if it is the first of those that
\* could, and no other row has that key.
LEMMA TableBackfilled ==
    ASSUME NEW rows, Table(rows), NEW id \in DOMAIN rows, NEW key \in ItemKeys, NEW of,
           \A x \in DOMAIN rows : rows[x].key # key,
           rows[id].key = NoKey, rows[id].of = of,
           \A x \in DOMAIN rows : rows[x].key = NoKey /\ rows[x].title = key /\ rows[x].of = of => id <= x
    PROVE  Table(With(rows, id, [rows[id] EXCEPT !.key = key]))
<1> DEFINE row == [rows[id] EXCEPT !.key = key]
           new == With(rows, id, row)
<1>0. /\ IsRow(row) /\ row.key = key /\ row.of = of /\ row.edited = rows[id].edited
  BY DEF Table, IsRow
<1> HIDE DEF row
<1>1. /\ DOMAIN new = DOMAIN rows /\ new[id] = row
      /\ \A x \in DOMAIN rows : x # id => new[x] = rows[x]
      /\ IsTable(new)
  <2>1. /\ DOMAIN new = DOMAIN rows \cup {id} /\ new[id] = row
        /\ \A x \in DOMAIN rows : x # id => new[x] = rows[x]
    BY DEF With
  <2>2. IsTable(new)
    BY DEF With, IsTable
  <2>3. DOMAIN rows \cup {id} = DOMAIN rows
    OBVIOUS
  <2> QED BY <2>1, <2>2, <2>3
<1> SUFFICES Table(new)
  BY DEF row
<1> HIDE DEF new
<1>2. \A x \in DOMAIN new : IsRow(new[x]) /\ new[x].key \in ItemKeys \cup {NoKey} /\ new[x].edited \in BOOLEAN
  BY <1>0, <1>1 DEF Table
<1>3. ASSUME NEW x \in DOMAIN new, NEW other \in DOMAIN new, new[x].key # NoKey
      PROVE  /\ new[other].key = new[x].key => other = x
             /\ (/\ new[other].key = NoKey /\ new[other].title = new[x].key
                 /\ new[other].of = new[x].of) => x < other
  <2>1. key # NoKey
    BY KeysApart
  <2>2. CASE x = id
    <3>1. new[other].key = NoKey => other # id
      BY <1>0, <1>1, <2>1
    <3>2. \A y \in DOMAIN rows : y \in Int
      BY DEF Table
    <3> QED BY <1>0, <1>1, <1>3, <2>2, <3>1, <3>2
  <2>3. CASE x # id
    <3>1. other = id => new[other].key # NoKey /\ new[other].key # new[x].key
      BY <1>0, <1>1, <1>3, <2>1, <2>3
    <3> QED BY <1>0, <1>1, <1>3, <2>3, <3>1 DEF Table
  <2> QED BY <2>2, <2>3
<1> QED BY <1>1, <1>2, <1>3 DEF Table

\* A row is added behind the others, where no row could have got its key.
LEMMA TableInserted ==
    ASSUME NEW rows, Table(rows), NEW row, IsRow(row), row.key \in ItemKeys,
           row.edited \in BOOLEAN,
           \A x \in DOMAIN rows : rows[x].key # row.key,
           \A x \in DOMAIN rows : ~(rows[x].key = NoKey /\ rows[x].title = row.key /\ rows[x].of = row.of)
    PROVE  /\ Cardinality(DOMAIN rows) + 1 \notin DOMAIN rows
           /\ Table(With(rows, Cardinality(DOMAIN rows) + 1, row))
<1> DEFINE n   == Cardinality(DOMAIN rows)
           id  == n + 1
           new == With(rows, id, row)
<1>0. n \in Nat /\ DOMAIN rows = 1..n /\ id \notin DOMAIN rows
  BY DEF Table
<1>1. /\ DOMAIN new = DOMAIN rows \cup {id} /\ new[id] = row
      /\ \A x \in DOMAIN rows : x # id => new[x] = rows[x]
      /\ IsTable(new)
  BY DEF With, IsTable
<1> SUFFICES Table(new)
  BY <1>0
<1>2. DOMAIN new = 1 .. (n + 1) /\ Cardinality(1 .. (n + 1)) = n + 1
  <2> HIDE DEF n, new
  <2>1. 1 .. (n + 1) = (1 .. n) \cup {n + 1}
    BY <1>0
  <2>2. Cardinality(1 .. (n + 1)) = n + 1
    BY <1>0, FS_Interval
  <2> QED BY <1>0, <1>1, <2>1, <2>2
<1>3. Cardinality(DOMAIN new) \in Nat /\ DOMAIN new = 1 .. Cardinality(DOMAIN new)
  <2> HIDE DEF n, new
  <2> QED BY <1>0, <1>2
<1> HIDE DEF new, id, n
<1>4. \A x \in DOMAIN new : IsRow(new[x]) /\ new[x].key \in ItemKeys \cup {NoKey} /\ new[x].edited \in BOOLEAN
  BY <1>0, <1>1 DEF Table
<1>5. row.key # NoKey
  BY KeysApart
<1>6. ASSUME NEW x \in DOMAIN new, NEW other \in DOMAIN new, new[x].key # NoKey
      PROVE  /\ new[other].key = new[x].key => other = x
             /\ (/\ new[other].key = NoKey /\ new[other].title = new[x].key
                 /\ new[other].of = new[x].of) => x < other
  <2>1. CASE x = id
    BY <1>0, <1>1, <1>5, <1>6, <2>1
  <2>2. CASE x # id
    <3>1. CASE other = id
      <4>1. new[other].key # NoKey /\ new[other].key # new[x].key
        BY <1>0, <1>1, <1>5, <1>6, <2>2, <3>1
      <4> QED BY <4>1
    <3>2. CASE other # id
      BY <1>1, <1>6, <2>2, <3>2 DEF Table
    <3> QED BY <3>1, <3>2
  <2> QED BY <2>1, <2>2
<1> QED BY <1>1, <1>3, <1>4, <1>6 DEF Table

\* An item stays filed when its row is left alone, or is as filed again.
LEMMA StaysFiled ==
    ASSUME NEW i \in 1..Len(File), NEW rows, ItemFiled(i, rows), NEW id, NEW row,
           id \in DOMAIN rows /\ rows[id].key = File[i].key /\ AsFiled(rows[id], File[i]) =>
               row.key = File[i].key /\ AsFiled(row, File[i])
    PROVE  ItemFiled(i, With(rows, id, row))
<1>1. PICK x \in DOMAIN rows : rows[x].key = File[i].key /\ AsFiled(rows[x], File[i])
  BY DEF ItemFiled
<1> DEFINE new == With(rows, id, row)
<1>2. x \in DOMAIN new /\ new[x] = IF x = id THEN row ELSE rows[x]
  BY DEF With
<1> HIDE DEF new
<1>3. new[x].key = File[i].key /\ AsFiled(new[x], File[i])
  BY <1>1, <1>2
<1> QED BY <1>2, <1>3 DEF ItemFiled, new

-----------------------------------------------------------------------------
(* The steps of the seed                                                   *)

\* The seed that goes on without a write sees what it saw.
LEMMA ViewMoved ==
    ASSUME UNCHANGED content, seed'.mine = seed.mine
    PROVE  View' = View
BY DEF View

\* The seed that writes a row sees it.
LEMMA ViewWrote ==
    ASSUME UNCHANGED content, NEW id, NEW row, seed'.mine = With(seed.mine, id, row)
    PROVE  View' = With(View, id, row)
<1> DEFINE old == seed.mine
           new == With(old, id, row)
<1>1. /\ DOMAIN new = (DOMAIN old) \cup {id}
      /\ \A x \in DOMAIN new : new[x] = IF x = id THEN row ELSE old[x]
  BY DEF With
<1>2. View = [x \in (DOMAIN content) \cup DOMAIN old |-> IF x \in DOMAIN old THEN old[x] ELSE content[x]]
  BY DEF View
<1>3. View' = [x \in (DOMAIN content) \cup DOMAIN new |-> IF x \in DOMAIN new THEN new[x] ELSE content[x]]
  BY DEF View
<1> HIDE DEF old, new
<1>4. (DOMAIN content) \cup DOMAIN new = (DOMAIN View) \cup {id}
  BY <1>1, <1>2
<1>5. \A x \in (DOMAIN View) \cup {id} :
          (IF x \in DOMAIN new THEN new[x] ELSE content[x]) = IF x = id THEN row ELSE View[x]
  BY <1>1, <1>2
<1>6. View' = [x \in (DOMAIN View) \cup {id} |-> IF x = id THEN row ELSE View[x]]
  BY <1>3, <1>4, <1>5
<1> QED BY <1>6 DEF With

\* Without a seed the view is the committed content.
LEMMA ViewAsleep ==
    ASSUME IsTable(content), seed.mine = <<>>
    PROVE  View = content
<1>1. DOMAIN seed.mine = {}
  OBVIOUS
<1> QED BY <1>1 DEF View, IsTable

\* What a step within the items has to leave in order.
LEMMA ItemStepKeeps ==
    ASSUME SeedCore, Running, UNCHANGED <<content, base, owned, raced>>,
           IsSeed(seed'), seed'.step \in {"find", "match", "update", "docs", "replace", "config"},
           seed'.made = seed.made, seed'.at \in 1..Len(File),
           Table(View'), \A id \in owned : PanelRow(View'[id], id),
           seed'.step \in {"update", "docs", "replace"} /\ seed'.row \in owned => seed'.row \in raced,
           SeedProgress'
    PROVE  SeedCore'
<1>1. SeedShape'
  BY DEF SeedCore, SeedShape, Running
<1>2. BaseInv'
  BY DEF SeedCore, BaseInv, Running
<1>3. OwnedInv'
  BY DEF SeedCore, OwnedInv, PanelRow
<1>4. Table(content)' /\ Table(View)'
  BY DEF SeedCore, Table
<1> QED BY <1>1, <1>2, <1>3, <1>4 DEF SeedCore

\* An item is done when its row is as filed, or edited.
LEMMA DoneProgress ==
    ASSUME NEW s, IsSeed(s), s.at \in 1..Len(File), NEW id, seed' = Done(s, id),
           \A i \in 1..Len(File) : i <= s.at => ItemFiled(i, View')
    PROVE  /\ IsSeed(seed') /\ seed'.step \in {"find", "config"} /\ seed'.at \in 1..Len(File)
           /\ seed'.made = s.made /\ seed'.mine = s.mine
           /\ SeedProgress'
<1>0. Len(File) \in Nat
  BY Filed
<1>1. /\ IsSeed(seed') /\ seed'.made = s.made /\ seed'.mine = s.mine
      /\ seed'.at = IF s.at = Len(File) THEN s.at ELSE s.at + 1
      /\ seed'.step = IF s.at = Len(File) THEN "config" ELSE "find"
  BY DEF Done, IsSeed
<1>2. seed'.at \in 1..Len(File)
  BY <1>0, <1>1
<1>3. ASSUME NEW i \in 1..Len(File), i < seed'.at \/ seed'.step \in {"config", "whatsapp", "commit"}
      PROVE  ItemFiled(i, View')
  <2>1. i <= s.at
    BY <1>0, <1>1, <1>3
  <2> QED BY <2>1
<1>4. \A i \in 1..Len(File) :
          (i < seed.at \/ seed.step \in {"config", "whatsapp", "commit"})' => ItemFiled(i, View)'
  BY <1>3 DEF ItemFiled
<1> QED BY <1>1, <1>2, <1>4 DEF SeedProgress

\* The items before this one, and this one when its row is done.
LEMMA ItemsSoFar ==
    ASSUME SeedCore, Running
    PROVE  /\ seed.at \in 1..Len(File) /\ Len(File) \in Nat /\ IsSeed(seed)
           /\ Item.key \in ItemKeys /\ Item.key # NoKey
           /\ \A i \in 1..Len(File) : File[i].key = Item.key => i = seed.at
           /\ \A i \in 1..Len(File) : i < seed.at => ItemFiled(i, View)
<1>1. seed.at \in 1..Len(File) /\ IsSeed(seed)
  BY DEF SeedCore, SeedShape
<1> QED BY <1>1, Filed DEF SeedCore, SeedProgress, Item

\* The seed looks for the row of an item by its key.
LEMMA FindKeeps ==
    ASSUME SeedCore, FindBySeedKey
    PROVE  SeedCore'
<1>0. /\ Running /\ seed.step = "find" /\ UNCHANGED <<content, base, owned, raced>>
      /\ Table(View) /\ \A id \in owned : PanelRow(View[id], id)
  BY DEF FindBySeedKey, Moves, Running, SeedCore, OwnedInv
<1>1. CASE seed' = [seed EXCEPT !.step = "match"] /\ \A id \in DOMAIN View : View[id].key # Item.key
  <2>1. /\ IsSeed(seed') /\ seed'.step = "match" /\ seed'.at = seed.at /\ seed'.made = seed.made
        /\ seed'.mine = seed.mine
    BY <1>0, <1>1, ItemsSoFar DEF IsSeed
  <2>2. View' = View
    BY <1>0, <2>1, ViewMoved
  <2>3. SeedProgress'
    BY <1>0, <1>1, <2>1, <2>2, ItemsSoFar DEF SeedProgress, Running, ItemFiled, Item
  <2> QED BY <1>0, <2>1, <2>2, <2>3, ItemsSoFar, ItemStepKeeps
<1>2. ASSUME NEW id \in DOMAIN View, View[id].key = Item.key, View[id].edited, seed' = Done(seed, id)
      PROVE  SeedCore'
  <2>1. seed'.mine = seed.mine
    BY <1>0, <1>2, ItemsSoFar DEF Done, IsSeed
  <2>2. View' = View
    BY <1>0, <2>1, ViewMoved
  <2>3. ItemFiled(seed.at, View)
    BY <1>2 DEF ItemFiled, AsFiled, Item
  <2>4. \A i \in 1..Len(File) : i <= seed.at => ItemFiled(i, View')
    BY <1>0, <2>2, <2>3, ItemsSoFar
  <2> QED BY <1>0, <1>2, <2>2, <2>4, ItemsSoFar, DoneProgress, ItemStepKeeps
<1>3. ASSUME NEW id \in DOMAIN View, View[id].key = Item.key, ~View[id].edited,
             seed' = [seed EXCEPT !.step = "update", !.row = id]
      PROVE  SeedCore'
  <2>1. /\ IsSeed(seed') /\ seed'.step = "update" /\ seed'.at = seed.at /\ seed'.made = seed.made
        /\ seed'.mine = seed.mine /\ seed'.row = id
    BY <1>0, <1>3, ItemsSoFar DEF IsSeed
  <2>2. View' = View
    BY <1>0, <2>1, ViewMoved
  <2>3. SeedProgress'
    BY <1>0, <1>3, <2>1, <2>2, ItemsSoFar DEF SeedProgress, Running, ItemFiled, Item
  <2>4. id \notin owned
    BY <1>0, <1>3 DEF PanelRow
  <2> QED BY <1>0, <2>1, <2>2, <2>3, <2>4, ItemsSoFar, ItemStepKeeps
<1> QED BY <1>1, <1>2, <1>3 DEF FindBySeedKey, Moves

\* A write of the seed, field by field.
LEMMA WroteSeed ==
    ASSUME NEW s, IsSeed(s), NEW id, NEW row
    PROVE  /\ IsSeed(Wrote(s, id, row)) /\ Wrote(s, id, row).mine = With(s.mine, id, row)
           /\ Wrote(s, id, row).step = s.step /\ Wrote(s, id, row).at = s.at
           /\ Wrote(s, id, row).made = s.made
BY DEF Wrote, With, IsSeed

\* A set of numbers has a first one.
LEMMA FirstOf ==
    ASSUME NEW S, S \subseteq Nat, S # {}
    PROVE  Min(S) \in S /\ \A x \in S : Min(S) <= x
<1>1. PICK m \in S : \A x \in S : ~ (<<x, m>> \in OpToRel(<, Nat))
  BY NatLessThanWellFounded, WFMin
<1>2. ASSUME NEW x \in S PROVE m <= x
  <2>1. ASSUME x < m PROVE FALSE
    <3>1. <<x, m>> \in Nat \X Nat /\ <<x, m>>[1] < <<x, m>>[2]
      BY <2>1
    <3>2. <<x, m>> \in OpToRel(<, Nat)
      BY ONLY <3>1 DEF OpToRel
    <3> QED BY <1>1, <3>2
  <2> QED BY <2>1
<1> QED BY <1>1, <1>2 DEF Min

\* A write for an item leaves the other items and the rows the panel saved.
LEMMA WriteForItem ==
    ASSUME SeedCore, Running, NEW id, NEW row,
           id \in DOMAIN View => View[id].key \in {NoKey, Item.key}
    PROVE  /\ \A i \in 1..Len(File) : i < seed.at => ItemFiled(i, With(View, id, row))
           /\ \A o \in owned : o # id => /\ With(View, id, row)[o] = View[o]
                                         /\ PanelRow(With(View, id, row)[o], o)
<1>1. ASSUME NEW i \in 1..Len(File), i < seed.at PROVE ItemFiled(i, With(View, id, row))
  <2>1. ItemFiled(i, View)
    BY <1>1, ItemsSoFar
  <2>2. File[i].key # Item.key /\ File[i].key # NoKey
    BY <1>1, ItemsSoFar, Filed
  <2> QED BY <2>1, <2>2, StaysFiled
<1>2. ASSUME NEW o \in owned, o # id PROVE With(View, id, row)[o] = View[o] /\ PanelRow(View[o], o)
  <2>1. o \in DOMAIN View /\ PanelRow(View[o], o)
    BY DEF SeedCore, OwnedInv, View
  <2> QED BY <1>2, <2>1 DEF With
<1> QED BY <1>1, <1>2

\* The row of an item gets its key, or is inserted.
LEMMA BackfillKeeps ==
    ASSUME SeedCore, BackfillOrInsert
    PROVE  SeedCore'
<1>0. /\ Running /\ seed.step = "match" /\ UNCHANGED <<content, base, owned, raced>>
      /\ Table(View) /\ \A id \in owned : PanelRow(View[id], id)
      /\ owned \subseteq DOMAIN View
      /\ \A x \in DOMAIN View : View[x].key # Item.key
  BY DEF BackfillOrInsert, Moves, Running, SeedCore, OwnedInv, SeedProgress, View
<1>i. /\ seed.at \in 1..Len(File) /\ Len(File) \in Nat /\ IsSeed(seed)
      /\ Item.key \in ItemKeys /\ Item.key # NoKey
  BY <1>0, ItemsSoFar
<1>1. CASE Candidates = {}
  <2> DEFINE id  == Cardinality(DOMAIN View) + 1
             s   == Wrote(seed, id, FiledRow)
             new == With(View, id, FiledRow)
  <2>1. seed' = Done(s, id)
    BY <1>1 DEF BackfillOrInsert, Moves
  <2>2. /\ IsSeed(s) /\ s.mine = With(seed.mine, id, FiledRow) /\ s.at = seed.at /\ s.made = seed.made
    BY <1>i, WroteSeed
  <2>3. seed'.mine = s.mine
    BY <1>i, <2>1, <2>2 DEF Done, IsSeed
  <2>4. View' = new
    BY <1>0, <2>2, <2>3, ViewWrote
  <2>5. /\ FiledRow.key = Item.key /\ FiledRow.title = Item.key /\ FiledRow.of = Parent
        /\ FiledRow.edited = FALSE /\ FiledRow.values = "filed" /\ FiledRow.docs = "filed"
        /\ IsRow(FiledRow)
    BY DEF FiledRow, IsRow
  <2>6. \A x \in DOMAIN View :
            ~(View[x].key = NoKey /\ View[x].title = FiledRow.key /\ View[x].of = FiledRow.of)
    BY <1>1, <2>5 DEF Candidates
  <2>7. id \notin DOMAIN View /\ Table(new)
    BY <1>0, <1>i, <2>5, <2>6, TableInserted
  <2>8. \A i \in 1..Len(File) : i < seed.at => ItemFiled(i, new)
    BY <1>0, <2>7, WriteForItem
  <2>9. \A o \in owned : PanelRow(new[o], o)
    BY <1>0, <2>7, WriteForItem
  <2>10. ItemFiled(seed.at, new)
    <3>1. id \in DOMAIN new /\ new[id] = FiledRow
      BY DEF With
    <3> HIDE DEF id, new
    <3> QED BY <2>5, <3>1 DEF ItemFiled, AsFiled, Item
  <2> HIDE DEF id, s, new
  <2>11. \A i \in 1..Len(File) : i <= s.at => ItemFiled(i, View')
    BY <1>i, <2>2, <2>4, <2>8, <2>10
  <2> QED BY <1>0, <1>i, <2>1, <2>2, <2>4, <2>7, <2>9, <2>11, DoneProgress, ItemStepKeeps
<1>2. CASE Candidates # {}
  <2> DEFINE id  == Min(Candidates)
             row == [View[id] EXCEPT !.key = Item.key]
             s   == Wrote(seed, id, row)
             new == With(View, id, row)
  <2>1. seed' = IF View[id].edited THEN Done(s, id) ELSE [s EXCEPT !.step = "update", !.row = id]
    BY <1>2 DEF BackfillOrInsert, Moves
  <2>2. id \in Candidates /\ \A x \in Candidates : id <= x
    <3>1. Candidates \subseteq Nat
      BY <1>0 DEF Candidates, Table
    <3> QED BY <1>2, <3>1, FirstOf
  <2>3. /\ id \in DOMAIN View /\ View[id].key = NoKey /\ View[id].of = Parent
        /\ \A x \in DOMAIN View : View[x].key = NoKey /\ View[x].title = Item.key /\ View[x].of = Parent
                                  => id <= x
    BY <2>2 DEF Candidates
  <2> HIDE DEF id
  <2>4. /\ row.key = Item.key /\ row.edited = View[id].edited /\ row.values = View[id].values
        /\ row.docs = View[id].docs
    BY <1>0, <2>3 DEF Table, IsRow
  <2>5. Table(new)
    BY <1>0, <1>i, <2>3, TableBackfilled
  <2> HIDE DEF row
  <2>6. /\ IsSeed(s) /\ s.mine = With(seed.mine, id, row) /\ s.at = seed.at /\ s.made = seed.made
    BY <1>i, WroteSeed
  <2>7. seed'.mine = s.mine
    BY <1>i, <2>1, <2>6 DEF Done, IsSeed
  <2>8. View' = new
    BY <1>0, <2>6, <2>7, ViewWrote
  <2>9. id \in DOMAIN new /\ new[id] = row
    BY DEF With
  <2>10. \A i \in 1..Len(File) : i < seed.at => ItemFiled(i, new)
    BY <1>0, <2>3, WriteForItem
  <2>11. \A o \in owned : PanelRow(new[o], o)
    <3>1. \A o \in owned : o # id => PanelRow(new[o], o)
      BY <1>0, <2>3, WriteForItem
    <3>2. id \in owned => PanelRow(new[id], id)
      BY <1>0, <2>4, <2>9 DEF PanelRow
    <3> QED BY <3>1, <3>2
  <2> HIDE DEF new, s
  <2>12. CASE View[id].edited
    <3>1. seed' = Done(s, id)
      BY <2>1, <2>12
    <3>2. ItemFiled(seed.at, new)
      BY <2>4, <2>9, <2>12 DEF ItemFiled, AsFiled, Item
    <3>3. \A i \in 1..Len(File) : i <= s.at => ItemFiled(i, View')
      BY <1>i, <2>6, <2>8, <2>10, <3>2
    <3> QED BY <1>0, <1>i, <2>5, <2>6, <2>8, <2>11, <3>1, <3>3, DoneProgress, ItemStepKeeps
  <2>13. CASE ~View[id].edited
    <3>1. seed' = [s EXCEPT !.step = "update", !.row = id]
      BY <2>1, <2>13
    <3>2. /\ IsSeed(seed') /\ seed'.step = "update" /\ seed'.at = seed.at /\ seed'.made = seed.made
          /\ seed'.row = id
      BY <2>6, <3>1 DEF IsSeed
    <3>3. id \notin owned
      BY <1>0, <2>13 DEF PanelRow
    <3>4. SeedProgress'
      BY <2>4, <2>8, <2>9, <2>10, <3>2 DEF SeedProgress, Running, ItemFiled, Item
    <3> QED BY <1>0, <1>i, <2>5, <2>8, <2>11, <3>2, <3>3, <3>4, ItemStepKeeps
  <2> QED BY <2>12, <2>13
<1> QED BY <1>1, <1>2

\* The row of the item is written: the key, the category and the mark of the panel
\* stay, and so do the rows the panel saved.
LEMMA RowWritten ==
    ASSUME SeedCore, Running, seed.step \in {"update", "docs", "replace"}, NEW row, IsRow(row),
           row.key = View[seed.row].key, row.of = View[seed.row].of,
           row.edited = View[seed.row].edited,
           seed.row \in owned => PanelRow(row, seed.row),
           NEW new, new = With(View, seed.row, row)
    PROVE  /\ Table(new) /\ seed.row \in DOMAIN new /\ new[seed.row] = row
           /\ \A i \in 1..Len(File) : i < seed.at => ItemFiled(i, new)
           /\ \A o \in owned : PanelRow(new[o], o)
<1>1. seed.row \in DOMAIN View /\ View[seed.row].key = Item.key /\ Table(View)
  BY DEF SeedCore, SeedProgress
<1>2. Item.key # NoKey
  BY ItemsSoFar
<1>3. Table(new)
  <2>1. row.edited \in BOOLEAN /\ row.key # NoKey
    BY <1>1, <1>2 DEF Table
  <2> QED BY <1>1, <2>1, TableChanged
<1>4. seed.row \in DOMAIN new /\ new[seed.row] = row
  BY DEF With
<1>5. \A i \in 1..Len(File) : i < seed.at => ItemFiled(i, new)
  BY <1>1, WriteForItem
<1>6. \A o \in owned : PanelRow(new[o], o)
  BY <1>1, <1>4, WriteForItem
<1> QED BY <1>3, <1>4, <1>5, <1>6

\* The item's row is done.
LEMMA RowDone ==
    ASSUME SeedCore, Running, UNCHANGED <<content, base, owned, raced>>,
           NEW s, IsSeed(s), s.at = seed.at, s.made = seed.made, seed' = Done(s, seed.row),
           NEW new, View' = new, Table(new), seed.row \in DOMAIN new,
           new[seed.row].key = Item.key, AsFiled(new[seed.row], Item),
           \A i \in 1..Len(File) : i < seed.at => ItemFiled(i, new),
           \A o \in owned : PanelRow(new[o], o)
    PROVE  SeedCore'
<1>1. /\ seed.at \in 1..Len(File) /\ Len(File) \in Nat
  BY ItemsSoFar
<1>2. ItemFiled(seed.at, new)
  BY DEF ItemFiled, Item
<1>3. \A i \in 1..Len(File) : i <= s.at => ItemFiled(i, View')
  BY <1>1, <1>2
<1>4. /\ IsSeed(seed') /\ seed'.step \in {"find", "config"} /\ seed'.at \in 1..Len(File)
      /\ seed'.made = s.made /\ SeedProgress'
  BY <1>1, <1>3, DoneProgress
<1> QED BY <1>4, ItemStepKeeps

\* The row with its values as filed.
LEMMA RowFiled ==
    ASSUME NEW old, IsRow(old), NEW title
    PROVE  LET new == [old EXCEPT !.title = title, !.values = "filed"]
           IN  /\ IsRow(new) /\ new.key = old.key /\ new.of = old.of
               /\ new.edited = old.edited /\ new.values = "filed" /\ new.docs = old.docs
<1> DEFINE new == [old EXCEPT !.title = title, !.values = "filed"]
<1>1. new = [key |-> old.key, title |-> title, of |-> old.of, values |-> "filed",
             docs |-> old.docs, edited |-> old.edited]
  <2>1. DOMAIN old = {"key", "title", "of", "values", "docs", "edited"}
    BY DEF IsRow
  <2>2. new = [x \in DOMAIN old |-> IF x = "values" THEN "filed" ELSE IF x = "title" THEN title ELSE old[x]]
    OBVIOUS
  <2> HIDE DEF new
  <2> QED BY <2>1, <2>2
<1> HIDE DEF new
<1>2. /\ IsRow(new) /\ new.key = old.key /\ new.of = old.of
      /\ new.edited = old.edited /\ new.values = "filed" /\ new.docs = old.docs
  BY <1>1 DEF IsRow
<1> QED BY <1>2 DEF new

\* The values of a row are written, if the panel has not edited it.
LEMMA UpdateKeeps ==
    ASSUME SeedCore, UpdateRow
    PROVE  SeedCore'
<1> DEFINE old   == View[seed.row]
           new   == [old EXCEPT !.title = Item.key, !.values = "filed"]
           after == IF ~old.edited /\ new # old THEN Wrote(seed, seed.row, new) ELSE seed
           view  == IF ~old.edited /\ new # old THEN With(View, seed.row, new) ELSE View
<1>0. /\ Running /\ seed.step = "update" /\ UNCHANGED <<content, base, owned, raced>>
      /\ Table(View) /\ \A id \in owned : PanelRow(View[id], id)
      /\ seed.row \in DOMAIN View /\ View[seed.row].key = Item.key
      /\ seed' = IF Item.of = NoKey THEN Done(after, seed.row) ELSE [after EXCEPT !.step = "docs"]
      /\ seed.row \in owned => seed.row \in raced
  BY DEF UpdateRow, Moves, Running, SeedCore, OwnedInv, SeedProgress
<1>i. /\ seed.at \in 1..Len(File) /\ Len(File) \in Nat /\ IsSeed(seed)
      /\ Item.key \in ItemKeys /\ Item.key # NoKey
      /\ \A i \in 1..Len(File) : i < seed.at => ItemFiled(i, View)
  BY <1>0, ItemsSoFar
<1>1. /\ IsRow(old) /\ IsRow(new) /\ new.key = old.key /\ new.of = old.of
      /\ new.edited = old.edited /\ new.values = "filed" /\ new.docs = old.docs
  <2>1. IsRow(old)
    BY <1>0 DEF Table
  <2> HIDE DEF old, after, view
  <2> QED BY <2>1, RowFiled, Zenon
<1> HIDE DEF new
<1>2. /\ IsSeed(after) /\ after.at = seed.at /\ after.made = seed.made
      /\ \/ after.mine = seed.mine /\ view = View
         \/ after.mine = With(seed.mine, seed.row, new) /\ view = With(View, seed.row, new)
  <2>1. CASE ~old.edited /\ new # old
    <3>1. after = Wrote(seed, seed.row, new) /\ view = With(View, seed.row, new)
      BY <2>1
    <3> HIDE DEF after, view
    <3> QED BY <1>i, <3>1, WroteSeed
  <2>2. CASE ~(~old.edited /\ new # old)
    BY <1>i, <2>2
  <2> QED BY <2>1, <2>2
<1>3. seed.row \in owned => old.edited
  BY <1>0 DEF PanelRow
<1>4. /\ Table(view) /\ seed.row \in DOMAIN view /\ view[seed.row].key = Item.key
      /\ view[seed.row].edited \/ view[seed.row].values = "filed"
      /\ \A i \in 1..Len(File) : i < seed.at => ItemFiled(i, view)
      /\ \A o \in owned : PanelRow(view[o], o)
  <2>1. CASE ~old.edited /\ new # old
    BY <1>0, <1>1, <1>3, <2>1, RowWritten
  <2>2. CASE ~(~old.edited /\ new # old)
    BY <1>0, <1>i, <1>1, <2>2
  <2> QED BY <2>1, <2>2
<1> HIDE DEF after, view
<1>5. seed'.mine = after.mine
  BY <1>0, <1>2 DEF Done, IsSeed
<1>6. View' = view
  BY <1>0, <1>2, <1>5, ViewMoved, ViewWrote
<1>7. CASE Item.of = NoKey
  <2>1. AsFiled(view[seed.row], Item)
    BY <1>4, <1>7 DEF AsFiled
  <2> QED BY <1>0, <1>2, <1>4, <1>6, <1>7, <2>1, RowDone
<1>8. CASE Item.of # NoKey
  <2>1. /\ IsSeed(seed') /\ seed'.step = "docs" /\ seed'.at = seed.at /\ seed'.made = seed.made
        /\ seed'.row = seed.row
    <3>1. after.row = seed.row
      BY <1>i DEF after, Wrote, IsSeed
    <3> QED BY <1>0, <1>2, <1>8, <3>1 DEF IsSeed
  <2>2. SeedProgress'
    BY <1>4, <1>6, <2>1 DEF SeedProgress, Running, ItemFiled, Item
  <2> QED BY <1>0, <1>i, <1>4, <1>6, <2>1, <2>2, ItemStepKeeps
<1> QED BY <1>7, <1>8

\* The documents of a question are compared with the filed list.
LEMMA SyncDocsKeeps ==
    ASSUME SeedCore, SyncRequiredDocuments
    PROVE  SeedCore'
<1>0. /\ Running /\ seed.step = "docs" /\ UNCHANGED <<content, base, owned, raced>>
      /\ Table(View) /\ \A id \in owned : PanelRow(View[id], id)
      /\ seed.row \in DOMAIN View /\ View[seed.row].key = Item.key
      /\ View[seed.row].edited \/ View[seed.row].values = "filed"
      /\ seed' = IF View[seed.row].docs = "filed" THEN Done(seed, seed.row)
                 ELSE [seed EXCEPT !.step = "replace"]
      /\ seed.row \in owned => seed.row \in raced
  BY DEF SyncRequiredDocuments, Moves, Running, SeedCore, OwnedInv, SeedProgress
<1>i. /\ seed.at \in 1..Len(File) /\ Len(File) \in Nat /\ IsSeed(seed)
      /\ \A i \in 1..Len(File) : i < seed.at => ItemFiled(i, View)
  BY <1>0, ItemsSoFar
<1>1. seed'.mine = seed.mine
  BY <1>0, <1>i DEF Done, IsSeed
<1>2. View' = View
  BY <1>0, <1>1, ViewMoved
<1>3. CASE View[seed.row].docs = "filed"
  <2>1. AsFiled(View[seed.row], Item)
    BY <1>0, <1>3 DEF AsFiled
  <2> QED BY <1>0, <1>i, <1>2, <1>3, <2>1, RowDone
<1>4. CASE View[seed.row].docs # "filed"
  <2>1. /\ IsSeed(seed') /\ seed'.step = "replace" /\ seed'.at = seed.at /\ seed'.made = seed.made
        /\ seed'.row = seed.row
    BY <1>0, <1>i, <1>4 DEF IsSeed
  <2>2. SeedProgress'
    BY <1>0, <1>i, <1>2, <2>1 DEF SeedProgress, Running, ItemFiled, Item
  <2> QED BY <1>0, <1>i, <1>2, <2>1, <2>2, ItemStepKeeps
<1> QED BY <1>3, <1>4

\* They are replaced, whoever saved the row since it was found.
LEMMA ReplaceDocsKeeps ==
    ASSUME SeedCore, ReplaceDocuments
    PROVE  SeedCore'
<1>0. /\ Running /\ seed.step = "replace" /\ UNCHANGED <<content, base, owned, raced>>
      /\ Table(View) /\ \A id \in owned : PanelRow(View[id], id)
      /\ seed.row \in DOMAIN View /\ View[seed.row].key = Item.key
      /\ View[seed.row].edited \/ View[seed.row].values = "filed"
      /\ seed.row \in owned => seed.row \in raced
  BY DEF ReplaceDocuments, Moves, Running, SeedCore, OwnedInv, SeedProgress
<1>p. PICK docs : /\ docs = "filed" \/ View[seed.row].edited
                  /\ seed' = Done(Wrote(seed, seed.row, [View[seed.row] EXCEPT !.docs = docs]), seed.row)
  BY DEF ReplaceDocuments, Moves
<1> DEFINE old   == View[seed.row]
           new   == [old EXCEPT !.docs = docs]
           after == Wrote(seed, seed.row, new)
           view  == With(View, seed.row, new)
<1>i. /\ seed.at \in 1..Len(File) /\ Len(File) \in Nat /\ IsSeed(seed)
      /\ \A i \in 1..Len(File) : i < seed.at => ItemFiled(i, View)
  BY <1>0, ItemsSoFar
<1>1. /\ IsRow(old) /\ IsRow(new) /\ new.key = old.key /\ new.of = old.of
      /\ new.edited = old.edited /\ new.values = old.values /\ new.docs = docs
  <2>1. IsRow(old)
    BY <1>0 DEF Table
  <2> HIDE DEF old, after, view
  <2> QED BY ONLY <2>1 DEF IsRow
<1>s. seed' = Done(after, seed.row)
  BY <1>p
<1> HIDE DEF new
<1>2. /\ IsSeed(after) /\ after.at = seed.at /\ after.made = seed.made
      /\ after.mine = With(seed.mine, seed.row, new)
  BY <1>i, WroteSeed
<1>3. seed.row \in owned => PanelRow(new, seed.row)
  BY <1>0, <1>1 DEF PanelRow
<1>4. /\ Table(view) /\ seed.row \in DOMAIN view /\ view[seed.row].key = Item.key
      /\ AsFiled(view[seed.row], Item)
      /\ \A i \in 1..Len(File) : i < seed.at => ItemFiled(i, view)
      /\ \A o \in owned : PanelRow(view[o], o)
  BY <1>0, <1>1, <1>3, <1>p, RowWritten DEF AsFiled
<1> HIDE DEF after
<1>5. seed'.mine = after.mine
  BY <1>s, <1>2 DEF Done, IsSeed
<1>6. View' = view
  BY <1>0, <1>2, <1>5, ViewWrote
<1> HIDE DEF view
<1> QED BY <1>0, <1>2, <1>4, <1>6, <1>s, RowDone

\* What a step behind the items, or one that ends the transaction, leaves alone.
LEMMA MadeKeeps ==
    ASSUME SeedCore, UNCHANGED <<content, base, owned, raced>>,
           NEW step \in {"whatsapp", "commit"}, NEW made, made \subseteq Once,
           seed' = [seed EXCEPT !.step = step, !.made = made],
           seed.step \in {"config", "whatsapp"},
           seed.made \subseteq made,
           step = "commit" => seed.step = "whatsapp" /\ ("whatsapp" \in made \/ base["whatsapp"] # "none"),
           step = "whatsapp" =>
               \A name \in {"schedule", "ranges", "documents"} : name \in made \/ base[name] # "none"
    PROVE  SeedCore'
<1>0. Running /\ IsSeed(seed)
  BY DEF Running, SeedCore, SeedShape
<1>1. /\ IsSeed(seed') /\ seed'.step = step /\ seed'.at = seed.at /\ seed'.made = made
      /\ seed'.mine = seed.mine
  BY <1>0 DEF IsSeed
<1>2. View' = View
  BY <1>1, ViewMoved
<1>3. SeedShape'
  BY <1>1 DEF SeedCore, SeedShape, Running
<1>4. SeedProgress'
  <2>1. \A i \in 1..Len(File) : ItemFiled(i, View)
    BY <1>0 DEF SeedCore, SeedProgress
  <2> QED BY <1>1, <1>2, <2>1 DEF SeedProgress, ItemFiled
<1>5. BaseInv'
  BY <1>1 DEF SeedCore, BaseInv, Running
<1>6. OwnedInv' /\ Table(content)' /\ Table(View)'
  BY <1>1, <1>2 DEF SeedCore, OwnedInv, PanelRow, Table
<1> QED BY <1>3, <1>4, <1>5, <1>6 DEF SeedCore

\* What is created once is created, if it is not there.
LEMMA SeedConfigKeeps ==
    ASSUME SeedCore, SeedInitialConfig \/ SeedWhatsApp
    PROVE  SeedCore'
<1>1. seed.made \subseteq Once /\ IsSeed(seed) /\ BaseInv
  BY DEF SeedCore, SeedShape
<1>2. CASE SeedInitialConfig
  <2> DEFINE made == seed.made \cup
                 (IF base["schedule"] # "none" THEN {}
                  ELSE {name \in {"schedule", "ranges", "documents"} : base[name] = "none"})
  <2>1. /\ seed.step = "config" /\ seed' = [seed EXCEPT !.step = "whatsapp", !.made = made]
        /\ UNCHANGED <<content, base, owned, raced>>
    BY <1>2 DEF SeedInitialConfig, Moves
  <2>2. made \subseteq Once /\ seed.made \subseteq made
    BY <1>1 DEF Once
  <2>3. \A name \in {"schedule", "ranges", "documents"} : name \in made \/ base[name] # "none"
    BY <1>1 DEF BaseInv
  <2> HIDE DEF made
  <2> QED BY <2>1, <2>2, <2>3, MadeKeeps
<1>3. CASE SeedWhatsApp
  <2> DEFINE made == seed.made \cup IF base["whatsapp"] = "none" THEN {"whatsapp"} ELSE {}
  <2>1. /\ seed.step = "whatsapp" /\ seed' = [seed EXCEPT !.step = "commit", !.made = made]
        /\ UNCHANGED <<content, base, owned, raced>>
    BY <1>3 DEF SeedWhatsApp, Moves
  <2>2. made \subseteq Once /\ seed.made \subseteq made
    BY <1>1 DEF Once
  <2>3. "whatsapp" \in made \/ base["whatsapp"] # "none"
    OBVIOUS
  <2> HIDE DEF made
  <2> QED BY <2>1, <2>2, <2>3, MadeKeeps
<1> QED BY <1>2, <1>3

\* A transaction that does not run has nothing to keep; what it leaves is the table.
LEMMA AsleepKeeps ==
    ASSUME seed' = Asleep, Table(content)', IsTable(content'), owned' \subseteq DOMAIN content',
           \A id \in owned' : PanelRow(content[id], id)',
           base' \in [Once -> {"none", "initial", "staff", "plain"}],
           \A name \in Once \ {"admin"} : base'[name] # "plain",
           base'["schedule"] # "none" => base'["ranges"] # "none" /\ base'["documents"] # "none"
    PROVE  SeedCore'
<1>1. /\ IsSeed(seed') /\ seed'.step = "idle" /\ seed'.at = 1 /\ seed'.made = {}
      /\ seed'.mine = <<>>
  BY DEF Asleep, IsSeed
<1>2. View' = content'
  BY <1>1 DEF View, IsTable
<1>3. SeedShape'
  <2>1. 1 \in 1..Len(File)
    BY SeedAssumption
  <2> QED BY <1>1, <2>1 DEF SeedShape
<1>4. SeedProgress' /\ BaseInv'
  BY <1>1 DEF SeedProgress, BaseInv, Running
<1>5. OwnedInv' /\ Table(View)'
  BY <1>1, <1>2 DEF OwnedInv, PanelRow, Table
<1> QED BY <1>3, <1>4, <1>5 DEF SeedCore

\* The writes of the seed are committed.
LEMMA CommitSeedKeeps ==
    ASSUME SeedCore, CommitSeed
    PROVE  SeedCore'
<1>1. /\ content' = View /\ seed' = Asleep /\ UNCHANGED <<owned, raced>>
      /\ base' = [name \in Once |-> IF name \in seed.made THEN "initial" ELSE base[name]]
  BY DEF CommitSeed
<1>2. Table(View) /\ BaseInv /\ OwnedInv /\ seed.made \subseteq Once
  BY DEF SeedCore, SeedShape
<1>3. Table(content)' /\ IsTable(content')
  BY <1>1, <1>2 DEF Table
<1>4. owned' \subseteq DOMAIN content' /\ \A id \in owned' : PanelRow(content[id], id)'
  <2>1. owned \subseteq DOMAIN View
    BY <1>2 DEF View, OwnedInv
  <2> QED BY <1>1, <1>2, <2>1 DEF OwnedInv, PanelRow
<1>5. /\ base' \in [Once -> {"none", "initial", "staff", "plain"}]
      /\ \A name \in Once \ {"admin"} : base'[name] # "plain"
      /\ base'["schedule"] # "none" => base'["ranges"] # "none" /\ base'["documents"] # "none"
  <2>1. base' \in [Once -> {"none", "initial", "staff", "plain"}]
    BY <1>1, <1>2 DEF BaseInv
  <2>2. \A name \in Once : base'[name] = IF name \in seed.made THEN "initial" ELSE base[name]
    BY <1>1
  <2>3. base'["schedule"] # "none" => base'["ranges"] # "none" /\ base'["documents"] # "none"
    BY <1>2, <2>2 DEF BaseInv, CommitSeed, Once
  <2> QED BY <1>2, <2>1, <2>2, <2>3 DEF BaseInv
<1> QED BY <1>1, <1>3, <1>4, <1>5, AsleepKeeps

\* The seed is rolled back.
LEMMA SeedFailsKeeps ==
    ASSUME SeedCore, SeedFails
    PROVE  SeedCore'
<1>1. seed' = Asleep /\ UNCHANGED <<content, base, owned, raced>>
  BY DEF SeedFails
<1>2. Table(content)' /\ IsTable(content')
  BY <1>1 DEF SeedCore, Table
<1> QED BY <1>1, <1>2, AsleepKeeps DEF SeedCore, BaseInv, OwnedInv, PanelRow

\* A seed begins with the first item.
LEMMA StartSeedKeeps ==
    ASSUME SeedCore, StartSeed
    PROVE  SeedCore' /\ View' = View
<1>1. /\ ~Running /\ UNCHANGED <<content, base, owned, raced>> /\ seed = Asleep
      /\ seed' = [Asleep EXCEPT !.step = "find",
                                !.made = IF base["admin"] \in {"none", "plain"} THEN {"admin"} ELSE {}]
  BY DEF StartSeed, SeedCore, SeedShape
<1> DEFINE made == IF base["admin"] \in {"none", "plain"} THEN {"admin"} ELSE {}
<1>2. /\ IsSeed(seed') /\ seed'.step = "find" /\ seed'.at = 1 /\ seed'.made = made /\ seed'.mine = seed.mine
  BY <1>1 DEF Asleep, IsSeed
<1>3. View' = View
  BY <1>1, <1>2, ViewMoved
<1>4. made \subseteq Once /\ "admin" \in Once
  BY DEF Once
<1>5. SeedShape'
  <2>1. 1 \in 1..Len(File)
    BY SeedAssumption
  <2> QED BY <1>2, <1>4, <2>1 DEF SeedShape, Running
<1>6. SeedProgress'
  <2>1. \A i \in 1..Len(File) : ~(i < 1)
    BY SeedAssumption
  <2> QED BY <1>2, <2>1 DEF SeedProgress
<1>7. BaseInv'
  BY <1>1, <1>2, <1>4 DEF SeedCore, BaseInv, Running
<1>8. OwnedInv' /\ Table(content)' /\ Table(View)'
  BY <1>1, <1>2, <1>3 DEF SeedCore, OwnedInv, PanelRow, Table
<1> QED BY <1>3, <1>5, <1>6, <1>7, <1>8 DEF SeedCore

\* A row of the table changes that the transaction has not written: it sees it.
LEMMA ViewSaved ==
    ASSUME NEW id \in DOMAIN content, NEW row, content' = [content EXCEPT ![id] = row],
           id \notin DOMAIN seed.mine, UNCHANGED seed, IsTable(content)
    PROVE  content' = With(content, id, row) /\ View' = With(View, id, row)
<1> DEFINE mine == seed.mine
<1>1. /\ DOMAIN content' = DOMAIN content
      /\ \A x \in DOMAIN content : content'[x] = IF x = id THEN row ELSE content[x]
  OBVIOUS
<1>2. content' = With(content, id, row)
  <2>1. (DOMAIN content) \cup {id} = DOMAIN content
    OBVIOUS
  <2>2. content' = [x \in DOMAIN content |-> IF x = id THEN row ELSE content[x]]
    OBVIOUS
  <2> QED BY <2>1, <2>2 DEF With
<1>3. View = [x \in (DOMAIN content) \cup DOMAIN mine |-> IF x \in DOMAIN mine THEN mine[x] ELSE content[x]]
  BY DEF View
<1>4. View' = [x \in (DOMAIN content) \cup DOMAIN mine |-> IF x \in DOMAIN mine THEN mine[x] ELSE content'[x]]
  BY <1>1 DEF View
<1> HIDE DEF mine
<1>5. (DOMAIN View) \cup {id} = (DOMAIN content) \cup DOMAIN mine
  BY <1>3
<1>6. \A x \in (DOMAIN View) \cup {id} :
          (IF x \in DOMAIN mine THEN mine[x] ELSE content'[x]) = IF x = id THEN row ELSE View[x]
  BY <1>1, <1>3, <1>5 DEF mine
<1>7. View' = [x \in (DOMAIN View) \cup {id} |-> IF x = id THEN row ELSE View[x]]
  BY <1>4, <1>5, <1>6
<1> QED BY <1>2, <1>7 DEF With

\* The row that the panel saves.
PanelSaved(old, title) ==
    [old EXCEPT !.title = title, !.values = "panel", !.docs = "panel", !.edited = TRUE]

\* A row as the panel saves it.
LEMMA SavedRow ==
    ASSUME NEW old, IsRow(old), NEW title, NEW new, new = PanelSaved(old, title)
    PROVE  /\ IsRow(new) /\ new.key = old.key /\ new.of = old.of /\ new.title = title
           /\ new.edited /\ new.edited \in BOOLEAN /\ new.values = "panel" /\ new.docs = "panel"
<1>1. new = [key |-> old.key, title |-> title, of |-> old.of, values |-> "panel",
             docs |-> "panel", edited |-> TRUE]
  <2>1. DOMAIN old = {"key", "title", "of", "values", "docs", "edited"}
    BY DEF IsRow
  <2>2. PanelSaved(old, title) = [x \in DOMAIN old |->
                  IF x = "edited" THEN TRUE ELSE IF x = "docs" THEN "panel"
                  ELSE IF x = "values" THEN "panel" ELSE IF x = "title" THEN title ELSE old[x]]
    BY DEF PanelSaved
  <2> QED BY <2>1, <2>2
<1> QED BY <1>1 DEF IsRow

\* A save of the panel leaves every item filed that was.
LEMMA PanelSavesKeeps ==
    ASSUME SeedCore, NEW id \in DOMAIN content, PanelSaves(id)
    PROVE  /\ SeedCore' /\ UNCHANGED base
           /\ \A i \in 1..Len(File) : ItemFiled(i, content) => ItemFiled(i, content')
           /\ \A i \in 1..Len(File) : ItemFiled(i, View) => ItemFiled(i, View')
<1>1. PICK title \in {content[id].title, "other"} :
          content' = [content EXCEPT ![id] = [@ EXCEPT !.title = title, !.values = "panel",
                                                       !.docs = "panel", !.edited = TRUE]]
  BY DEF PanelSaves
<1> DEFINE row == PanelSaved(content[id], title)
<1>2. content' = [content EXCEPT ![id] = row]
  BY <1>1 DEF PanelSaved
<1>3. /\ id \notin DOMAIN seed.mine /\ UNCHANGED <<base, seed>>
      /\ owned' = owned \cup {id} /\ raced' = IF Running THEN raced \cup {id} ELSE raced
  BY DEF PanelSaves
<1>4. Table(content) /\ Table(View) /\ IsTable(content) /\ SeedShape /\ SeedProgress /\ OwnedInv /\ BaseInv
  BY DEF SeedCore, Table
<1>5. /\ IsRow(row) /\ row.key = content[id].key /\ row.of = content[id].of /\ row.title = title
      /\ row.edited /\ row.edited \in BOOLEAN /\ row.values = "panel" /\ row.docs = "panel"
  <2>1. IsRow(content[id])
    BY <1>4 DEF Table
  <2> QED BY <2>1, SavedRow
<1> HIDE DEF row
<1>6. id \in DOMAIN View /\ View[id] = content[id]
  BY <1>3 DEF View
<1>7. content' = With(content, id, row) /\ View' = With(View, id, row)
  BY <1>2, <1>3, <1>4, ViewSaved
<1>8. Table(content)' /\ Table(View)'
  <2>1. Table(With(content, id, row)) /\ Table(With(View, id, row))
    BY <1>4, <1>5, <1>6, TableChanged
  <2> QED BY <1>7, <2>1 DEF Table
<1>9. /\ \A i \in 1..Len(File) : ItemFiled(i, content) => ItemFiled(i, content')
      /\ \A i \in 1..Len(File) : ItemFiled(i, View) => ItemFiled(i, View')
  <2>1. \A i \in 1..Len(File) : AsFiled(row, File[i])
    BY <1>5 DEF AsFiled
  <2> QED BY <1>5, <1>6, <1>7, <2>1, StaysFiled
<1>10. /\ DOMAIN content' = DOMAIN content /\ DOMAIN View' = DOMAIN View
       /\ \A x \in DOMAIN content : content'[x] = IF x = id THEN row ELSE content[x]
       /\ \A x \in DOMAIN View : View'[x] = IF x = id THEN row ELSE View[x]
  <2>1. (DOMAIN content) \cup {id} = DOMAIN content /\ (DOMAIN View) \cup {id} = DOMAIN View
    BY <1>6
  <2> QED BY <1>7, <2>1 DEF With
<1>11. SeedShape' /\ BaseInv'
  BY <1>3, <1>4 DEF SeedShape, BaseInv, Running
<1>12. SeedProgress'
  <2>1. \A x \in DOMAIN View : View'[x].key = View[x].key
    BY <1>5, <1>6, <1>10
  <2>2. \A x \in DOMAIN View : View[x].edited \/ View[x].values = "filed"
                               => View'[x].edited \/ View'[x].values = "filed"
    BY <1>5, <1>10
  <2>3. Item' = Item /\ (Running <=> Running')
    BY <1>3 DEF Item, Running
  <2>4. \A i \in 1..Len(File) : ItemFiled(i, View) => ItemFiled(i, View)'
    BY <1>9 DEF ItemFiled
  <2> QED BY <1>3, <1>4, <1>10, <2>1, <2>2, <2>3, <2>4 DEF SeedProgress
<1>13. OwnedInv'
  <2>1. owned' \subseteq DOMAIN content' /\ owned' \subseteq DOMAIN View'
    BY <1>3, <1>4, <1>10 DEF OwnedInv, View
  <2>2. ASSUME NEW o \in owned' PROVE PanelRow(content[o], o)' /\ PanelRow(View[o], o)'
    <3>1. CASE o = id
      BY <1>5, <1>6, <1>10, <3>1 DEF PanelRow
    <3>2. CASE o # id
      <4>1. o \in owned /\ o \in DOMAIN content /\ o \in DOMAIN View
        BY <1>3, <1>10, <2>1, <3>2
      <4>2. content'[o] = content[o] /\ View'[o] = View[o] /\ (o \in raced => o \in raced')
        BY <1>3, <1>10, <3>2, <4>1
      <4> QED BY <1>4, <4>1, <4>2 DEF OwnedInv, PanelRow
    <3> QED BY <3>1, <3>2
  <2>3. seed'.step \in {"update", "docs", "replace"} /\ seed'.row \in owned' => seed'.row \in raced'
    BY <1>3, <1>4 DEF OwnedInv, Running
  <2> QED BY <2>1, <2>2, <2>3 DEF OwnedInv, PanelRow
<1> QED BY <1>3, <1>8, <1>9, <1>11, <1>12, <1>13 DEF SeedCore

\* What is created once may be changed, and stays there.
LEMMA StaffChangesKeeps ==
    ASSUME SeedCore, NEW name \in {"admin", "whatsapp"}, StaffChanges(name)
    PROVE  /\ SeedCore' /\ UNCHANGED <<content, seed>>
           /\ BaseFiled => BaseFiled'
<1>1. /\ base[name] = "initial" /\ base' = [base EXCEPT ![name] = "staff"]
      /\ UNCHANGED <<content, seed, owned, raced>> /\ name \in Once
  BY DEF StaffChanges, Once
<1>2. BaseInv' /\ (BaseFiled => BaseFiled')
  <2>1. base \in [Once -> {"none", "initial", "staff", "plain"}]
    BY DEF SeedCore, BaseInv
  <2>2. base' \in [Once -> {"none", "initial", "staff", "plain"}]
    BY <1>1, <2>1
  <2>3. \A x \in Once : base'[x] = IF x = name THEN "staff" ELSE base[x]
    BY <1>1, <2>1
  <2>4. {"admin", "schedule", "ranges", "documents", "whatsapp"} = Once
    BY DEF Once
  <2> QED BY <1>1, <2>2, <2>3, <2>4 DEF SeedCore, BaseInv, BaseFiled, Running
<1>3. View' = View
  BY <1>1 DEF View
<1>4. SeedShape' /\ SeedProgress' /\ OwnedInv' /\ Table(content)' /\ Table(View)'
  BY <1>1, <1>3 DEF SeedCore, SeedShape, Running, SeedProgress, ItemFiled, Item, OwnedInv, PanelRow, Table
<1> QED BY <1>1, <1>2, <1>4 DEF SeedCore

\* With migration 11 the keys and the marks go, and what it created.
LEMMA RollbackLeavesSeed ==
    ASSUME SeedCore, StageInv, RollbackByHand
    PROVE  SeedCore'
<1>1. seed = Asleep /\ seed' = seed /\ raced' = raced
  BY DEF RollbackByHand, Beside, StageInv, SeedCore, SeedShape, seedVars
<1>2. PICK to \in 10..12 :
         IF to >= 11 THEN UNCHANGED seedVars
         ELSE /\ content' = [id \in DOMAIN content |->
                                [content[id] EXCEPT !.key = NoKey, !.edited = FALSE]]
              /\ base' = [name \in Once |-> IF name = "admin" /\ base["admin"] # "none"
                                            THEN "plain" ELSE "none"]
              /\ owned' = {}
  BY DEF RollbackByHand, Beside
<1>3. Table(content) /\ BaseInv /\ OwnedInv
  BY DEF SeedCore
<1>4. CASE to >= 11
  <2>1. UNCHANGED <<content, base, owned, raced>>
    BY <1>2, <1>4 DEF seedVars
  <2>2. Table(content)' /\ IsTable(content')
    BY <1>3, <2>1 DEF Table
  <2> QED BY <1>1, <1>3, <2>1, <2>2, AsleepKeeps DEF BaseInv, OwnedInv, PanelRow
<1>5. CASE ~(to >= 11)
  <2>1. /\ DOMAIN content' = DOMAIN content /\ IsTable(content')
        /\ \A id \in DOMAIN content : content'[id] = [content[id] EXCEPT !.key = NoKey, !.edited = FALSE]
    BY <1>2, <1>5 DEF IsTable
  <2>2. ASSUME NEW id \in DOMAIN content
        PROVE  IsRow(content'[id]) /\ content'[id].key = NoKey /\ content'[id].edited = FALSE
    <3>1. PICK old : old = content[id] /\ IsRow(old)
      BY <1>3 DEF Table
    <3>2. DOMAIN old = {"key", "title", "of", "values", "docs", "edited"}
      BY <3>1 DEF IsRow
    <3>3. content'[id] = [x \in DOMAIN old |-> IF x = "edited" THEN FALSE ELSE IF x = "key" THEN NoKey ELSE old[x]]
      BY <2>1, <3>1
    <3>4. content'[id] = [key |-> NoKey, title |-> old.title, of |-> old.of, values |-> old.values,
                          docs |-> old.docs, edited |-> FALSE]
      BY <3>2, <3>3
    <3> QED BY <3>4 DEF IsRow
  <2>3. Table(content)'
    BY <1>3, <2>1, <2>2 DEF Table
  <2>4. owned' = {}
    BY <1>2, <1>5
  <2>5. /\ base' \in [Once -> {"none", "initial", "staff", "plain"}]
        /\ \A name \in Once \ {"admin"} : base'[name] = "none"
        /\ "schedule" \in Once
    BY <1>2, <1>5 DEF Once
  <2> QED BY <1>1, <2>1, <2>3, <2>4, <2>5, AsleepKeeps
<1> QED BY <1>4, <1>5

\* At first nothing is filed.
LEMMA SeedBegins == Init => SeedInv
<1> SUFFICES ASSUME Init PROVE SeedInv
  OBVIOUS
<1>1. /\ content \in Present /\ base = [name \in Once |-> "none"] /\ seed = Asleep
      /\ owned = {id \in DOMAIN content : content[id].edited} /\ raced = {}
      /\ backend = "old" /\ stage = "none"
  BY DEF Init, InitSeed
<1>2. /\ IsFiniteSet(DOMAIN content)
      /\ content = [id \in 1..Cardinality(DOMAIN content) |-> OldRow(content[id].title, content[id].of)]
  BY <1>1, SeedAssumption
<1>3. Cardinality(DOMAIN content) \in Nat
  BY <1>2, FS_CardinalityType
<1>4. DOMAIN content = 1..Cardinality(DOMAIN content)
  BY <1>2
<1>5. IsTable(content)
  BY <1>2 DEF IsTable
<1>6. \A id \in DOMAIN content :
         IsRow(content[id]) /\ content[id].key = NoKey /\ content[id].edited = FALSE
  <2> SUFFICES ASSUME NEW id \in DOMAIN content
               PROVE  IsRow(content[id]) /\ content[id].key = NoKey /\ content[id].edited = FALSE
    OBVIOUS
  <2> DEFINE Old(x) == OldRow(content[x].title, content[x].of)
  <2>1. PICK title, of : content[id] = OldRow(title, of)
    <3> DEFINE table == [x \in 1..Cardinality(DOMAIN content) |-> Old(x)]
    <3>1. content = table
      BY <1>2
    <3>2. id \in 1..Cardinality(DOMAIN content)
      BY <1>4
    <3> HIDE DEF Old
    <3>3. table[id] = Old(id)
      BY <3>2
    <3> HIDE DEF table
    <3>4. content[id] = Old(id)
      BY ONLY <3>1, <3>3
    <3> QED BY <3>4 DEF Old
  <2> QED BY <2>1 DEF IsRow, OldRow
<1>7. Table(content)
  BY <1>3, <1>4, <1>5, <1>6 DEF Table
<1>8. /\ IsSeed(seed) /\ seed.step = "idle" /\ seed.at = 1 /\ seed.made = {} /\ seed.mine = <<>>
  BY <1>1 DEF Asleep, IsSeed
<1>9. View = content
  BY <1>5, <1>8, ViewAsleep
<1>10. SeedShape
  <2>1. 1 \in 1..Len(File)
    BY SeedAssumption
  <2> QED BY <1>1, <1>8, <2>1 DEF SeedShape
<1>11. SeedProgress /\ BaseInv
  BY <1>1, <1>8 DEF SeedProgress, BaseInv, Running, Once
<1>12. owned = {}
  BY <1>1, <1>6
<1>13. OwnedInv /\ FiledInv
  BY <1>1, <1>12 DEF OwnedInv, FiledInv
<1> QED BY <1>7, <1>9, <1>10, <1>11, <1>13 DEF SeedInv, SeedCore

\* Steps of the others leave the content alone.
LEMMA SeedUnchanged ==
    ASSUME SeedCore, UNCHANGED seedVars
    PROVE  SeedCore' /\ View' = View
<1>1. UNCHANGED <<content, base, seed, owned, raced>>
  BY DEF seedVars
<1>2. View' = View
  BY <1>1 DEF View
<1> QED BY <1>1, <1>2 DEF SeedCore, SeedShape, Running, SeedProgress, BaseInv, ItemFiled, Item, OwnedInv,
        PanelRow, Table

\* The steps beside the seed leave what it works on, but for the panel and for a
\* rollback.
LEMMA LeftAlone ==
    ASSUME \/ BeginDeploy \/ StartMigrate \/ MigrateEnds \/ StartBackend \/ CheckRelease
           \/ MigrateByHand \/ CorrectByHand \/ SwitchByHand \/ RunnerSteps \/ RowsWritten
           \/ UNCHANGED vars
    PROVE  UNCHANGED seedVars
<1>1. CASE BeginDeploy \/ MigrateEnds \/ StartBackend \/ CheckRelease
  BY <1>1 DEF BeginDeploy, MigrateEnds, StartBackend, CheckRelease
<1>2. CASE StartMigrate
  BY <1>2 DEF StartMigrate
<1>3. CASE MigrateByHand \/ CorrectByHand \/ SwitchByHand
  BY <1>3 DEF MigrateByHand, CorrectByHand, SwitchByHand, Beside
<1>4. CASE RunnerSteps \/ RowsWritten \/ UNCHANGED vars
  BY <1>4 DEF RunnerSteps, RowsWritten, vars
<1> QED BY <1>1, <1>2, <1>3, <1>4

\* The steps of the seed, together.
LEMMA SeedStepsKeep ==
    ASSUME SeedCore, SeedWork \/ CommitSeed \/ SeedFails
    PROVE  SeedCore'
BY FindKeeps, BackfillKeeps, UpdateKeeps, SyncDocsKeeps, ReplaceDocsKeeps,
   SeedConfigKeeps, CommitSeedKeeps, SeedFailsKeeps
   DEF SeedWork

\* Every step, for what the seed and the panel share.
LEMMA SeedKept ==
    ASSUME SeedCore, StageInv, [Next]_vars
    PROVE  SeedCore'
<1>1. CASE RunSeed
  BY <1>1, StartSeedKeeps DEF RunSeed
<1>2. CASE SeedStep
  BY <1>2, SeedStepsKeep DEF SeedStep
<1>3. CASE PanelWrites
  BY <1>3, PanelSavesKeeps, StaffChangesKeeps DEF PanelWrites, PanelSteps
<1>4. CASE RollbackByHand
  BY <1>4, RollbackLeavesSeed
<1>5. CASE ~(RunSeed \/ SeedStep \/ PanelWrites \/ RollbackByHand)
  BY <1>5, LeftAlone, SeedUnchanged DEF Next
<1> QED BY <1>1, <1>2, <1>3, <1>4, <1>5

-----------------------------------------------------------------------------
(* What the program that serves finds                                      *)

\* A step of the seed that does not end it writes at most one row, and no row of
\* an item is less filed for it.
LEMMA WritesOneRow ==
    ASSUME SeedCore, SeedWork
    PROVE  /\ UNCHANGED <<content, base>>
           /\ \/ seed'.mine = seed.mine
              \/ \E id, row :
                     /\ seed'.mine = With(seed.mine, id, row)
                     /\ id \in DOMAIN View /\ View[id].key # NoKey =>
                            /\ row.key = View[id].key
                            /\ \A item : AsFiled(View[id], item) => AsFiled(row, item)
<1> DEFINE Harmless(id, row) == id \in DOMAIN View /\ View[id].key # NoKey =>
                                    /\ row.key = View[id].key
                                    /\ \A item : AsFiled(View[id], item) => AsFiled(row, item)
<1>1. UNCHANGED <<content, base>>
  BY DEF SeedWork, FindBySeedKey, BackfillOrInsert, UpdateRow, SyncRequiredDocuments, ReplaceDocuments,
         SeedInitialConfig, SeedWhatsApp, Moves
<1>2. IsSeed(seed) /\ Table(View)
  BY DEF SeedCore, SeedShape
<1>3. ASSUME NEW s, IsSeed(s), NEW id PROVE Done(s, id).mine = s.mine
  BY <1>3 DEF Done, IsSeed
<1>4. ASSUME NEW s, IsSeed(s), NEW id PROVE [s EXCEPT !.step = "update", !.row = id].mine = s.mine
  BY <1>4 DEF IsSeed
<1>d. ASSUME NEW s, IsSeed(s) PROVE [s EXCEPT !.step = "docs"].mine = s.mine
  BY <1>d DEF IsSeed
<1>r. ASSUME NEW s, IsSeed(s) PROVE [s EXCEPT !.step = "replace"].mine = s.mine
  BY <1>r DEF IsSeed
<1>m. ASSUME NEW s, IsSeed(s) PROVE [s EXCEPT !.step = "match"].mine = s.mine
  BY <1>m DEF IsSeed
<1>5. CASE FindBySeedKey
  <2>1. CASE seed' = [seed EXCEPT !.step = "match"]
    BY <1>1, <1>2, <1>m, <2>1
  <2>2. CASE \E id : seed' = Done(seed, id)
    BY <1>1, <1>2, <1>3, <2>2
  <2>3. CASE \E id : seed' = [seed EXCEPT !.step = "update", !.row = id]
    BY <1>1, <1>2, <1>4, <2>3
  <2> QED BY <1>5, <2>1, <2>2, <2>3 DEF FindBySeedKey, Moves
<1>6. CASE BackfillOrInsert
  <2>1. CASE Candidates = {}
    <3> DEFINE id == Cardinality(DOMAIN View) + 1
    <3>1. seed' = Done(Wrote(seed, id, FiledRow), id)
      BY <1>6, <2>1 DEF BackfillOrInsert, Moves
    <3>2. id \notin DOMAIN View
      BY <1>2 DEF Table
    <3> HIDE DEF id
    <3>3. seed'.mine = With(seed.mine, id, FiledRow)
      BY <1>2, <1>3, <3>1, WroteSeed
    <3> QED BY <1>1, <3>2, <3>3
  <2>2. CASE Candidates # {}
    <3> DEFINE id  == Min(Candidates)
               row == [View[id] EXCEPT !.key = Item.key]
    <3>1. \/ seed' = Done(Wrote(seed, id, row), id)
          \/ seed' = [Wrote(seed, id, row) EXCEPT !.step = "update", !.row = id]
      BY <1>6, <2>2 DEF BackfillOrInsert, Moves
    <3>2. View[id].key = NoKey
      <4>1. Candidates \subseteq Nat
        BY <1>2 DEF Candidates, Table
      <4>2. id \in Candidates
        BY <2>2, <4>1, FirstOf
      <4> QED BY <4>2 DEF Candidates
    <3> HIDE DEF id, row
    <3>3. seed'.mine = With(seed.mine, id, row)
      <4> DEFINE s == Wrote(seed, id, row)
      <4>1. IsSeed(s) /\ s.mine = With(seed.mine, id, row)
        BY <1>2, WroteSeed
      <4>2. seed' = Done(s, id) \/ seed' = [s EXCEPT !.step = "update", !.row = id]
        BY <3>1
      <4> HIDE DEF s
      <4>3. CASE seed' = Done(s, id)
        BY <1>3, <4>1, <4>3
      <4>4. CASE seed' = [s EXCEPT !.step = "update", !.row = id]
        BY <1>4, <4>1, <4>4, Zenon
      <4> QED BY <4>2, <4>3, <4>4
    <3> QED BY <1>1, <3>2, <3>3
  <2> QED BY <2>1, <2>2
<1>7. CASE UpdateRow
  <2> DEFINE old   == View[seed.row]
             new   == [old EXCEPT !.title = Item.key, !.values = "filed"]
             after == IF ~old.edited /\ new # old THEN Wrote(seed, seed.row, new) ELSE seed
  <2>1. \/ seed' = Done(after, seed.row) \/ seed' = [after EXCEPT !.step = "docs"]
    BY <1>7 DEF UpdateRow, Moves
  <2>2. IsRow(old)
    BY <1>2, <1>7 DEF UpdateRow, SeedCore, SeedProgress, Table
  <2>3. new.key = old.key /\ new.edited = old.edited /\ new.values = "filed" /\ new.docs = old.docs
    <3>1. /\ IsRow(new) /\ new.key = old.key /\ new.of = old.of
          /\ new.edited = old.edited /\ new.values = "filed" /\ new.docs = old.docs
      <4> HIDE DEF old, after
      <4> QED BY <2>2, RowFiled, Zenon
    <3> QED BY <3>1
  <2> HIDE DEF new
  <2>4. Harmless(seed.row, new)
    BY <2>3 DEF AsFiled
  <2>5. IsSeed(after) /\ (after.mine = seed.mine \/ after.mine = With(seed.mine, seed.row, new))
    <3>1. after = seed \/ after = Wrote(seed, seed.row, new)
      OBVIOUS
    <3> HIDE DEF after
    <3> QED BY <1>2, <3>1, WroteSeed
  <2> HIDE DEF after
  <2>6. seed'.mine = after.mine
    <3>1. CASE seed' = Done(after, seed.row)
      BY <1>3, <2>5, <3>1
    <3>2. CASE seed' = [after EXCEPT !.step = "docs"]
      BY <1>d, <2>5, <3>2, Zenon
    <3> QED BY <2>1, <3>1, <3>2
  <2> QED BY <1>1, <2>4, <2>5, <2>6
<1>8. CASE SyncRequiredDocuments
  <2>1. seed'.mine = seed.mine
    BY <1>2, <1>3, <1>r, <1>8 DEF SyncRequiredDocuments, Moves
  <2> QED BY <1>1, <2>1
<1>10. CASE ReplaceDocuments
  <2> DEFINE old      == View[seed.row]
             new(docs) == [old EXCEPT !.docs = docs]
  <2>1. PICK docs : /\ docs = "filed" \/ old.edited
                    /\ seed' = Done(Wrote(seed, seed.row, new(docs)), seed.row)
    BY <1>10 DEF ReplaceDocuments, Moves
  <2>2. IsRow(old)
    BY <1>2, <1>10 DEF ReplaceDocuments, SeedCore, SeedProgress, Table
  <2>3. /\ new(docs).key = old.key /\ new(docs).edited = old.edited
        /\ new(docs).values = old.values /\ new(docs).docs = docs
    <3> HIDE DEF old
    <3> QED BY <2>2 DEF IsRow
  <2> HIDE DEF new
  <2>4. Harmless(seed.row, new(docs))
    BY <2>1, <2>3 DEF AsFiled
  <2>5. seed'.mine = With(seed.mine, seed.row, new(docs))
    BY <1>2, <1>3, <2>1, WroteSeed
  <2> QED BY <1>1, <2>4, <2>5
<1>9. CASE SeedInitialConfig \/ SeedWhatsApp
  <2>1. PICK new : \/ seed' = [seed EXCEPT !.step = "whatsapp", !.made = new]
                   \/ seed' = [seed EXCEPT !.step = "commit", !.made = new]
    <3>1. CASE SeedInitialConfig
      BY <3>1 DEF SeedInitialConfig, Moves
    <3>2. CASE SeedWhatsApp
      BY <3>2 DEF SeedWhatsApp, Moves
    <3> QED BY <1>9, <3>1, <3>2
  <2>2. seed'.mine = seed.mine
    BY <1>2, <2>1 DEF IsSeed
  <2> QED BY <1>1, <2>2
<1> QED BY <1>5, <1>6, <1>7, <1>8, <1>9, <1>10 DEF SeedWork

\* An item that the seed has filed stays filed while it works on.
LEMMA SeedWorkFiled ==
    ASSUME SeedCore, SeedWork, NEW i \in 1..Len(File), ItemFiled(i, View)
    PROVE  ItemFiled(i, View')
<1>1. CASE seed'.mine = seed.mine
  BY <1>1, WritesOneRow, ViewMoved
<1>2. CASE \E id, row :
               /\ seed'.mine = With(seed.mine, id, row)
               /\ id \in DOMAIN View /\ View[id].key # NoKey =>
                      /\ row.key = View[id].key
                      /\ \A item : AsFiled(View[id], item) => AsFiled(row, item)
  <2>1. PICK id, row :
               /\ seed'.mine = With(seed.mine, id, row)
               /\ id \in DOMAIN View /\ View[id].key # NoKey =>
                      /\ row.key = View[id].key
                      /\ \A item : AsFiled(View[id], item) => AsFiled(row, item)
    BY <1>2
  <2>2. View' = With(View, id, row)
    BY <2>1, WritesOneRow, ViewWrote
  <2>3. File[i].key # NoKey
    BY Filed
  <2> QED BY <2>1, <2>2, <2>3, StaysFiled
<1> QED BY <1>1, <1>2, WritesOneRow

\* Every step, for what the program that serves needs.
LEMMA FiledKept ==
    ASSUME StageInv, SeedCore, SeedCore', FiledInv, [Next]_vars
    PROVE  FiledInv'
<1>1. \A i \in 1..Len(File) : (ItemFiled(i, content') <=> ItemFiled(i, content)')
                              /\ (ItemFiled(i, View') <=> ItemFiled(i, View)')
  BY DEF ItemFiled
<1>2. ASSUME UNCHANGED seedVars, UNCHANGED backend, stage' \in {"start", "check"} => stage \in {"start", "check"}
      PROVE  FiledInv'
  <2>1. View' = View /\ UNCHANGED <<content, base>>
    BY <1>2, SeedUnchanged DEF seedVars
  <2> QED BY <1>1, <1>2, <2>1 DEF FiledInv, BaseFiled
<1>3. CASE BeginDeploy
  <2>1. View' = View /\ UNCHANGED <<content, base>>
    BY <1>3, LeftAlone, SeedUnchanged DEF seedVars
  <2>2. stage' = "migrate" /\ (backend' = "new" => backend = "new")
    BY <1>3 DEF BeginDeploy
  <2> QED BY <1>1, <2>1, <2>2 DEF FiledInv, BaseFiled
<1>4. CASE StartMigrate \/ MigrateEnds \/ CheckRelease
  <2>1. UNCHANGED backend /\ (stage' \in {"start", "check"} => stage \in {"start", "check"})
    BY <1>4 DEF StartMigrate, MigrateEnds, CheckRelease, StageInv
  <2> QED BY <1>2, <1>4, <2>1, LeftAlone
<1>5. CASE StartBackend
  <2>1. View' = View /\ UNCHANGED <<content, base>> /\ stage = "start"
    BY <1>5, LeftAlone, SeedUnchanged DEF seedVars, StartBackend
  <2>2. View = content
    <3>1. seed = Asleep /\ Table(content)
      BY <2>1 DEF StageInv, SeedCore, SeedShape
    <3> QED BY <3>1, ViewAsleep DEF Asleep, Table
  <2> QED BY <1>1, <2>1, <2>2 DEF FiledInv, BaseFiled
<1>6. CASE MigrateByHand \/ CorrectByHand
  <2>1. UNCHANGED <<backend, stage>>
    BY <1>6 DEF MigrateByHand, CorrectByHand, Beside
  <2> QED BY <1>2, <1>6, <2>1, LeftAlone
<1>7. CASE SwitchByHand
  <2>1. backend' # "new" /\ stage' = "none"
    BY <1>7 DEF SwitchByHand, Beside
  <2> QED BY <2>1 DEF FiledInv
<1>8. CASE RollbackByHand
  <2>1. backend' # "new" /\ stage' = "none"
    BY <1>8 DEF RollbackByHand, Beside
  <2> QED BY <2>1 DEF FiledInv
<1>9. CASE RunnerSteps \/ RowsWritten \/ UNCHANGED vars
  <2>1. UNCHANGED <<backend, stage>>
    BY <1>9 DEF RunnerSteps, RowsWritten, vars, deployVars
  <2> QED BY <1>2, <1>9, <2>1, LeftAlone
<1>10. CASE RunSeed
  <2>1. View' = View /\ UNCHANGED <<content, base, backend>> /\ stage' = "seeding"
    BY <1>10, StartSeedKeeps DEF RunSeed, StartSeed
  <2> QED BY <1>1, <2>1 DEF FiledInv, BaseFiled
<1>11. CASE SeedStep /\ CommitSeed
  <2>1. /\ content' = View /\ seed' = Asleep /\ seed.step = "commit"
        /\ base' = [name \in Once |-> IF name \in seed.made THEN "initial" ELSE base[name]]
    BY <1>11 DEF CommitSeed
  <2>2. \A i \in 1..Len(File) : ItemFiled(i, content')
    BY <2>1 DEF SeedCore, SeedProgress, Running
  <2>3. View' = content'
    <3>1. seed'.mine = <<>> /\ IsTable(content')
      BY <2>1 DEF SeedCore, Table, Asleep
    <3> QED BY <3>1 DEF View, IsTable
  <2>4. BaseFiled'
    <3>1. \A name \in Once : base'[name] = IF name \in seed.made THEN "initial" ELSE base[name]
      BY <2>1
    <3> QED BY <2>1, <3>1 DEF SeedCore, BaseInv, BaseFiled, Running, Once
  <2> QED BY <1>1, <2>2, <2>3, <2>4 DEF FiledInv
<1>12. CASE SeedStep /\ SeedFails /\ stage' = "none"
  <2>1. UNCHANGED <<content, base, backend>> /\ seed' = Asleep
    BY <1>12 DEF SeedStep, SeedFails
  <2>2. View' = content'
    <3>1. seed'.mine = <<>> /\ IsTable(content')
      BY <2>1 DEF SeedCore, Table, Asleep
    <3> QED BY <3>1 DEF View, IsTable
  <2> QED BY <1>1, <1>12, <2>1, <2>2 DEF FiledInv, BaseFiled
<1>13. CASE SeedStep /\ SeedWork /\ UNCHANGED stage
  <2>1. UNCHANGED <<content, base, backend>> /\ stage' = "seeding"
    BY <1>13, WritesOneRow DEF SeedStep
  <2>2. \A i \in 1..Len(File) : ItemFiled(i, View) => ItemFiled(i, View')
    BY <1>13, SeedWorkFiled DEF SeedStep
  <2> QED BY <1>1, <2>1, <2>2 DEF FiledInv, BaseFiled
<1>14. CASE PanelWrites
  <2>1. UNCHANGED <<backend, stage>>
    BY <1>14 DEF PanelWrites, deployVars
  <2>2. CASE \E id \in DOMAIN content : PanelSaves(id)
    <3>1. UNCHANGED base
      BY <2>2, PanelSavesKeeps
    <3>2. /\ \A i \in 1..Len(File) : ItemFiled(i, content) => ItemFiled(i, content')
          /\ \A i \in 1..Len(File) : ItemFiled(i, View) => ItemFiled(i, View')
      BY <2>2, PanelSavesKeeps
    <3> QED BY <1>1, <2>1, <3>1, <3>2 DEF FiledInv, BaseFiled
  <2>3. CASE \E name \in {"admin", "whatsapp"} : StaffChanges(name)
    <3>1. UNCHANGED <<content, seed>> /\ (BaseFiled => BaseFiled')
      BY <2>3, StaffChangesKeeps
    <3>2. View' = View
      BY <3>1 DEF View
    <3> QED BY <1>1, <2>1, <3>1, <3>2 DEF FiledInv
  <2> QED BY <1>14, <2>2, <2>3 DEF PanelWrites, PanelSteps
<1> QED BY <1>3, <1>4, <1>5, <1>6, <1>7, <1>8, <1>9, <1>10, <1>11, <1>12, <1>13, <1>14 DEF Next, SeedStep

-----------------------------------------------------------------------------
(* Lemmas about the events that are read back                              *)

\* All fields there are.
LEMMA FieldNamed ==
    ASSUME NEW type \in EVENT_TYPES, NEW f \in EVENT_FIELDS[type]
    PROVE  \/ ~f.inData /\ f.kind = "id" /\ f.at = f.name
              /\ f.name \in {"categoryId", "questionId", "appointmentId"}
           \/ f.inData /\ f.kind = "llm" /\ f.name = "llm" /\ f.at = "llm"
           \/ f.inData /\ f.kind = "boolean" /\ f.name = "resolved" /\ f.at = "resolved"
           \/ f.inData /\ f.kind = "reason" /\ f.name = "reason" /\ f.at = "reason"
           \/ f.inData /\ f.kind = "boolean" /\ f.name = "byRepresentative" /\ f.at = "by_representative"
           \/ f.inData /\ f.kind = "datetime" /\ f.name \in {"from", "to"} /\ f.at = f.name
           \/ f.inData /\ f.kind = "step" /\ f.name = "step" /\ f.at = "step"
<1> DEFINE Ids  == {IdField("categoryId"), IdField("questionId"), IdField("appointmentId")}
           Data == {DataField("llm", "llm", "llm"), DataField("resolved", "boolean", "resolved"),
                    DataField("reason", "reason", "reason"),
                    DataField("byRepresentative", "boolean", "by_representative"),
                    DataField("from", "datetime", "from"), DataField("to", "datetime", "to"),
                    DataField("step", "step", "step")}
<1>1. f \in Ids \cup Data
  <2>1. type \in {"STARTED", "CATEGORY_CHOSEN", "QUESTION_CHOSEN", "ANSWER_SENT", "RESOLVED_ANSWERED",
                  "SCHEDULE_OFFERED", "NO_SLOT", "SCHEDULE_DECLINED", "ATTENDEE_CHOSEN",
                  "PHONE_NOTICE_SHOWN", "APPOINTMENT_CREATED", "APPOINTMENT_CONSULTED",
                  "APPOINTMENT_RESCHEDULED", "APPOINTMENT_CANCELED", "ABANDONED"}
    BY DEF EVENT_TYPES, EVENT_FIELDS
  <2>2. CASE type \in {"STARTED", "CATEGORY_CHOSEN", "QUESTION_CHOSEN", "NO_SLOT", "SCHEDULE_DECLINED",
                       "PHONE_NOTICE_SHOWN", "APPOINTMENT_CREATED", "APPOINTMENT_CONSULTED",
                       "APPOINTMENT_CANCELED"}
    <3>1. EVENT_FIELDS[type] \subseteq Ids
      BY <2>2 DEF EVENT_FIELDS
    <3> QED BY <3>1
  <2>3. CASE type \in {"ANSWER_SENT", "RESOLVED_ANSWERED", "SCHEDULE_OFFERED", "ATTENDEE_CHOSEN",
                       "APPOINTMENT_RESCHEDULED", "ABANDONED"}
    <3>1. EVENT_FIELDS[type] \subseteq Ids \cup Data
      BY <2>3 DEF EVENT_FIELDS
    <3> QED BY <3>1
  <2> QED BY <2>1, <2>2, <2>3
<1>2. CASE f \in Ids
  BY <1>2 DEF IdField
<1>3. CASE f \in Data
  BY <1>3 DEF DataField
<1> QED BY <1>1, <1>2, <1>3

\* No two fields have one name, or one key.
LEMMA FieldsApart ==
    ASSUME NEW type \in EVENT_TYPES, NEW f \in EVENT_FIELDS[type], NEW g \in EVENT_FIELDS[type],
           f.name = g.name \/ f.at = g.at
    PROVE  f = g
<1>1. f = [name |-> f.name, kind |-> f.kind, at |-> f.at, inData |-> f.inData] /\ f.inData \in BOOLEAN
  BY FieldKinds
<1>2. g = [name |-> g.name, kind |-> g.kind, at |-> g.at, inData |-> g.inData] /\ g.inData \in BOOLEAN
  BY FieldKinds
<1>3. f.name = g.name /\ f.kind = g.kind /\ f.at = g.at /\ (f.inData <=> g.inData)
  BY FieldNamed
<1> QED BY <1>1, <1>2, <1>3

\* A valid event has all fields of its type.
LEMMA AllFields ==
    ASSUME NEW event, ValidConversationEvent(event)
    PROVE  /\ event.type \in EVENT_TYPES
           /\ DOMAIN event.fields = FieldNames(event.type)
           /\ \A f \in EVENT_FIELDS[event.type] :
                 f.name \in DOMAIN event.fields /\ IsValidValue(f.kind, event.fields[f.name])
<1>1. ASSUME NEW f \in EVENT_FIELDS[event.type]
      PROVE  f.name \in DOMAIN event.fields /\ IsValidValue(f.kind, event.fields[f.name])
  <2>1. event.type \in EVENT_TYPES /\ IsValidValue(f.kind, ValueOf(event.fields, f.name))
    BY DEF ValidConversationEvent
  <2>2. f.kind \in {"id", "llm", "reason", "step", "boolean", "datetime"}
    BY <2>1, FieldNamed
  <2>3. ~IsValidValue(f.kind, Missing)
    BY <2>2 DEF IsValidValue, Missing, IsOneOf
  <2> QED BY <2>1, <2>3 DEF ValueOf
<1> QED BY <1>1 DEF ValidConversationEvent, FieldNames

\* The row of an event keeps each of its fields where it is read.
LEMMA FieldsKept ==
    ASSUME NEW event, ValidConversationEvent(event), NEW f \in EVENT_FIELDS[event.type],
           NEW row, row = BuildConversationEventRow(event)
    PROVE  event.fields[f.name] = IF f.inData THEN ValueOf(row.data, f.at) ELSE row.columns[f.at]
<1> DEFINE fields  == EVENT_FIELDS[event.type]
           inData  == {g \in fields : g.inData /\ event.fields[g.name].kind \in {"string", "boolean"}}
           keys    == {g.at : g \in inData}
           at(key) == CHOOSE g \in inData : g.at = key
           data    == [key \in keys |-> event.fields[at(key).name]]
           columns == [c \in Columns |-> IF \E g \in fields : ~g.inData /\ g.at = c
                                         THEN event.fields[c] ELSE Null]
<1>1. row = [type |-> event.type, columns |-> columns, data |-> data]
  BY Zenon DEF BuildConversationEventRow
<1>2. row.columns = columns /\ row.data = data
  <2> HIDE DEF columns, data
  <2> QED BY <1>1
<1>3. event.type \in EVENT_TYPES /\ IsValidValue(f.kind, event.fields[f.name])
  BY AllFields
<1>4. CASE f.inData
  <2>1. event.fields[f.name].kind \in {"string", "boolean"}
    BY <1>3, <1>4, FieldNamed DEF IsValidValue, IsOneOf
  <2>2. f \in inData
    BY <1>4, <2>1
  <2>3. f.at \in keys
    BY <2>2
  <2>4. at(f.at) = f
    <3>1. at(f.at) \in inData /\ at(f.at).at = f.at
      BY <2>2, Zenon
    <3> HIDE DEF at
    <3>2. at(f.at) \in fields
      BY <3>1
    <3> QED BY <1>3, <3>1, <3>2, FieldsApart
  <2>5. f.at \in DOMAIN data /\ data[f.at] = event.fields[f.name]
    <3> HIDE DEF at, keys
    <3> QED BY <2>3, <2>4
  <2> HIDE DEF data
  <2> QED BY <1>2, <1>4, <2>5 DEF ValueOf
<1>5. CASE ~f.inData
  <2>1. f.at = f.name /\ f.at \in Columns
    BY <1>3, <1>5, FieldNamed DEF Columns
  <2>2. columns[f.at] = event.fields[f.at]
    BY <1>5, <2>1
  <2> HIDE DEF columns
  <2> QED BY <1>2, <1>5, <2>1, <2>2
<1> QED BY <1>4, <1>5

\* What the program builds for an event it reads back as that event.
LEMMA ReadBack ==
    ASSUME NEW event, ValidConversationEvent(event), IsEvent(event)
    PROVE  ParseConversationEventRow(BuildConversationEventRow(event)) = event
<1> DEFINE row           == BuildConversationEventRow(event)
           fieldAt(name) == CHOOSE f \in EVENT_FIELDS[row.type] : f.name = name
           value(name)   == IF fieldAt(name).inData THEN ValueOf(row.data, fieldAt(name).at)
                            ELSE row.columns[fieldAt(name).at]
           fields        == [name \in FieldNames(row.type) |-> value(name)]
           candidate     == [type |-> row.type, fields |-> fields]
<1>1. row.type = event.type /\ event.type \in EVENT_TYPES
  BY BuiltRow, AllFields
<1>2. ASSUME NEW name \in FieldNames(event.type) PROVE value(name) = event.fields[name]
  <2>1. PICK f \in EVENT_FIELDS[event.type] : f.name = name
    BY <1>2 DEF FieldNames
  <2>2. fieldAt(name) = f
    <3>1. fieldAt(name) \in EVENT_FIELDS[event.type] /\ fieldAt(name).name = name
      BY <1>1, <2>1, Zenon
    <3> HIDE DEF fieldAt
    <3> QED BY <1>1, <2>1, <3>1, FieldsApart
  <2> HIDE DEF row, fieldAt
  <2> QED BY <2>1, <2>2, FieldsKept DEF row
<1>3. fields = event.fields
  <2>1. event.fields = [name \in DOMAIN event.fields |-> event.fields[name]]
    BY DEF IsEvent
  <2>2. DOMAIN event.fields = FieldNames(event.type)
    BY AllFields
  <2> HIDE DEF row, value
  <2> QED BY <1>1, <1>2, <2>1, <2>2
<1>4. candidate = event
  <2> HIDE DEF row, fields
  <2>1. event = [type |-> event.type, fields |-> event.fields]
    BY DEF IsEvent
  <2> QED BY <1>1, <1>3, <2>1
<1>5. ParseConversationEventRow(row) = IF ValidConversationEvent(candidate) THEN candidate ELSE Unreadable
  <2> HIDE DEF row
  <2> QED BY Zenon DEF ParseConversationEventRow
<1> QED BY <1>4, <1>5

\* The checks of migration 13 admit none of the keys of older programs.
LEMMA BuiltIsLeft ==
    ASSUME NEW event, ValidConversationEvent(event), NEW row, Written(row, event), EventAdmitted(row)
    PROVE  row = BuildConversationEventRow(event)
<1> DEFINE built == BuildConversationEventRow(event)
           llm   == RenameKey(built, "ANSWER_SENT", "llm", "llmStatus")
<1>1. /\ built = [type |-> built.type, columns |-> built.columns, data |-> built.data]
      /\ built.data = [key \in DOMAIN built.data |-> built.data[key]]
  BY BuiltRow
<1>2. DOMAIN row.data \subseteq DataKeys(row.type)
  BY DEF EventAdmitted, DataKeysHold
<1>3. row = built \/ row = RenameKey(llm, "ATTENDEE_CHOSEN", "by_representative", "byRepresentative")
  BY DEF Written, OldKeys
<1> HIDE DEF built
<1>4. ASSUME NEW r, NEW type, NEW old, NEW new, RenameKey(r, type, old, new) # r,
             r = [type |-> r.type, columns |-> r.columns, data |-> r.data]
      PROVE  /\ r.type = type /\ RenameKey(r, type, old, new).type = type
             /\ new \in DOMAIN RenameKey(r, type, old, new).data
  <2> DEFINE data == [key \in (DOMAIN r.data \ {old}) \cup {new} |->
                        IF key = new THEN r.data[old] ELSE r.data[key]]
  <2>1. RenameKey(r, type, old, new) = [r EXCEPT !.data = data] /\ r.type = type
    BY <1>4 DEF RenameKey
  <2>2. new \in DOMAIN data
    OBVIOUS
  <2> HIDE DEF data
  <2> QED BY <1>4, <2>1, <2>2
<1>5. CASE built.type = "ATTENDEE_CHOSEN"
  <2>1. llm = built
    BY <1>5 DEF RenameKey
  <2>2. row # built => row.type = "ATTENDEE_CHOSEN" /\ "byRepresentative" \in DOMAIN row.data
    BY <1>1, <1>3, <1>4, <2>1
  <2> QED BY <1>2, <2>2 DEF DataKeys, built
<1>6. CASE built.type # "ATTENDEE_CHOSEN"
  <2>1. llm.type = built.type
    BY <1>1 DEF RenameKey
  <2>2. RenameKey(llm, "ATTENDEE_CHOSEN", "by_representative", "byRepresentative") = llm
    BY <1>6, <2>1 DEF RenameKey
  <2>3. row # built => row.type = "ANSWER_SENT" /\ "llmStatus" \in DOMAIN row.data
    BY <1>1, <1>3, <1>4, <2>2
  <2> QED BY <1>2, <2>3 DEF DataKeys, built
<1> QED BY <1>5, <1>6

-----------------------------------------------------------------------------
(* Lemmas about what the page shows of an event                            *)

\* The texts of JSON values that are compared.
LEMMA JsonText ==
    ASSUME NEW value, IsJson(value)
    PROVE  /\ value.kind = "string" => value = Str(value.text)
           /\ value.kind = "boolean" => value \in {Bool("true"), Bool("false")}
           /\ value.kind = "number" => value # Null
BY DEF IsJson, Str, Bool, Null

\* What an event says in its data, by its type.
LEMMA RecordedData ==
    ASSUME NEW event \in Recorded
    PROVE  /\ event.type = "ANSWER_SENT" =>
                 event.fields["llm"] \in {Str("NOT_CALLED"), Str("USED"), Str("FAILED")}
           /\ event.type = "RESOLVED_ANSWERED" => event.fields["resolved"] \in {Bool("true"), Bool("false")}
           /\ event.type = "SCHEDULE_OFFERED" =>
                 event.fields["reason"] \in {Str("REQUIRES_IN_PERSON"), Str("NOT_RESOLVED")}
           /\ event.type = "ATTENDEE_CHOSEN" =>
                 event.fields["byRepresentative"] \in {Bool("true"), Bool("false")}
           /\ event.type = "APPOINTMENT_RESCHEDULED" =>
                 /\ event.fields["from"] \in {Str("2030-01-02T12:00:00Z"), Str("2030-01-03T09:30:00.000-03:00")}
                 /\ event.fields["to"] \in {Str("2030-01-02T12:00:00Z"), Str("2030-01-03T09:30:00.000-03:00")}
           /\ \A name \in {"categoryId", "questionId"} :
                 IF name \in DOMAIN event.fields
                 THEN IdOf(event, name) = event.fields[name] /\ IdOf(event, name) # Null
                 ELSE IdOf(event, name) = Null
<1>1. /\ ValidConversationEvent(event)
      /\ \A name \in DOMAIN event.fields : IsJson(event.fields[name])
  BY MigrationAssumption DEF IsEvent
<1>2. /\ event.type \in EVENT_TYPES /\ DOMAIN event.fields = FieldNames(event.type)
      /\ \A f \in EVENT_FIELDS[event.type] :
            f.name \in DOMAIN event.fields /\ IsValidValue(f.kind, event.fields[f.name])
  BY <1>1, AllFields
<1>3. ASSUME NEW name, NEW kind, NEW key, DataField(name, kind, key) \in EVENT_FIELDS[event.type]
      PROVE  IsJson(event.fields[name]) /\ IsValidValue(kind, event.fields[name])
  <2>1. PICK f \in EVENT_FIELDS[event.type] : f.name = name /\ f.kind = kind
    BY <1>3 DEF DataField
  <2> QED BY <1>1, <1>2, <2>1
<1>4. ASSUME event.type = "ANSWER_SENT"
      PROVE  event.fields["llm"] \in {Str("NOT_CALLED"), Str("USED"), Str("FAILED")}
  <2>1. DataField("llm", "llm", "llm") \in EVENT_FIELDS[event.type]
    BY <1>4 DEF EVENT_FIELDS
  <2>2. IsJson(event.fields["llm"]) /\ IsValidValue("llm", event.fields["llm"])
    BY <1>3, <2>1
  <2>3. event.fields["llm"].kind = "string" /\ event.fields["llm"].text \in LLM_STATUSES
    BY <2>2 DEF IsValidValue, IsOneOf
  <2> QED BY <2>2, <2>3, JsonText DEF LLM_STATUSES
<1>5. ASSUME event.type = "RESOLVED_ANSWERED"
      PROVE  event.fields["resolved"] \in {Bool("true"), Bool("false")}
  <2>1. DataField("resolved", "boolean", "resolved") \in EVENT_FIELDS[event.type]
    BY <1>5 DEF EVENT_FIELDS
  <2>2. IsJson(event.fields["resolved"]) /\ IsValidValue("boolean", event.fields["resolved"])
    BY <1>3, <2>1
  <2>3. event.fields["resolved"].kind = "boolean"
    BY <2>2 DEF IsValidValue
  <2> QED BY <2>2, <2>3, JsonText
<1>6. ASSUME event.type = "SCHEDULE_OFFERED"
      PROVE  event.fields["reason"] \in {Str("REQUIRES_IN_PERSON"), Str("NOT_RESOLVED")}
  <2>1. DataField("reason", "reason", "reason") \in EVENT_FIELDS[event.type]
    BY <1>6 DEF EVENT_FIELDS
  <2>2. IsJson(event.fields["reason"]) /\ IsValidValue("reason", event.fields["reason"])
    BY <1>3, <2>1
  <2>3. event.fields["reason"].kind = "string" /\ event.fields["reason"].text \in SCHEDULE_OFFER_REASONS
    BY <2>2 DEF IsValidValue, IsOneOf
  <2> QED BY <2>2, <2>3, JsonText DEF SCHEDULE_OFFER_REASONS
<1>7. ASSUME event.type = "ATTENDEE_CHOSEN"
      PROVE  event.fields["byRepresentative"] \in {Bool("true"), Bool("false")}
  <2>1. DataField("byRepresentative", "boolean", "by_representative") \in EVENT_FIELDS[event.type]
    BY <1>7 DEF EVENT_FIELDS
  <2>2. IsJson(event.fields["byRepresentative"]) /\ IsValidValue("boolean", event.fields["byRepresentative"])
    BY <1>3, <2>1
  <2>3. event.fields["byRepresentative"].kind = "boolean"
    BY <2>2 DEF IsValidValue
  <2> QED BY <2>2, <2>3, JsonText
<1>8. ASSUME event.type = "APPOINTMENT_RESCHEDULED"
      PROVE  /\ event.fields["from"] \in {Str("2030-01-02T12:00:00Z"), Str("2030-01-03T09:30:00.000-03:00")}
             /\ event.fields["to"] \in {Str("2030-01-02T12:00:00Z"), Str("2030-01-03T09:30:00.000-03:00")}
  <2>1. /\ DataField("from", "datetime", "from") \in EVENT_FIELDS[event.type]
        /\ DataField("to", "datetime", "to") \in EVENT_FIELDS[event.type]
    BY <1>8 DEF EVENT_FIELDS
  <2>2. /\ IsJson(event.fields["from"]) /\ IsValidValue("datetime", event.fields["from"])
        /\ IsJson(event.fields["to"]) /\ IsValidValue("datetime", event.fields["to"])
    BY <1>3, <2>1
  <2>3. /\ event.fields["from"].kind = "string" /\ event.fields["from"].text \in Instants
        /\ event.fields["to"].kind = "string" /\ event.fields["to"].text \in Instants
    BY <2>2 DEF IsValidValue, IsOneOf
  <2> QED BY <2>2, <2>3, JsonText DEF Instants
<1>9. ASSUME NEW name \in {"categoryId", "questionId"}
      PROVE  IF name \in DOMAIN event.fields
             THEN IdOf(event, name) = event.fields[name] /\ IdOf(event, name) # Null
             ELSE IdOf(event, name) = Null
  <2>1. CASE name \in DOMAIN event.fields
    <3>1. PICK f \in EVENT_FIELDS[event.type] : f.name = name
      BY <1>2, <2>1 DEF FieldNames
    <3>2. f.kind = "id"
      BY <1>2, <1>9, <3>1, FieldNamed
    <3>3. event.fields[name].kind = "number" /\ IsJson(event.fields[name])
      BY <1>1, <1>2, <3>1, <3>2 DEF IsValidValue
    <3> QED BY <2>1, <3>3, JsonText DEF IdOf, ValueOf
  <2>2. CASE name \notin DOMAIN event.fields
    BY <2>2 DEF IdOf, ValueOf, Missing
  <2> QED BY <2>1, <2>2
<1> QED BY <1>4, <1>5, <1>6, <1>7, <1>8, <1>9

\* The data of a step on the page: the fields of its event, and its titles.
LEMMA StepData ==
    ASSUME NEW event \in Recorded
    PROVE  \E data, ai :
              /\ ShownStep(event) = [title |-> event.type, ai |-> ai,
                                     detail |-> DetailOf(event.type, data, Str("protocol"))]
              /\ \A name \in DOMAIN event.fields : ValueOf(data, name) = event.fields[name]
              /\ event.type = "CATEGORY_CHOSEN" => ValueOf(data, "category_title") = Str("category")
              /\ event.type = "QUESTION_CHOSEN" => ValueOf(data, "question_title") = Str("short")
<1> DEFINE ids(key)  == {IdOf(other, key) : other \in Recorded}
           catalogue == [categories |-> [id \in ids("categoryId") |-> Str("category")],
                         questions  |-> [id \in ids("questionId") |->
                                            [text |-> Str("question"), short |-> Str("short")]]]
           appointment == [category_id |-> Null, category_name |-> Null,
                           question_id |-> Null, question_title |-> Null]
           events    == <<event>>
           titles    == ResolveTitles(catalogue, EventIds(events, "categoryId"), EventIds(events, "questionId"))
           added     == TitlesOf(event, appointment, titles)
           ai        == event.type = "ANSWER_SENT" /\ event.fields["llm"] = Str("USED")
           data      == [key \in DOMAIN event.fields \cup DOMAIN added |->
                            IF key \in DOMAIN added THEN added[key] ELSE event.fields[key]]
           step      == [id |-> 1, type |-> event.type, generatedByAi |-> ai, data |-> data]
<1>1. /\ event.type \in EVENT_TYPES /\ DOMAIN event.fields = FieldNames(event.type)
      /\ \A f \in EVENT_FIELDS[event.type] : f.name \in DOMAIN event.fields
  BY AllFields, MigrationAssumption
<1>2. TimelineOf(events, appointment, catalogue)[1] = step
  <2> HIDE DEF catalogue, appointment
  <2>1. DOMAIN events = {1} /\ events[1] = event
    OBVIOUS
  <2> HIDE DEF events
  <2> QED BY <2>1 DEF TimelineOf, BuildTimeline
<1>3. DOMAIN TimelineOf(events, appointment, catalogue) = {1}
  <2> HIDE DEF catalogue, appointment
  <2>1. DOMAIN events = {1}
    OBVIOUS
  <2> HIDE DEF events
  <2> QED BY <2>1 DEF TimelineOf, BuildTimeline
<1>4. event.type \in TitledTypes
  BY <1>1 DEF TitledTypes, EVENT_TYPES, EVENT_FIELDS
<1>5. ShownStep(event) = [title |-> event.type, ai |-> ai,
                          detail |-> DetailOf(event.type, data, Str("protocol"))]
  <2> DEFINE timeline == TimelineOf(events, appointment, catalogue)
  <2>1. ShownStep(event) = ShownSteps(timeline, Str("protocol"))[1]
    BY Zenon DEF ShownStep
  <2>2. timeline[1].type = event.type /\ timeline[1].generatedByAi = ai /\ timeline[1].data = data
    <3> HIDE DEF timeline, data, ai
    <3> QED BY <1>2 DEF timeline
  <2> HIDE DEF timeline, data, ai
  <2>3. ShownSteps(timeline, Str("protocol"))[1] =
           [title |-> TimelineStepLabel(timeline[1], Str("protocol")).titleKey,
            detail |-> TimelineStepLabel(timeline[1], Str("protocol")).detail, ai |-> timeline[1].generatedByAi]
    BY <1>3 DEF ShownSteps, timeline
  <2>4. TimelineStepLabel(timeline[1], Str("protocol")) =
           [titleKey |-> event.type, detail |-> DetailOf(event.type, data, Str("protocol"))]
    BY <1>4, <2>2 DEF TimelineStepLabel
  <2> QED BY <2>1, <2>2, <2>3, <2>4
<1>6. DOMAIN added \subseteq {"category_title", "question_title"}
  <2> HIDE DEF appointment, titles
  <2> QED BY DEF TitlesOf
<1>7. \A name \in DOMAIN event.fields : name \notin {"category_title", "question_title"}
  BY <1>1, FieldNamed DEF FieldNames
<1>8. \A name \in DOMAIN event.fields : ValueOf(data, name) = event.fields[name]
  <2> HIDE DEF added
  <2> QED BY <1>6, <1>7 DEF ValueOf
<1>9. ASSUME event.type = "CATEGORY_CHOSEN"
      PROVE  ValueOf(data, "category_title") = Str("category")
  <2> DEFINE id == IdOf(event, "categoryId")
  <2>1. "categoryId" \in DOMAIN event.fields
    <3>1. IdField("categoryId") \in EVENT_FIELDS[event.type] /\ IdField("categoryId").name = "categoryId"
      BY <1>9 DEF EVENT_FIELDS, IdField
    <3> QED BY <1>1, <3>1
  <2>2. id # Null
    BY <2>1, RecordedData
  <2>3. id \in EventIds(events, "categoryId") /\ id \in ids("categoryId")
    BY <2>2 DEF EventIds
  <2>4. id \in DOMAIN titles.categories /\ titles.categories[id] = Str("category")
    <3>1. titles.categories = [x \in EventIds(events, "categoryId") \cap ids("categoryId") |-> Str("category")]
      <4> HIDE DEF ids, events
      <4> QED BY DEF ResolveTitles
    <3> QED BY <2>3, <3>1
  <2> HIDE DEF titles, appointment
  <2>5. "category_title" \in DOMAIN added
        /\ added["category_title"] = TitleOf(id, titles.categories, appointment.category_id, appointment.category_name)
    BY <2>2 DEF TitlesOf
  <2> HIDE DEF added, id
  <2>6. added["category_title"] = Str("category")
    BY <2>4, <2>5 DEF TitleOf
  <2> QED BY <2>5, <2>6 DEF ValueOf
<1>10. ASSUME event.type = "QUESTION_CHOSEN"
       PROVE  ValueOf(data, "question_title") = Str("short")
  <2> DEFINE id == IdOf(event, "questionId")
  <2>1. "questionId" \in DOMAIN event.fields
    <3>1. IdField("questionId") \in EVENT_FIELDS[event.type] /\ IdField("questionId").name = "questionId"
      BY <1>10 DEF EVENT_FIELDS, IdField
    <3> QED BY <1>1, <3>1
  <2>2. id # Null
    BY <2>1, RecordedData
  <2>3. id \in EventIds(events, "questionId") /\ id \in ids("questionId")
    BY <2>2 DEF EventIds
  <2>4. id \in DOMAIN titles.questions /\ titles.questions[id] = Str("short")
    <3>1. titles.questions = [x \in EventIds(events, "questionId") \cap ids("questionId") |-> Str("short")]
      <4>1. Str("short") # Null
        BY DEF Str, Null
      <4> HIDE DEF ids, events
      <4> QED BY <4>1 DEF ResolveTitles
    <3> QED BY <2>3, <3>1
  <2> HIDE DEF titles, appointment
  <2>5. "question_title" \in DOMAIN added
        /\ added["question_title"] = TitleOf(id, titles.questions, appointment.question_id, appointment.question_title)
    BY <2>2 DEF TitlesOf
  <2> HIDE DEF added, id
  <2>6. added["question_title"] = Str("short")
    BY <2>4, <2>5 DEF TitleOf
  <2> QED BY <2>5, <2>6 DEF ValueOf
<1> HIDE DEF data, ai
<1> QED BY <1>5, <1>8, <1>9, <1>10

\* A text, as a JSON value.
LEMMA StrText ==
    ASSUME NEW text, NEW value, value = Str(text)
    PROVE  value.kind = "string" /\ value.text = text /\ value # Null
<1>1. value.kind = "string" /\ value.text = text
  BY DEF Str
<1>2. Null.kind = "null"
  BY DEF Null
<1> QED BY <1>1, <1>2

\* A text that is there is found.
LEMMA TextThere ==
    ASSUME NEW data, NEW field, NEW text, text # "", ValueOf(data, field) = Str(text)
    PROVE  TextOf(data, field) = Str(text) /\ Str(text).text = text /\ Str(text) # Null
<1> DEFINE value == ValueOf(data, field)
<1>1. value.kind = "string" /\ value.text = text /\ value # Null
  <2> HIDE DEF value
  <2>1. value = Str(text) BY DEF value
  <2> QED BY <2>1, StrText
<1>2. TextOf(data, field) = IF value.kind = "string" /\ value.text # "" THEN value ELSE Null
  BY DEF TextOf
<1> QED BY <1>1, <1>2

\* The two instants have dates and times of their own.
LEMMA InstantsApart ==
    ASSUME NEW value \in {Str("2030-01-02T12:00:00Z"), Str("2030-01-03T09:30:00.000-03:00")},
           NEW other \in {Str("2030-01-02T12:00:00Z"), Str("2030-01-03T09:30:00.000-03:00")}
    PROVE  DateParts(value) # Null /\ (DateParts(value) = DateParts(other) => value = other)
BY DEF DateParts, Str, Null

\* What tells of an event on the page, for those that tell of more than their type.
LEMMA ShownDetail ==
    ASSUME NEW event \in Recorded, NEW step, step = ShownStep(event)
    PROVE  /\ event.type \in EVENT_TYPES /\ step.title = event.type
           /\ event.type \notin {"ANSWER_SENT", "APPOINTMENT_RESCHEDULED"} =>
                 step.detail # NoDetail /\ step.detail.values \in {<<>>, <<Str("category")>>, <<Str("short")>>,
                                                                  <<Str("protocol")>>}
           /\ event.type = "ANSWER_SENT" =>
                 step.detail = IF event.fields["llm"] = Str("USED") THEN Fixed("answerUsed")
                               ELSE IF event.fields["llm"] = Str("FAILED") THEN Fixed("answerFailed")
                               ELSE NoDetail
           /\ event.type = "RESOLVED_ANSWERED" =>
                 step.detail = IF event.fields["resolved"] = Bool("true") THEN Fixed("resolvedYes")
                               ELSE Fixed("resolvedNo")
           /\ event.type = "SCHEDULE_OFFERED" =>
                 step.detail = IF event.fields["reason"] = Str("REQUIRES_IN_PERSON") THEN Fixed("offeredInPerson")
                               ELSE Fixed("offeredNotResolved")
           /\ event.type = "ATTENDEE_CHOSEN" =>
                 step.detail = IF event.fields["byRepresentative"] = Bool("true")
                               THEN Fixed("attendeeRepresentative") ELSE Fixed("attendeeHolder")
           /\ event.type = "APPOINTMENT_RESCHEDULED" =>
                 step.detail = [detailKey |-> "rescheduled",
                                values |-> <<DateParts(event.fields["from"]), DateParts(event.fields["to"])>>]
<1>1. PICK data, ai :
         /\ ShownStep(event) = [title |-> event.type, ai |-> ai,
                                detail |-> DetailOf(event.type, data, Str("protocol"))]
         /\ \A name \in DOMAIN event.fields : ValueOf(data, name) = event.fields[name]
         /\ event.type = "CATEGORY_CHOSEN" => ValueOf(data, "category_title") = Str("category")
         /\ event.type = "QUESTION_CHOSEN" => ValueOf(data, "question_title") = Str("short")
  BY StepData
<1> DEFINE detail == DetailOf(event.type, data, Str("protocol"))
<1>2. step.title = event.type /\ step.detail = detail
  <2> HIDE DEF detail
  <2> QED BY <1>1 DEF detail
<1>3. /\ event.type \in EVENT_TYPES
      /\ \A f \in EVENT_FIELDS[event.type] : f.name \in DOMAIN event.fields
  BY AllFields, MigrationAssumption
<1>4. ASSUME NEW name, NEW kind, NEW key, DataField(name, kind, key) \in EVENT_FIELDS[event.type]
      PROVE  ValueOf(data, name) = event.fields[name]
  <2>1. DataField(name, kind, key).name = name
    BY DEF DataField
  <2> QED BY <1>1, <1>3, <1>4, <2>1
<1>5. ASSUME NEW key, NEW text \in {"category", "short"}, NEW field, ValueOf(data, field) = Str(text)
      PROVE  Titled(data, field, key) = Naming(key, Str(text))
  <2>1. TextOf(data, field) = Str(text) /\ Str(text) # Null
    BY <1>5, TextThere
  <2> QED BY <2>1 DEF Titled
<1>6. CASE event.type \in {"STARTED", "NO_SLOT", "SCHEDULE_DECLINED", "PHONE_NOTICE_SHOWN",
                           "APPOINTMENT_CONSULTED", "APPOINTMENT_CANCELED", "ABANDONED"}
  <2>1. \E key \in {"started", "noSlot", "declined", "phoneNotice", "consulted", "canceled", "abandoned"} :
           detail = Fixed(key)
    BY <1>6 DEF DetailOf
  <2> HIDE DEF detail
  <2> QED BY <1>2, <1>3, <1>6, <2>1 DEF Fixed, NoDetail
<1>7. CASE event.type = "CATEGORY_CHOSEN"
  <2>1. detail = Naming("category", Str("category"))
    BY <1>1, <1>5, <1>7 DEF DetailOf
  <2> HIDE DEF detail
  <2> QED BY <1>2, <1>3, <1>7, <2>1 DEF Naming, NoDetail
<1>8. CASE event.type = "QUESTION_CHOSEN"
  <2>1. detail = Naming("question", Str("short"))
    BY <1>1, <1>5, <1>8 DEF DetailOf
  <2> HIDE DEF detail
  <2> QED BY <1>2, <1>3, <1>8, <2>1 DEF Naming, NoDetail
<1>9. CASE event.type = "APPOINTMENT_CREATED"
  <2>1. detail = Naming("created", Str("protocol"))
    BY <1>9 DEF DetailOf
  <2> HIDE DEF detail
  <2> QED BY <1>2, <1>3, <1>9, <2>1 DEF Naming, NoDetail
<1>10. CASE event.type = "ANSWER_SENT"
  <2>1. ValueOf(data, "llm") = event.fields["llm"]
    <3>1. DataField("llm", "llm", "llm") \in EVENT_FIELDS[event.type]
      BY <1>10 DEF EVENT_FIELDS
    <3> QED BY <1>4, <3>1
  <2>2. detail = ByValue(data, "llm", [USED |-> "answerUsed", FAILED |-> "answerFailed"])
    BY <1>10 DEF DetailOf
  <2> HIDE DEF detail
  <2>3. event.fields["llm"] \in {Str("NOT_CALLED"), Str("USED"), Str("FAILED")}
    BY <1>10, RecordedData
  <2>4. detail = IF event.fields["llm"] = Str("USED") THEN Fixed("answerUsed")
                 ELSE IF event.fields["llm"] = Str("FAILED") THEN Fixed("answerFailed") ELSE NoDetail
    <3>1. PICK text \in {"NOT_CALLED", "USED", "FAILED"} : event.fields["llm"] = Str(text)
      BY <2>3
    <3>2. TextOf(data, "llm") = Str(text) /\ Str(text).text = text
      <4>1. text # "" /\ ValueOf(data, "llm") = Str(text)
        BY <2>1, <3>1
      <4> QED BY <4>1, TextThere
    <3>3. detail = IF text = "USED" THEN Fixed("answerUsed")
                   ELSE IF text = "FAILED" THEN Fixed("answerFailed") ELSE NoDetail
      BY <2>2, <3>2 DEF ByValue
    <3>4. \A other : Str(text) = Str(other) => text = other
      BY DEF Str
    <3> QED BY <3>1, <3>3, <3>4
  <2> QED BY <1>2, <1>3, <1>10, <2>4
<1>11. CASE event.type = "RESOLVED_ANSWERED"
  <2>1. ValueOf(data, "resolved") = event.fields["resolved"]
    <3>1. DataField("resolved", "boolean", "resolved") \in EVENT_FIELDS[event.type]
      BY <1>11 DEF EVENT_FIELDS
    <3> QED BY <1>4, <3>1
  <2>2. detail = Choice(data, "resolved", "resolvedYes", "resolvedNo")
    BY <1>11 DEF DetailOf
  <2> HIDE DEF detail
  <2>3. event.fields["resolved"] \in {Bool("true"), Bool("false")}
    BY <1>11, RecordedData
  <2>4. detail = IF event.fields["resolved"] = Bool("true") THEN Fixed("resolvedYes") ELSE Fixed("resolvedNo")
    BY <2>1, <2>2, <2>3 DEF Choice, Bool
  <2> QED BY <1>2, <1>3, <1>11, <2>4 DEF Fixed, NoDetail
<1>12. CASE event.type = "SCHEDULE_OFFERED"
  <2>1. ValueOf(data, "reason") = event.fields["reason"]
    <3>1. DataField("reason", "reason", "reason") \in EVENT_FIELDS[event.type]
      BY <1>12 DEF EVENT_FIELDS
    <3> QED BY <1>4, <3>1
  <2>2. detail = ByValue(data, "reason", [REQUIRES_IN_PERSON |-> "offeredInPerson",
                                          NOT_RESOLVED       |-> "offeredNotResolved"])
    BY <1>12 DEF DetailOf
  <2> HIDE DEF detail
  <2>3. event.fields["reason"] \in {Str("REQUIRES_IN_PERSON"), Str("NOT_RESOLVED")}
    BY <1>12, RecordedData
  <2>4. detail = IF event.fields["reason"] = Str("REQUIRES_IN_PERSON") THEN Fixed("offeredInPerson")
                 ELSE Fixed("offeredNotResolved")
    <3>1. PICK text \in {"REQUIRES_IN_PERSON", "NOT_RESOLVED"} : event.fields["reason"] = Str(text)
      BY <2>3
    <3>2. TextOf(data, "reason") = Str(text) /\ Str(text).text = text
      <4>1. text # "" /\ ValueOf(data, "reason") = Str(text)
        BY <2>1, <3>1
      <4> QED BY <4>1, TextThere
    <3>3. detail = IF text = "REQUIRES_IN_PERSON" THEN Fixed("offeredInPerson") ELSE Fixed("offeredNotResolved")
      BY <2>2, <3>2 DEF ByValue
    <3>4. \A other : Str(text) = Str(other) => text = other
      BY DEF Str
    <3> QED BY <3>1, <3>3, <3>4
  <2> QED BY <1>2, <1>3, <1>12, <2>4 DEF Fixed, NoDetail
<1>13. CASE event.type = "ATTENDEE_CHOSEN"
  <2>1. ValueOf(data, "byRepresentative") = event.fields["byRepresentative"]
    <3>1. DataField("byRepresentative", "boolean", "by_representative") \in EVENT_FIELDS[event.type]
      BY <1>13 DEF EVENT_FIELDS
    <3> QED BY <1>4, <3>1
  <2>2. detail = Choice(data, "byRepresentative", "attendeeRepresentative", "attendeeHolder")
    BY <1>13 DEF DetailOf
  <2> HIDE DEF detail
  <2>3. event.fields["byRepresentative"] \in {Bool("true"), Bool("false")}
    BY <1>13, RecordedData
  <2>4. detail = IF event.fields["byRepresentative"] = Bool("true")
                 THEN Fixed("attendeeRepresentative") ELSE Fixed("attendeeHolder")
    BY <2>1, <2>2, <2>3 DEF Choice, Bool
  <2> QED BY <1>2, <1>3, <1>13, <2>4 DEF Fixed, NoDetail
<1>14. CASE event.type = "APPOINTMENT_RESCHEDULED"
  <2>1. ValueOf(data, "from") = event.fields["from"] /\ ValueOf(data, "to") = event.fields["to"]
    <3>1. /\ DataField("from", "datetime", "from") \in EVENT_FIELDS[event.type]
          /\ DataField("to", "datetime", "to") \in EVENT_FIELDS[event.type]
      BY <1>14 DEF EVENT_FIELDS
    <3> QED BY <1>4, <3>1
  <2>2. detail = RescheduleDetail(data)
    BY <1>14 DEF DetailOf
  <2> HIDE DEF detail
  <2>3. /\ event.fields["from"] \in {Str("2030-01-02T12:00:00Z"), Str("2030-01-03T09:30:00.000-03:00")}
        /\ event.fields["to"] \in {Str("2030-01-02T12:00:00Z"), Str("2030-01-03T09:30:00.000-03:00")}
    BY <1>14, RecordedData
  <2>4. TextOf(data, "from") = event.fields["from"] /\ TextOf(data, "to") = event.fields["to"]
    <3>1. \A field \in {"from", "to"} :
             \E text : text # "" /\ event.fields[field] = Str(text) /\ ValueOf(data, field) = Str(text)
      BY <2>1, <2>3
    <3>2. ASSUME NEW field \in {"from", "to"} PROVE TextOf(data, field) = event.fields[field]
      <4>1. PICK text : text # "" /\ event.fields[field] = Str(text) /\ ValueOf(data, field) = Str(text)
        BY <3>1, <3>2
      <4>2. text # "" /\ ValueOf(data, field) = Str(text)
        BY <4>1
      <4>3. TextOf(data, field) = Str(text)
        BY <4>2, TextThere
      <4> QED BY <4>1, <4>3
    <3> QED BY <3>2
  <2>5. DateParts(event.fields["from"]) # Null /\ DateParts(event.fields["to"]) # Null
    BY <2>3, InstantsApart
  <2>6. detail = [detailKey |-> "rescheduled",
                  values |-> <<DateParts(event.fields["from"]), DateParts(event.fields["to"])>>]
    BY <2>2, <2>4, <2>5 DEF RescheduleDetail
  <2> QED BY <1>2, <1>3, <1>14, <2>6
<1>15. event.type \in {"STARTED", "CATEGORY_CHOSEN", "QUESTION_CHOSEN", "ANSWER_SENT", "RESOLVED_ANSWERED",
                       "SCHEDULE_OFFERED", "NO_SLOT", "SCHEDULE_DECLINED", "ATTENDEE_CHOSEN",
                       "PHONE_NOTICE_SHOWN", "APPOINTMENT_CREATED", "APPOINTMENT_CONSULTED",
                       "APPOINTMENT_RESCHEDULED", "APPOINTMENT_CANCELED", "ABANDONED"}
  BY <1>3 DEF EVENT_TYPES, EVENT_FIELDS
<1> QED BY <1>6, <1>7, <1>8, <1>9, <1>10, <1>11, <1>12, <1>13, <1>14, <1>15

\* Of two events with one detail, both tell the same.
LEMMA ShownOnce ==
    ASSUME NEW event \in Recorded, NEW other \in Recorded, ShownStep(other) = ShownStep(event)
    PROVE  other.type = event.type /\ Told(other) = Told(event)
<1>1. /\ event.type \in EVENT_TYPES /\ other.type = event.type
  <2>1. event.type \in EVENT_TYPES /\ ShownStep(event).title = event.type /\ ShownStep(other).title = other.type
    BY ShownDetail
  <2> QED BY <2>1
<1>2. ASSUME NEW f \in EVENT_FIELDS[event.type], f.inData, f.kind # "step"
      PROVE  other.fields[f.name] = event.fields[f.name]
  <2> DEFINE detail == ShownStep(event).detail
  <2>1. ShownStep(other).detail = detail
    OBVIOUS
  <2>2. f.at \in DataKeys(event.type)
    BY <1>1, <1>2, FieldKinds
  <2>3. CASE f.name = "llm"
    <3>1. event.type = "ANSWER_SENT"
      BY <1>1, <1>2, <2>2, <2>3, FieldNamed DEF DataKeys
    <3>2. /\ event.fields["llm"] \in {Str("NOT_CALLED"), Str("USED"), Str("FAILED")}
          /\ other.fields["llm"] \in {Str("NOT_CALLED"), Str("USED"), Str("FAILED")}
      BY <1>1, <3>1, RecordedData
    <3>3. /\ detail = IF event.fields["llm"] = Str("USED") THEN Fixed("answerUsed")
                      ELSE IF event.fields["llm"] = Str("FAILED") THEN Fixed("answerFailed") ELSE NoDetail
          /\ detail = IF other.fields["llm"] = Str("USED") THEN Fixed("answerUsed")
                      ELSE IF other.fields["llm"] = Str("FAILED") THEN Fixed("answerFailed") ELSE NoDetail
      BY <1>1, <2>1, <3>1, ShownDetail
    <3>4. /\ Fixed("answerUsed") # Fixed("answerFailed") /\ Fixed("answerUsed") # NoDetail
          /\ Fixed("answerFailed") # NoDetail
      BY DEF Fixed, NoDetail
    <3> HIDE DEF detail
    <3> QED BY <2>3, <3>2, <3>3, <3>4
  <2>4. CASE f.name = "resolved"
    <3>1. event.type = "RESOLVED_ANSWERED"
      BY <1>1, <1>2, <2>2, <2>4, FieldNamed DEF DataKeys
    <3>2. /\ event.fields["resolved"] \in {Bool("true"), Bool("false")}
          /\ other.fields["resolved"] \in {Bool("true"), Bool("false")}
      BY <1>1, <3>1, RecordedData
    <3>3. /\ detail = IF event.fields["resolved"] = Bool("true") THEN Fixed("resolvedYes") ELSE Fixed("resolvedNo")
          /\ detail = IF other.fields["resolved"] = Bool("true") THEN Fixed("resolvedYes") ELSE Fixed("resolvedNo")
      BY <1>1, <2>1, <3>1, ShownDetail
    <3>4. Fixed("resolvedYes") # Fixed("resolvedNo")
      BY DEF Fixed
    <3> HIDE DEF detail
    <3> QED BY <2>4, <3>2, <3>3, <3>4
  <2>5. CASE f.name = "reason"
    <3>1. event.type = "SCHEDULE_OFFERED"
      BY <1>1, <1>2, <2>2, <2>5, FieldNamed DEF DataKeys
    <3>2. /\ event.fields["reason"] \in {Str("REQUIRES_IN_PERSON"), Str("NOT_RESOLVED")}
          /\ other.fields["reason"] \in {Str("REQUIRES_IN_PERSON"), Str("NOT_RESOLVED")}
      BY <1>1, <3>1, RecordedData
    <3>3. /\ detail = IF event.fields["reason"] = Str("REQUIRES_IN_PERSON") THEN Fixed("offeredInPerson")
                      ELSE Fixed("offeredNotResolved")
          /\ detail = IF other.fields["reason"] = Str("REQUIRES_IN_PERSON") THEN Fixed("offeredInPerson")
                      ELSE Fixed("offeredNotResolved")
      BY <1>1, <2>1, <3>1, ShownDetail
    <3>4. Fixed("offeredInPerson") # Fixed("offeredNotResolved")
      BY DEF Fixed
    <3> HIDE DEF detail
    <3> QED BY <2>5, <3>2, <3>3, <3>4
  <2>6. CASE f.name = "byRepresentative"
    <3>1. event.type = "ATTENDEE_CHOSEN"
      BY <1>1, <1>2, <2>2, <2>6, FieldNamed DEF DataKeys
    <3>2. /\ event.fields["byRepresentative"] \in {Bool("true"), Bool("false")}
          /\ other.fields["byRepresentative"] \in {Bool("true"), Bool("false")}
      BY <1>1, <3>1, RecordedData
    <3>3. /\ detail = IF event.fields["byRepresentative"] = Bool("true")
                      THEN Fixed("attendeeRepresentative") ELSE Fixed("attendeeHolder")
          /\ detail = IF other.fields["byRepresentative"] = Bool("true")
                      THEN Fixed("attendeeRepresentative") ELSE Fixed("attendeeHolder")
      BY <1>1, <2>1, <3>1, ShownDetail
    <3>4. Fixed("attendeeRepresentative") # Fixed("attendeeHolder")
      BY DEF Fixed
    <3> HIDE DEF detail
    <3> QED BY <2>6, <3>2, <3>3, <3>4
  <2>7. CASE f.name \in {"from", "to"}
    <3>1. event.type = "APPOINTMENT_RESCHEDULED"
      BY <1>1, <1>2, <2>2, <2>7, FieldNamed DEF DataKeys
    <3> DEFINE Known == {Str("2030-01-02T12:00:00Z"), Str("2030-01-03T09:30:00.000-03:00")}
    <3>2. /\ event.fields["from"] \in Known /\ event.fields["to"] \in Known
          /\ other.fields["from"] \in Known /\ other.fields["to"] \in Known
      BY <1>1, <3>1, RecordedData
    <3>3. /\ detail = [detailKey |-> "rescheduled",
                       values |-> <<DateParts(event.fields["from"]), DateParts(event.fields["to"])>>]
          /\ detail = [detailKey |-> "rescheduled",
                       values |-> <<DateParts(other.fields["from"]), DateParts(other.fields["to"])>>]
      BY <1>1, <2>1, <3>1, ShownDetail
    <3> HIDE DEF detail
    <3>4. /\ DateParts(event.fields["from"]) = DateParts(other.fields["from"])
          /\ DateParts(event.fields["to"]) = DateParts(other.fields["to"])
      <4>1. /\ detail.values = <<DateParts(event.fields["from"]), DateParts(event.fields["to"])>>
            /\ detail.values = <<DateParts(other.fields["from"]), DateParts(other.fields["to"])>>
        BY <3>3
      <4> QED BY <4>1
    <3>5. event.fields["from"] = other.fields["from"] /\ event.fields["to"] = other.fields["to"]
      BY <3>2, <3>4, InstantsApart
    <3> QED BY <2>7, <3>5
  <2>8. f.name \in {"llm", "resolved", "reason", "byRepresentative", "from", "to"}
    BY <1>1, <1>2, FieldNamed
  <2> QED BY <2>3, <2>4, <2>5, <2>6, <2>7, <2>8
<1> DEFINE names == {f.name : f \in {x \in EVENT_FIELDS[event.type] : x.inData /\ x.kind # "step"}}
<1>3. \A name \in names : other.fields[name] = event.fields[name]
  BY <1>2
<1> HIDE DEF names
<1>4. [name \in names |-> other.fields[name]] = [name \in names |-> event.fields[name]]
  BY <1>3
<1> QED BY <1>1, <1>4 DEF Told, names

\* What the page shows of a recorded event tells it from every other.
LEMMA Shown ==
    ASSUME NEW event \in Recorded
    PROVE  IsShown(event)
<1> DEFINE step == ShownStep(event)
<1>1. step.title # "unknown"
  <2>1. step.title = event.type /\ event.type \in EVENT_TYPES
    BY ShownDetail
  <2> HIDE DEF step
  <2> QED BY <2>1 DEF EVENT_TYPES, EVENT_FIELDS
<1>2. step.detail = NoDetail => event.type = "ANSWER_SENT" /\ event.fields["llm"] = Str("NOT_CALLED")
  <2>1. CASE event.type = "ANSWER_SENT"
    <3>1. /\ event.fields["llm"] \in {Str("NOT_CALLED"), Str("USED"), Str("FAILED")}
          /\ step.detail = IF event.fields["llm"] = Str("USED") THEN Fixed("answerUsed")
                           ELSE IF event.fields["llm"] = Str("FAILED") THEN Fixed("answerFailed") ELSE NoDetail
      BY <2>1, RecordedData, ShownDetail
    <3>2. Fixed("answerUsed") # NoDetail /\ Fixed("answerFailed") # NoDetail
      BY DEF Fixed, NoDetail
    <3> HIDE DEF step
    <3> QED BY <2>1, <3>1, <3>2
  <2>2. CASE event.type = "APPOINTMENT_RESCHEDULED"
    <3>1. step.detail = [detailKey |-> "rescheduled",
                         values |-> <<DateParts(event.fields["from"]), DateParts(event.fields["to"])>>]
      BY <2>2, ShownDetail
    <3> HIDE DEF step
    <3>2. step.detail.detailKey = "rescheduled" /\ NoDetail.detailKey = "none"
      BY <3>1 DEF NoDetail
    <3> QED BY <3>2
  <2>3. CASE event.type \notin {"ANSWER_SENT", "APPOINTMENT_RESCHEDULED"}
    BY <2>3, ShownDetail
  <2> QED BY <2>1, <2>2, <2>3
<1>3. \A i \in DOMAIN step.detail.values : step.detail.values[i] # Null
  <2>1. CASE event.type = "ANSWER_SENT"
    <3>1. step.detail \in {Fixed("answerUsed"), Fixed("answerFailed"), NoDetail}
      BY <2>1, ShownDetail
    <3> HIDE DEF step
    <3>2. step.detail.values = <<>>
      BY <3>1 DEF Fixed, NoDetail
    <3> QED BY <3>2
  <2>2. CASE event.type = "APPOINTMENT_RESCHEDULED"
    <3>1. /\ step.detail = [detailKey |-> "rescheduled",
                            values |-> <<DateParts(event.fields["from"]), DateParts(event.fields["to"])>>]
          /\ event.fields["from"] \in {Str("2030-01-02T12:00:00Z"), Str("2030-01-03T09:30:00.000-03:00")}
          /\ event.fields["to"] \in {Str("2030-01-02T12:00:00Z"), Str("2030-01-03T09:30:00.000-03:00")}
      BY <2>2, RecordedData, ShownDetail
    <3> HIDE DEF step
    <3>2. DateParts(event.fields["from"]) # Null /\ DateParts(event.fields["to"]) # Null
      BY <3>1, InstantsApart
    <3>3. step.detail.values = <<DateParts(event.fields["from"]), DateParts(event.fields["to"])>>
      BY <3>1
    <3> QED BY <3>2, <3>3
  <2>3. CASE event.type \notin {"ANSWER_SENT", "APPOINTMENT_RESCHEDULED"}
    <3>1. step.detail.values \in {<<>>, <<Str("category")>>, <<Str("short")>>, <<Str("protocol")>>}
      BY <2>3, ShownDetail
    <3> HIDE DEF step
    <3>2. Str("category") # Null /\ Str("short") # Null /\ Str("protocol") # Null
      BY StrText
    <3> QED BY <3>1, <3>2
  <2> QED BY <2>1, <2>2, <2>3
<1>4. \A other \in Recorded : ShownStep(other) = step => other.type = event.type /\ Told(other) = Told(event)
  BY ShownOnce
<1> HIDE DEF step
<1> QED BY <1>1, <1>2, <1>3, <1>4 DEF IsShown, step

-----------------------------------------------------------------------------
(* The theorems                                                            *)

\* The inductive invariant: rows, stages and seed together, as each needs the
\* others.
THEOREM DeploymentInvariant == Spec => []DeploymentInv
<1>1. Init => DeploymentInv
  BY MigrationsBegin, StagesBegin, SeedBegins DEF Init, DeploymentInv
<1>2. DeploymentInv /\ [Next]_vars => DeploymentInv'
  <2> SUFFICES ASSUME MigrationInv, StageInv, SeedCore, FiledInv, [Next]_vars
               PROVE  DeploymentInv'
    BY DEF DeploymentInv, SeedInv
  <2>1. MigrationInv'
    BY MigrationsKept
  <2>2. StageInv'
    BY StagesKept DEF SeedCore
  <2>3. SeedCore'
    BY SeedKept
  <2>4. FiledInv'
    BY <2>3, FiledKept
  <2> QED BY <2>1, <2>2, <2>3, <2>4 DEF DeploymentInv, SeedInv
<1> QED BY <1>1, <1>2, PTL DEF Spec

\* A migration is refused only for rows that no program wrote or that came too
\* late, for sessions cut by a rollback, or for test appointments: whatever the
\* programs of earlier versions left, in whatever order with the runner.
THEOREM RefusedTheorem == Spec => []RefusedForAReason
<1>1. DeploymentInv => RefusedForAReason
  BY DEF DeploymentInv, MigrationInv
<1> QED BY <1>1, DeploymentInvariant, PTL

\* How and where each session ended is what the program that wrote it last left,
\* through every migration, and so is where those in course stand.
THEOREM SessionsTheorem == Spec => []SessionsKeepTheirEnd
<1>1. DeploymentInv => SessionsKeepTheirEnd
  <2> SUFFICES ASSUME MigrationInv, version >= 11, NEW s \in DOMAIN db.sessions \ odd
               PROVE  LET row == db.sessions[s]
                      IN  /\ row.outcome = stood[s].outcome
                          /\ row.abandonedAt = IF row.outcome = "ABANDONED" THEN stood[s].at ELSE NoneSet
                          /\ row.outcome = "IN_PROGRESS" => row.step = stood[s].at
    BY DEF DeploymentInv, SessionsKeepTheirEnd
  <2>1. SessionAt(First(version), db.sessions[s], s) /\ version \in 11..13
    BY DEF MigrationInv, RowsAt
  <2>2. Kept11(db.sessions[s], stood[s])
    BY <2>1 DEF SessionAt
  <2> QED BY <2>2 DEF Kept11
<1> QED BY <1>1, DeploymentInvariant, PTL

\* Every event that a program recorded, also one of an earlier version whose keys
\* migration 13 renamed, is read back as what it was recorded for, and the page
\* shows it so that no event is taken for another.
THEOREM EventsTheorem == Spec => []EventsReadAsMeant
<1>1. DeploymentInv => EventsReadAsMeant
  <2> SUFFICES ASSUME MigrationInv, version = Latest, NEW e \in DOMAIN db.events \ odd
               PROVE  /\ ParseConversationEventRow(db.events[e]) = meant[e]
                      /\ IsShown(ParseConversationEventRow(db.events[e]))
    BY Zenon DEF DeploymentInv, EventsReadAsMeant
  <2>1. meant[e] \in Recorded /\ Written(db.events[e], meant[e])
    BY DEF MigrationInv, RowsAt, EventAt, First, Latest
  <2>2. EventAdmitted(db.events[e])
    BY RowsLawful DEF MigrationInv, EventLawful, Latest
  <2>3. ValidConversationEvent(meant[e]) /\ IsEvent(meant[e])
    BY <2>1, MigrationAssumption
  <2>4. db.events[e] = BuildConversationEventRow(meant[e])
    BY <2>1, <2>2, <2>3, BuiltIsLeft
  <2> QED BY <2>1, <2>3, <2>4, ReadBack, Shown
<1> QED BY <1>1, DeploymentInvariant, PTL

\* What the panel saved is never overwritten by a seed: the values in no case, the
\* documents unless the row was saved while the seed was at work on it.
THEOREM PanelEditsTheorem == Spec => []PanelEditsStay
<1>1. DeploymentInv => PanelEditsStay
  BY DEF DeploymentInv, SeedInv, SeedCore, OwnedInv, PanelRow, PanelEditsStay
<1> QED BY <1>1, DeploymentInvariant, PTL

\* The program of this repository serves only over a database at the last version,
\* whose rows all meet the checks, and over the filed content, each item once and
\* nothing missing: after any deploys, failures, rollbacks and corrections.
THEOREM ServesTheorem == Spec => []ServesFiledContent
<1>1. DeploymentInv => ServesFiledContent
  <2> SUFFICES ASSUME DeploymentInv, backend = "new"
               PROVE  version = Latest /\ RowsMeetSchema /\ ContentFiled
    BY DEF ServesFiledContent
  <2>1. version = Latest /\ RowsMeetSchema
    BY DEF DeploymentInv, StageInv, MigrationInv
  <2>2. Table(content) /\ BaseFiled /\ \A i \in 1..Len(File) : ItemFiled(i, content)
    BY DEF DeploymentInv, SeedInv, SeedCore, FiledInv
  <2>3. ASSUME NEW i \in 1..Len(File)
        PROVE  LET rows == {id \in DOMAIN content : content[id].key = File[i].key}
               IN  \E id \in rows :
                       /\ rows = {id}
                       /\ \/ content[id].edited
                          \/ content[id].values = "filed" /\ (File[i].of = NoKey \/ content[id].docs = "filed")
                       /\ \A other \in DOMAIN content :
                              /\ content[other].key = NoKey /\ content[other].title = File[i].key
                              /\ content[other].of = content[id].of
                              => id < other
    <3> DEFINE rows == {id \in DOMAIN content : content[id].key = File[i].key}
    <3>1. PICK id \in DOMAIN content : content[id].key = File[i].key /\ AsFiled(content[id], File[i])
      BY <2>2, <2>3 DEF ItemFiled
    <3>2. content[id].key # NoKey
      BY <3>1, Filed
    <3>3. \A other \in DOMAIN content :
             /\ content[other].key = content[id].key => other = id
             /\ (/\ content[other].key = NoKey /\ content[other].title = content[id].key
                 /\ content[other].of = content[id].of) => id < other
      BY <2>2, <3>2 DEF Table
    <3>4. id \in rows /\ rows = {id}
      BY <3>1, <3>3
    <3> HIDE DEF rows
    <3>5. /\ \/ content[id].edited
             \/ content[id].values = "filed" /\ (File[i].of = NoKey \/ content[id].docs = "filed")
          /\ \A other \in DOMAIN content :
                 /\ content[other].key = NoKey /\ content[other].title = File[i].key
                 /\ content[other].of = content[id].of
                 => id < other
      BY <3>1, <3>3 DEF AsFiled
    <3> QED BY <3>4, <3>5 DEF rows
  <2> QED BY <2>1, <2>2, <2>3 DEF ContentFiled, BaseFiled
<1> QED BY <1>1, DeploymentInvariant, PTL

=============================================================================
