----------------------- MODULE ConversationEventData -----------------------
(* The events of a conversation between the program and their rows:        *)
(* utils/conversationEventData.ts builds and reads the rows, the checks of *)
(* ConversationEvents (migration 13) admit them. Both keep a list of what  *)
(* belongs to each type; they are written apart, in TypeScript and in SQL. *)
(* A JSON value is its kind and its text; a row keeps three columns of ids *)
(* and "data", a function from keys to JSON values.                        *)
EXTENDS FiniteSets

Str(s)    == [kind |-> "string", text |-> s]
Bool(b)   == [kind |-> "boolean", text |-> b]
Number(n) == [kind |-> "number", text |-> n]
Null      == [kind |-> "null", text |-> "null"]
Missing   == [kind |-> "undefined", text |-> "undefined"]

LLM_STATUSES           == {"NOT_CALLED", "USED", "FAILED"}
SCHEDULE_OFFER_REASONS == {"REQUIRES_IN_PERSON", "NOT_RESOLVED"}
ABANDONED_STEPS ==
    {"AWAITING_CATEGORY", "AWAITING_QUESTION", "AWAITING_ANSWER", "AWAITING_RESOLVED",
     "AWAITING_SCHEDULE_OFFER", "AWAITING_ATTENDEE", "AWAITING_HOLDER_NAME",
     "AWAITING_HOLDER_CPF", "AWAITING_SLOT", "AWAITING_RETURN_CHOICE",
     "AWAITING_CANCEL_CONFIRMATION"}

\* Texts of instants: the first exists; the second only has the form (a 31st of
\* February), which is all the database looks at.
Instants    == {"2030-01-02T12:00:00Z", "2030-01-03T09:30:00.000-03:00"}
ISO_DATETIME == Instants \cup {"2026-02-31T12:00:00Z"}

-----------------------------------------------------------------------------
\* The contract in TypeScript

IdField(column)         == [name |-> column, kind |-> "id", at |-> column, inData |-> FALSE]
DataField(n, k, key)    == [name |-> n, kind |-> k, at |-> key, inData |-> TRUE]

EVENT_FIELDS ==
    LET category    == IdField("categoryId")
        question    == IdField("questionId")
        appointment == IdField("appointmentId")
    IN  [STARTED                 |-> {},
         CATEGORY_CHOSEN         |-> {category},
         QUESTION_CHOSEN         |-> {category, question},
         ANSWER_SENT             |-> {category, question, DataField("llm", "llm", "llm")},
         RESOLVED_ANSWERED       |-> {DataField("resolved", "boolean", "resolved")},
         SCHEDULE_OFFERED        |-> {DataField("reason", "reason", "reason")},
         NO_SLOT                 |-> {},
         SCHEDULE_DECLINED       |-> {},
         ATTENDEE_CHOSEN         |-> {DataField("byRepresentative", "boolean", "by_representative")},
         PHONE_NOTICE_SHOWN      |-> {},
         APPOINTMENT_CREATED     |-> {appointment},
         APPOINTMENT_CONSULTED   |-> {appointment},
         APPOINTMENT_RESCHEDULED |-> {appointment, DataField("from", "datetime", "from"),
                                      DataField("to", "datetime", "to")},
         APPOINTMENT_CANCELED    |-> {appointment},
         ABANDONED               |-> {DataField("step", "step", "step")}]

EVENT_TYPES == DOMAIN EVENT_FIELDS
Columns     == {"categoryId", "questionId", "appointmentId"}

IsOneOf(list, value) == value.kind = "string" /\ value.text \in list

IsValidValue(kind, value) ==
    CASE kind = "id"       -> value.kind = "number" /\ value.text # "0"
      [] kind = "llm"      -> IsOneOf(LLM_STATUSES, value)
      [] kind = "reason"   -> IsOneOf(SCHEDULE_OFFER_REASONS, value)
      [] kind = "step"     -> IsOneOf(ABANDONED_STEPS, value)
      [] kind = "boolean"  -> value.kind = "boolean"
      [] kind = "datetime" -> IsOneOf(Instants, value)

\* An event is its type and its fields, a function from names to JSON values.
\* A JSON value is a kind and a text; an event has a type and fields of JSON values.
IsJson(value) == /\ value = [kind |-> value.kind, text |-> value.text]
                 /\ value.kind = "boolean" => value.text \in {"true", "false"}
IsEvent(event) ==
    LET fields == [name \in DOMAIN event.fields |-> event.fields[name]]
    IN  /\ event = [type |-> event.type, fields |-> fields]
        /\ \A name \in DOMAIN fields : IsJson(fields[name])

FieldNames(type) == {f.name : f \in EVENT_FIELDS[type]}

ValueOf(function, key) == IF key \in DOMAIN function THEN function[key] ELSE Missing

ValidConversationEvent(event) ==
    /\ event.type \in EVENT_TYPES
    /\ DOMAIN event.fields \subseteq FieldNames(event.type)
    /\ \A f \in EVENT_FIELDS[event.type] : IsValidValue(f.kind, ValueOf(event.fields, f.name))

\* What INSERT gets: ids in the columns, the other fields under their keys.
BuildConversationEventRow(event) ==
    LET fields == EVENT_FIELDS[event.type]
        inData == {f \in fields : f.inData /\ event.fields[f.name].kind \in {"string", "boolean"}}
    IN  [type    |-> event.type,
         columns |-> [c \in Columns |-> IF \E f \in fields : ~f.inData /\ f.at = c
                                        THEN event.fields[c] ELSE Null],
         data    |-> [key \in {f.at : f \in inData} |->
                         event.fields[(CHOOSE f \in inData : f.at = key).name]]]

\* A row read for the timeline; a row that gives no valid event is discarded.
Unreadable == [type |-> "discarded", fields |-> <<>>]

ParseConversationEventRow(row) ==
    LET fieldAt(name) == CHOOSE f \in EVENT_FIELDS[row.type] : f.name = name
        candidate ==
            [type   |-> row.type,
             fields |-> [name \in FieldNames(row.type) |->
                            IF fieldAt(name).inData THEN ValueOf(row.data, fieldAt(name).at)
                            ELSE row.columns[fieldAt(name).at]]]
    IN  IF ValidConversationEvent(candidate) THEN candidate ELSE Unreadable

-----------------------------------------------------------------------------
\* The contract in SQL: chk_conversation_events_data_keys and _values

DataKeys(type) ==
    CASE type = "ANSWER_SENT"             -> {"llm"}
      [] type = "RESOLVED_ANSWERED"       -> {"resolved"}
      [] type = "SCHEDULE_OFFERED"        -> {"reason"}
      [] type = "ATTENDEE_CHOSEN"         -> {"by_representative"}
      [] type = "APPOINTMENT_RESCHEDULED" -> {"from", "to"}
      [] type = "ABANDONED"               -> {"step"}
      [] OTHER                            -> {}

DataKeysHold(row) == DOMAIN row.data \subseteq DataKeys(row.type)

DataValuesHold(row) ==
    \A key \in DOMAIN row.data :
        LET value == row.data[key]
        IN  CASE key = "llm"    -> IsOneOf(LLM_STATUSES, value)
              [] key = "reason" -> IsOneOf(SCHEDULE_OFFER_REASONS, value)
              [] key = "step"   -> IsOneOf(ABANDONED_STEPS, value)
              [] key \in {"resolved", "by_representative"} -> value.kind = "boolean"
              [] key \in {"from", "to"} -> IsOneOf(ISO_DATETIME, value)
              [] OTHER -> TRUE

EventAdmitted(row) == DataKeysHold(row) /\ DataValuesHold(row)

-----------------------------------------------------------------------------
\* Which event may close a session with which outcome

ClosingCompatible(outcome, event) ==
    \/ outcome = "RESOLVED" /\ event.type = "RESOLVED_ANSWERED" /\ event.fields["resolved"] = Bool("true")
    \/ outcome = "SCHEDULED" /\ event.type = "APPOINTMENT_CREATED"
    \/ outcome = "OUT_OF_SCOPE" /\ event.type = "ANSWER_SENT"
    \/ outcome = "NO_SLOT" /\ event.type = "NO_SLOT"
    \/ outcome = "DECLINED" /\ event.type = "SCHEDULE_DECLINED"
    \/ outcome = "MANAGED_APPOINTMENT"
       /\ event.type \in {"APPOINTMENT_RESCHEDULED", "APPOINTMENT_CANCELED"}

=============================================================================
