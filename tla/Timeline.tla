------------------------------ MODULE Timeline ------------------------------
(* The timeline on the panel's page of an appointment: the backend gives   *)
(* each event of the conversation the titles of its category and question  *)
(* (services/appointment.service.ts), the panel picks the texts by which   *)
(* it is shown (utils/timelineStepLabel.ts). The two agree on nothing but  *)
(* the names of the fields, which the panel reads from an untyped record.  *)
EXTENDS ConversationEventData, Sequences

-----------------------------------------------------------------------------
\* The backend

\* The rows of the catalogue with these ids; a question goes by its short title,
\* if it has one.
ResolveTitles(catalogue, categoryIds, questionIds) ==
    [categories |-> [id \in categoryIds \cap DOMAIN catalogue.categories |-> catalogue.categories[id]],
     questions  |-> [id \in questionIds \cap DOMAIN catalogue.questions |->
                        LET question == catalogue.questions[id]
                        IN  IF question.short = Null THEN question.text ELSE question.short]]

IdOf(event, key) ==
    LET value == ValueOf(event.fields, key)
    IN  IF value.kind = "number" THEN value ELSE Null

EventIds(events, key) == {IdOf(events[i], key) : i \in DOMAIN events} \ {Null}

\* A title the catalogue does not have is the appointment's own, or none.
TitleOf(id, titles, ownId, ownTitle) ==
    IF id \in DOMAIN titles THEN titles[id] ELSE IF id = ownId THEN ownTitle ELSE Null

TitlesOf(event, appointment, titles) ==
    LET category == IdOf(event, "categoryId")
        question == IdOf(event, "questionId")
        keys     == (IF category = Null THEN {} ELSE {"category_title"})
                      \cup (IF question = Null THEN {} ELSE {"question_title"})
    IN  [key \in keys |->
            IF key = "category_title"
            THEN TitleOf(category, titles.categories, appointment.category_id, appointment.category_name)
            ELSE TitleOf(question, titles.questions, appointment.question_id, appointment.question_title)]

BuildTimeline(events, appointment, titles) ==
    [i \in DOMAIN events |->
        LET event == events[i]
            added == TitlesOf(event, appointment, titles)
        IN  [id            |-> i,
             type          |-> event.type,
             generatedByAi |-> event.type = "ANSWER_SENT" /\ event.fields["llm"] = Str("USED"),
             data          |-> [key \in DOMAIN event.fields \cup DOMAIN added |->
                                   IF key \in DOMAIN added THEN added[key] ELSE event.fields[key]]]]

TimelineOf(events, appointment, catalogue) ==
    BuildTimeline(events, appointment,
                  ResolveTitles(catalogue, EventIds(events, "categoryId"), EventIds(events, "questionId")))

-----------------------------------------------------------------------------
\* The panel. A label is the key of a title, the key of a detail, if there is one,
\* and the values it names, in order.

NoDetail           == [detailKey |-> "none", values |-> <<>>]
Fixed(key)         == [detailKey |-> key, values |-> <<>>]
Naming(key, value) == [detailKey |-> key, values |-> <<value>>]

TextOf(data, field) ==
    LET value == ValueOf(data, field)
    IN  IF value.kind = "string" /\ value.text # "" THEN value ELSE Null

Titled(data, field, key) ==
    LET title == TextOf(data, field) IN IF title = Null THEN NoDetail ELSE Naming(key, title)

Choice(data, field, whenTrue, whenFalse) ==
    LET value == ValueOf(data, field)
    IN  CASE value = Bool("true")  -> Fixed(whenTrue)
          [] value = Bool("false") -> Fixed(whenFalse)
          [] OTHER                 -> NoDetail

ByValue(data, field, keys) ==
    LET value == TextOf(data, field)
    IN  IF value.text \in DOMAIN keys THEN Fixed(keys[value.text]) ELSE NoDetail

\* The date and the time of an instant in São Paulo; a text of another form has none.
DateParts(value) ==
    CASE value = Str("2030-01-02T12:00:00Z")          -> Str("02/01/2030 09:00")
      [] value = Str("2030-01-03T09:30:00.000-03:00") -> Str("03/01/2030 09:30")
      [] OTHER                                        -> Null

RescheduleDetail(data) ==
    LET from == DateParts(TextOf(data, "from"))
        to   == DateParts(TextOf(data, "to"))
    IN  IF Null \in {from, to} THEN NoDetail
        ELSE [detailKey |-> "rescheduled", values |-> <<from, to>>]

\* RULES: the details, by type; each type has a title of its own.
DetailOf(type, data, protocol) ==
    CASE type = "STARTED"                 -> Fixed("started")
      [] type = "CATEGORY_CHOSEN"         -> Titled(data, "category_title", "category")
      [] type = "QUESTION_CHOSEN"         -> Titled(data, "question_title", "question")
      [] type = "ANSWER_SENT"             ->
            ByValue(data, "llm", [USED |-> "answerUsed", FAILED |-> "answerFailed"])
      [] type = "RESOLVED_ANSWERED"       -> Choice(data, "resolved", "resolvedYes", "resolvedNo")
      [] type = "SCHEDULE_OFFERED"        ->
            ByValue(data, "reason", [REQUIRES_IN_PERSON |-> "offeredInPerson",
                                     NOT_RESOLVED       |-> "offeredNotResolved"])
      [] type = "NO_SLOT"                 -> Fixed("noSlot")
      [] type = "SCHEDULE_DECLINED"       -> Fixed("declined")
      [] type = "ATTENDEE_CHOSEN"         ->
            Choice(data, "byRepresentative", "attendeeRepresentative", "attendeeHolder")
      [] type = "PHONE_NOTICE_SHOWN"      -> Fixed("phoneNotice")
      [] type = "APPOINTMENT_CREATED"     -> Naming("created", protocol)
      [] type = "APPOINTMENT_CONSULTED"   -> Fixed("consulted")
      [] type = "APPOINTMENT_RESCHEDULED" -> RescheduleDetail(data)
      [] type = "APPOINTMENT_CANCELED"    -> Fixed("canceled")
      [] type = "ABANDONED"               -> Fixed("abandoned")

TitledTypes ==
    {"STARTED", "CATEGORY_CHOSEN", "QUESTION_CHOSEN", "ANSWER_SENT", "RESOLVED_ANSWERED",
     "SCHEDULE_OFFERED", "NO_SLOT", "SCHEDULE_DECLINED", "ATTENDEE_CHOSEN", "PHONE_NOTICE_SHOWN",
     "APPOINTMENT_CREATED", "APPOINTMENT_CONSULTED", "APPOINTMENT_RESCHEDULED",
     "APPOINTMENT_CANCELED", "ABANDONED"}

TimelineStepLabel(step, protocol) ==
    IF step.type \in TitledTypes
    THEN [titleKey |-> step.type, detail |-> DetailOf(step.type, step.data, protocol)]
    ELSE [titleKey |-> "unknown", detail |-> NoDetail]

\* The steps of the page of the detail.
ShownSteps(timeline, protocol) ==
    [i \in DOMAIN timeline |->
        LET label == TimelineStepLabel(timeline[i], protocol)
        IN  [title |-> label.titleKey, detail |-> label.detail, ai |-> timeline[i].generatedByAi]]

=============================================================================
