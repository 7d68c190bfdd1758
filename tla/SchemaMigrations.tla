-------------------------- MODULE SchemaMigrations --------------------------
(* Migrations 11, 12 and 13 of the backend's database, statement by        *)
(* statement, over the rows they convert: sessions, events, questions. The *)
(* runner applies all that are pending in one transaction; a backend that  *)
(* is up goes on writing until a statement locks the table. Migrations 1   *)
(* to 10 make the tables of the first delivery; 14 and 15 add empty        *)
(* columns and change no row.                                              *)
EXTENDS Timeline, Naturals, Sequences

CONSTANTS SessionId, EventId, QuestionId,
          Recorded,          \* the events a backend records
          MaxWrites,         \* bound: rows written, before, during and after
          MaxRollbacks       \* bound: times the migrations are taken back

ASSUME MigrationAssumption ==
    /\ {MaxWrites, MaxRollbacks} \subseteq Nat
    /\ \A event \in Recorded : ValidConversationEvent(event) /\ IsEvent(event)

VARIABLES version,    \* the last migration that is applied
          db,         \* the committed rows
          tx,         \* the transaction of the runner: its target, statements and view
          refused,    \* the rows for which the last migration was refused
          meant,      \* history: the event each row was recorded for
          stood,      \* history: how and at which step each session was last left
          odd,        \* history: rows written by hand or too late, or cut by a rollback
          writes, rollbacks

rowVars       == <<db, meant, stood, odd, writes>>
migrationVars == <<version, db, tx, refused, meant, stood, odd, writes, rollbacks>>

Latest   == 13
NoneSet  == "none"
NoRows   == [sessions |-> <<>>, events |-> <<>>, questions |-> <<>>, appointments |-> FALSE]
Idle     == [on |-> FALSE, target |-> 0, todo |-> <<>>, done |-> {}, view |-> NoRows]

With(table, id, row) == [x \in DOMAIN table \cup {id} |-> IF x = id THEN row ELSE table[x]]
MapRows(table, F(_)) == [id \in DOMAIN table |-> F(table[id])]

-----------------------------------------------------------------------------
\* What the checks of each version ask of a row

SessionLawful(v, row) ==
    /\ v = 10 => row.step \in {"AWAITING_CATEGORY", "AWAITING_QUESTION", "FINISHED"}
    /\ v >= 11 =>
        /\ (row.status = "IN_PROGRESS") <=> (row.outcome = "IN_PROGRESS")
        /\ (row.status = "ABANDONED") <=> (row.outcome = "ABANDONED")
        /\ (row.outcome = "ABANDONED") <=> (row.abandonedAt # NoneSet)
    /\ v >= 13 =>
        /\ (row.status = "IN_PROGRESS") <=> (row.step # "FINISHED")
        /\ row.abandonedAt # "FINISHED"

QuestionLawful(v, row) ==
    /\ v >= 11 => /\ row.short # "blank"
                  /\ ~(row.inPerson /\ row.outOfScope)
                  /\ ~(row.outOfScope /\ row.llm)
    /\ v >= 12 => row.short # "padded"

EventLawful(v, row) == v >= 13 => EventAdmitted(row)

-----------------------------------------------------------------------------
\* The statements, as functions from the rows to the rows

\* Migration 11 gives the questions short titles (a title may begin with blanks).
FillContent(d) ==
    [d EXCEPT !.questions = MapRows(@, LAMBDA q :
        [q EXCEPT !.short = IF q.title = "blankStart" THEN "blank" ELSE "trimmed",
                  !.llm = ~q.outOfScope])]

\* Variant: an abandoned session gets the first step, whatever step it was at.
FillOutcome_FirstStep(d) ==
    [d EXCEPT !.sessions = MapRows(@, LAMBDA s :
        [s EXCEPT !.outcome = IF s.status = "FINISHED" THEN "RESOLVED" ELSE s.status,
                  !.abandonedAt = IF s.status = "ABANDONED" THEN "AWAITING_CATEGORY" ELSE NoneSet])]

\* It derives the outcome of the sessions it finds.
FillOutcome(d) ==
    [d EXCEPT !.sessions = MapRows(@, LAMBDA s :
        [s EXCEPT !.outcome = CASE s.status = "FINISHED"  -> "RESOLVED"
                                [] s.status = "ABANDONED" -> "ABANDONED"
                                [] OTHER                  -> "IN_PROGRESS",
                  !.abandonedAt = IF s.status = "ABANDONED" THEN s.step ELSE NoneSet])]

TrimTexts(d) ==
    [d EXCEPT !.questions = MapRows(@, LAMBDA q :
        [q EXCEPT !.short = IF @ = "padded" THEN "trimmed" ELSE @])]

\* Migration 13 renames the two keys that older programs wrote in camelCase.
RenameKey(row, type, old, new) ==
    IF row.type = type /\ old \in DOMAIN row.data /\ new \notin DOMAIN row.data
    THEN [row EXCEPT !.data = [key \in (DOMAIN row.data \ {old}) \cup {new} |->
                                  IF key = new THEN row.data[old] ELSE row.data[key]]]
    ELSE row

RenameLlm(d) ==
    [d EXCEPT !.events = MapRows(@, LAMBDA e : RenameKey(e, "ANSWER_SENT", "llmStatus", "llm"))]

\* Variant: the old key is taken out, the new one is not put in.
RenameAttendee_Dropped(d) ==
    [d EXCEPT !.events = MapRows(@, LAMBDA e :
        IF e.type = "ATTENDEE_CHOSEN" THEN [e EXCEPT !.data = <<>>] ELSE e)]

RenameAttendee(d) ==
    [d EXCEPT !.events = MapRows(@, LAMBDA e :
        RenameKey(e, "ATTENDEE_CHOSEN", "byRepresentative", "by_representative"))]

\* Variant: only the finished sessions are brought to FINISHED.
CloseSteps_FinishedOnly(d) ==
    [d EXCEPT !.sessions = MapRows(@, LAMBDA s :
        IF s.status = "FINISHED" THEN [s EXCEPT !.step = "FINISHED"] ELSE s)]

CloseSteps(d) ==
    [d EXCEPT !.sessions = MapRows(@, LAMBDA s :
        IF s.status # "IN_PROGRESS" THEN [s EXCEPT !.step = "FINISHED"] ELSE s)]

Statement(name, d) ==
    CASE name = "fillContent"    -> FillContent(d)
      [] name = "fillOutcome"    -> FillOutcome(d)
      [] name = "recreateTables" -> [d EXCEPT !.events = <<>>, !.appointments = FALSE]
      [] name = "trimTexts"      -> TrimTexts(d)
      [] name = "renameLlm"      -> RenameLlm(d)
      [] name = "renameAttendee" -> RenameAttendee(d)
      [] name = "closeSteps"     -> CloseSteps(d)
      [] OTHER                   -> d

\* ALTER TABLE and DROP TABLE keep every other session off the table until the
\* end of the transaction.
Locks(name) ==
    CASE name = "addContentColumns"  -> {"questions"}
      [] name = "checkTexts"         -> {"questions"}
      [] name = "newSteps"           -> {"sessions"}
      [] name = "checkSessionSteps"  -> {"sessions"}
      [] name = "recreateTables"     -> {"appointments", "events"}
      [] name = "checkEvents"        -> {"events"}
      [] OTHER                       -> {}

Locked(table) == \E name \in tx.done : table \in Locks(name)

\* The statements that bring the rows of a table to the checks that follow.
Fixes(table) ==
    CASE table = "sessions"  -> {"fillOutcome", "closeSteps"}
      [] table = "events"    -> {"renameLlm", "renameAttendee"}
      [] table = "questions" -> {"fillContent", "trimTexts"}

Unlawful(Lawful(_, _), v, table) == {id \in DOMAIN table : ~Lawful(v, table[id])}

\* The rows for which a statement fails. Migration 13 adds its checks NOT VALID
\* and validates them in a statement of their own.
Offenders(name, d) ==
    CASE name = "checkContent"      -> Unlawful(QuestionLawful, 11, d.questions)
      [] name = "checkTexts"        -> Unlawful(QuestionLawful, 12, d.questions)
      [] name = "checkOutcomes"     -> Unlawful(SessionLawful, 11, d.sessions)
      [] name = "guardAppointments" -> IF d.appointments THEN {"appointments"} ELSE {}
      [] name = "validateEvents"    -> Unlawful(EventLawful, 13, d.events)
      [] name = "validateSessions"  -> Unlawful(SessionLawful, 13, d.sessions)
      [] OTHER                      -> {}

Script(v) ==
    CASE v = 11 -> <<"addContentColumns", "fillContent", "checkContent", "newSteps", "fillOutcome",
                     "checkOutcomes", "guardAppointments", "recreateTables">>
      [] v = 12 -> <<"trimTexts", "checkTexts">>
      [] v = 13 -> <<"renameLlm", "renameAttendee", "checkEvents", "validateEvents",
                     "closeSteps", "checkSessionSteps", "validateSessions">>

Pending(v, to)  == IF version < v /\ v <= to THEN Script(v) ELSE <<>>
ScriptsTo(to)   == Pending(11, to) \o Pending(12, to) \o Pending(13, to)

-----------------------------------------------------------------------------
\* The runner: node-pg-migrate up, all pending migrations in one transaction

Begin(to) ==
    /\ ~tx.on /\ version < to
    /\ tx' = [on |-> TRUE, target |-> to, todo |-> ScriptsTo(to), done |-> {}, view |-> db]
    /\ refused' = {}
    /\ UNCHANGED <<version, rowVars, rollbacks>>

RunStatement ==
    /\ tx.on /\ tx.todo # <<>>
    /\ LET name == Head(tx.todo)
       IN  IF Offenders(name, tx.view) # {}
           THEN /\ refused' = Offenders(name, tx.view)       \* ROLLBACK
                /\ tx' = Idle
           ELSE /\ tx' = [tx EXCEPT !.todo = Tail(@), !.done = @ \cup {name},
                                    !.view = Statement(name, @)]
                /\ UNCHANGED refused
    /\ UNCHANGED <<version, rowVars, rollbacks>>

Commit ==
    /\ tx.on /\ tx.todo = <<>>
    /\ db' = tx.view
    /\ version' = tx.target
    /\ tx' = Idle
    /\ UNCHANGED <<refused, meant, stood, odd, writes, rollbacks>>

\* The container of the runner is killed: the transaction is as if never begun.
RunnerDies ==
    /\ tx.on /\ tx' = Idle
    /\ UNCHANGED <<version, rowVars, refused, rollbacks>>

\* node-pg-migrate down to an earlier version. The step and the outcome of a
\* session are cut to what version 10 can hold.
CutSession(row) ==
    [row EXCEPT !.step = IF @ \in {"AWAITING_CATEGORY", "AWAITING_QUESTION", "FINISHED"} THEN @
                         ELSE IF row.status = "IN_PROGRESS" THEN "AWAITING_CATEGORY" ELSE "FINISHED",
                !.outcome = NoneSet, !.abandonedAt = NoneSet]

CutQuestion(row) == [row EXCEPT !.short = NoneSet, !.llm = FALSE]

\* What migration 11 would make of a cut session is no longer how it stood.
LosesItsEnd(row) ==
    \/ row.status = "IN_PROGRESS" /\ CutSession(row).step # row.step
    \/ row.status = "FINISHED" /\ row.outcome # "RESOLVED"
    \/ row.status = "ABANDONED" /\ CutSession(row).step # row.abandonedAt

Rollback(to) ==
    /\ ~tx.on /\ version > to /\ rollbacks < MaxRollbacks
    /\ rollbacks' = rollbacks + 1
    /\ version' = to
    /\ refused' = {}
    /\ IF to >= 11 THEN UNCHANGED <<db, odd>>
       ELSE /\ db' = [sessions |-> MapRows(db.sessions, CutSession), events |-> <<>>,
                      questions |-> MapRows(db.questions, CutQuestion), appointments |-> FALSE]
            /\ odd' = odd \cup {s \in DOMAIN db.sessions : LosesItsEnd(db.sessions[s])}
    /\ UNCHANGED <<tx, meant, stood, writes>>

\* "Corrija ou apague essas linhas": the operator deletes the rows that were refused.
Correct ==
    /\ ~tx.on /\ refused # {}
    /\ refused' = {}
    /\ db' = [sessions |-> [s \in DOMAIN db.sessions \ refused |-> db.sessions[s]],
              events |-> [e \in DOMAIN db.events \ refused |-> db.events[e]],
              questions |-> [q \in DOMAIN db.questions \ refused |-> db.questions[q]],
              appointments |-> db.appointments /\ "appointments" \notin refused]
    /\ odd' = odd \ refused
    /\ UNCHANGED <<version, tx, meant, stood, writes, rollbacks>>

-----------------------------------------------------------------------------
\* The writers

RowLawful(table, row) ==
    CASE table = "sessions"  -> SessionLawful(version, row)
      [] table = "events"    -> version >= 11 /\ EventLawful(version, row)
      [] table = "questions" -> QuestionLawful(version, row)

\* Rows, given as <<table, id, row>>, are committed together: no table of theirs
\* is locked, the runner has changed none of them, and the checks in force admit
\* them.
Write(rows, byHand) ==
    LET IdsOf(table)    == {r[2] : r \in {x \in rows : x[1] = table}}
        Put(old, table) == [id \in DOMAIN old \cup IdsOf(table) |->
                               IF id \in IdsOf(table)
                               THEN (CHOOSE r \in rows : r[1] = table /\ r[2] = id)[3] ELSE old[id]]
        PutAll(d) == [d EXCEPT !.sessions = Put(@, "sessions"), !.events = Put(@, "events"),
                               !.questions = Put(@, "questions")]
    IN  /\ writes < MaxWrites /\ writes' = writes + 1
        /\ \A r \in rows :
               /\ ~Locked(r[1]) /\ RowLawful(r[1], r[3])
               /\ tx.on /\ r[2] \in DOMAIN db[r[1]] => tx.view[r[1]][r[2]] = db[r[1]][r[2]]
        /\ db' = PutAll(db)
        /\ tx' = IF tx.on THEN [tx EXCEPT !.view = PutAll(@)] ELSE tx
        /\ odd' = odd \cup {r[2] : r \in {x \in rows : byHand \/ tx.done \cap Fixes(x[1]) # {}}}
        /\ UNCHANGED <<version, refused, rollbacks>>

InProgress(s) == s \in DOMAIN db.sessions /\ db.sessions[s].status = "IN_PROGRESS"

SessionRow(outcome, step, at) ==
    [status |-> CASE outcome = "IN_PROGRESS" -> "IN_PROGRESS"
                  [] outcome = "ABANDONED"   -> "ABANDONED"
                  [] OTHER                   -> "FINISHED",
     step |-> step,
     outcome |-> IF version = 10 THEN NoneSet ELSE outcome,
     abandonedAt |-> IF version > 10 /\ outcome = "ABANDONED" THEN at ELSE NoneSet]

Stands(s, outcome, at) == stood' = With(stood, s, [outcome |-> outcome, at |-> at])

StartSession(s) ==
    /\ s \notin DOMAIN db.sessions
    /\ Write({<<"sessions", s, SessionRow("IN_PROGRESS", "AWAITING_CATEGORY", NoneSet)>>}, FALSE)
    /\ Stands(s, "IN_PROGRESS", "AWAITING_CATEGORY")
    /\ UNCHANGED meant

MoveSession(s, step) ==
    /\ InProgress(s) /\ step # db.sessions[s].step
    /\ Write({<<"sessions", s, SessionRow("IN_PROGRESS", step, NoneSet)>>}, FALSE)
    /\ Stands(s, "IN_PROGRESS", step)
    /\ UNCHANGED meant

\* The programs of earlier versions end a session: the first one knows no other
\* outcome than the end itself, the later ones may leave the step where it was.
OldEnd(s, outcome, step) ==
    /\ InProgress(s) /\ step \in {db.sessions[s].step, "FINISHED"}
    /\ version = 10 => /\ outcome # "SCHEDULED"
                       /\ (outcome = "ABANDONED") <=> (step # "FINISHED")
    /\ Write({<<"sessions", s, SessionRow(outcome, step, db.sessions[s].step)>>}, FALSE)
    /\ Stands(s, outcome, db.sessions[s].step)
    /\ UNCHANGED meant

\* They write two keys of an event's data in camelCase.
OldKeys(row) ==
    RenameKey(RenameKey(row, "ANSWER_SENT", "llm", "llmStatus"),
              "ATTENDEE_CHOSEN", "by_representative", "byRepresentative")

OldEvent(e, event) ==
    /\ e \notin DOMAIN db.events
    /\ Write({<<"events", e, OldKeys(BuildConversationEventRow(event))>>}, FALSE)
    /\ meant' = With(meant, e, event)
    /\ UNCHANGED stood

\* A question is filed: without short title in version 10, with blanks around it
\* in version 11.
FileQuestion(q, outOfScope, short) ==
    /\ q \notin DOMAIN db.questions
    /\ (version = 10) <=> (short = NoneSet)
    /\ Write({<<"questions", q, [title |-> "fits", short |-> short, inPerson |-> FALSE,
                                 outOfScope |-> outOfScope, llm |-> version > 10 /\ ~outOfScope]>>}, FALSE)
    /\ UNCHANGED <<meant, stood>>

\* The program of this repository records events as conversationEventData.ts
\* builds them, and ends a session together with the event that closes it.
NewEvent(e, event) ==
    /\ e \notin DOMAIN db.events
    /\ Write({<<"events", e, BuildConversationEventRow(event)>>}, FALSE)
    /\ meant' = With(meant, e, event)
    /\ UNCHANGED stood

NewEnd(s, e, outcome, event) ==
    /\ InProgress(s) /\ e \notin DOMAIN db.events
    /\ \/ ClosingCompatible(outcome, event)
       \/ /\ outcome = "ABANDONED" /\ event.type = "ABANDONED"
          /\ event.fields["step"] = Str(db.sessions[s].step)
    /\ Write({<<"sessions", s, SessionRow(outcome, "FINISHED", db.sessions[s].step)>>,
              <<"events", e, BuildConversationEventRow(event)>>}, FALSE)
    /\ Stands(s, outcome, db.sessions[s].step)
    /\ meant' = With(meant, e, event)

\* Rows that no program writes, put in by hand.
HandWrite ==
    \/ \E s \in SessionId :
           /\ InProgress(s)
           /\ Write({<<"sessions", s, SessionRow("IN_PROGRESS", "FINISHED", NoneSet)>>}, TRUE)
           /\ Stands(s, "IN_PROGRESS", "FINISHED") /\ UNCHANGED meant
    \/ \E e \in EventId \ DOMAIN db.events :
           /\ Write({<<"events", e, [type |-> "STARTED", columns |-> [c \in Columns |-> Null],
                                     data |-> [note |-> Str("free text")]]>>}, TRUE)
           /\ UNCHANGED <<meant, stood>>
    \/ \E q \in QuestionId \ DOMAIN db.questions, title \in {"fits", "blankStart"} :
           /\ version = 10
           /\ Write({<<"questions", q, [title |-> title, short |-> NoneSet, inPerson |-> TRUE,
                                        outOfScope |-> title = "fits", llm |-> FALSE]>>}, TRUE)
           /\ UNCHANGED <<meant, stood>>

\* The first delivery also booked test appointments.
OldAppointment ==
    /\ version = 10 /\ ~db.appointments /\ ~Locked("appointments")
    /\ db' = [db EXCEPT !.appointments = TRUE]
    /\ tx' = IF tx.on THEN [tx EXCEPT !.view.appointments = TRUE] ELSE tx
    /\ writes < MaxWrites /\ writes' = writes + 1
    /\ UNCHANGED <<version, refused, meant, stood, odd, rollbacks>>

-----------------------------------------------------------------------------
InitMigrations ==
    /\ version = 10 /\ db = NoRows /\ tx = Idle /\ refused = {}
    /\ meant = <<>> /\ stood = <<>> /\ odd = {}
    /\ writes = 0 /\ rollbacks = 0

Runner == RunStatement \/ Commit \/ RunnerDies

OldWrites ==
    \/ \E s \in SessionId : StartSession(s)
    \/ \E s \in SessionId, step \in {"AWAITING_QUESTION", "AWAITING_SLOT"} : MoveSession(s, step)
    \/ \E s \in SessionId, outcome \in {"RESOLVED", "SCHEDULED", "ABANDONED"},
          step \in ABANDONED_STEPS \cup {"FINISHED"} : OldEnd(s, outcome, step)
    \/ \E e \in EventId, event \in Recorded : OldEvent(e, event)
    \/ \E q \in QuestionId, outOfScope \in BOOLEAN, short \in {NoneSet, "trimmed", "padded"} :
           FileQuestion(q, outOfScope, short)
    \/ OldAppointment

NewWrites ==
    \/ \E s \in SessionId : StartSession(s)
    \/ \E s \in SessionId, step \in {"AWAITING_QUESTION", "AWAITING_SLOT"} : MoveSession(s, step)
    \/ \E e \in EventId, event \in Recorded : NewEvent(e, event)
    \/ \E s \in SessionId, e \in EventId, event \in Recorded,
          outcome \in {"RESOLVED", "SCHEDULED", "OUT_OF_SCOPE", "NO_SLOT", "DECLINED",
                       "MANAGED_APPOINTMENT", "ABANDONED"} : NewEnd(s, e, outcome, event)

-----------------------------------------------------------------------------
\* Every row a migrated database holds is lawful under the checks of its
\* version, whatever rows were there and whoever wrote while it migrated.
RowsMeetSchema ==
    /\ Unlawful(SessionLawful, version, db.sessions) = {}
    /\ Unlawful(EventLawful, version, db.events) = {}
    /\ Unlawful(QuestionLawful, version, db.questions) = {}

\* What the page of the appointment shows of an event. Its category and question
\* are in the catalogue, which their foreign keys keep there.
ShownStep(event) ==
    LET ids(key)  == {IdOf(other, key) : other \in Recorded}
        catalogue == [categories |-> [id \in ids("categoryId") |-> Str("category")],
                      questions  |-> [id \in ids("questionId") |->
                                         [text |-> Str("question"), short |-> Str("short")]]]
        appointment == [category_id |-> Null, category_name |-> Null,
                        question_id |-> Null, question_title |-> Null]
    IN  ShownSteps(TimelineOf(<<event>>, appointment, catalogue), Str("protocol"))[1]

\* The fields the page tells apart: not which category, question or appointment it
\* was, and not the step at which a session was abandoned.
Told(event) == [name \in {f.name : f \in {x \in EVENT_FIELDS[event.type] : x.inData /\ x.kind # "step"}} |->
                   event.fields[name]]

IsShown(event) ==
    LET step == ShownStep(event)
    IN  /\ step.title # "unknown"
        /\ step.detail = NoDetail =>
               event.type = "ANSWER_SENT" /\ event.fields["llm"] = Str("NOT_CALLED")
        /\ \A i \in DOMAIN step.detail.values : step.detail.values[i] # Null
        /\ \A other \in Recorded :
               ShownStep(other) = step => other.type = event.type /\ Told(other) = Told(event)

\* The timeline reads every event as the one it was recorded for, also those that
\* older programs recorded and migration 13 converted; and the page has a title
\* and a detail for what it read, by which no event is taken for another.
EventsReadAsMeant ==
    version = Latest =>
        \A e \in DOMAIN db.events \ odd :
            LET read == ParseConversationEventRow(db.events[e])
            IN  read = meant[e] /\ IsShown(read)

\* The derived columns tell how and where each session ended, or where it stands,
\* as it was last left by the program that wrote it.
SessionsKeepTheirEnd ==
    version >= 11 =>
        \A s \in DOMAIN db.sessions \ odd :
            LET row == db.sessions[s]
            IN  /\ row.outcome = stood[s].outcome
                /\ row.abandonedAt = IF row.outcome = "ABANDONED" THEN stood[s].at ELSE NoneSet
                /\ row.outcome = "IN_PROGRESS" => row.step = stood[s].at

\* A migration is refused only for rows no program writes, for rows that came
\* too late for it, for sessions cut by a rollback, or for test appointments:
\* never for what a program of an earlier version left.
RefusedForAReason == refused \subseteq odd \cup {"appointments"}

=============================================================================
