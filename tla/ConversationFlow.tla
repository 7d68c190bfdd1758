-------------------------- MODULE ConversationFlow --------------------------
(***************************************************************************)
(* The conversation of one phone: services/conversationFlow.service.ts and *)
(* services/schedulingFlow.service.ts over repositories/session.repository *)
(* .ts, with the periodic sweep and the failures of the database beside it.*)
(*                                                                         *)
(* createPhoneLock handles the messages of a phone one at a time. Handling *)
(* a message reads the open session (or creates one), touches it, and then *)
(* runs a script: the sequence of statements and the answer that the       *)
(* handler of the session's step goes through, each an await. What the     *)
(* handler read of the session stays as it was; the row may change under   *)
(* it. An operation that throws ends the script without an answer, except  *)
(* where the code catches the exception and only logs it.                  *)
(***************************************************************************)
EXTENDS Naturals, Sequences, SequencesExt

CONSTANTS Question,      \* active questions of the catalogue
          Kinds,         \* what each of them asks for, when the run starts
          MaxSessions,   \* bound: conversations of the phone
          MaxEvents,     \* bound: events after which a session gets no more messages
          MaxUpsets      \* bound: events lost and questions changed, together

KindSet == {"standard", "inPerson", "outOfScope"}

ASSUME FlowAssumption ==
    /\ Kinds \in [Question -> KindSet]
    /\ "none" \notin Question
    /\ {MaxSessions, MaxEvents, MaxUpsets} \subseteq Nat

VARIABLES
    sessions,   \* the rows of Sessions of this phone, with their events
    kind,       \* Questions.requires_in_person, out_of_scope
    handler,    \* the session being handled and what is left of its script
    told,       \* step of the last answer the citizen received
    sweeping,   \* abandonedSessionsSweep: its sweep; running is TRUE unless "no"
    lost,       \* conversation events that could not be recorded or read
    edits,      \* questions changed in the panel
    broken      \* a handler died without an answer, or a write of a closing failed

faults == <<lost, edits, broken>>
vars == <<sessions, kind, handler, told, sweeping, faults>>

OpenSteps == {"AWAITING_CATEGORY", "AWAITING_QUESTION", "AWAITING_RESOLVED",
              "AWAITING_SCHEDULE_OFFER", "AWAITING_ATTENDEE",
              "AWAITING_HOLDER_NAME", "AWAITING_HOLDER_CPF", "AWAITING_SLOT"}
Closings  == {"RESOLVED", "OUT_OF_SCOPE", "DECLINED", "NO_SLOT", "SCHEDULED"}
Reasons   == {"REQUIRES_IN_PERSON", "NOT_RESOLVED"}
DraftKeys == {"by_representative", "holder_name", "cpf_hash"}

\* A row of ConversationEvents: its type and the part of data that is read.
Event(type, data) == [type |-> type, data |-> data]
Plain(type)       == Event(type, "none")
EventTypes == {"STARTED", "CATEGORY_CHOSEN", "QUESTION_CHOSEN", "ANSWER_SENT",
               "RESOLVED_ANSWERED", "SCHEDULE_OFFERED", "SCHEDULE_DECLINED",
               "ATTENDEE_CHOSEN", "NO_SLOT", "PHONE_NOTICE_SHOWN",
               "APPOINTMENT_CREATED", "ABANDONED"}
EventSet == [type : EventTypes, data : Reasons \cup OpenSteps \cup {"none", "yes", "no"}]

\* "offered" and "told" are not columns: "offered" is the reason of the offer
\* that led the session to its step, "reason" is Appointments.reason.
Row == [outcome  : {"IN_PROGRESS", "ABANDONED"} \cup Closings,
        step     : OpenSteps \cup {"FINISHED"},
        category : BOOLEAN,
        question : Question \cup {"none"},
        draft    : SUBSET DraftKeys,
        idle     : BOOLEAN,
        events   : Seq(EventSet),
        offered  : Reasons \cup {"none"},
        reason   : Reasons \cup {"none"}]

NewRow == [outcome |-> "IN_PROGRESS", step |-> "AWAITING_CATEGORY",
           category |-> FALSE, question |-> "none", draft |-> {}, idle |-> FALSE,
           events |-> <<Plain("STARTED")>>, offered |-> "none", reason |-> "none"]

IsOpen(r) == r.outcome = "IN_PROGRESS"

OpenIds == {i \in DOMAIN sessions : IsOpen(sessions[i])}

-----------------------------------------------------------------------------
(* The operations a script is made of.                                     *)

Record(e)      == [op |-> "record", event |-> e]
Nav(changes)   == [op |-> "nav", set |-> changes]
Finish(out, e) == [op |-> "finish", outcome |-> out, event |-> e]
Touch          == [op |-> "touch"]
Reply(step)    == [op |-> "reply", step |-> step]
Book           == [op |-> "book"]

\* The columns updateNavigationState changes; the others keep their value.
Columns(r, step) == [step |-> step, category |-> r.category,
                     question |-> r.question, draft |-> r.draft, offered |-> r.offered]

\* The statements of scripts.
ColumnSet == [step : OpenSteps, category : BOOLEAN, question : Question \cup {"none"},
              draft : SUBSET DraftKeys, offered : Reasons \cup {"none"}]
Operations == UNION {[op : {"record"}, event : EventSet], [op : {"nav"}, set : ColumnSet],
                     [op : {"finish"}, outcome : Closings, event : EventSet],
                     [op : {"touch", "book"}],
                     [op : {"reply"}, step : OpenSteps \cup {"FINISHED"}]}

Ask(r, step) == <<Nav(Columns(r, step)), Reply(step)>>

\* Variant: the question is cleared too.
KeepQuestion_Cleared(r, step, d) ==
    [Columns(r, step) EXCEPT !.category = FALSE, !.draft = d, !.question = "none"]

\* keepQuestion: the category is cleared, the question is kept.
KeepQuestion(r, step, d) ==
    [Columns(r, step) EXCEPT !.category = FALSE, !.draft = d]

StartOver ==
    LET fresh == [step |-> "AWAITING_CATEGORY", category |-> FALSE,
                  question |-> "none", draft |-> {}, offered |-> "none"]
    IN  <<Nav(fresh), Reply("AWAITING_CATEGORY")>>

CloseWith(out, e) == <<Finish(out, e), Reply("FINISHED")>>

NoSlotReply == CloseWith("NO_SLOT", Plain("NO_SLOT"))

-----------------------------------------------------------------------------
(* The scripts of a message, by the step the session was read at. An input *)
(* the step does not accept repeats its prompt: <<Reply(step)>>.           *)

\* transitionToQuestions: a category without questions keeps the step.
CategoryScripts(r) ==
    LET onPage == [Columns(r, "AWAITING_CATEGORY") EXCEPT !.category = FALSE]
        chosen == [Columns(r, "AWAITING_QUESTION") EXCEPT !.category = TRUE]
    IN  { <<Nav(onPage), Reply("AWAITING_CATEGORY")>>,
          <<Nav(chosen), Record(Plain("CATEGORY_CHOSEN")), Reply("AWAITING_QUESTION")>> }

\* processSelectedQuestion.
SelectedQuestion(r, q) ==
    LET chosen(step, reason) ==
            Nav([Columns(r, step) EXCEPT !.category = TRUE, !.question = q, !.offered = reason])
        asked    == Record(Plain("QUESTION_CHOSEN"))
        answered == Record(Plain("ANSWER_SENT"))
    IN  CASE kind[q] = "outOfScope" ->
                 <<asked, Finish("OUT_OF_SCOPE", Plain("ANSWER_SENT")), Reply("FINISHED")>>
          [] kind[q] = "inPerson" ->
                 <<asked, answered, Record(Event("SCHEDULE_OFFERED", "REQUIRES_IN_PERSON")),
                   chosen("AWAITING_SCHEDULE_OFFER", "REQUIRES_IN_PERSON"),
                   Reply("AWAITING_SCHEDULE_OFFER")>>
          [] kind[q] = "standard" ->
                 <<asked, answered, chosen("AWAITING_RESOLVED", "none"),
                   Reply("AWAITING_RESOLVED")>>

QuestionScripts(r) ==
    IF r.category
    THEN {Ask(r, "AWAITING_QUESTION")} \cup {SelectedQuestion(r, q) : q \in Question}
    ELSE {StartOver}

ResolvedScripts(r) ==
    { CloseWith("RESOLVED", Event("RESOLVED_ANSWERED", "yes")),
      <<Record(Event("RESOLVED_ANSWERED", "no")),
        Record(Event("SCHEDULE_OFFERED", "NOT_RESOLVED")),
        Nav([KeepQuestion(r, "AWAITING_SCHEDULE_OFFER", r.draft) EXCEPT !.offered = "NOT_RESOLVED"]),
        Reply("AWAITING_SCHEDULE_OFFER")>> }

OfferScripts(r) ==
    { CloseWith("DECLINED", Plain("SCHEDULE_DECLINED")),
      <<Nav(KeepQuestion(r, "AWAITING_ATTENDEE", r.draft)), Reply("AWAITING_ATTENDEE")>> }

\* Variant: the choice is not recorded.
AttendeeScripts_NoEvent(r) ==
    { <<Nav(KeepQuestion(r, "AWAITING_HOLDER_NAME", r.draft \cup {"by_representative"})),
        Reply("AWAITING_HOLDER_NAME")>> }

AttendeeScripts(r) ==
    { <<Record(Plain("ATTENDEE_CHOSEN")),
        Nav(KeepQuestion(r, "AWAITING_HOLDER_NAME", r.draft \cup {"by_representative"})),
        Reply("AWAITING_HOLDER_NAME")>> }

\* Variant: the CPF is asked for, and the name is not saved.
NameScripts_NotSaved(r) == {<<Reply("AWAITING_HOLDER_CPF")>>}

NameScripts(r) ==
    { <<Nav(KeepQuestion(r, "AWAITING_HOLDER_CPF", r.draft \cup {"holder_name"})),
        Reply("AWAITING_HOLDER_CPF")>> }

CpfScripts(r) ==
    { NoSlotReply,
      <<Nav(KeepQuestion(r, "AWAITING_SLOT", r.draft \cup {"cpf_hash"})),
        Reply("AWAITING_SLOT")>> }

\* bookChosenSlot starts over at the attendee when the draft or the question
\* is missing. A page, or a slot that is gone, shows the list again.
SlotScripts(r) ==
    { NoSlotReply,
      <<Nav(KeepQuestion(r, "AWAITING_SLOT", r.draft)), Reply("AWAITING_SLOT")>>,
      IF r.question # "none" /\ r.draft = DraftKeys
      THEN <<Book>>
      ELSE <<Nav(KeepQuestion(r, "AWAITING_ATTENDEE", {})), Reply("AWAITING_ATTENDEE")>> }

Scripts(r) ==
    {<<Reply(r.step)>>} \cup
    CASE r.step = "AWAITING_CATEGORY"       -> CategoryScripts(r)
      [] r.step = "AWAITING_QUESTION"       -> QuestionScripts(r)
      [] r.step = "AWAITING_RESOLVED"       -> ResolvedScripts(r)
      [] r.step = "AWAITING_SCHEDULE_OFFER" -> OfferScripts(r)
      [] r.step = "AWAITING_ATTENDEE"       -> AttendeeScripts(r)
      [] r.step = "AWAITING_HOLDER_NAME"    -> NameScripts(r)
      [] r.step = "AWAITING_HOLDER_CPF"     -> CpfScripts(r)
      [] r.step = "AWAITING_SLOT"           -> SlotScripts(r)

-----------------------------------------------------------------------------
TypeOK ==
    /\ sessions \in Seq(Row)
    /\ kind \in [Question -> KindSet]
    /\ handler \in [sid : 0 .. Len(sessions), script : Seq(Operations)]
    /\ told \in OpenSteps \cup {"FINISHED", "nothing"}
    /\ sweeping \in {"no", "begun", "done", "failed"} /\ broken \in BOOLEAN
    /\ {lost, edits} \subseteq Nat /\ lost + edits <= MaxUpsets

MayUpset == lost + edits < MaxUpsets

Init ==
    /\ sessions = <<>>
    /\ kind = Kinds
    /\ handler = [sid |-> 0, script |-> <<>>]
    /\ told = "nothing"
    /\ sweeping = "no"
    /\ lost = 0 /\ edits = 0 /\ broken = FALSE

\* The stale CTE: both findOrCreateActive and the sweep abandon with it.
Abandoned(r) ==
    [r EXCEPT !.outcome = "ABANDONED", !.step = "FINISHED", !.draft = {},
              !.events = Append(@, Event("ABANDONED", r.step))]

WithoutStale ==
    [i \in DOMAIN sessions |->
        LET r == sessions[i] IN IF IsOpen(r) /\ r.idle THEN Abandoned(r) ELSE r]

\* withPhoneLock lets one message in; findOrCreateActive abandons, then finds
\* or creates the session. (While the replies are paused a message gets the
\* fixed notice and changes nothing: not a step of this model.)
Receive ==
    /\ handler.script = <<>>
    /\ \/ /\ \E i \in OpenIds : ~sessions[i].idle
          /\ \E i \in OpenIds :
                /\ Len(sessions[i].events) < MaxEvents
                /\ \E sc \in Scripts(sessions[i]) :
                       handler' = [sid |-> i, script |-> <<Touch>> \o sc]
          /\ UNCHANGED sessions
       \/ /\ \A i \in OpenIds : sessions[i].idle
          /\ Len(sessions) < MaxSessions
          /\ sessions' = Append(WithoutStale, NewRow)
          /\ handler' = [sid |-> Len(sessions) + 1, script |-> StartOver]
    /\ UNCHANGED <<kind, told, sweeping, faults>>

Current == sessions[handler.sid]

\* The head of the script is "op", and the rest of it is what remains.
AtOp(op) == handler.script # <<>> /\ Head(handler.script).op = op

Arg == Head(handler.script)

Proceed == handler' = [handler EXCEPT !.script = Tail(@)]
Stop    == handler' = [sid |-> 0, script |-> <<>>]

Write(r) == sessions' = [sessions EXCEPT ![handler.sid] = r]

\* touch: throws when the sweep closed the session in between.
TouchSession ==
    /\ AtOp("touch")
    /\ \/ IsOpen(Current) /\ Write([Current EXCEPT !.idle = FALSE]) /\ Proceed
       \/ ~IsOpen(Current) /\ Stop /\ UNCHANGED sessions
    /\ UNCHANGED <<kind, told, sweeping, faults>>

Navigated(r, c) ==
    [r EXCEPT !.step = c.step, !.category = c.category, !.question = c.question,
              !.draft = c.draft, !.offered = c.offered, !.idle = FALSE]

\* Variant: the UPDATE has no "status = 'IN_PROGRESS'".
Navigate_Unguarded ==
    /\ AtOp("nav")
    /\ Write(Navigated(Current, Arg.set))
    /\ Proceed
    /\ UNCHANGED <<kind, told, sweeping, faults>>

\* updateNavigationState: one UPDATE ... WHERE status = 'IN_PROGRESS'.
Navigate ==
    /\ AtOp("nav")
    /\ \/ IsOpen(Current) /\ Write(Navigated(Current, Arg.set)) /\ Proceed
       \/ ~IsOpen(Current) /\ Stop /\ UNCHANGED sessions
    /\ UNCHANGED <<kind, told, sweeping, faults>>

Recorded(r, e) == [r EXCEPT !.events = Append(@, e)]

\* events.record: an INSERT of its own, a failure is only logged.
RecordEvent ==
    /\ AtOp("record")
    /\ Proceed
    /\ \/ Write(Recorded(Current, Arg.event)) /\ UNCHANGED lost
       \/ MayUpset /\ lost' = lost + 1 /\ UNCHANGED sessions
    /\ UNCHANGED <<kind, told, sweeping, edits, broken>>

Closed(r, out, e) ==
    [r EXCEPT !.outcome = out, !.step = "FINISHED", !.draft = {}, !.idle = FALSE,
              !.events = Append(@, e)]

\* Variant: the event is inserted on the pool, outside the transaction.
FinishSession_EventOutsideTx ==
    /\ AtOp("finish")
    /\ Proceed
    /\ Write(IF IsOpen(Current)
             THEN Closed(Current, Arg.outcome, Arg.event)
             ELSE Recorded(Current, Arg.event))
    /\ UNCHANGED <<kind, told, sweeping, faults>>

\* finishOrLog: the event and the UPDATE in one transaction, or neither; the
\* citizen gets the same answer.
FinishSession ==
    /\ AtOp("finish")
    /\ Proceed
    /\ \/ /\ IsOpen(Current)
          /\ Write(Closed(Current, Arg.outcome, Arg.event))
          /\ UNCHANGED broken
       \/ /\ UNCHANGED sessions
          /\ broken' = (broken \/ IsOpen(Current))
    /\ UNCHANGED <<kind, told, sweeping, lost, edits>>

SendReply ==
    /\ AtOp("reply")
    /\ told' = Arg.step
    /\ Stop
    /\ UNCHANGED <<sessions, kind, sweeping, faults>>

\* offeredReasonOf: that of the last SCHEDULE_OFFERED, unless a question was
\* chosen after it.
OfferedReason(events) ==
    LET offers == {i \in DOMAIN events :
                     /\ events[i].type = "SCHEDULE_OFFERED"
                     /\ \A j \in DOMAIN events :
                           j > i => events[j].type \notin {"QUESTION_CHOSEN", "SCHEDULE_OFFERED"}}
    IN  IF offers = {} THEN "none" ELSE events[CHOOSE i \in offers : TRUE].data

ReasonFromQuestion(q) ==
    IF kind[q] = "inPerson" THEN "REQUIRES_IN_PERSON" ELSE "NOT_RESOLVED"

\* Variant: the reason is always taken from the question.
BookingReason_FromQuestion(readable) == ReasonFromQuestion(Current.question)

BookingReason(readable) ==
    LET offered == IF readable THEN OfferedReason(Current.events) ELSE "none"
    IN  IF offered # "none" THEN offered ELSE ReasonFromQuestion(Current.question)

\* The writes of bookSlot to the session.
Booked(r, reason) ==
    LET noticed == Recorded(r, Plain("PHONE_NOTICE_SHOWN"))
        closed  == Closed(noticed, "SCHEDULED", Plain("APPOINTMENT_CREATED"))
    IN  [closed EXCEPT !.reason = reason]

\* bookSlot, whose transaction is module SlotBooking. The booking closes the
\* session; a full slot closes it or lists the slots again; every other
\* failure, one of them a COMMIT whose answer is lost, stays at the list.
BookSlot ==
    /\ AtOp("book")
    /\ \E readable \in BOOLEAN :
          /\ readable \/ MayUpset
          /\ lost' = IF readable THEN lost ELSE lost + 1
          /\ \/ /\ IsOpen(Current)
                /\ Write(Booked(Current, BookingReason(readable)))
                /\ \E answer \in {"FINISHED", "AWAITING_SLOT"} :
                       handler' = [handler EXCEPT !.script = <<Reply(answer)>>]
             \/ /\ \E sc \in {NoSlotReply, Ask(Current, "AWAITING_SLOT"),
                               <<Reply("AWAITING_SLOT")>>} :
                       handler' = [handler EXCEPT !.script = sc]
                /\ UNCHANGED sessions
    /\ UNCHANGED <<kind, told, sweeping, edits, broken>>

\* A statement throws, the process dies, or the answer never leaves it.
Abort ==
    /\ handler.script # <<>>
    /\ Stop
    /\ broken' = TRUE
    /\ UNCHANGED <<sessions, kind, told, sweeping, lost, edits>>

-----------------------------------------------------------------------------
(* The clock, the sweep and the panel.                                     *)

\* Thirty minutes without an interaction.
GrowIdle ==
    /\ \E i \in OpenIds :
          ~sessions[i].idle /\ sessions' = [sessions EXCEPT ![i].idle = TRUE]
    /\ UNCHANGED <<kind, handler, told, sweeping, faults>>

\* The timer fires every minute and does nothing while "running" is set.
SweepTick ==
    /\ sweeping = "no"
    /\ sweeping' = "begun"
    /\ UNCHANGED <<sessions, kind, handler, told, faults>>

Sweep ==
    /\ sweeping = "begun"
    /\ sweeping' = "done"
    /\ sessions' = WithoutStale
    /\ UNCHANGED <<kind, handler, told, faults>>

SweepFails ==
    /\ sweeping = "begun"
    /\ sweeping' = "failed"
    /\ UNCHANGED <<sessions, kind, handler, told, faults>>

\* Variant: only a sweep that succeeds clears the flag.
ClearRunning_OnSuccess ==
    /\ sweeping = "done"
    /\ sweeping' = "no"
    /\ UNCHANGED <<sessions, kind, handler, told, faults>>

\* The finally of the sweep, however it ended.
ClearRunning ==
    /\ sweeping \in {"done", "failed"}
    /\ sweeping' = "no"
    /\ UNCHANGED <<sessions, kind, handler, told, faults>>

EditQuestion ==
    /\ MayUpset
    /\ edits' = edits + 1
    /\ \E q \in Question : \E k \in KindSet \ {kind[q]} : kind' = [kind EXCEPT ![q] = k]
    /\ UNCHANGED <<sessions, handler, told, sweeping, lost, broken>>

Handle == TouchSession \/ Navigate \/ RecordEvent \/ FinishSession \/ BookSlot \/ SendReply

Next ==
    \/ Receive
    \/ Handle
    \/ Abort
    \/ GrowIdle
    \/ SweepTick
    \/ Sweep
    \/ SweepFails
    \/ ClearRunning
    \/ EditQuestion

Spec == Init /\ [][Next]_vars

\* The handler goes on once its statement is answered, time passes, the timer
\* fires, and a sweep that fails is tried again until the database is back.
FairSpec ==
    /\ Spec
    /\ WF_vars(Handle) /\ WF_vars(GrowIdle) /\ WF_vars(SweepTick) /\ SF_vars(Sweep)
    /\ WF_vars(ClearRunning)

-----------------------------------------------------------------------------
(* Properties.                                                             *)

\* The events that close a session, each with the outcome it goes with.
ClosingEvent(e) ==
    CASE e.type = "RESOLVED_ANSWERED" /\ e.data = "yes" -> "RESOLVED"
      [] e.type = "SCHEDULE_DECLINED"           -> "DECLINED"
      [] e.type = "NO_SLOT"                     -> "NO_SLOT"
      [] e.type = "APPOINTMENT_CREATED"         -> "SCHEDULED"
      [] e.type = "ABANDONED"                   -> "ABANDONED"
      [] OTHER                                  -> "none"

ClosingIn(events) == {k \in DOMAIN events : ClosingEvent(events[k]) # "none"}

\* What the outcome of a row says of its step, its appointment and its events.
OutcomeOf(r) ==
    /\ (r.step = "FINISHED") <=> ~IsOpen(r)
    /\ (r.reason # "none") <=> (r.outcome = "SCHEDULED")
    /\ r.outcome \in {"IN_PROGRESS", "OUT_OF_SCOPE"} => ClosingIn(r.events) = {}
    /\ r.outcome \notin {"IN_PROGRESS", "OUT_OF_SCOPE"} =>
          \E k \in DOMAIN r.events :
              ClosingIn(r.events) = {k} /\ ClosingEvent(r.events[k]) = r.outcome
    /\ r.outcome = "OUT_OF_SCOPE" =>
          \E k \in DOMAIN r.events : r.events[k].type = "ANSWER_SENT"

\* "Desfechos: cada sessao tem exatamente um": whatever the sweep, the citizen
\* and the failures do, an open session has no closing event, a closed one has
\* exactly one, that of its outcome, and an appointment goes with SCHEDULED.
OneOutcome == \A i \in DOMAIN sessions : OutcomeOf(sessions[i])

\* What the handlers of a step need of the row.
Complete(r) ==
    /\ r.step = "AWAITING_QUESTION" => r.category
    /\ r.step \in OpenSteps \ {"AWAITING_CATEGORY", "AWAITING_QUESTION"} => r.question # "none"
    /\ r.step = "AWAITING_HOLDER_NAME" => "by_representative" \in r.draft
    /\ r.step = "AWAITING_HOLDER_CPF" => {"by_representative", "holder_name"} \subseteq r.draft
    /\ r.step = "AWAITING_SLOT" => r.draft = DraftKeys

\* A session reaches each step with what the handlers of the step need: a
\* failure between two writes never leaves a step without its data. Hence
\* MENSAGEM_RASCUNHO_INCOMPLETO and the restart of a session without a
\* category are never needed.
RowComplete == \A i \in OpenIds : Complete(sessions[i])

\* The appointment keeps the reason of the offer the citizen accepted, even if
\* the question changed in the panel since, or if one event was lost.
ReasonAsOffered ==
    \A i \in DOMAIN sessions :
        LET r == sessions[i] IN
        r.reason # "none" /\ lost + edits <= 1 => r.reason = r.offered

AtRest == handler.script = <<>>

\* With no failure, the citizen's next answer is read at the step of the last
\* prompt they received: no interleaving with the sweep moves a session to a
\* step the citizen was not told of.
ToldMatchesRow ==
    AtRest /\ ~broken =>
        \A i \in OpenIds : sessions[i].step = told

\* The last event on the way to a step.
EventBefore(step) ==
    CASE step = "AWAITING_CATEGORY" -> "STARTED"
      [] step = "AWAITING_QUESTION" -> "CATEGORY_CHOSEN"
      [] step = "AWAITING_RESOLVED" -> "ANSWER_SENT"
      [] step \in {"AWAITING_SCHEDULE_OFFER", "AWAITING_ATTENDEE"} -> "SCHEDULE_OFFERED"
      [] OTHER -> "ATTENDEE_CHOSEN"

\* With no failure, the events of an open session tell how it got to its step.
TrailFollowsSteps ==
    AtRest /\ ~broken /\ lost = 0 =>
        \A i \in OpenIds : Last(sessions[i].events).type = EventBefore(sessions[i].step)

\* No late statement of a handler reopens or rewrites a closed session; only
\* its list of events may still grow.
ClosedIsFinal ==
    [][\A i \in DOMAIN sessions : ~IsOpen(sessions[i]) =>
            \E more \in {sessions[i].events, sessions'[i].events} :
                sessions'[i] = [sessions[i] EXCEPT !.events = more]]_vars

\* A session whose citizen stops writing is closed: also the one whose closing
\* failed after the citizen read the last message.
SilentIsClosed ==
    \A i \in 1 .. MaxSessions : (AtRest /\ i \in OpenIds) ~> (~AtRest \/ i \notin OpenIds)

=============================================================================
