---------------------------- MODULE MCDeployment ----------------------------
EXTENDS Deployment

CONSTANTS s1, e1, q1

Sessions  == {s1}
Events    == {e1}
Questions == {q1}

Event(type, fields) == [type |-> type, fields |-> fields]

\* The two events whose keys changed, one that closes a session, and one of each
\* way in which the page shows a detail.
RecordedEvents ==
    {Event("ANSWER_SENT", [categoryId |-> Number("1"), questionId |-> Number("2"), llm |-> Str("USED")]),
     Event("ATTENDEE_CHOSEN", [byRepresentative |-> Bool("true")]),
     Event("ABANDONED", [step |-> Str("AWAITING_SLOT")]),
     Event("QUESTION_CHOSEN", [categoryId |-> Number("1"), questionId |-> Number("2")]),
     Event("RESOLVED_ANSWERED", [resolved |-> Bool("true")]),
     Event("RESOLVED_ANSWERED", [resolved |-> Bool("false")]),
     Event("APPOINTMENT_RESCHEDULED", [appointmentId |-> Number("3"),
         from |-> Str("2030-01-02T12:00:00Z"), to |-> Str("2030-01-03T09:30:00.000-03:00")])}

FiledItems == <<[key |-> "c", of |-> NoKey], [key |-> "c.q", of |-> "c"], [key |-> "c.p", of |-> "c"]>>

\* What an earlier seed left: one question filed twice, another not yet filed.
Contents == {<<OldRow("c", 0), OldRow("c.q", 1), OldRow("c.q", 1)>>}

=============================================================================
