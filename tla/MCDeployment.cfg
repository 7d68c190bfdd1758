\* One row of each table; three writes fall before, during or after the
\* migrations; two deploys, one of them after a rollback.
CONSTANTS
    s1 = s1   e1 = e1   q1 = q1
    SessionId <- Sessions
    EventId <- Events
    QuestionId <- Questions
    Recorded <- RecordedEvents
    File <- FiledItems
    Present <- Contents
    MaxWrites = 3
    MaxRollbacks = 1
    MaxEdits = 2
    MaxSeeds = 2
    MaxDeploys = 2
SPECIFICATION Spec
INVARIANTS
    EventsReadAsMeant
    SessionsKeepTheirEnd
    RefusedForAReason
    PanelEditsStay
    ServesFiledContent
CHECK_DEADLOCK FALSE
