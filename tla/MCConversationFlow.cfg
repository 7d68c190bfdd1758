\* One conversation up to a booking (eight events lead to either kind of
\* offer and on to the list of slots): one event lost, or one question changed
\* in the panel, anywhere; handlers that die anywhere.
CONSTANTS
    plain = plain   visit = visit   foreign = foreign
    Question <- InScope
    Kinds <- InScopeKinds
    MaxSessions = 1
    MaxEvents = 8
    MaxUpsets = 1
SPECIFICATION Spec
INVARIANTS
    OneOutcome
    RowComplete
    ToldMatchesRow
    TrailFollowsSteps
    ReasonAsOffered
CHECK_DEADLOCK FALSE
