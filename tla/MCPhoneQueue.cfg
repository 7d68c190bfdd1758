\* Three calls for one phone and two for another.
CONSTANTS
    ana = ana   bia = bia
    a1 = a1   a2 = a2   a3 = a3   b1 = b1   b2 = b2
    NoTask = NoTask
    Task <- Calls
    Phone <- Phones
    PhoneOf <- Callers
SPECIFICATION FairQueueSpec
PROPERTIES
    ImplementsTurns
    EveryCallRuns
CHECK_DEADLOCK FALSE
