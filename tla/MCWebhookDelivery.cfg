\* Two batches and three settings; each batch is delivered up to twice, also while the first delivery runs.
CONSTANTS
    ana = ana   bia = bia
    one = one   two = two   other = other
    Message <- Messages
    Phone <- Phones
    From <- Senders
    Dated <- WithDate
    Batch <- Batches
    Post <- Bodies
    Reply <- Replies
    Settings <- AnySettings
    Right <- App
    Nothing = Nothing
    Deliveries = 2
    MaxAge = 2
    MaxClock = 3
    MaxFaults = 1
SPECIFICATION FairSpec
INVARIANTS
    HandledOncePerMark
    AnsweredInOrder
    AckedIsHandled
PROPERTY EventuallyAcked
CHECK_DEADLOCK FALSE
