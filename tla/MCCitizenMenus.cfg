SPECIFICATION MenusSpec
CONSTANTS
    None = None
    NoTime = NoTime
    Rows = 4
    DayLength = 12
    Categories <- MCCategories
    Questions <- MCQuestions
    Schedules <- MCSchedules
    Times <- MCTimes
    Slots <- MCSlots
    MaxMessages = 5
INVARIANTS
    PagesCover
    MeantIsDone
    OfferIsExact
CHECK_DEADLOCK FALSE
