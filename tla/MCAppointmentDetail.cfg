\* The page of one appointment with three requests (GETs, an action, a second
\* one from a later visit), and a request of another member of the staff; one
\* request fails. A no-show can be recorded after one tick of the clock, and
\* the rest at once.
CONSTANTS
    ana = ana   bia = bia
    p1 = p1   p2 = p2   p3 = p3   r1 = r1
    NoOne = NoOne
    User <- Staff
    Request <- Requests
    Page <- Pages
    Me = ana
    Day = 0
    Hour = 1
    MaxNow = 1
    MaxFailed = 1
SPECIFICATION PageFairSpec
INVARIANTS
    LawfulHistory
    DetailShowsItsEvents
    ScreenCatchesUp
PROPERTIES
    DialogCloses
CHECK_DEADLOCK FALSE
