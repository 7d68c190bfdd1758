SPECIFICATION ListSpec
CONSTANTS
    ana = ana
    bia = bia
    term1 = term1
    pending = pending
    all = all
    byDate = byDate
    Undefined = Undefined
    Appointment = {ana, bia}
    Filter = {pending, all}
    AllFilter = all
    Term = {term1}
    Order = {byDate}
    DefaultOrder = byDate
    Admits <- MCAdmits
    Finds <- MCFinds
    Rank <- MCRank
    PageSize = 1
    MaxPage = 2
    MaxMoves = 3
    RepliesLost = TRUE
INVARIANTS
    RowsMatchFilters
    FreshAfterClaim
PROPERTIES
    ListSettles
CHECK_DEADLOCK FALSE
