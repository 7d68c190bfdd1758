\* Two requests share fetches while a new version is saved, with or without
\* a notice that arrives.
CONSTANTS
    r1 = r1   r2 = r2
    f1 = f1   f2 = f2
    NoFetch = NoFetch
    Request <- Requests
    Fetch <- TwoFetches
    Ttl = 1
    Timeout = 1
    MaxVersion = 2
SPECIFICATION FairSpec
INVARIANTS
    ServedAsNoticed
    StaleIsBounded
PROPERTY EventuallyReloaded
CHECK_DEADLOCK FALSE
