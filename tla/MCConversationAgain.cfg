\* Two conversations of the phone, one after the other; the first one closed,
\* swept, or abandoned by the message that opens the second. Short ones are
\* enough: they may end in a failed closing, and sweeps may fail for a while.
CONSTANTS
    plain = plain   visit = visit   foreign = foreign
    Question <- Catalogue
    Kinds <- CatalogueKinds
    MaxSessions = 2
    MaxEvents = 4
    MaxUpsets = 0
SPECIFICATION FairSpec
PROPERTIES
    ClosedIsFinal
    SilentIsClosed
CHECK_DEADLOCK FALSE
