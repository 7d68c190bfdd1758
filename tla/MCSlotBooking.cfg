\* Two conversations, each free to choose either of two single-seat slots.
CONSTANTS
    a = a   b = b
    ana = ana   bia = bia
    nine = nine   ten = ten
    NoOne = NoOne
    Session <- Conversations
    Slot <- Slots
    Cpf <- Cpfs
    Seats = 1
SPECIFICATION FairSpec
INVARIANTS
    SeatsRespected
    ScheduledIffBooked
    ConfirmedIsBooked
PROPERTIES
    ImplementsLedger
    BookingAnswered
CHECK_DEADLOCK FALSE
