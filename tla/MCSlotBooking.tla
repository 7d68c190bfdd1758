--------------------------- MODULE MCSlotBooking ---------------------------
EXTENDS SlotBooking

CONSTANTS a, b,         \* conversations
          ana, bia,     \* CPFs
          nine, ten     \* slots

Conversations == {a, b}
Cpfs          == {ana, bia}
Slots         == {nine, ten}

=============================================================================
