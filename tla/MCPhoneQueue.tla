---------------------------- MODULE MCPhoneQueue ----------------------------
EXTENDS PhoneQueue, TLC

CONSTANTS ana, bia,             \* phones
          a1, a2, a3, b1, b2    \* calls

Calls   == {a1, a2, a3, b1, b2}
Phones  == {ana, bia}
Callers == [t \in Calls |-> IF t \in {a1, a2, a3} THEN ana ELSE bia]

=============================================================================
