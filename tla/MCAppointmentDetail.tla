------------------------ MODULE MCAppointmentDetail ------------------------
EXTENDS AppointmentDetail

CONSTANTS ana, bia,       \* members of the staff
          p1, p2, p3,     \* requests of the page
          r1              \* a request of someone else

Staff    == {ana, bia}
Pages    == {p1, p2, p3}
Requests == Pages \cup {r1}

=============================================================================
