------------------------- MODULE MCAppointmentList --------------------------
EXTENDS AppointmentList, TLC

CONSTANTS ana, bia, term1, pending, all, byDate

\* Two appointments, one for each page; the term finds only one of them.
MCAdmits == (pending :> {"PENDING"}) @@ (all :> {"PENDING", "CONFIRMED"})
MCFinds == term1 :> {ana}
MCRank == byDate :> (ana :> 1 @@ bia :> 2)
=============================================================================
