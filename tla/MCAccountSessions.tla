------------------------- MODULE MCAccountSessions --------------------------
(* A browser with two tabs: one with a form, both with requests of their own. *)
EXTENDS AccountSessions, TLC

CONSTANTS one, two, list, form, other, p, q

MCTabOf == [c \in Call |-> IF c = other THEN two ELSE one]
MCSymmetry == Permutations(Password)
=============================================================================
