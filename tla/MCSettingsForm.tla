--------------------------- MODULE MCSettingsForm ---------------------------
(* Small instances of SettingsForm: a page and another administrator. *)
EXTENDS SettingsForm

CONSTANTS i1, i2, t1, t2, s1, p1, form, switch

MCIds == {i1, i2}
MCTokens == {t1, t2}
MCSecrets == {s1}
MCFormOf == [p \in Page |-> form]
MCSwitchOf == [p \in Page |-> switch]

\* Meta takes the second token for the first number only.
MCAccepted == {[ids |-> i1, token |-> t1, secret |-> s1],
               [ids |-> i2, token |-> t1, secret |-> s1],
               [ids |-> i1, token |-> t2, secret |-> s1]}
MCSeedValues == {[ids |-> i1, token |-> t1, secret |-> s1]}
MCOthersSave == {[ids |-> i1, token |-> t2, secret |-> s1]}
=============================================================================
