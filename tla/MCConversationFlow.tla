------------------------- MODULE MCConversationFlow -------------------------
EXTENDS ConversationFlow

CONSTANTS plain, visit, foreign    \* questions

Catalogue == {plain, visit, foreign}
InScope   == {plain, visit}

CatalogueKinds ==
    [q \in Catalogue |-> CASE q = plain   -> "standard"
                           [] q = visit   -> "inPerson"
                           [] q = foreign -> "outOfScope"]
InScopeKinds == [q \in InScope |-> CatalogueKinds[q]]

=============================================================================
