\* A page whose values may be edited twice, and another window that may save
\* at any moment the token Meta takes for one of the two numbers only.
SPECIFICATION Spec
CONSTANTS
    i1 = i1 i2 = i2 t1 = t1 t2 = t2 s1 = s1
    p1 = p1 form = form switch = switch
    Page = {p1}
    Slot = {form, switch}
    Ids <- MCIds
    Tokens <- MCTokens
    Secrets <- MCSecrets
    Absent = Absent
    Blank = Blank
    Accepted <- MCAccepted
    SeedValues <- MCSeedValues
    FormOf <- MCFormOf
    SwitchOf <- MCSwitchOf
    OthersSave <- MCOthersSave
    AnswersLost = TRUE
    MaxRevision = 2
INVARIANTS
    SavedWasAccepted
    SaveOfferedForTestedValues
