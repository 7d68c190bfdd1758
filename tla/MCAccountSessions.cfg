\* Two passwords and one change of them; a tab with a request and a form, and a
\* second tab with a request.
CONSTANTS
    one = one   two = two
    list = list   form = form   other = other
    p = p   q = q
    None = None
    Tab = {one, two}
    Call = {list, form, other}
    TabOf <- MCTabOf
    Form = {form}
    Password = {p, q}
    MaxVersion = 1
    AnswersLost = TRUE
SYMMETRY MCSymmetry
SPECIFICATION Spec
INVARIANTS
    CurrentSessionsKnowThePassword
PROPERTIES
    SteadySessionIsKept
