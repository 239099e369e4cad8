SPECIFICATION MCSpec
CONSTANTS
    PayRows = {p1, p2}
    HandledPayRows = {h1}
    PurchaseRows = {q1, q2}
    HandledPurchaseRows = {g1}
    Projects = {x1, x2}
    Undefined = Undefined
    Day = 2
    MaxTime = 4
    MaxText = 5
INVARIANTS
    TypeOK
    PayCookiesTogether
    PurchaseRowComplete
    OwnValueIsReadBack
    QuotedValueIsReadBack
    FormEncodedIsReadBack
PROPERTY ImplementsJars
CHECK_DEADLOCK FALSE
