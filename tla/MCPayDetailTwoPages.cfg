SPECIFICATION Spec
CONSTANTS
    t1 = t1
    t2 = t2
    o1 = o1
    o2 = o2
    NoOrder = NoOrder
    Tabs <- TwoTabs
    Orders <- TwoOrders
    MaxAsked = 4
INVARIANTS TypeOK RecordsAreOfTheOrder
SYMMETRY Symmetry
