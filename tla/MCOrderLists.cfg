SPECIFICATION Spec
CONSTANTS
    Orders <- MCOrders
    PageSize = 2
    MaxTasks = 4
    Null = Null
INVARIANT TypeOK
PROPERTIES DecidedIsListedOnce WaitingIsReachable
