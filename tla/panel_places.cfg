SPECIFICATION Spec
CONSTANTS
    P = p
    Q = q
    Endpoints = {p, q}
    MaxReconnects = 2
    NoSocket = NoSocket
    Areas = {"kitchen", "hall"}
    NoArea = NoArea
    NoCode = NoCode
    CodeArea <- MCCodeArea
    Entities <- MCEntities
    AreaOf <- MCAreaOf
    KindOf <- MCKindOf
    Limit <- MCLimit
    MediaLimit = 1
    Low = 0
    High = 1
    Scenarios <- MCScenarios
INVARIANTS TypeOK ShownIsCurrent AcceptedComesBack
CHECK_DEADLOCK FALSE
