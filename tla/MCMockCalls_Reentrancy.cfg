CONSTANTS
    c1 = c1
    c2 = c2
    m1 = m1
    m2 = m2
    a1 = a1
    a2 = a2
    NoName = NoName
    NoArgs = NoArgs
    NoHandler = NoHandler
    Principals = {c1, c2}
    Methods = {m1, m2}
    Args = {a1, a2}
    Chains <- MCChains
    Amounts = {0, 1}
    InitBalances = {1, 2}
    MaxU64 = 2
    MaxDepth = 2
    MaxCalls = 1
    MaxClosureSteps = 1
SPECIFICATION Spec
INVARIANT
    NoReentrantBorrowPanic
