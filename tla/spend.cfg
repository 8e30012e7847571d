SPECIFICATION Spec
CONSTANTS
    Accounts = {a1}
    Sdas = {s1}
    Values = {v}
    Untagged = Untagged
    NoValue = NoValue
    NoSda = NoSda
    Amounts = {5}
    Cap = 5
    MonthLength = 2
    Window = 2
    MaxDay = 4
    MaxRuns = 3
    Workers = {w1, w2}
INVARIANTS TypeOK SpendReconciles OverrunMatchesStamp
PROPERTIES OverrunFollowsSpend StampsOfThisMonth
SYMMETRY MCSymmetry
CHECK_DEADLOCK FALSE
