SPECIFICATION AgentsSpec
CONSTANTS
    p1 = p1
    p2 = p2
    a1 = a1
    a2 = a2
    MaxIterations = 2
    CostCap = 2
    References = {"r1", "r2"}
    InProse = {"r1"}
    Figures = {5}
    NumFindings = 2
    Rank <- MCRank
    Own <- MCOwn
    Passes = {p1, p2}
    MaxPasses = 2
    Candidates = {1, 2}
    DigestLimit = 1
    CitedBy <- MCOwn
    Totals = {0, 5}
    Scores = {0, 5}
    SpendPercent = 20
    SpendAbsolute = 50
    CompliancePoints = 5
    LastDay = 2
    Writers = {p1, p2}
    MaxWrites = 2
    Types = {"t1", "t2"}
    Shipped = {}
    Advisors = {p1, p2}
    Admins = {a1, a2}
    MaxProposals = 2
    MaxPassesBegun = 2
    MaxChanges = 1
INVARIANTS
    AgentTextNamesTheKnown
CHECK_DEADLOCK FALSE
