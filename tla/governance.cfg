SPECIFICATION GovernanceSpec
CONSTANTS
    m1 = m1
    m2 = m2
    x1 = x1
    x2 = x2
    user = user
    key = key
    role = role
    inA = inA
    inB = inB
    Projects = {m1, m2}
    NoProject = NoProject
    Mappings <- MCMappings
    TagSets <- MCTagSets
    Holders = {x1}
    Editors = {m1, m2}
    Classifiers = {x1}
    MaxEdits = 3
    MaxClassifications = 2
    Assets = {x1, x2}
    Name <- MCName
    Place <- MCPlace
    LastRegion = 2
    Humans = {user}
    Robot = Robot
    Nobody = Nobody
    OwnerTagged = {x1}
    MinWrites = 2
    Sweepers = {m1, m2}
    MaxSweeps = 2
    MaxEvents = 3
    Principals = {user, key, role}
    AccountOf <- MCAccountOf
    Keys = {key}
    UserOf <- MCUserOf
    Passes = {m1, m2}
    MaxPasses = 2
    MaxChanges = 2
    Servers = {x1, x2}
    Zone <- MCZone
    AccountOfZone <- MCAccountOfZone
    Readings = {1}
    Collectors = {m1, m2}
    LastDay = 2
    MaxRuns = 2
    Sources = {x1, x2}
    LastHistory = 3
    Amounts = {0, 2, 5}
    MinPeriods = 2
    HeldOut = 1
    LowCpu = 2
    Scale = 2
SYMMETRY MCSymmetry
INVARIANTS
    GovernanceTypeOK
    OverlapOnlyByRace
    ForecastsAreHonest
PROPERTIES
    AttachmentIsCurrent
    OwnersOnlyImprove
    FlagsFollowEvidence
    MeasurementsStand
CHECK_DEADLOCK FALSE
