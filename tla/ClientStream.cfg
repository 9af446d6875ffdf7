SPECIFICATION FairClientSpec
CONSTANTS
    Clients = {c1}
    Reader = c1
    ProgressEvents <- SectionEvents
    MaxProgress = 0
    Sections = {s1}
    SectionCount = 1
    MaxReconnectAttempts = 1
    MaxFaults = 2
    MaxLag = 1
INVARIANTS
    OutcomeNotMissed
    ToldTheOutcome
    ViewTypeOK
    ViewFollowsRow
    FinalizedShowsRow
PROPERTIES
    SlotsStay
    ViewEnds
CHECK_DEADLOCK FALSE
