SPECIFICATION FairSpec
CONSTANTS
    Sections = {s1, s2}
    SectionCount = 2
    MaxAttempts = 3
    MaxLag = 1
    MaxFaults = 1
INVARIANTS
    TypeOK
    ReadyIsKept
    ReportFollowsRow
    OutcomeIsTrue
PROPERTIES
    OutcomeIsLast
    EndReachesReport
CHECK_DEADLOCK FALSE
