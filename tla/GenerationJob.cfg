SPECIFICATION FairSpec
CONSTANTS
    Sections = {s1, s2}
    SectionCount = 2
    MaxRounds = 1
INVARIANTS
    IInv
    AnnouncedIsFinal
    ReadySectionsKept
    DocumentMatchesRow
    CompletedIsComplete
    FinishedJobSettlesRow
PROPERTIES
    LateTimeoutSpares
    ImplementsLifecycle
    JobEnds
    AbandonedRowReaped
