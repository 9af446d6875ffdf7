SPECIFICATION FairSpec
CONSTANTS
    Tasks = {1, 2}
    Sections = {"s1", "s2"}
    Media = {"diagram_generator", "interaction_generator"}
    SectionSlots = 1
    MediaSlots = 1
    QcSlots = 1
    MaxAttempts = 2
    MaxExecutors = 2
INVARIANTS
    TypeOK
    SlotsAreKept
    SoleTaskIsShown
    StartsAreSettled
PROPERTY EveryTaskLeaves
CHECK_DEADLOCK FALSE
