SPECIFICATION FairSpec
CONSTANTS
    SectionCount = 2
    MaxRerenders = 2
    Verdicts = {{}, {"hook"}, {"hook", "quiz"}, {"diagram"}, {"simulation"}}
    MaxSections = 1
    MaxSlots = 3
    MaxTasks = 1
CHECK_DEADLOCK FALSE
PROPERTY RetriesAreBounded
