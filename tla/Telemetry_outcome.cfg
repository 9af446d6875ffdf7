SPECIFICATION Spec
CONSTANTS
    Sections = {s1}
    SectionCount = 1
    MaxAttempts = 1
    MaxLag = 2
    MaxFaults = 0
INVARIANT CompletedHasOutcome
CHECK_DEADLOCK FALSE
