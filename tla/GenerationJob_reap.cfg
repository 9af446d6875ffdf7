SPECIFICATION Spec
CONSTANTS
    Sections = {s1, s2}
    SectionCount = 2
    MaxRounds = 0
PROPERTY
    ReapKeepsSections
