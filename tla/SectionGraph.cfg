SPECIFICATION Spec
CONSTANTS
    SectionCount = 2
    MaxRerenders = 1
    Verdicts = {{}, {"hook"}}
    MaxSections = 2
    MaxSlots = 2
    MaxTasks = 4
INVARIANTS
    TypeOK
    OnlyDuplicatesLeaveOwed
    OnlySchemaFailureVanishes
CHECK_DEADLOCK FALSE
