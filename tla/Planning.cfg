SPECIFICATION Spec
CONSTANTS
    Briefs <- MCBriefs
    Flaws <- MCFlaws
    Contents <- MCContents
INVARIANTS
    ReadyIsPlannable
    ReturnedIsChecked
    PlacedIsDrawn
CHECK_DEADLOCK FALSE
