SPECIFICATION Spec
CONSTANTS
    Run = {1, 2}
    Outcome <- MCOutcome
    LoadRows <- MCLoadRows
    Host <- MCHost
    Options <- MCOptions
    Printed <- MCPrinted
INVARIANTS
    GateTypeOK
    GreenIsEarned
    MilestoneIffImproved
    OrphansOnlyFromKills
CHECK_DEADLOCK FALSE
PROPERTIES
    GateEnds
