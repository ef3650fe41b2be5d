SPECIFICATION LaneSpec
CONSTANTS
    Run = {1, 2}
    Outcome <- MCOutcome
    LoadRows <- MCLoadRows
    Host <- MCHost
INVARIANT StrictLaneIsEarned
CHECK_DEADLOCK FALSE
