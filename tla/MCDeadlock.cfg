SPECIFICATION FairSpec
CONSTANTS
    Order <- MCOrder
    MaxParticipants = 3
    PlaceOrder <- MCPlaces
    Links <- MCLinks
    Start <- MCStart
    Goals <- MCGoals
    MaxGotos = 2
    Rank <- MCRank
    Standby = "d"
    GameModes = {FALSE, TRUE}
    NoPlace = NoPlace
INVARIANTS
    TargetKept
    SkipsOnlyHopeless
PROPERTIES
    EveryTargetReached
CHECK_DEADLOCK FALSE
