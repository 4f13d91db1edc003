\* One speed in each zone, and 0; two levels of measured speed;
\* lines of two characters.
CONSTANTS
    Speeds = {0, 100, 500, 1000}
    MaxLevel = 2
    LineLength = 2
SPECIFICATION Spec
INVARIANTS TypeOK OffIsClean GainsFollowTarget TickUsesRecentZones
PROPERTIES StopCutsPower StopReleases
CHECK_DEADLOCK FALSE
