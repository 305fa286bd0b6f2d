\* All drills, each against a sound service and against each single defect.
CONSTANTS
    Drills <- AllDrills
    NoDefect = NoDefect
SPECIFICATION FairSpec
CHECK_DEADLOCK FALSE
INVARIANTS
    PassedMeansClaimed
PROPERTIES
    SoundApplicationsPass
