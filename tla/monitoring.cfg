\* A failing probe, and two answers that are lost or come too late.
CONSTANTS
    t1 = t1
    t2 = t2
    Threads = {t1, t2}
    Nobody = Nobody
    MaxEvents = 4
    MaxGlitches = 1
    MaxLosses = 2
SPECIFICATION FairSpec
CHECK_DEADLOCK FALSE
INVARIANTS
    AcknowledgedIsKept
    PassedMeansNotified
PROPERTIES
    PassesInTime
