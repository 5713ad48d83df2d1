CONSTANTS
    Process = {p1, p2}
    Preempters = {t1, t2}
    NULL = NULL
    kPreemptMarker = kPreemptMarker
SPECIFICATION Spec
INVARIANTS PreemptTargetAlive BarrierHoldsProcess
PROPERTIES MarkerOnlyTaken PreemptionLands
