CONSTANTS
    Clients = {c1}
    Pulses = {"pulse0", "pulse1"}
    MaxQueue = 2
    BacklogLimit = 2
    MaxPublishes = 5
    MaxRuns = 2
SPECIFICATION Spec
INVARIANTS MissesNothingRetained StreamInOrder HelloComesFirst EndsWithStopped
CHECK_DEADLOCK FALSE
