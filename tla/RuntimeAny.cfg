CONSTANTS
  Execs = {e1, e2}
  NoPulse = NoPulse
  Callers = {c1, c2}
  Scheduler = Scheduler
  Ops <- AnyOps
  MaxStarts = 2
  MaxStops = 2
  MaxCommits = 1
  MaxFailures = 0
  MaxPulses = 2
  MaxChains = 2
SPECIFICATION Spec
INVARIANTS
  ChainAlive
  PulseOrder
PROPERTIES
  PulsesSerial
SYMMETRY Interchangeable
CHECK_DEADLOCK FALSE
