CONSTANTS
  Execs = {e1, e2}
  NoPulse = NoPulse
  Callers = {op}
  Scheduler = Scheduler
  Ops <- CliOps
  MaxStarts = 1
  MaxStops = 2
  MaxCommits = 2
  MaxFailures = 1
  MaxPulses = 3
  MaxChains = 3
SPECIFICATION FairSpec
INVARIANTS
  StopClearsTimer
  StatusMatchesLog
PROPERTIES
  NoPulseAfterStop
  PulsesKeepComing
  StopQuiesces
CHECK_DEADLOCK FALSE
