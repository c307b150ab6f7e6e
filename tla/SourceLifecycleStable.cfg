SPECIFICATION Spec
CONSTANTS
  daemon = daemon  cli = cli
  Pollers <- MCAlone
  Daemon = daemon
  Intervals <- MCIntervals
  Window = 2
  MinCycles = 2
  Streak = 3
  DeadFailures = 3
  MaxCycles = 2
  MaxFaults = 0
INVARIANTS StableIsHealthy
