SPECIFICATION FairSpec
CONSTANTS
  daemon = daemon  cli = cli
  Pollers <- MCPollers
  Daemon = daemon
  Intervals <- MCIntervals
  Window = 2
  MinCycles = 2
  Streak = 3
  DeadFailures = 3
  MaxCycles = 2
  MaxFaults = 1
INVARIANT RowIsSound
PROPERTIES ShellSticks BlockedIsRetired PolledWhileActive
