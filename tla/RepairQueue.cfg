SPECIFICATION FairRepairSpec
CONSTANTS
  palika = palika  ministry = ministry  daemon = daemon  cli = cli
  Sources <- MCSources
  NoSource = NoSource
  ReviewSources <- MCReview
  Procs <- MCWithCli
  Daemon = daemon
  MaxRows = 2
  MaxCap = 1
  MaxFaults = 1
INVARIANT OneRepairEach
PROPERTIES StatusFlowUnshared RepairsProgress
