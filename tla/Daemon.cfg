SPECIFICATION DaemonSpec
CONSTANTS
  p1 = p1  p2 = p2  p3 = p3
  t1 = t1  t2 = t2  t3 = t3  d1 = d1  d2 = d2
  home = home  a = a  b = b  c = c  p = p  q = q  notice = notice
  Pids <- MCPids
  Absent = Absent
  Empty = Empty
  Interval = 3
  MaxLate = 9
  MaxTicks = 3
  Tasks <- MCTasks
  Domains <- MCDomains
  NoTask = NoTask
  MinInterval = 2
  Jitter = 2
  Urls <- MCUrls
  Entry <- MCEntry
  Links <- MCLinks
  Boost <- MCBoost
  Documents <- MCDocuments
  MaxDepth = 4
  MaxPdfDepth = 3
  MaxHtml = 5
  MaxTotal = 6
  MaxFailures = 2
INVARIANTS DaemonTypeOK SerialStartsExclude OnePermit EachUrlOnce WithinBudget ReportIsTrue StopsInTime
PROPERTIES SettledOwnerIsSafe PoliteGap EveryWaiterFetches SignalStopsDaemon BegunCycleEnds
