---------------------------- MODULE DaemonProofs -----------------------------
(***************************************************************************)
(* Proofs about the daemon's parts: PidLock for every set of PIDs,         *)
(* DaemonLoop for every interval and number of ticks, the throttle its     *)
(* crawls share for every set of tasks and domains and every interval and  *)
(* jitter, Crawl for every site and every recipe, the four side by side,   *)
(* and RepairQueue for every set of sources and of processes and every     *)
(* bound on rows, repairs per tick and faults.                             *)
(***************************************************************************)
EXTENDS Daemon, RepairQueue, FiniteSetTheorems, TLAPS

(* PidLock keeps its types, with or without overlapping starts.            *)
THEOREM LockTypeCorrect == LockSpec => []LockTypeOK
<1>1. LockInit => LockTypeOK
  BY DEF LockInit, LockTypeOK, PCs
<1>2. LockTypeOK /\ [LockNext]_lockVars => LockTypeOK'
  <2> SUFFICES ASSUME LockTypeOK, [LockNext]_lockVars PROVE LockTypeOK'
    OBVIOUS
  <2> USE FileAssumption DEF LockTypeOK, PCs, Acquiring, Holding
  <2>1. ASSUME NEW p \in Pids,
               \/ Start(p) \/ OtherStart(p) \/ OtherExit(p)
               \/ ReadAbsent(p) \/ ReadInvalid(p)
        PROVE LockTypeOK'
    BY <2>1 DEF Start, OtherStart, OtherExit, ReadAbsent, ReadInvalid, Go
  <2>2. ASSUME NEW p \in Pids, ReadPid(p) PROVE LockTypeOK'
    BY <2>2 DEF ReadPid, Go
  <2>3. ASSUME NEW p \in Pids,
               CheckAlive(p) \/ CheckStale(p) \/ Truncate(p) \/ Write(p)
        PROVE LockTypeOK'
    BY <2>3 DEF CheckAlive, CheckStale, Truncate, Write, Go
  <2>4. ASSUME NEW p \in Pids,
               \/ BeginDrop(p) \/ DropNotOurs(p) \/ DropOurs(p)
               \/ Remove(p) \/ Killed(p)
        PROVE LockTypeOK'
    BY <2>4 DEF BeginDrop, DropNotOurs, DropOurs, Remove, Killed, Go
  <2>5. CASE UNCHANGED lockVars
    BY <2>5 DEF lockVars
  <2> QED
    BY <2>1, <2>2, <2>3, <2>4, <2>5 DEF LockNext
<1> QED
  BY <1>1, <1>2, PTL DEF LockSpec
-----------------------------------------------------------------------------
(* Why the check-then-write protocol excludes a second daemon when starts  *)
(* do not overlap: only one process is between reading the file and        *)
(* writing it, so while it decides the file can only change by the holder  *)
(* leaving, and what it learnt from `kill -0` stays true.                  *)
OneStarter == \A p, q \in Pids : proc[p] \in Acquiring /\ proc[q] \in Acquiring => p = q

NoHolderWhileWriting ==
  \A p, q \in Pids : proc[p] \in {"truncate", "write"} => proc[q] \notin Holding

SeesTheHolder ==
  \A p, q \in Pids : proc[p] = "check" /\ proc[q] \in Holding => parsed[p] = q

SerialInv == /\ OneStarter
             /\ HolderOwnsFile
             /\ NoHolderWhileWriting
             /\ SeesTheHolder

(* A step of a process that neither enters nor leaves the lock's protocol  *)
(* with a new decision only has to be looked at through pc.                *)
LEMMA SerialStep ==
  ASSUME LockTypeOK, SerialInv, ~overlapped', NEW p \in Pids,
         \/ Start(p) \/ OtherStart(p) \/ OtherExit(p)
         \/ ReadAbsent(p) \/ ReadInvalid(p) \/ ReadPid(p)
         \/ CheckAlive(p) \/ CheckStale(p)
         \/ Truncate(p) \/ Write(p)
         \/ BeginDrop(p) \/ DropNotOurs(p) \/ DropOurs(p) \/ Remove(p)
         \/ Killed(p)
  PROVE  SerialInv'
<1> USE FileAssumption
    DEF SerialInv, LockTypeOK, PCs, Acquiring, Holding, OneStarter, HolderOwnsFile,
        NoHolderWhileWriting, SeesTheHolder, Go
<1>1. CASE Start(p)
  <2>1. \A q \in Pids : proc[q] \notin Acquiring
    BY <1>1 DEF Start
  <2> QED
    BY <1>1, <2>1 DEF Start
<1>2. CASE OtherStart(p) \/ OtherExit(p)
  BY <1>2 DEF OtherStart, OtherExit
<1>3. CASE ReadAbsent(p) \/ ReadInvalid(p)
  BY <1>3 DEF ReadAbsent, ReadInvalid
<1>4. CASE ReadPid(p)
  BY <1>4 DEF ReadPid
<1>5. CASE CheckAlive(p)
  BY <1>5 DEF CheckAlive
<1>6. CASE CheckStale(p)
  BY <1>6 DEF CheckStale, Alive
<1>7. CASE Truncate(p)
  BY <1>7 DEF Truncate
<1>8. CASE Write(p)
  BY <1>8 DEF Write
<1>9. CASE BeginDrop(p) \/ DropNotOurs(p) \/ DropOurs(p)
  BY <1>9 DEF BeginDrop, DropNotOurs, DropOurs
<1>10. CASE Remove(p)
  BY <1>10 DEF Remove
<1>11. CASE Killed(p)
  BY <1>11 DEF Killed
<1> QED
  BY <1>1, <1>2, <1>3, <1>4, <1>5, <1>6, <1>7, <1>8, <1>9, <1>10, <1>11

(* daemon.rs invariant 1, "One daemon per (state_dir, db) tuple": the file *)
(* cannot name two holders, and as long as no start has overlapped another *)
(* one no process overwrites or removes the file of a running daemon.      *)
THEOREM MutualExclusion == LockSpec => []SerialStartsExclude
<1> DEFINE Inv == ~overlapped => SerialInv
<1>1. LockInit => Inv
  BY FileAssumption DEF LockInit, SerialInv, Acquiring, Holding, OneStarter,
         HolderOwnsFile, NoHolderWhileWriting, SeesTheHolder
<1>2. LockTypeOK /\ Inv /\ [LockNext]_lockVars => Inv'
  <2> SUFFICES ASSUME LockTypeOK, Inv, [LockNext]_lockVars, ~overlapped' PROVE SerialInv'
    OBVIOUS
  <2>1. ~overlapped
    BY DEF LockNext, lockVars, Start, OtherStart, OtherExit, ReadAbsent, ReadInvalid, ReadPid,
           CheckAlive, CheckStale, Truncate, Write, BeginDrop, DropNotOurs, DropOurs,
           Remove, Killed
  <2>2. CASE LockNext
    BY <2>1, <2>2, SerialStep DEF LockNext
  <2>3. CASE UNCHANGED lockVars
    BY <2>1, <2>3 DEF lockVars, SerialInv, OneStarter, HolderOwnsFile,
                      NoHolderWhileWriting, SeesTheHolder
  <2> QED
    BY <2>2, <2>3
<1>3. Inv => SerialStartsExclude
  BY DEF SerialInv, HolderOwnsFile, OneDaemon, SerialStartsExclude
<1> QED
  BY <1>1, <1>2, <1>3, LockTypeCorrect, PTL DEF LockSpec
-----------------------------------------------------------------------------
(* Without any assumption on the starts: a daemon that came out of a race  *)
(* as the owner of the file keeps it until it exits.                       *)
THEOREM SettledOwner == LockSpec => SettledOwnerIsSafe
<1> DEFINE Safe == \A p \in Pids : Settled(p) => proc'[p] # "hold" \/ Settled(p)'
<1>1. LockTypeOK /\ [LockNext]_lockVars => Safe
  <2> SUFFICES ASSUME LockTypeOK, [LockNext]_lockVars, NEW p \in Pids, Settled(p),
                      proc'[p] = "hold"
               PROVE  Settled(p)'
    OBVIOUS
  <2> USE FileAssumption DEF LockTypeOK, Settled, Go
  <2>1. ASSUME NEW q \in Pids,
               \/ Start(q) \/ OtherStart(q) \/ OtherExit(q)
               \/ ReadAbsent(q) \/ ReadInvalid(q)
        PROVE Settled(p)'
    BY <2>1 DEF Start, OtherStart, OtherExit, ReadAbsent, ReadInvalid
  <2>2. ASSUME NEW q \in Pids, ReadPid(q) PROVE Settled(p)'
    BY <2>2 DEF ReadPid
  <2>3. ASSUME NEW q \in Pids, CheckAlive(q) \/ CheckStale(q) PROVE Settled(p)'
    BY <2>3 DEF CheckAlive, CheckStale, Alive
  <2>4. ASSUME NEW q \in Pids, Truncate(q) \/ Write(q) \/ Remove(q)
        PROVE Settled(p)'
    BY <2>4 DEF Truncate, Write, Remove
  <2>5. ASSUME NEW q \in Pids, BeginDrop(q) \/ DropNotOurs(q) \/ DropOurs(q)
        PROVE Settled(p)'
    BY <2>5 DEF BeginDrop, DropNotOurs, DropOurs
  <2>6. ASSUME NEW q \in Pids, Killed(q) PROVE Settled(p)'
    BY <2>6 DEF Killed
  <2>7. CASE UNCHANGED lockVars
    BY <2>7 DEF lockVars
  <2> QED
    BY <2>1, <2>2, <2>3, <2>4, <2>5, <2>6, <2>7 DEF LockNext
<1>2. LockTypeOK /\ [LockNext]_lockVars => [Safe]_lockVars
  BY <1>1
<1> QED
  BY <1>2, LockTypeCorrect, PTL DEF LockSpec, SettledOwnerIsSafe
-----------------------------------------------------------------------------
(* Why the loop stops in time.  The flag is only up after a signal, which  *)
(* there is under StopCondition::Signal only.  A tick that starts with the *)
(* flag up is counted, and after it the loop is not at "start" again: it   *)
(* has to load the flag first, and exits.  Under MaxTicks(n) a loop that   *)
(* goes on has ended fewer than n ticks.                                   *)
SignalFirst == /\ stop => signalled
               /\ signalled => max_ticks = 0

CountedTick == /\ after > 0 => stop /\ loop # "start"
               /\ AtMostOneTickAfterStop

TicksLeft == /\ max_ticks = 0 => index = 0
             /\ max_ticks # 0 => index <= max_ticks
             /\ max_ticks # 0 /\ index = max_ticks => loop = "exited"
             /\ ExactlyMaxTicks

\* An exited loop was told to, or has done its ticks.
LoopInv == LoopTypeOK /\ SignalFirst /\ CountedTick /\ TicksLeft

(* DaemonLoop keeps LoopInv, whatever the interval, the length of a tick   *)
(* and the moment of a signal.                                             *)
THEOREM LoopInvariant == LoopSpec => []LoopInv
<1> USE IntervalAssumption, LoopBoundsAssumption
    DEF LoopInv, LoopTypeOK, SignalFirst, CountedTick, TicksLeft,
        AtMostOneTickAfterStop, ExactlyMaxTicks
<1>1. LoopInit => LoopInv
  <2> SUFFICES ASSUME LoopInit PROVE LoopInv
    OBVIOUS
  <2>1. late \in -Interval .. MaxLate /\ index \in 0 .. MaxTicks /\ after \in 0 .. 2
    BY DEF LoopInit
  <2>2. LoopTypeOK
    BY <2>1 DEF LoopInit
  <2>3. SignalFirst /\ CountedTick
    BY DEF LoopInit
  <2>4. TicksLeft
    BY DEF LoopInit
  <2> QED
    BY <2>2, <2>3, <2>4
<1>2. LoopInv /\ [LoopNext]_loopVars => LoopInv'
  <2> SUFFICES ASSUME LoopInv, [LoopNext]_loopVars PROVE LoopInv'
    OBVIOUS
  <2>1. CASE Signal
    BY <2>1 DEF Signal
  <2>2. CASE Watch
    BY <2>2 DEF Watch
  <2>3. CASE Fire
    BY <2>3 DEF Fire
  <2>4. CASE Load
    BY <2>4 DEF Load
  <2>5. CASE StartTick
    BY <2>5 DEF StartTick
  <2>6. CASE TickEnds
    BY <2>6 DEF TickEnds
  <2>7. CASE TickFails
    BY <2>7 DEF TickFails
  <2>8. CASE Pass
    BY <2>8 DEF Pass
  <2>9. CASE UNCHANGED loopVars
    BY <2>9 DEF loopVars
  <2> QED
    BY <2>1, <2>2, <2>3, <2>4, <2>5, <2>6, <2>7, <2>8, <2>9 DEF LoopNext, Loop
<1> QED
  BY <1>1, <1>2, PTL DEF LoopSpec

(* daemon.rs invariant 3 and StopCondition: once the stop flag is up at    *)
(* most one more tick starts, and MaxTicks(n) runs exactly n.              *)
THEOREM LoopStopsInTime == LoopSpec => []StopsInTime
<1>1. LoopInv => StopsInTime
  BY DEF LoopInv, CountedTick, TicksLeft, StopsInTime
<1> QED
  BY <1>1, LoopInvariant, PTL
-----------------------------------------------------------------------------
(***************************************************************************)
(* The throttle.                                                           *)
(***************************************************************************)
(* The sleep stays between nothing and interval + jitter, and it makes up  *)
(* the time the last stamp lacks.                                          *)
LEMMA SleepBounds ==
  ASSUME ThrottleTypeOK, NEW d \in Domains, NEW j \in Jitters
  PROVE  /\ Sleep(d, j) \in 0 .. MaxWait
         /\ Sleep(d, j) + since[d] >= MinInterval
<1>1. since[d] \in Nat /\ j \in Nat /\ j <= Jitter
  BY TimeAssumption DEF ThrottleTypeOK, MaxWait, Jitters
<1> QED
  BY <1>1, TimeAssumption DEF Sleep, MaxWait

(* Types are kept by every step of the throttle and of the clock.          *)
THEOREM ThrottleTypeCorrect == ThrottleSpec => []ThrottleTypeOK
<1> USE TimeAssumption
<1>1. ThrottleInit => ThrottleTypeOK
  BY DEF ThrottleInit, ThrottleTypeOK, MaxWait
<1>2. ThrottleTypeOK /\ [ThrottleNext]_throttleVars => ThrottleTypeOK'
  <2> SUFFICES ASSUME ThrottleTypeOK, [ThrottleNext]_throttleVars PROVE ThrottleTypeOK'
    OBVIOUS
  <2>1. ASSUME NEW t \in Tasks, NEW d \in Domains, Request(t, d) PROVE ThrottleTypeOK'
    <3>1. Append(queue[d], t) \in Seq(Tasks)
      BY DEF ThrottleTypeOK
    <3>2. queue' \in [Domains -> Seq(Tasks)] /\ holder' \in [Domains -> Tasks \cup {NoTask}]
      BY <2>1, <3>1 DEF ThrottleTypeOK, Request, Acquire
    <3> QED
      BY <2>1, <3>2 DEF ThrottleTypeOK, Request
  <2>2. ASSUME NEW t \in Tasks, Compute(t) PROVE ThrottleTypeOK'
    <3>1. PICK j \in Jitters :
            remaining' = [remaining EXCEPT ![t] = Sleep(dom[t], j)]
      BY <2>2 DEF Compute
    <3>2. Sleep(dom[t], j) \in 0 .. MaxWait
      BY SleepBounds DEF ThrottleTypeOK
    <3> QED
      BY <2>2, <3>1, <3>2 DEF ThrottleTypeOK, Compute
  <2>3. ASSUME NEW t \in Tasks, Stamp(t) PROVE ThrottleTypeOK'
    BY <2>3 DEF ThrottleTypeOK, Stamp, MaxWait
  <2>4. ASSUME NEW t \in Tasks, Done(t) PROVE ThrottleTypeOK'
    <3>1. queue[dom[t]] # <<>> =>
            Head(queue[dom[t]]) \in Tasks /\ Tail(queue[dom[t]]) \in Seq(Tasks)
      BY DEF ThrottleTypeOK
    <3>2. queue' \in [Domains -> Seq(Tasks)] /\ holder' \in [Domains -> Tasks \cup {NoTask}]
      BY <2>4, <3>1 DEF ThrottleTypeOK, Done, Release
    <3> QED
      BY <2>4, <3>2 DEF ThrottleTypeOK, Done
  <2>5. CASE Tick
    <3>1. MaxWait \in Nat
      BY DEF MaxWait
    <3>2. ASSUME NEW d \in Domains
          PROVE  (IF since[d] < MaxWait THEN since[d] + 1 ELSE MaxWait) \in 0 .. MaxWait
      <4>1. since[d] \in 0 .. MaxWait
        BY DEF ThrottleTypeOK
      <4> QED
        BY <3>1, <4>1
    <3>3. ASSUME NEW t \in Tasks
          PROVE  (IF remaining[t] > 0 THEN remaining[t] - 1 ELSE 0) \in 0 .. MaxWait
      <4>1. remaining[t] \in 0 .. MaxWait
        BY DEF ThrottleTypeOK
      <4> QED
        BY <3>1, <4>1
    <3> QED
      BY <2>5, <3>2, <3>3 DEF ThrottleTypeOK, Tick
  <2>6. CASE UNCHANGED throttleVars
    BY <2>6 DEF ThrottleTypeOK, throttleVars
  <2> QED
    BY <2>1, <2>2, <2>3, <2>4, <2>5, <2>6 DEF ThrottleNext
<1> QED
  BY <1>1, <1>2, PTL DEF ThrottleSpec
-----------------------------------------------------------------------------
(* Past the semaphore a task has its domain's permit, so nobody else moves *)
(* the domain's stamp while it sleeps, and the sleep still makes up for    *)
(* what the stamp lacks.                                                   *)
PastSemaphore(t) == task[t] \in {"sleep", "fetch"}

HasPermit == \A t \in Tasks : PastSemaphore(t) => holder[dom[t]] = t

SleepSuffices ==
  \A t \in Tasks : task[t] = "sleep" => remaining[t] + since[dom[t]] >= MinInterval

ThrottleInv == ThrottleTypeOK /\ HasPermit /\ SleepSuffices

LEMMA PermitStep ==
  ASSUME ThrottleTypeOK, HasPermit, [ThrottleNext]_throttleVars
  PROVE  HasPermit'
<1> USE NoTaskAssumption DEF ThrottleTypeOK, HasPermit, PastSemaphore
<1>1. ASSUME NEW t \in Tasks, NEW d \in Domains, Request(t, d) PROVE HasPermit'
  BY <1>1 DEF Request, Acquire
<1>2. ASSUME NEW t \in Tasks, Compute(t) \/ Stamp(t) PROVE HasPermit'
  BY <1>2 DEF Compute, Stamp
<1>3. ASSUME NEW t \in Tasks, Done(t) PROVE HasPermit'
  BY <1>3 DEF Done, Release
<1>4. CASE Tick \/ UNCHANGED throttleVars
  BY <1>4 DEF Tick, throttleVars
<1> QED
  BY <1>1, <1>2, <1>3, <1>4 DEF ThrottleNext

LEMMA SleepStep ==
  ASSUME ThrottleTypeOK, HasPermit, SleepSuffices, [ThrottleNext]_throttleVars
  PROVE  SleepSuffices'
<1> USE TimeAssumption DEF ThrottleTypeOK, SleepSuffices
<1>1. ASSUME NEW t \in Tasks, NEW d \in Domains, Request(t, d) PROVE SleepSuffices'
  BY <1>1 DEF Request
<1>2. ASSUME NEW t \in Tasks, Compute(t) PROVE SleepSuffices'
  <2>1. PICK j \in Jitters :
          remaining' = [remaining EXCEPT ![t] = Sleep(dom[t], j)]
    BY <1>2 DEF Compute
  <2>2. Sleep(dom[t], j) + since[dom[t]] >= MinInterval
    BY SleepBounds
  <2> QED
    BY <1>2, <2>1, <2>2 DEF Compute
<1>3. ASSUME NEW t \in Tasks, Stamp(t) PROVE SleepSuffices'
  <2>1. \A s \in Tasks \ {t} : task[s] = "sleep" => dom[s] # dom[t]
    BY <1>3 DEF HasPermit, PastSemaphore, Stamp
  <2> QED
    BY <1>3, <2>1 DEF Stamp
<1>4. ASSUME NEW t \in Tasks, Done(t) PROVE SleepSuffices'
  BY <1>4 DEF Done
<1>5. CASE Tick
  <2> SUFFICES ASSUME NEW t \in Tasks, task[t] = "sleep"
               PROVE  (remaining[t] + since[dom[t]])' >= MinInterval
    BY <1>5 DEF Tick
  <2>1. PICK d \in Domains : d = dom[t]
    OBVIOUS
  <2>2. /\ since[d] \in 0 .. MaxWait /\ remaining[t] \in 0 .. MaxWait
        /\ remaining[t] + since[d] >= MinInterval
    BY <2>1
  <2>3. /\ since'[d] = IF since[d] < MaxWait THEN since[d] + 1 ELSE MaxWait
        /\ remaining'[t] = IF remaining[t] > 0 THEN remaining[t] - 1 ELSE 0
        /\ dom' = dom
    BY <1>5 DEF Tick
  <2> QED
    BY <2>1, <2>2, <2>3 DEF MaxWait
<1>6. CASE UNCHANGED throttleVars
  BY <1>6 DEF throttleVars
<1> QED
  BY <1>1, <1>2, <1>3, <1>4, <1>5, <1>6 DEF ThrottleNext

LEMMA ThrottleInvariant == ThrottleSpec => []ThrottleInv
<1>1. ThrottleInit => HasPermit /\ SleepSuffices
  BY DEF ThrottleInit, HasPermit, PastSemaphore, SleepSuffices
<1>2. ThrottleTypeOK /\ HasPermit /\ SleepSuffices /\ [ThrottleNext]_throttleVars
        => HasPermit' /\ SleepSuffices'
  BY PermitStep, SleepStep
<1> QED
  BY <1>1, <1>2, ThrottleTypeCorrect, PTL DEF ThrottleSpec, ThrottleInv

(* Guarantee 1 of throttle.rs: one permit holder per domain.               *)
THEOREM OnePermitPerDomain == ThrottleSpec => []OnePermit
<1>1. ThrottleInv => OnePermit
  BY DEF ThrottleInv, HasPermit, PastSemaphore, OnePermit
<1> QED
  BY <1>1, ThrottleInvariant, PTL

(* Guarantee 2 of throttle.rs: MinInterval between two starts of a fetch   *)
(* of one domain, whatever the jitter and however late a sleeper wakes.    *)
THEOREM PoliteInterval == ThrottleSpec => PoliteGap
<1> DEFINE Gap == \A t \in Tasks :
             task[t] = "sleep" /\ task'[t] = "fetch" => since[dom[t]] >= MinInterval
<1>1. ThrottleInv /\ [ThrottleNext]_throttleVars => Gap
  <2> SUFFICES ASSUME ThrottleInv, [ThrottleNext]_throttleVars, NEW t \in Tasks,
                      task[t] = "sleep", task'[t] = "fetch"
               PROVE  since[dom[t]] >= MinInterval
    OBVIOUS
  <2>1. Stamp(t)
    BY DEF ThrottleInv, ThrottleTypeOK, ThrottleNext, throttleVars, Request, Compute, Stamp,
           Done, Tick
  <2>2. since[dom[t]] \in Nat
    BY DEF ThrottleInv, ThrottleTypeOK
  <2> QED
    BY <2>1, <2>2 DEF ThrottleInv, SleepSuffices, Stamp
<1>2. ThrottleInv /\ [ThrottleNext]_throttleVars => [Gap]_throttleVars
  BY <1>1
<1> QED
  BY <1>2, ThrottleInvariant, PTL DEF ThrottleSpec, PoliteGap
-----------------------------------------------------------------------------
(***************************************************************************)
(* A crawl cycle.                                                          *)
(***************************************************************************)
(* What the url sets look like, without which nothing else is inductive.   *)
SetsOK == /\ frontier \subseteq Urls /\ seen \subseteq Urls /\ visited \subseteq Urls
          /\ current = {} \/ \E u \in Urls : current = {u}

LEMMA SetsStep ==
  ASSUME SetsOK, EachUrlOnce, [CrawlNext]_crawlVars
  PROVE  SetsOK' /\ EachUrlOnce'
<1> USE SiteAssumption DEF SetsOK, EachUrlOnce
<1>1. CASE Gate \/ ElapsedCap
  BY <1>1 DEF Gate, HtmlCap, TotalCap, ElapsedCap, ConsecutiveFailures,
              FrontierDrained, StopWith, heap
<1>2. ASSUME NEW u \in Urls, Pop(u) PROVE SetsOK' /\ EachUrlOnce'
  BY <1>2 DEF Pop
<1>3. ASSUME NEW u \in Urls, Html(u) PROVE SetsOK' /\ EachUrlOnce'
  <2>1. PICK new \in SUBSET (Links[u] \ seen) :
          frontier' = frontier \cup new /\ seen' = seen \cup new
    <3> DEFINE S == {v \in Links[u] \ seen : depth[u] + 1 <= DepthCap(v)}
    <3>1. S \in SUBSET (Links[u] \ seen)
      OBVIOUS
    <3>2. frontier' = frontier \cup S /\ seen' = seen \cup S
      BY <1>3 DEF Html, Enqueue
    <3> QED
      BY <3>1, <3>2
  <2>2. new \subseteq Urls /\ new \cap seen = {}
    BY <2>1
  <2>3. current = {u} /\ current' = {} /\ visited' = visited \cup {u}
    BY <1>3 DEF Html, FetchOk, Fetched
  <2> HIDE DEF SetsOK, EachUrlOnce
  <2>4. SetsOK'
    BY <2>1, <2>2, <2>3, Zenon DEF SetsOK
  <2>5. EachUrlOnce'
    BY <2>1, <2>2, <2>3 DEF EachUrlOnce
  <2> QED
    BY <2>4, <2>5
<1>4. ASSUME NEW u \in Urls, Response(u), ~Html(u) PROVE SetsOK' /\ EachUrlOnce'
  <2>1. /\ current = {u} /\ current' = {} /\ visited' = visited \cup {u}
        /\ frontier' = frontier /\ seen' = seen
    BY <1>4 DEF Response, FetchErr, HttpError, Shell, Binary, Unsupported,
                StoreError, FetchOk, Fetched, heap
  <2> QED
    BY <2>1
<1>5. CASE UNCHANGED crawlVars
  BY <1>5 DEF crawlVars, heap
<1> QED
  BY <1>1, <1>2, <1>3, <1>4, <1>5 DEF CrawlNext, Iterate

LEMMA SetsInvariant == CrawlSpec => [](SetsOK /\ EachUrlOnce)
<1>1. CrawlInit => SetsOK /\ EachUrlOnce
  BY SiteAssumption DEF CrawlInit, SetsOK, EachUrlOnce
<1>2. (SetsOK /\ EachUrlOnce) /\ [CrawlNext]_crawlVars => (SetsOK /\ EachUrlOnce)'
  BY SetsStep
<1> QED
  BY <1>1, <1>2, PTL DEF CrawlSpec

(* frontier.rs, "seen-set deduplication": a cycle fetches no url twice and *)
(* loses none it has seen.                                                 *)
THEOREM NoUrlTwice == CrawlSpec => []EachUrlOnce
BY SetsInvariant, PTL
-----------------------------------------------------------------------------
LEMMA BudgetsPositive == MaxHtml \in Nat \ {0} /\ MaxTotal \in Nat \ {0}
BY BudgetAssumption

(* The counters the budget gates read tell how many urls were fetched, and *)
(* a fetch is only out while there is room for it.                         *)
CountsOK ==
  /\ html_fetched \in Nat /\ binaries_fetched \in Nat
  /\ other_fetched \in Nat /\ errors \in Nat

Uncounted == IF stop_reason \in {"shell_detected", "store_error"} THEN 1 ELSE 0

FetchesCounted ==
  IsFiniteSet(visited) /\ Cardinality(visited) = Total + Uncounted

RoomForFetch ==
  /\ html_fetched <= MaxHtml
  /\ Total + Uncounted <= MaxTotal
  /\ current # {} => Running /\ html_fetched < MaxHtml /\ Total < MaxTotal

BudgetInv == CountsOK /\ FetchesCounted /\ RoomForFetch

(* A response adds one url to the visited ones, and one to the counters or *)
(* to Uncounted.                                                           *)
LEMMA BudgetStep ==
  ASSUME SetsOK, EachUrlOnce, BudgetInv, [CrawlNext]_crawlVars
  PROVE  BudgetInv'
<1> USE BudgetsPositive
<1>1. /\ CountsOK /\ FetchesCounted /\ RoomForFetch /\ Total \in Nat
      /\ Running => Uncounted = 0
  <2>1. CountsOK /\ FetchesCounted /\ RoomForFetch
    BY DEF BudgetInv
  <2>2. Total \in Nat
    BY <2>1 DEF CountsOK, Total
  <2>3. Running => Uncounted = 0
    BY DEF Uncounted, Running
  <2> QED
    BY <2>1, <2>2, <2>3
<1>2. CASE (Gate \/ ElapsedCap) \/ UNCHANGED crawlVars
  <2>1. CountsOK' /\ Total' = Total /\ visited' = visited /\ html_fetched' = html_fetched
    BY <1>1, <1>2 DEF Gate, HtmlCap, TotalCap, ElapsedCap, ConsecutiveFailures,
         FrontierDrained, StopWith, crawlVars, fetches, CountsOK, Total
  <2>2. /\ Uncounted' = Uncounted
        /\ current' = {} \/ (current' = current /\ stop_reason' = stop_reason)
    BY <1>2 DEF Gate, HtmlCap, TotalCap, ElapsedCap, ConsecutiveFailures,
         FrontierDrained, StopWith, crawlVars, Running, Uncounted
  <2> QED
    BY <1>1, <2>1, <2>2 DEF BudgetInv, FetchesCounted, RoomForFetch, Running
<1>3. ASSUME NEW u \in Urls, Pop(u) PROVE BudgetInv'
  <2>1. /\ Running /\ UNCHANGED <<visited, fetches, stop_reason>>
        /\ html_fetched < MaxHtml /\ Total < MaxTotal
    BY <1>1, <1>3 DEF Pop, AtCap, AtHtmlCap, AtTotalCap, CountsOK
  <2>2. CountsOK' /\ Total' = Total /\ Uncounted' = 0 /\ Running' /\ Uncounted = 0
    BY <1>1, <2>1 DEF fetches, CountsOK, Total, Running, Uncounted
  <2> QED
    BY <1>1, <2>1, <2>2 DEF BudgetInv, fetches, FetchesCounted, RoomForFetch
<1>4. ASSUME NEW u \in Urls, Response(u) PROVE BudgetInv'
  <2>1. /\ current = {u} /\ current' = {} /\ Running /\ visited' = visited \cup {u}
    BY <1>4 DEF Response, FetchErr, HttpError, Shell, Html, Binary, Unsupported,
                StoreError, FetchOk, Fetched
  <2>2. u \notin visited
    BY <2>1 DEF EachUrlOnce
  <2>3. IsFiniteSet(visited') /\ Cardinality(visited') = Cardinality(visited) + 1
    BY <1>1, <2>1, <2>2, FS_AddElement DEF FetchesCounted
  <2>4. /\ Uncounted = 0 /\ html_fetched < MaxHtml /\ Total < MaxTotal
    BY <1>1, <2>1 DEF RoomForFetch
  <2>5. /\ CountsOK' /\ Total' + Uncounted' = Total + 1
        /\ html_fetched' \in {html_fetched, html_fetched + 1}
    <3>1. CASE FetchErr(u) \/ HttpError(u)
      <4>1. errors' = errors + 1 /\ stop_reason' = stop_reason
            /\ UNCHANGED <<html_fetched, binaries_fetched, other_fetched>>
        BY <3>1 DEF FetchErr, HttpError
      <4>2. Uncounted' = 0
        BY <4>1, <2>4 DEF Uncounted
      <4> QED
        BY <1>1, <4>1, <4>2 DEF CountsOK, Total
    <3>2. CASE Shell(u) \/ StoreError(u)
      <4>1. UNCHANGED fetches /\ stop_reason' \in {"shell_detected", "store_error"}
        BY <3>2 DEF Shell, StoreError
      <4>2. Uncounted' = 1
        BY <4>1 DEF Uncounted
      <4> QED
        BY <1>1, <4>1, <4>2 DEF CountsOK, Total, fetches
    <3>3. CASE Html(u) \/ Binary(u) \/ Unsupported(u)
      <4>1. /\ errors' = errors /\ stop_reason' = stop_reason
            /\ \/ /\ html_fetched' = html_fetched + 1
                  /\ UNCHANGED <<binaries_fetched, other_fetched>>
               \/ /\ binaries_fetched' = binaries_fetched + 1
                  /\ UNCHANGED <<html_fetched, other_fetched>>
               \/ /\ other_fetched' = other_fetched + 1
                  /\ UNCHANGED <<html_fetched, binaries_fetched>>
        BY <3>3 DEF Html, Binary, Unsupported
      <4>2. Uncounted' = 0
        BY <4>1, <2>4 DEF Uncounted
      <4> QED
        <5>1. /\ html_fetched \in Nat /\ binaries_fetched \in Nat
              /\ other_fetched \in Nat /\ errors \in Nat
          BY <1>1 DEF CountsOK
        <5>2. Total' = Total + 1 /\ CountsOK'
          BY <4>1, <5>1 DEF CountsOK, Total
        <5> QED
          BY <1>1, <4>1, <4>2, <5>2
    <3> QED
      BY <1>4, <3>1, <3>2, <3>3 DEF Response
  <2>6. FetchesCounted'
    BY <1>1, <2>3, <2>4, <2>5 DEF FetchesCounted
  <2>7. RoomForFetch'
    BY <1>1, <2>1, <2>4, <2>5 DEF RoomForFetch, CountsOK
  <2> QED
    BY <2>5, <2>6, <2>7 DEF BudgetInv
<1> QED
  BY <1>2, <1>3, <1>4 DEF CrawlNext, Iterate

LEMMA BudgetInvariant == CrawlSpec => []BudgetInv
<1>1. ASSUME CrawlInit PROVE BudgetInv
  <2>1. CountsOK /\ html_fetched = 0 /\ Total = 0 /\ current = {}
    <3>1. /\ html_fetched = 0 /\ binaries_fetched = 0
          /\ other_fetched = 0 /\ errors = 0 /\ current = {}
      BY <1>1 DEF CrawlInit
    <3> QED
      BY <3>1 DEF CountsOK, Total
  <2>2. IsFiniteSet(visited) /\ Cardinality(visited) = 0
    BY <1>1, FS_EmptySet DEF CrawlInit
  <2>3. Uncounted = 0
    BY <1>1 DEF CrawlInit, Uncounted
  <2> QED
    BY <2>1, <2>2, <2>3, BudgetsPositive DEF BudgetInv, FetchesCounted, RoomForFetch
<1>2. SetsOK /\ EachUrlOnce /\ BudgetInv /\ [CrawlNext]_crawlVars => BudgetInv'
  BY BudgetStep
<1> QED
  BY <1>1, <1>2, SetsInvariant, PTL DEF CrawlSpec

(* The gates of Worker::poll keep a cycle within the recipe's budget: they *)
(* run before every pop, and every fetch moves exactly one counter.        *)
THEOREM Budget == CrawlSpec => []WithinBudget
<1>1. ASSUME BudgetInv PROVE WithinBudget
  <2>1. Total \in Nat /\ Uncounted \in {0, 1}
    BY <1>1 DEF BudgetInv, CountsOK, Total, Uncounted
  <2> QED
    BY <1>1, <2>1, BudgetsPositive
       DEF BudgetInv, FetchesCounted, RoomForFetch, WithinBudget
<1> QED
  BY <1>1, BudgetInvariant, PTL
-----------------------------------------------------------------------------
(* What a cycle has found: a url is given its depth once, when it is first *)
(* seen, and a page's links are looked at when the page is recorded.       *)
LinksFollowed ==
  \A u \in pages : \A v \in Links[u] : depth[u] < DepthCap(v) => v \in seen

DiscoveryInv ==
  /\ depth \in [Urls -> Nat] /\ pages \subseteq visited /\ Entry \subseteq seen
  /\ DepthsAreLinks /\ LinksFollowed
  /\ stop_reason = "frontier_drained" => frontier = {} /\ current = {}

LEMMA DepthCapIsNat == \A v \in Urls : DepthCap(v) \in Nat
BY BudgetAssumption DEF DepthCap

(* Html(u) gives the new urls the depth after u's and changes no other.    *)
LEMMA DiscoveryOfPage ==
  ASSUME SetsOK, EachUrlOnce, DiscoveryInv, NEW u \in Urls, Html(u)
  PROVE  DiscoveryInv'
<1> USE SiteAssumption DEF DiscoveryInv
<1> DEFINE new == {v \in Links[u] \ seen : depth[u] + 1 <= DepthCap(v)}
<1>1. /\ frontier' = frontier \cup new /\ seen' = seen \cup new
      /\ depth' = [v \in Urls |-> IF v \in new THEN depth[u] + 1 ELSE depth[v]]
  BY DEF Html, Enqueue
<1>2. /\ Running /\ current = {u} /\ visited' = visited \cup {u} /\ pages' = pages \cup {u}
      /\ stop_reason' = stop_reason
  BY DEF Html, FetchOk, Fetched
<1>3. new \subseteq Urls /\ new \cap seen = {} /\ seen \subseteq Urls
  BY DEF SetsOK
<1>4. u \in seen /\ pages \subseteq seen /\ seen \subseteq seen'
  BY <1>1, <1>2 DEF EachUrlOnce
<1>5. \A v \in seen : depth'[v] = depth[v]
  BY <1>1, <1>3
<1>6. depth' \in [Urls -> Nat]
  BY <1>1
<1>7. DepthsAreLinks'
  <2> SUFFICES ASSUME NEW v \in seen'
               PROVE  \/ v \in Entry /\ depth'[v] = 0
                      \/ /\ depth'[v] <= DepthCap(v)
                         /\ \E w \in pages' : v \in Links[w] /\ depth'[v] = depth'[w] + 1
    BY DEF DepthsAreLinks, DepthCap
  <2>1. CASE v \in seen
    <3>1. ASSUME NEW w \in pages, v \in Links[w], depth[v] = depth[w] + 1
          PROVE  w \in pages' /\ v \in Links[w] /\ depth'[v] = depth'[w] + 1
      BY <1>2, <1>4, <1>5, <2>1, <3>1
    <3> QED
      BY <1>5, <2>1, <3>1 DEF DepthsAreLinks
  <2>2. CASE v \in new
    <3>1. v \in Links[u] /\ depth[u] + 1 <= DepthCap(v) /\ v \in Urls
      BY <1>3, <2>2
    <3>2. depth'[v] = depth[u] + 1 /\ depth'[u] = depth[u] /\ u \in pages'
      BY <1>1, <1>2, <1>4, <1>5, <2>2, <3>1
    <3> QED
      BY <3>1, <3>2
  <2> QED
    BY <1>1, <2>1, <2>2
<1>8. LinksFollowed'
  <2> SUFFICES ASSUME NEW w \in pages', NEW v \in Links[w], depth'[w] < DepthCap(v)
               PROVE  v \in seen'
    BY DEF LinksFollowed, DepthCap
  <2>1. w \in seen /\ depth'[w] = depth[w]
    BY <1>2, <1>4, <1>5
  <2>2. CASE w \in pages
    BY <1>4, <2>1, <2>2 DEF LinksFollowed
  <2>3. CASE w = u
    <3>1. v \in Urls /\ depth[u] \in Nat /\ DepthCap(v) \in Nat
      BY <2>3, DepthCapIsNat
    <3>2. depth[u] + 1 <= DepthCap(v)
      BY <2>1, <2>3, <3>1
    <3> QED
      BY <1>1, <2>3, <3>2
  <2> QED
    BY <1>2, <2>2, <2>3
<1>9. pages' \subseteq visited' /\ Entry \subseteq seen' /\ stop_reason' # "frontier_drained"
  BY <1>1, <1>2 DEF Running
<1> QED
  BY <1>6, <1>7, <1>8, <1>9

LEMMA DiscoveryStep ==
  ASSUME SetsOK, EachUrlOnce, DiscoveryInv, [CrawlNext]_crawlVars
  PROVE  DiscoveryInv'
<1>1. ASSUME NEW u \in Urls, Html(u) PROVE DiscoveryInv'
  BY <1>1, DiscoveryOfPage
<1>2. ASSUME UNCHANGED <<seen, depth, pages>>, visited \subseteq visited',
             stop_reason' = "frontier_drained" => frontier' = {} /\ current' = {}
      PROVE DiscoveryInv'
  BY <1>2 DEF DiscoveryInv, DepthsAreLinks, LinksFollowed, DepthCap
<1>3. CASE Gate \/ ElapsedCap
  BY <1>2, <1>3 DEF Gate, HtmlCap, TotalCap, ElapsedCap, ConsecutiveFailures,
                    FrontierDrained, StopWith, heap
<1>4. ASSUME NEW u \in Urls, Pop(u) PROVE DiscoveryInv'
  BY <1>2, <1>4 DEF Pop, Running
<1>5. ASSUME NEW u \in Urls, Response(u), ~Html(u) PROVE DiscoveryInv'
  BY <1>2, <1>5 DEF Response, FetchErr, HttpError, Shell, Binary, Unsupported, StoreError,
                    FetchOk, Fetched, heap, Running
<1>6. CASE UNCHANGED crawlVars
  BY <1>2, <1>6 DEF crawlVars, heap, DiscoveryInv
<1> QED
  BY <1>1, <1>3, <1>4, <1>5, <1>6 DEF CrawlNext, Iterate

LEMMA DiscoveryInvariant == CrawlSpec => []DiscoveryInv
<1>1. ASSUME CrawlInit PROVE DiscoveryInv
  <2>1. /\ frontier = Entry /\ seen = Entry /\ visited = {} /\ pages = {}
        /\ depth = [u \in Urls |-> 0] /\ stop_reason = ""
    BY <1>1 DEF CrawlInit
  <2>2. DepthsAreLinks
    BY <2>1, SiteAssumption DEF DepthsAreLinks
  <2>3. LinksFollowed
    BY <2>1 DEF LinksFollowed
  <2> QED
    BY <2>1, <2>2, <2>3 DEF DiscoveryInv
<1> QED
  BY <1>1, DiscoveryStep, SetsInvariant, PTL DEF CrawlSpec
-----------------------------------------------------------------------------
(* What a cycle has stored: each page or file has one outcome, and a fetch *)
(* is only out after fewer failures in a row than would stop the cycle.    *)
StoredOK ==
  /\ docs_inserted \in Nat /\ docs_superseded \in Nat /\ docs_unchanged \in Nat
  /\ html_fetched + binaries_fetched = docs_inserted + docs_superseded + docs_unchanged
  /\ any_change \in BOOLEAN /\ (any_change <=> docs_inserted + docs_superseded > 0)

StreakOK ==
  /\ consecutive_failures \in 0 .. MaxFailures
  /\ current # {} => consecutive_failures < MaxFailures
  /\ stop_reason \in StopReasons

LEMMA StoredStep ==
  ASSUME CountsOK, StoredOK, [CrawlNext]_crawlVars
  PROVE  StoredOK'
<1> USE DEF StoredOK, CountsOK
<1>1. ASSUME UNCHANGED <<html_fetched, binaries_fetched, outcomes>> PROVE StoredOK'
  BY <1>1 DEF outcomes
<1>2. CASE Gate \/ ElapsedCap \/ \E u \in Urls : Pop(u)
  BY <1>1, <1>2 DEF Gate, HtmlCap, TotalCap, ElapsedCap, ConsecutiveFailures,
                    FrontierDrained, StopWith, Pop, fetches
<1>3. ASSUME NEW u \in Urls, Response(u), ~Html(u), ~Binary(u) PROVE StoredOK'
  BY <1>1, <1>3 DEF Response, FetchErr, HttpError, Shell, Unsupported, StoreError, fetches
<1>4. ASSUME NEW u \in Urls, Html(u) \/ Binary(u) PROVE StoredOK'
  <2>1. Upsert
    BY <1>4 DEF Html, Binary
  <2>2. \/ html_fetched' = html_fetched + 1 /\ UNCHANGED binaries_fetched
        \/ binaries_fetched' = binaries_fetched + 1 /\ UNCHANGED html_fetched
    BY <1>4 DEF Html, Binary
  <2>3. \/ docs_inserted' = docs_inserted + 1 /\ UNCHANGED <<docs_superseded, docs_unchanged>>
        \/ docs_superseded' = docs_superseded + 1 /\ UNCHANGED <<docs_inserted, docs_unchanged>>
        \/ docs_unchanged' = docs_unchanged + 1 /\ UNCHANGED <<docs_inserted, docs_superseded>>
    BY <2>1 DEF Upsert
  <2>4. /\ docs_inserted' \in Nat /\ docs_superseded' \in Nat /\ docs_unchanged' \in Nat
        /\ html_fetched' + binaries_fetched'
             = docs_inserted' + docs_superseded' + docs_unchanged'
    <3>1. /\ html_fetched \in Nat /\ binaries_fetched \in Nat
          /\ docs_inserted \in Nat /\ docs_superseded \in Nat /\ docs_unchanged \in Nat
          /\ html_fetched + binaries_fetched
               = docs_inserted + docs_superseded + docs_unchanged
      OBVIOUS
    <3> HIDE DEF StoredOK, CountsOK
    <3> QED
      BY <2>2, <2>3, <3>1
  <2>5. any_change' \in BOOLEAN /\ (any_change' <=> docs_inserted' + docs_superseded' > 0)
    <3>1. CASE any_change' = TRUE /\ docs_inserted' + docs_superseded' > 0
      BY <3>1
    <3>2. CASE UNCHANGED <<docs_inserted, docs_superseded, any_change>>
      BY <3>2
    <3>3. docs_inserted' = docs_inserted + 1 /\ docs_superseded' = docs_superseded
            => docs_inserted' + docs_superseded' > 0
      OBVIOUS
    <3>4. docs_superseded' = docs_superseded + 1 /\ docs_inserted' = docs_inserted
            => docs_inserted' + docs_superseded' > 0
      OBVIOUS
    <3> QED
      BY <2>1, <3>1, <3>2, <3>3, <3>4 DEF Upsert
  <2> QED
    BY <2>4, <2>5
<1>5. CASE UNCHANGED crawlVars
  BY <1>1, <1>5 DEF crawlVars, fetches
<1> QED
  BY <1>2, <1>3, <1>4, <1>5 DEF CrawlNext, Iterate

LEMMA StreakStep ==
  ASSUME StreakOK, [CrawlNext]_crawlVars
  PROVE  StreakOK'
<1>1. MaxFailures \in Nat
  BY BudgetAssumption
<1>2. CASE Gate \/ ElapsedCap \/ UNCHANGED crawlVars
  BY <1>2 DEF StreakOK, StopReasons, Gate, HtmlCap, TotalCap, ElapsedCap,
              ConsecutiveFailures, FrontierDrained, StopWith, crawlVars
<1>3. ASSUME NEW u \in Urls, Pop(u) PROVE StreakOK'
  <2>1. UNCHANGED <<consecutive_failures, stop_reason>> /\ ~AtFailures
    BY <1>3 DEF Pop
  <2>2. consecutive_failures < MaxFailures
    BY <1>1, <2>1 DEF AtFailures, StreakOK
  <2> QED
    BY <2>1, <2>2 DEF StreakOK
<1>4. ASSUME NEW u \in Urls, Response(u) PROVE StreakOK'
  <2>1. /\ current # {} /\ current' = {}
        /\ consecutive_failures' \in {0, consecutive_failures, consecutive_failures + 1}
        /\ stop_reason' \in {stop_reason, "shell_detected", "store_error"}
    BY <1>4 DEF Response, FetchErr, HttpError, Shell, Html, Binary, Unsupported, StoreError,
                FetchOk, Fetched
  <2>2. consecutive_failures \in 0 .. MaxFailures /\ consecutive_failures < MaxFailures
    BY <2>1 DEF StreakOK
  <2>3. consecutive_failures' \in 0 .. MaxFailures
    BY <1>1, <2>1, <2>2
  <2> QED
    BY <2>1, <2>3 DEF StreakOK, StopReasons
<1> QED
  BY <1>2, <1>3, <1>4 DEF CrawlNext, Iterate

LEMMA StoredInvariant == CrawlSpec => [](StoredOK /\ StreakOK)
<1>1. ASSUME CrawlInit PROVE StoredOK /\ StreakOK
  <2>1. /\ html_fetched = 0 /\ binaries_fetched = 0
        /\ docs_inserted = 0 /\ docs_superseded = 0 /\ docs_unchanged = 0
    BY <1>1 DEF CrawlInit
  <2>2. any_change = FALSE
    BY <1>1 DEF CrawlInit
  <2>3. consecutive_failures = 0 /\ current = {} /\ stop_reason = ""
    BY <1>1 DEF CrawlInit
  <2>4. 0 \in 0 .. MaxFailures
    <3>1. MaxFailures \in Nat
      BY BudgetAssumption
    <3> QED
      BY <3>1
  <2>5. /\ ~(docs_inserted + docs_superseded > 0)
        /\ html_fetched + binaries_fetched = docs_inserted + docs_superseded + docs_unchanged
    BY <2>1
  <2>6. StoredOK
    BY <2>1, <2>2, <2>5, Zenon DEF StoredOK
  <2>7. consecutive_failures \in 0 .. MaxFailures /\ stop_reason \in StopReasons
    BY <2>3, <2>4, Zenon DEF StopReasons
  <2>8. StreakOK
    BY <2>3, <2>7, Zenon DEF StreakOK
  <2> QED
    BY <2>6, <2>8
<1>2. BudgetInv /\ (StoredOK /\ StreakOK) /\ [CrawlNext]_crawlVars => (StoredOK /\ StreakOK)'
  BY StoredStep, StreakStep DEF BudgetInv
<1> QED
  BY <1>1, <1>2, BudgetInvariant, PTL DEF CrawlSpec

(* Crawl keeps its types.                                                  *)
THEOREM CrawlTypeCorrect == CrawlSpec => []CrawlTypeOK
<1>1. SetsOK /\ BudgetInv /\ DiscoveryInv /\ StoredOK /\ StreakOK => CrawlTypeOK
  BY DEF SetsOK, BudgetInv, CountsOK, DiscoveryInv, StoredOK, StreakOK, CrawlTypeOK
<1> QED
  BY <1>1, SetsInvariant, BudgetInvariant, DiscoveryInvariant, StoredInvariant, PTL

(* worker.rs: the report of a cycle is true.  Its counters agree with what *)
(* was fetched and stored, and "frontier drained" means that no link       *)
(* within the depth limit of its page is left out, for every site.         *)
THEOREM ReportsAreTrue == CrawlSpec => []ReportIsTrue
<1>1. BudgetInv /\ StoredOK => CountersAgree
  BY DEF BudgetInv, FetchesCounted, Uncounted, StoredOK, CountersAgree
<1>2. EachUrlOnce /\ DiscoveryInv => DepthsAreLinks /\ DrainIsComplete
  BY DEF EachUrlOnce, DiscoveryInv, LinksFollowed, DrainIsComplete
<1>3. EachUrlOnce /\ BudgetInv /\ DiscoveryInv /\ StoredOK => ReportIsTrue
  BY <1>1, <1>2 DEF ReportIsTrue
<1> QED
  BY <1>3, SetsInvariant, BudgetInvariant, DiscoveryInvariant, StoredInvariant, PTL
-----------------------------------------------------------------------------
(* queue_id is an AUTOINCREMENT key: the rows that do not exist yet are    *)
(* the last ones, so that NextId is a row as long as there is a free one.  *)
FreeFrom(n) == \A r \in Rows : status[r] = "none" <=> r > n
FreeAreLast == \E n \in 0 .. MaxRows : FreeFrom(n)

(* Between the check for a pending row and the INSERT nobody else can add  *)
(* a row: the daemon has one health pass at a time, and it dispatches only *)
(* when the pass is over, so it cannot abandon the pass by an error.       *)
OneCheck ==
  /\ \A s, t \in checked : s = t
  /\ \A s \in checked : ~HasPending(s) /\ Free # {}
  /\ checked # {} => phase = "health"
  /\ worker[Daemon] \in Working => phase = "drain" /\ drained < MaxCap

(* What the row of a process looks like while it works on it alone.        *)
RowIsHis(p) ==
  LET r == claimed[p]
  IN  /\ worker[p] = "mark" => status[r] = "pending"
      /\ worker[p] \in {"agent", "apply", "finalize"} => status[r] = "dispatched"
      /\ worker[p] \in {"agent", "apply"} => published[r] = 0
      /\ worker[p] = "finalize" =>
           published[r] = IF outcome[p] = "deadletter" THEN 0 ELSE 1

Claims ==
  /\ \A p \in Procs : claimed[p] \in Rows => status[claimed[p]] # "none"
  /\ \A p, q \in Procs :
       p # q /\ claimed[p] \in Rows /\ claimed[p] = claimed[q] => claimed[p] \in shared
  /\ \A p \in Procs : claimed[p] \in Rows \ shared => RowIsHis(p)

RepairInv == OneRepairEach /\ FreeAreLast /\ OneCheck /\ Claims
-----------------------------------------------------------------------------
(* NextId is the first row that does not exist, or one past the last.      *)
LEMMA NextIdIsFree ==
  ASSUME FreeAreLast
  PROVE  /\ NextId \in 1 .. MaxRows + 1
         /\ FreeFrom(NextId - 1)
         /\ Free # {} => NextId \in Rows /\ status[NextId] = "none"
<1> USE DEF Rows
<1>0. MaxRows \in Nat
  BY BoundsAssumption
<1>1. PICK n \in 0 .. MaxRows : FreeFrom(n)
  BY DEF FreeAreLast
<1>2. Free = n + 1 .. MaxRows
  BY <1>0, <1>1 DEF Free, FreeFrom
<1>3. n + 1 \in Int /\ MaxRows \in Int
  BY <1>0
<1>4. Cardinality(n + 1 .. MaxRows) = IF n + 1 > MaxRows THEN 0 ELSE MaxRows - (n + 1) + 1
  BY <1>3, FS_Interval
<1>5. NextId = n + 1
  BY <1>0, <1>2, <1>4 DEF NextId
<1>6. Free # {} => n < MaxRows
  BY <1>0, <1>2
<1> QED
  BY <1>0, <1>1, <1>5, <1>6 DEF FreeFrom

(* A write to a row that exists leaves the free rows as they are.          *)
LEMMA UpdateKeepsFree ==
  ASSUME RepairTypeOK, FreeAreLast, NEW r \in Rows, status[r] # "none",
         NEW s \in Statuses \ {"none"}, status' = [status EXCEPT ![r] = s]
  PROVE  /\ FreeAreLast'
         /\ Free' = Free
<1> USE DEF Rows
<1>1. \A q \in Rows : status'[q] = "none" <=> status[q] = "none"
  BY DEF RepairTypeOK
<1> QED
  BY <1>1 DEF FreeAreLast, FreeFrom, Free

-----------------------------------------------------------------------------
(* RepairTypeOK.                                                           *)
LEMMA TypeStep == RepairInv /\ RepairNext => RepairTypeOK'
<1> SUFFICES ASSUME RepairInv, RepairNext PROVE RepairTypeOK'
  OBVIOUS
<1>0. /\ RepairTypeOK /\ OneCheck /\ FreeAreLast /\ 0 \notin Rows
      /\ MaxRows \in Nat /\ MaxFaults \in Nat /\ MaxCap \in Nat \ {0}
  BY BoundsAssumption DEF RepairInv, OneRepairEach, Rows
<1>1. /\ NextId \in 1 .. MaxRows + 1
      /\ Free # {} => NextId \in Rows
  BY <1>0, NextIdIsFree
<1> USE DaemonAssumption, <1>0
    DEF RepairTypeOK, Statuses, Terminal, Working, rows, tick, dispatch
<1>2. CASE Poll
  BY <1>1, <1>2 DEF Poll
<1>3. CASE BeginDrain \/ EndDrain
  BY <1>3 DEF BeginDrain, EndDrain
<1>4. ASSUME NEW s \in Sources, ReactNothing(s) \/ ReactFailed(s) \/ ReactError(s)
      PROVE RepairTypeOK'
  BY <1>4 DEF ReactNothing, ReactFailed, ReactError, LookAt
<1>5. ASSUME NEW s \in Sources, EnqueueRepair(s) PROVE RepairTypeOK'
  <2>1. NextId \in Rows /\ pass \in 0 .. MaxRows + 1
    BY <1>1, <1>5 DEF EnqueueRepair, OneCheck
  <2> QED
    BY <1>5, <2>1 DEF EnqueueRepair
<1>6. ASSUME NEW p \in Procs, Select(p) PROVE RepairTypeOK'
  BY <1>6 DEF Select, NextPending, Pending
<1>7. ASSUME NEW p \in Procs, Mark(p) \/ AgentProposes(p) PROVE RepairTypeOK'
  BY <1>7 DEF Mark, AgentProposes, Goto, UpdateRepair
<1>8. ASSUME NEW p \in Procs, AgentFails(p) \/ Finalize(p) PROVE RepairTypeOK'
  <2>1. claimed[p] \in Rows /\ worker[p] \in Working
    BY <1>8 DEF AgentFails, Finalize, Goto
  <2>2. drained' \in 0 .. MaxCap
    BY <1>8, <2>1 DEF AgentFails, Finalize, Return, OneCheck
  <2>3. status' \in [Rows -> Statuses]
    BY <1>8, <2>1 DEF AgentFails, Finalize, UpdateRepair, Goto
  <2> QED
    BY <1>8, <2>1, <2>2, <2>3 DEF AgentFails, Finalize, Goto, UpdateRepair, Return
<1>9. ASSUME NEW p \in Procs, GateFails(p) \/ Apply(p) PROVE RepairTypeOK'
  BY <1>9 DEF GateFails, Apply, Decide, Goto, MakeArtifact
<1>10. ASSUME NEW p \in Procs, DispatchError(p) \/ Crash(p) PROVE RepairTypeOK'
  BY <1>10 DEF DispatchError, Crash, Abandon, MakeArtifact
<1> QED
  BY <1>2, <1>3, <1>4, <1>5, <1>6, <1>7, <1>8, <1>9, <1>10
     DEF RepairNext, TickStep, WorkStep, Fault

(* FreeAreLast, OneCheck and OnePendingPerSource.  Only EnqueueRepair adds *)
(* a pending row, of the one source that was checked; whoever rewrites a   *)
(* row makes fewer of them pending.                                        *)
LEMMA QueueStep ==
  RepairInv /\ RepairNext => FreeAreLast' /\ OneCheck' /\ OnePendingPerSource'
<1> SUFFICES ASSUME RepairInv, RepairNext
             PROVE  FreeAreLast' /\ OneCheck' /\ OnePendingPerSource'
  OBVIOUS
<1>0. /\ RepairTypeOK /\ FreeAreLast /\ OneCheck /\ OnePendingPerSource /\ Claims
      /\ 0 \notin Rows /\ MaxRows \in Nat /\ MaxCap \in Nat \ {0}
  BY BoundsAssumption DEF RepairInv, OneRepairEach, Rows
<1> USE DaemonAssumption, <1>0 DEF OneCheck, OnePendingPerSource
<1>1. ASSUME UNCHANGED <<status, src>>
      PROVE  /\ FreeAreLast' /\ OnePendingPerSource'
             /\ Free' = Free /\ Pending' = Pending
             /\ \A s : HasPending(s)' <=> HasPending(s)
  BY <1>1 DEF FreeAreLast, FreeFrom, Free, Pending, HasPending
<1>2. CASE Poll \/ BeginDrain \/ EndDrain
  BY <1>1, <1>2 DEF Poll, BeginDrain, EndDrain, rows, dispatch, Working, RepairTypeOK
<1>3. ASSUME NEW s \in Sources, ReactNothing(s) \/ ReactFailed(s) \/ ReactError(s)
      PROVE FreeAreLast' /\ OneCheck' /\ OnePendingPerSource'
  BY <1>1, <1>3 DEF ReactNothing, ReactFailed, ReactError, LookAt, rows, dispatch
<1>4. ASSUME NEW s \in Sources, EnqueueRepair(s)
      PROVE FreeAreLast' /\ OneCheck' /\ OnePendingPerSource'
  <2>1. PICK n \in Rows : n = NextId /\ FreeFrom(n - 1) /\ n \in 0 .. MaxRows
    BY <1>4, NextIdIsFree DEF EnqueueRepair, Rows
  <2>2. FreeFrom(n)'
    BY <1>4, <2>1 DEF EnqueueRepair, FreeFrom, Rows, RepairTypeOK
  <2>3. FreeAreLast'
    BY <2>1, <2>2 DEF FreeAreLast
  <2>4. OneCheck'
    BY <1>4 DEF EnqueueRepair, dispatch
  <2>5. \A r \in Pending' : r = n \/ r \in Pending
    BY <1>4, <2>1 DEF EnqueueRepair, Pending, RepairTypeOK
  <2>6. src'[n] = s /\ \A r \in Pending : r # n => src'[r] = src[r]
    BY <1>4, <2>1 DEF EnqueueRepair, Pending, RepairTypeOK
  <2>7. \A r \in Pending : src[r] # s
    BY <1>4 DEF EnqueueRepair, HasPending
  <2>8. OnePendingPerSource'
    BY <2>5, <2>6, <2>7
  <2> QED
    BY <2>3, <2>4, <2>8
<1>5. ASSUME NEW p \in Procs, Select(p) \/ AgentProposes(p) \/ GateFails(p) \/ Apply(p)
      PROVE FreeAreLast' /\ OneCheck' /\ OnePendingPerSource'
  <2>1. UNCHANGED <<status, src, checked, phase, drained>>
    BY <1>5 DEF Select, AgentProposes, GateFails, Apply, Decide, rows, tick
  <2>2. worker'[Daemon] \in Working => phase = "drain" /\ drained < MaxCap
    BY <1>5 DEF Select, MayDispatch, AgentProposes, GateFails, Apply, Decide, Goto,
                Working, RepairTypeOK
  <2> QED
    BY <1>1, <2>1, <2>2
<1>6. ASSUME NEW p \in Procs, Mark(p) \/ AgentFails(p) \/ Finalize(p)
      PROVE FreeAreLast' /\ OneCheck' /\ OnePendingPerSource'
  <2>1. claimed[p] \in Rows /\ status[claimed[p]] # "none"
    BY <1>6 DEF Mark, AgentFails, Finalize, Goto, RepairTypeOK, Working, Claims
  <2>2. PICK s \in Statuses \ {"none", "pending"} :
          status' = [status EXCEPT ![claimed[p]] = s]
    BY <1>6 DEF Mark, AgentFails, Finalize, Goto, UpdateRepair, Statuses, Terminal,
                RepairTypeOK
  <2>3. UNCHANGED <<src, checked, phase>>
    BY <1>6 DEF Mark, AgentFails, Finalize, UpdateRepair, Return, tick
  <2>4. FreeAreLast' /\ Free' = Free
    BY <2>1, <2>2, UpdateKeepsFree
  <2>5. Pending' \subseteq Pending
    BY <2>1, <2>2 DEF Pending, RepairTypeOK
  <2>6. OnePendingPerSource' /\ \A t : HasPending(t)' => HasPending(t)
    BY <2>3, <2>5 DEF HasPending
  <2>7. worker'[Daemon] \in Working => phase = "drain" /\ drained' < MaxCap
    BY <1>6 DEF Mark, AgentFails, Finalize, Goto, Return, tick, Working, RepairTypeOK
  <2> QED
    BY <2>3, <2>4, <2>6, <2>7
<1>7. ASSUME NEW p \in Procs, DispatchError(p) \/ Crash(p)
      PROVE FreeAreLast' /\ OneCheck' /\ OnePendingPerSource'
  <2>1. UNCHANGED <<status, src, drained>> /\ worker' = [worker EXCEPT ![p] = "idle"]
    BY <1>7 DEF DispatchError, Crash, Abandon, rows
  <2>2. checked' \subseteq checked /\ (checked' # {} => phase' = "health")
    BY <1>7 DEF DispatchError, Crash
  <2>3. worker'[Daemon] \in Working => phase' = "drain" /\ drained < MaxCap
    BY <1>7, <2>1 DEF DispatchError, Crash, RepairTypeOK, Working
  <2> QED
    BY <1>1, <2>1, <2>2, <2>3
<1> QED
  BY <1>2, <1>3, <1>4, <1>5, <1>6, <1>7 DEF RepairNext, TickStep, WorkStep, Fault

-----------------------------------------------------------------------------
(* Claims and PublishedOnce.  A row is claimed while it is pending and     *)
(* leaves that status for good with the next statement of whoever claimed  *)
(* it, so somebody who has it alone finds it as he left it.                *)
LEMMA ClaimsStep == RepairInv /\ RepairNext => Claims' /\ PublishedOnce'
<1> SUFFICES ASSUME RepairInv, RepairNext PROVE Claims' /\ PublishedOnce'
  OBVIOUS
<1>0. /\ RepairTypeOK /\ FreeAreLast /\ OneCheck /\ Claims /\ PublishedOnce
      /\ 0 \notin Rows
  BY DEF RepairInv, OneRepairEach, Rows
<1> USE <1>0 DEF RepairTypeOK, Claims, PublishedOnce, RowIsHis, Working, Statuses, Terminal
<1>1. ASSUME UNCHANGED <<status, published, dispatch>> PROVE Claims' /\ PublishedOnce'
  BY <1>1 DEF dispatch
<1>2. CASE Poll \/ BeginDrain \/ EndDrain
  BY <1>1, <1>2 DEF Poll, BeginDrain, EndDrain, rows
<1>3. ASSUME NEW s \in Sources, ReactNothing(s) \/ ReactFailed(s) \/ ReactError(s)
      PROVE Claims' /\ PublishedOnce'
  BY <1>1, <1>3 DEF ReactNothing, ReactFailed, ReactError, LookAt, rows
<1>4. ASSUME NEW s \in Sources, EnqueueRepair(s) PROVE Claims' /\ PublishedOnce'
  <2>1. PICK n \in Rows : n = NextId /\ status[n] = "none"
    BY <1>4, NextIdIsFree DEF EnqueueRepair, OneCheck
  <2>2. status' = [status EXCEPT ![n] = "pending"] /\ UNCHANGED <<published, dispatch>>
    BY <1>4, <2>1 DEF EnqueueRepair
  <2> QED
    BY <2>1, <2>2 DEF dispatch
<1>5. ASSUME NEW p \in Procs, Select(p) PROVE Claims' /\ PublishedOnce'
  BY <1>5 DEF Select, NextPending, Pending, rows
<1>6. ASSUME NEW p \in Procs, Mark(p) PROVE Claims' /\ PublishedOnce'
  BY <1>6 DEF Mark, Goto, UpdateRepair
<1>7. ASSUME NEW p \in Procs, AgentProposes(p) PROVE Claims' /\ PublishedOnce'
  BY <1>7 DEF AgentProposes, Goto, rows
<1>8. ASSUME NEW p \in Procs, GateFails(p) PROVE Claims' /\ PublishedOnce'
  BY <1>8 DEF GateFails, Decide, Goto, rows
<1>9. ASSUME NEW p \in Procs, Apply(p) PROVE Claims' /\ PublishedOnce'
  BY <1>9 DEF Apply, Decide, Goto, MakeArtifact, rows
<1>10. ASSUME NEW p \in Procs, AgentFails(p) PROVE Claims' /\ PublishedOnce'
  BY <1>10 DEF AgentFails, Goto, UpdateRepair, Return
<1>11. ASSUME NEW p \in Procs, Finalize(p) PROVE Claims' /\ PublishedOnce'
  BY <1>11 DEF Finalize, Goto, UpdateRepair, Return
<1>12. ASSUME NEW p \in Procs, DispatchError(p) \/ Crash(p)
       PROVE Claims' /\ PublishedOnce'
  BY <1>12 DEF DispatchError, Crash, Abandon, MakeArtifact, rows
<1> QED
  BY <1>2, <1>3, <1>4, <1>5, <1>6, <1>7, <1>8, <1>9, <1>10, <1>11, <1>12
     DEF RepairNext, TickStep, WorkStep, Fault
-----------------------------------------------------------------------------
(* RepairInv holds at any time, for any number of processes and faults.    *)
THEOREM RepairInvariant == RepairSpec => []RepairInv
<1>1. RepairInit => RepairInv
  <2> SUFFICES ASSUME RepairInit PROVE RepairInv
    OBVIOUS
  <2>1. MaxRows \in Nat /\ MaxFaults \in Nat /\ MaxCap \in Nat \ {0} /\ 0 \notin Rows
    BY BoundsAssumption DEF Rows
  <2>2. RepairTypeOK
    BY <2>1 DEF RepairInit, RepairTypeOK, Statuses, Terminal, Working
  <2>3. OnePendingPerSource /\ PublishedOnce
    BY <2>1 DEF RepairInit, OnePendingPerSource, Pending, PublishedOnce
  <2>4. FreeAreLast
    <3>1. 0 \in 0 .. MaxRows /\ FreeFrom(0)
      BY <2>1 DEF RepairInit, FreeFrom, Rows
    <3> QED
      BY <3>1 DEF FreeAreLast
  <2>5. OneCheck /\ Claims
    BY <2>1, DaemonAssumption DEF RepairInit, OneCheck, Claims, Working
  <2> QED
    BY <2>2, <2>3, <2>4, <2>5 DEF RepairInv, OneRepairEach
<1>2. RepairInv /\ [RepairNext]_repairVars => RepairInv'
  <2>1. RepairInv /\ RepairNext => RepairInv'
    BY TypeStep, QueueStep, ClaimsStep DEF RepairInv, OneRepairEach
  <2>2. RepairInv /\ UNCHANGED repairVars => RepairInv'
    BY DEF repairVars, rows, tick, dispatch, RepairInv, OneRepairEach, RepairTypeOK,
           OnePendingPerSource, PublishedOnce, FreeAreLast, FreeFrom, OneCheck, HasPending,
           Free, Pending, Claims, RowIsHis
  <2> QED
    BY <2>1, <2>2
<1> QED
  BY <1>1, <1>2, PTL DEF RepairSpec

(* repair.rs, "we ... don't double-queue", and what a final status says of *)
(* the repository: OneRepairEach, however many processes drain the queue.  *)
THEOREM RepairOnce == RepairSpec => []OneRepairEach
<1>1. RepairInv => OneRepairEach
  BY DEF RepairInv
<1> QED
  BY <1>1, RepairInvariant, PTL

(* tests/crawler_v2_repair_queue.rs:5, pending, dispatched, then a final   *)
(* status: no step takes a row another way that one process has at a time. *)
THEOREM RowsFlow == RepairSpec => StatusFlowUnshared
<1> DEFINE Flow == \A r \in Rows \ shared' : status'[r] # status[r] => Flows(r)
<1>1. RepairInv /\ [RepairNext]_repairVars => [Flow]_repairVars
  <2> SUFFICES ASSUME RepairInv, RepairNext, NEW r \in Rows, r \notin shared',
                      status'[r] # status[r]
               PROVE  Flows(r)
    OBVIOUS
  <2>1. RepairTypeOK /\ FreeAreLast /\ OneCheck /\ Claims
    BY DEF RepairInv, OneRepairEach
  <2>2. CASE \E s \in Sources : EnqueueRepair(s)
    <3>1. PICK n \in Rows : n = NextId /\ status[n] = "none"
      BY <2>1, <2>2, NextIdIsFree DEF EnqueueRepair, OneCheck
    <3>2. r = n /\ status'[r] = "pending"
      BY <2>1, <2>2, <3>1 DEF EnqueueRepair, RepairTypeOK
    <3> QED
      BY <3>1, <3>2 DEF Flows
  <2>3. ASSUME NEW p \in Procs, Mark(p) \/ AgentFails(p) \/ Finalize(p) PROVE Flows(r)
    <3>1. r = claimed[p] /\ r \notin shared
      BY <2>1, <2>3 DEF Mark, AgentFails, Finalize, Goto, UpdateRepair, RepairTypeOK
    <3>2. RowIsHis(p)
      BY <2>1, <3>1 DEF Claims
    <3>3. CASE Mark(p)
      BY <2>1, <3>1, <3>2, <3>3
         DEF Mark, Goto, UpdateRepair, RepairTypeOK, RowIsHis, Flows
    <3>4. CASE AgentFails(p) \/ Finalize(p)
      BY <2>1, <3>1, <3>2, <3>4
         DEF AgentFails, Finalize, Goto, UpdateRepair, RepairTypeOK, RowIsHis, Flows, Terminal
    <3> QED
      BY <2>3, <3>3, <3>4
  <2> QED
    BY <2>2, <2>3
       DEF RepairNext, TickStep, WorkStep, Fault, Poll, BeginDrain, EndDrain, ReactNothing,
           ReactFailed, ReactError, LookAt, Select, AgentProposes, GateFails, Apply, Decide,
           DispatchError, Crash, Abandon, rows
<1> QED
  BY <1>1, RepairInvariant, PTL DEF RepairSpec, StatusFlowUnshared
-----------------------------------------------------------------------------
(* A behaviour of the parts side by side is one of each part, of which all *)
(* but one stay as they begin; so what is proved of a part holds there.    *)
LEMMA DaemonParts == DaemonSpec => LockSpec /\ LoopSpec /\ ThrottleSpec /\ CrawlSpec
<1>1. DaemonInit => LockInit /\ LoopInit /\ ThrottleInit /\ CrawlInit
  BY DEF DaemonInit
<1>2. [DaemonNext]_daemonVars => [LockNext]_lockVars
  BY DEF DaemonNext, daemonVars, ButLoop, ButThrottle, ButCrawl
<1>3. [DaemonNext]_daemonVars => [LoopNext]_loopVars
  BY DEF DaemonNext, daemonVars, ButLock, ButThrottle, ButCrawl
<1>4. [DaemonNext]_daemonVars => [ThrottleNext]_throttleVars
  BY DEF DaemonNext, daemonVars, ButLock, ButLoop, ButCrawl
<1>5. [DaemonNext]_daemonVars => [CrawlNext]_crawlVars
  BY DEF DaemonNext, daemonVars, ButLock, ButLoop, ButThrottle
<1>6. DaemonSpec => DaemonInit /\ [][DaemonNext]_daemonVars
  BY PTL DEF DaemonSpec
<1> QED
  BY <1>1, <1>2, <1>3, <1>4, <1>5, <1>6, PTL DEF LockSpec, LoopSpec, ThrottleSpec, CrawlSpec

(* Every part of the daemon keeps its types.                               *)
THEOREM DaemonTypeCorrect == DaemonSpec => []DaemonTypeOK
<1>1. LoopInv => LoopTypeOK
  BY DEF LoopInv
<1> QED
  BY <1>1, DaemonParts, LockTypeCorrect, LoopInvariant, ThrottleTypeCorrect, CrawlTypeCorrect, PTL
     DEF DaemonTypeOK

(* The daemon's promises, each proved of its part, hold of the parts side  *)
(* by side: one holder of the PID file, a file that is not taken from a    *)
(* settled owner, ticks that stop in time, one fetch at a time and a       *)
(* polite gap on each domain, and cycles within budget that fetch no url   *)
(* twice and report what they did.                                         *)
THEOREM DaemonIsSafe ==
  DaemonSpec => /\ [](SerialStartsExclude /\ StopsInTime /\ OnePermit)
                /\ [](EachUrlOnce /\ WithinBudget /\ ReportIsTrue)
                /\ SettledOwnerIsSafe /\ PoliteGap
BY DaemonParts, MutualExclusion, SettledOwner, LoopStopsInTime, OnePermitPerDomain, PoliteInterval,
   NoUrlTwice, Budget, ReportsAreTrue, PTL
=============================================================================
