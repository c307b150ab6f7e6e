------------------------------- MODULE Daemon -------------------------------
(***************************************************************************)
(* The parts of `crawl daemon` that share no state, side by side: the PID  *)
(* lock, the tick loop, the throttle and one poll cycle of a worker.       *)
(* A behaviour belongs to one part; the others stay as they begin.         *)
(***************************************************************************)
EXTENDS PidLock, DaemonLoop, Throttle, Crawl

VARIABLE part

daemonVars == <<part, lockVars, loopVars, throttleVars, crawlVars>>

DaemonInit ==
  /\ part \in {"lock", "loop", "throttle", "crawl"}
  /\ LockInit
  /\ LoopInit /\ (part # "loop" => max_ticks = 0)
  /\ ThrottleInit /\ (part # "throttle" => dom = [t \in Tasks |-> CHOOSE d \in Domains : TRUE])
  /\ CrawlInit

\* The loop has ended, or the cycle.
Ended == \/ part = "loop" /\ loop \in {"exited", "failed"}
         \/ part = "crawl" /\ ~Running

\* What a step of one part leaves alone.
ButLock     == <<part, loopVars, throttleVars, crawlVars>>
ButLoop     == <<part, lockVars, throttleVars, crawlVars>>
ButThrottle == <<part, lockVars, loopVars, crawlVars>>
ButCrawl    == <<part, lockVars, loopVars, throttleVars>>

DaemonNext ==
  \/ part = "lock" /\ LockNext /\ UNCHANGED ButLock
  \/ part = "loop" /\ LoopNext /\ UNCHANGED ButLoop
  \/ part = "throttle" /\ ThrottleNext /\ UNCHANGED ButThrottle
  \/ part = "crawl" /\ CrawlNext /\ UNCHANGED ButCrawl
  \/ Ended /\ UNCHANGED daemonVars

\* The fairness of FairLoopSpec, FairThrottleSpec and FairCrawlSpec.
\* An action of one part and one of another are never enabled
\* in the same behaviour, so they can share a WF; so can the actions of one
\* task, of which one at a time is enabled.
Serves(t) == /\ part = "throttle" /\ (Compute(t) \/ Stamp(t) \/ Done(t))
             /\ UNCHANGED ButThrottle
Turns     == \/ part = "loop" /\ Loop /\ UNCHANGED ButLoop
             \/ part = "crawl" /\ Iterate /\ UNCHANGED ButCrawl
Passes    == \/ part = "loop" /\ Pass /\ UNCHANGED ButLoop
             \/ part = "throttle" /\ Tick /\ UNCHANGED ButThrottle
Watches   == part = "loop" /\ Watch /\ UNCHANGED ButLoop
Ends      == part = "loop" /\ TickEnds /\ UNCHANGED ButLoop

DaemonSpec == /\ DaemonInit /\ [][DaemonNext]_daemonVars
              /\ \A t \in Tasks : WF_daemonVars(Serves(t))
              /\ WF_daemonVars(Turns) /\ WF_daemonVars(Passes)
              /\ WF_daemonVars(Watches) /\ WF_daemonVars(Ends)
-----------------------------------------------------------------------------
(* Type invariant of the four parts.                                       *)
DaemonTypeOK == LockTypeOK /\ LoopTypeOK /\ ThrottleTypeOK /\ CrawlTypeOK

(* worker.rs: a poll cycle that was begun ends (CycleEnds), whatever the   *)
(* site answers and however its pages link to each other.                  *)
BegunCycleEnds == part = "crawl" => CycleEnds
=============================================================================
