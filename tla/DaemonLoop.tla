----------------------------- MODULE DaemonLoop -----------------------------
(***************************************************************************)
(* crawler_v2/daemon.rs, run_until and spawn_signal_watcher: the loop task *)
(* awaits a tokio interval, loads the stop flag, runs the tick; a watcher  *)
(* task waits for SIGINT or SIGTERM and sets the flag.  The interval has   *)
(* tokio's default behaviour for missed ticks, Burst: every deadline that  *)
(* passed during a long tick fires at once, one after the other.           *)
(*                                                                         *)
(* Time is relative to the next deadline of the interval.  Loading the     *)
(* flag and starting the tick take no time, but the watcher runs on        *)
(* another thread and may set the flag in between.                         *)
(***************************************************************************)
EXTENDS Integers

CONSTANTS Interval,   \* tick_interval, in clock units
          MaxLate,    \* bound: how far a tick runs past the next deadline
          MaxTicks    \* bound: of the n in StopCondition::MaxTicks(n)

ASSUME IntervalAssumption == Interval \in Nat \ {0}
ASSUME LoopBoundsAssumption == MaxLate \in Nat /\ MaxTicks \in Nat

VARIABLES loop,       \* the loop: "await", "load", "start", "tick", "exited", "failed"
          max_ticks,  \* the stop condition: MaxTicks(n), or 0 for Signal
          late,       \* now - the next deadline
          index,      \* tick_index (not counted when it decides nothing)
          signalled,  \* SIGINT or SIGTERM has been delivered
          stop,       \* the AtomicBool
          after       \* ticks started with the flag up (2: two or more)

loopVars == <<loop, max_ticks, late, index, signalled, stop, after>>

LoopInit == /\ loop = "await" /\ late = 0   \* the first tick fires at once
            /\ max_ticks \in 0 .. MaxTicks
            /\ index = 0
            /\ signalled = FALSE /\ stop = FALSE
            /\ after = 0

\* The operator or the supervisor asks the daemon to stop; handlers are
\* installed under StopCondition::Signal only.
Signal == /\ max_ticks = 0 /\ ~signalled
          /\ signalled' = TRUE
          /\ UNCHANGED <<max_ticks, loop, late, index, stop, after>>

Watch == /\ signalled /\ ~stop
         /\ stop' = TRUE
         /\ UNCHANGED <<max_ticks, loop, late, index, signalled, after>>

\* interval.tick() returns at its deadline; the next one is a period later.
Fire == /\ loop = "await" /\ late >= 0
        /\ loop' = "load" /\ late' = late - Interval
        /\ UNCHANGED <<max_ticks, index, signalled, stop, after>>

\* Mutant: the flag is not looked at while the loop is behind.
LoadUnlessBehind == /\ loop = "load"
                    /\ loop' = IF stop /\ late < 0 THEN "exited" ELSE "start"
                    /\ UNCHANGED <<max_ticks, late, index, signalled, stop, after>>

Load == /\ loop = "load"
        /\ loop' = IF stop THEN "exited" ELSE "start"
        /\ UNCHANGED <<max_ticks, late, index, signalled, stop, after>>

\* handler.tick(tick_index).
StartTick == /\ loop = "start"
             /\ loop' = "tick"
             /\ after' = IF stop /\ after < 2 THEN after + 1 ELSE after
             /\ UNCHANGED <<max_ticks, late, index, signalled, stop>>

\* The tick is done; under MaxTicks(n) the n-th ends the loop.
TickEnds == /\ loop = "tick"
            /\ index' = IF max_ticks = 0 THEN 0 ELSE index + 1
            /\ loop' = IF max_ticks # 0 /\ index' >= max_ticks THEN "exited" ELSE "await"
            /\ UNCHANGED <<max_ticks, late, signalled, stop, after>>

\* A handler may return Err: the loop ends with it.
TickFails == /\ loop = "tick"
             /\ loop' = "failed"
             /\ UNCHANGED <<max_ticks, late, index, signalled, stop, after>>

\* Time passes: until the deadline in the await, and during a tick.
Pass == /\ \/ loop = "await" /\ late < 0
           \/ loop = "tick" /\ late < MaxLate
        /\ late' = late + 1
        /\ UNCHANGED <<max_ticks, loop, index, signalled, stop, after>>

Loop == Fire \/ Load \/ StartTick

LoopNext == Signal \/ Watch \/ Loop \/ TickEnds \/ TickFails \/ Pass

LoopSpec == LoopInit /\ [][LoopNext]_loopVars

\* Both tasks are scheduled, time passes, and a tick ends (fetches and
\* agents have timeouts, cycles have budgets).
FairLoopSpec == /\ LoopSpec
                /\ WF_loopVars(Watch) /\ WF_loopVars(Loop)
                /\ WF_loopVars(Pass) /\ WF_loopVars(TickEnds)
-----------------------------------------------------------------------------
(* Type invariant.                                                         *)
LoopTypeOK == /\ loop \in {"await", "load", "start", "tick", "exited", "failed"}
              /\ max_ticks \in 0 .. MaxTicks
              /\ late \in -Interval .. MaxLate
              /\ index \in 0 .. MaxTicks
              /\ signalled \in BOOLEAN /\ stop \in BOOLEAN
              /\ after \in 0 .. 2

(* daemon.rs invariant 3: once the stop flag is up at most one more tick   *)
(* starts, also when several ticks are due at once.                        *)
AtMostOneTickAfterStop == after <= 1

(* daemon.rs: MaxTicks(n) runs exactly n ticks then exits cleanly.         *)
ExactlyMaxTicks == max_ticks # 0 /\ loop = "exited" => index = max_ticks

(* The daemon runs no tick too many: at most one after a signal's flag is  *)
(* up, and n in all under MaxTicks(n).                                     *)
StopsInTime == AtMostOneTickAfterStop /\ ExactlyMaxTicks

(* A signal ends the daemon, whenever it comes and however far the loop is *)
(* behind (unless the handler fails, which ends it as well).               *)
SignalStopsDaemon == signalled ~> loop \in {"exited", "failed"}
=============================================================================
