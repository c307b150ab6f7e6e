---------------------------- MODULE RepairQueue ----------------------------
(***************************************************************************)
(* The repair_queue table (crawler_v2/store.rs) and everybody who writes   *)
(* it: the daemon's tick (daemon.rs: poll, run_health_pass with            *)
(* repair.rs react_to_verdict, drain_repairs) and `crawl repair`           *)
(* (bin/crawl.rs), which takes no PID lock.  Both drain the queue with     *)
(* repair.rs dispatch_one.  Each opens its own connection, every           *)
(* statement is its own transaction, and no statement is conditional on    *)
(* what the row holds: list_pending_repairs, the first update_repair, the  *)
(* agent, apply_recipe and the final update_repair are separate steps.     *)
(***************************************************************************)
EXTENDS Naturals, FiniteSets

CONSTANTS Sources, NoSource,
          ReviewSources,  \* those below auto_apply_tier_min: reviewed by hand
          Procs,          \* the processes that dispatch
          Daemon,         \* the one that ticks
          MaxRows,        \* bound: rows of repair_queue
          MaxCap,         \* max_repairs_per_tick
          MaxFaults       \* bound: crashes and errors

ASSUME DaemonAssumption == Daemon \in Procs
ASSUME ReviewAssumption == ReviewSources \subseteq Sources
ASSUME NoSourceAssumption == NoSource \notin Sources
ASSUME BoundsAssumption ==
  {MaxRows, MaxFaults} \subseteq Nat /\ MaxCap \in Nat \ {0}

VARIABLES
  status,     \* status[r]: repair_queue.status, "none" = no such row
  src,        \* src[r]: source_id
  queuedAt,   \* queuedAt[r]: queued_at, the health pass that queued it
  published,  \* published[r]: branches and review files made for row r
  failing,    \* sources whose verdict is StructurallyFailed
  phase,      \* of the daemon's tick: "poll", "health", "drain"
  pass,       \* the current health pass, named by the first queue_id it may use
  todo,       \* sources the health pass has not looked at yet
  checked,    \* sources has_pending_repair was false for, INSERT still to come
  drained,    \* repairs drained in this tick
  worker,     \* worker[p]: where process p is in dispatch_one
  claimed,    \* claimed[p]: the queue_id of the row p works on, 0 = none
  outcome,    \* outcome[p]: the final status p has decided on
  shared,     \* history: rows two processes have had at the same time
  faults

rows     == <<status, src, queuedAt>>
tick     == <<failing, phase, pass, todo, checked, drained>>
dispatch == <<worker, claimed, outcome, shared>>
repairVars == <<rows, published, tick, dispatch, faults>>

Rows     == 1 .. MaxRows
Terminal == {"applied", "human_review", "deadletter"}
Statuses == {"none", "pending", "dispatched"} \cup Terminal
Working  == {"mark", "agent", "apply", "finalize"}

Free          == {r \in Rows : status[r] = "none"}
Pending       == {r \in Rows : status[r] = "pending"}
HasPending(s) == \E r \in Pending : src[r] = s
NextId        == MaxRows + 1 - Cardinality(Free)     \* AUTOINCREMENT

RepairInit ==
  /\ status = [r \in Rows |-> "none"]
  /\ src = [r \in Rows |-> NoSource]
  /\ queuedAt = [r \in Rows |-> 0]
  /\ published = [r \in Rows |-> 0]
  /\ failing = {}
  /\ phase = "poll" /\ pass = 1 /\ todo = {} /\ checked = {} /\ drained = 0
  /\ worker = [p \in Procs |-> "idle"]
  /\ claimed = [p \in Procs |-> 0]
  /\ outcome = [p \in Procs |-> "none"]
  /\ shared = {}
  /\ faults = 0
-----------------------------------------------------------------------------
(* The daemon's tick: poll_all_due, run_health_pass, drain_repairs.        *)

\* The due sources get a poll cycle each, which may change any verdict.
Poll ==
  /\ phase = "poll"
  /\ failing' \in SUBSET Sources
  /\ phase' = "health" /\ todo' = Sources /\ pass' = NextId
  /\ UNCHANGED <<rows, published, checked, drained, dispatch, faults>>

LookAt(s) == /\ phase = "health" /\ s \in todo /\ checked = {}
             /\ todo' = todo \ {s}
             /\ UNCHANGED <<rows, published, failing, phase, pass,
                            drained, dispatch>>

\* Another verdict, or RepairAlreadyPending (or the bound MaxRows).
ReactNothing(s) == /\ LookAt(s)
                   /\ s \notin failing \/ HasPending(s) \/ Free = {}
                   /\ UNCHANGED <<checked, faults>>

\* A store error: the pass goes on with the next source.
ReactError(s) == /\ LookAt(s)
                 /\ faults < MaxFaults /\ faults' = faults + 1
                 /\ UNCHANGED checked

\* Mutant: has_pending_repair is not asked.
ReactUnguarded(s) == /\ LookAt(s)
                     /\ s \in failing /\ Free # {}
                     /\ checked' = {s}
                     /\ UNCHANGED faults

\* StructurallyFailed and has_pending_repair is false ...
ReactFailed(s) == /\ LookAt(s)
                  /\ s \in failing /\ ~HasPending(s) /\ Free # {}
                  /\ checked' = {s}
                  /\ UNCHANGED faults

\* ... enqueue_repair: a new row.
EnqueueRepair(s) ==
  /\ phase = "health" /\ s \in checked
  /\ status' = [status EXCEPT ![NextId] = "pending"]
  /\ src' = [src EXCEPT ![NextId] = s]
  /\ queuedAt' = [queuedAt EXCEPT ![NextId] = pass]
  /\ checked' = {}
  /\ UNCHANGED <<published, failing, phase, pass, todo, drained, dispatch, faults>>

\* Mutant: the count of drained repairs is not per tick.
BeginDrainNoReset ==
  /\ phase = "health" /\ todo = {} /\ checked = {}
  /\ phase' = "drain"
  /\ UNCHANGED <<rows, published, failing, pass, todo, checked, drained, dispatch, faults>>

BeginDrain ==
  /\ phase = "health" /\ todo = {} /\ checked = {}
  /\ phase' = "drain" /\ drained' = 0
  /\ UNCHANGED <<rows, published, failing, pass, todo, checked, dispatch, faults>>

\* NoPending, or max_repairs_per_tick: the tick is over.
EndDrain ==
  /\ phase = "drain" /\ worker[Daemon] = "idle"
  /\ Pending = {} \/ drained >= MaxCap
  /\ phase' = "poll"
  /\ UNCHANGED <<rows, published, failing, pass, todo, checked, drained, dispatch, faults>>
-----------------------------------------------------------------------------
(* dispatch_one.                                                           *)

\* The loop around dispatch_one calls it once more.
MayDispatch(p) == p = Daemon => phase = "drain" /\ drained < MaxCap

\* The first of list_pending_repairs: ORDER BY queued_at, ties left open.
NextPending(r) == r \in Pending /\ \A q \in Pending : queuedAt[r] <= queuedAt[q]

Select(p) ==
  /\ worker[p] = "idle" /\ MayDispatch(p)
  /\ \E r \in Rows :
       /\ NextPending(r)
       /\ claimed' = [claimed EXCEPT ![p] = r]
       /\ shared' = IF \E q \in Procs : claimed[q] = r THEN shared \cup {r} ELSE shared
  /\ worker' = [worker EXCEPT ![p] = "mark"]
  /\ UNCHANGED <<rows, published, tick, outcome, faults>>

Goto(p, from, to) == worker[p] = from /\ worker' = [worker EXCEPT ![p] = to] /\ UNCHANGED shared

\* update_repair(item): the whole row, whatever its status is by now.
UpdateRepair(p, s) == /\ status' = [status EXCEPT ![claimed[p]] = s]
                      /\ UNCHANGED <<src, queuedAt>>

Mark(p) == /\ Goto(p, "mark", "agent")
           /\ UpdateRepair(p, "dispatched")
           /\ UNCHANGED <<published, tick, claimed, outcome, faults>>

\* dispatch_one returned Ok: the caller counts it.
Return(p) == /\ drained' = IF p = Daemon THEN drained + 1 ELSE drained
             /\ claimed' = [claimed EXCEPT ![p] = 0]
             /\ outcome' = [outcome EXCEPT ![p] = "none"]
             /\ UNCHANGED <<failing, phase, pass, todo, checked>>

\* propose_recipe fails (timeout, exit code, malformed): mark_deadletter_in.
AgentFails(p) == /\ Goto(p, "agent", "idle")
                 /\ UpdateRepair(p, "deadletter")
                 /\ Return(p)
                 /\ UNCHANGED <<published, faults>>

AgentProposes(p) == /\ Goto(p, "agent", "apply")
                    /\ UNCHANGED <<rows, published, tick, claimed, outcome, faults>>

Decide(p, s) == /\ Goto(p, "apply", "finalize")
                /\ outcome' = [outcome EXCEPT ![p] = s]
                /\ UNCHANGED <<rows, tick, claimed, faults>>

\* dry_run_recipe does not pass the quality gate.
GateFails(p) == Decide(p, "deadletter") /\ UNCHANGED published

MakeArtifact(p) == published' = [published EXCEPT ![claimed[p]] = @ + 1]

\* apply_recipe: write_review below the tier, a branch and a commit above.
Apply(p) ==
  /\ Decide(p, IF src[claimed[p]] \in ReviewSources THEN "human_review" ELSE "applied")
  /\ MakeArtifact(p)

\* Mutant: the row goes back to the queue when its proposal is refused.
FinalizeRequeues(p) ==
  /\ Goto(p, "finalize", "idle")
  /\ UpdateRepair(p, IF outcome[p] = "deadletter" THEN "pending" ELSE outcome[p])
  /\ Return(p)
  /\ UNCHANGED <<published, faults>>

Finalize(p) == /\ Goto(p, "finalize", "idle")
               /\ UpdateRepair(p, outcome[p])
               /\ Return(p)
               /\ UNCHANGED <<published, faults>>

\* The process stops working on its row, leaving the row as it is.
Abandon(p) == /\ worker' = [worker EXCEPT ![p] = "idle"]
              /\ UNCHANGED shared
              /\ claimed' = [claimed EXCEPT ![p] = 0]
              /\ outcome' = [outcome EXCEPT ![p] = "none"]
              /\ faults < MaxFaults /\ faults' = faults + 1
              /\ UNCHANGED rows

\* dispatch_one returns Err: SQLite, the file system, or git, which may
\* already have made the branch.  The drain loop breaks; the CLI exits.
DispatchError(p) ==
  /\ worker[p] \in Working
  /\ Abandon(p)
  /\ \/ UNCHANGED published
     \/ worker[p] = "apply" /\ MakeArtifact(p)
  /\ phase' = IF p = Daemon THEN "poll" ELSE phase
  /\ UNCHANGED <<failing, pass, todo, checked, drained>>

\* The process dies; a daemon is started again and begins with a tick.
Crash(p) ==
  /\ p = Daemon \/ worker[p] \in Working
  /\ Abandon(p)
  /\ IF p = Daemon THEN phase' = "poll" /\ todo' = {} /\ checked' = {}
                   ELSE UNCHANGED <<phase, todo, checked>>
  /\ UNCHANGED <<published, failing, pass, drained>>

TickStep == \/ Poll \/ BeginDrain \/ EndDrain
            \/ \E s \in Sources : ReactNothing(s) \/ ReactFailed(s) \/ EnqueueRepair(s)

WorkStep(p) == \/ Mark(p) \/ AgentFails(p) \/ AgentProposes(p)
               \/ GateFails(p) \/ Apply(p) \/ Finalize(p)

Fault == \/ \E s \in Sources : ReactError(s)
         \/ \E p \in Procs : DispatchError(p) \/ Crash(p)

RepairNext == TickStep \/ (\E p \in Procs : Select(p) \/ WorkStep(p)) \/ Fault

RepairSpec == RepairInit /\ [][RepairNext]_repairVars

\* The tick loop goes on; a call of dispatch_one that has begun ends (the
\* agent has a timeout).  Nobody has to run the CLI.
FairRepairSpec == RepairSpec /\ WF_repairVars(TickStep \/ Select(Daemon))
                             /\ \A p \in Procs : WF_repairVars(WorkStep(p))
-----------------------------------------------------------------------------
(* Type invariant.                                                         *)
RepairTypeOK ==
  /\ status \in [Rows -> Statuses]
  /\ src \in [Rows -> Sources \cup {NoSource}]
  /\ queuedAt \in [Rows -> 0 .. MaxRows + 1]
  /\ published \in [Rows -> Nat]
  /\ failing \subseteq Sources
  /\ phase \in {"poll", "health", "drain"}
  /\ pass \in 1 .. MaxRows + 1
  /\ todo \subseteq Sources
  /\ checked \subseteq Sources
  /\ drained \in 0 .. MaxCap
  /\ worker \in [Procs -> Working \cup {"idle"}]
  /\ claimed \in [Procs -> Rows \cup {0}]
  /\ \A p \in Procs : worker[p] \in Working <=> claimed[p] \in Rows
  /\ outcome \in [Procs -> Terminal \cup {"none"}]
  /\ \A p \in Procs : worker[p] = "finalize" <=> outcome[p] \in Terminal
  /\ shared \subseteq Rows
  /\ faults \in 0 .. MaxFaults

(* repair.rs, "if the source already has a pending row, we ... don't       *)
(* double-queue": at most one pending row per source, although the check   *)
(* and the INSERT are two statements and other processes rewrite rows.     *)
OnePendingPerSource ==
  \A q, r \in Pending : src[q] = src[r] => q = r

(* A row that never was in two processes at once has its proposal          *)
(* published at most once, and its final status tells what is in the       *)
(* repository: a branch or a review file if and only if it says applied or *)
(* human_review (an abandoned row, still dispatched, may have either).     *)
PublishedOnce ==
  \A r \in Rows \ shared :
    /\ published[r] <= 1
    /\ status[r] \in {"applied", "human_review"} => published[r] = 1
    /\ status[r] \in {"none", "pending", "deadletter"} => published[r] = 0

(* What the queue promises although the check for a pending row, the       *)
(* INSERT, the claim and the final UPDATE are separate statements of       *)
(* several processes: no source is queued twice, and no repair that one    *)
(* process works on is published twice or misreported.                     *)
OneRepairEach == RepairTypeOK /\ OnePendingPerSource /\ PublishedOnce

Flows(r) == \/ status[r] = "none" /\ status'[r] = "pending"
            \/ status[r] = "pending" /\ status'[r] = "dispatched"
            \/ status[r] = "dispatched" /\ status'[r] \in Terminal

(* tests/crawler_v2_repair_queue.rs:5: "Pending -> Dispatched -> (Applied  *)
(* | HumanReview | Deadletter)".  No row goes back or skips a state.       *)
StatusFlow == [][\A r \in Rows : status'[r] # status[r] => Flows(r)]_repairVars

(* The same of the rows that never were in two processes at once: crashes, *)
(* errors and the other process's work on other rows do not disturb it.    *)
StatusFlowUnshared ==
  [][\A r \in Rows \ shared' : status'[r] # status[r] => Flows(r)]_repairVars

(* daemon.rs, "loops `dispatch_one` until the queue is empty (capped at    *)
(* `max_repairs_per_tick` ...)": what the cap leaves over is taken up in a *)
(* later tick, so every queued repair is tried.                            *)
EveryRepairIsTried == \A r \in Rows : status[r] = "pending" ~> status[r] # "pending"

(* repair.rs:198, dispatch_one, "7. Persist final state on the row": a     *)
(* dispatched row gets its final status unless a process dies or a call of *)
(* it fails, also if two processes work on it and one sets it back.        *)
FinishedUnlessFault ==
  \A r \in Rows :
    status[r] = "dispatched" ~> (status[r] \in Terminal \/ faults > 0)

(* The queue drains: every queued repair is taken up, and unless there is  *)
(* a fault every one that is taken up gets its final status.               *)
RepairsProgress == EveryRepairIsTried /\ FinishedUnlessFault
=============================================================================
