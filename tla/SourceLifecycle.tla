--------------------------- MODULE SourceLifecycle ---------------------------
(***************************************************************************)
(* The life of one row of `sources`: the daemon's tick polls it when it is *)
(* due (pool.rs poll_all_due), then judges it (daemon.rs run_health_pass,  *)
(* repair.rs react_to_verdict); `crawl poll --source` polls it whenever    *)
(* somebody says so, from another process and whatever its status is.  The *)
(* poll itself is a step here (module Crawl is its inside); the statements *)
(* after its loop (worker.rs) are steps of their own, each a transaction.  *)
(*                                                                         *)
(* Sources do not read each other's rows, so one is enough.  A tick of the *)
(* daemon comes once per unit of the clock; polls and health passes are    *)
(* short against it, so the clock stands still during them.                *)
(***************************************************************************)
EXTENDS HealthVerdict, SequencesExt

CONSTANTS Pollers, Daemon,  \* the daemon and the `crawl poll` processes
          Intervals,        \* poll_interval_hours, by tier
          Window,           \* health_window
          MaxCycles,        \* bound: cycles in the window that the CLI adds to
          MaxFaults         \* bound: failed calls and crashes

ASSUME PollersAssumption == Daemon \in Pollers
ASSUME TimesAssumption   == Intervals \subseteq Nat \ {0} /\ Window \in Nat
ASSUME BoundsAssumption  == MaxCycles \in Nat /\ MaxFaults \in Nat

VARIABLES
  site,       \* what a poll of this source can come to (never changes)
  interval,   \* poll_interval_hours (never changes)
  status,     \* sources.status
  failures,   \* sources.consecutive_failures, DeadFailures = that or more
  due_in,     \* next_poll_at - now, 0 = in the past
  cycles,     \* poll_cycles of the window, newest first
  productive, \* enough docs_inserted over all poll_cycles
  phase,      \* of the tick: "poll", "list", "evaluate", "react", "sleep"
  seen,       \* the source as the health pass has read it
  verdict,    \* the last verdict
  pc, kind,   \* pc[p], kind[p]: where p is in its poll, what came of it
  overlap,    \* history: a CLI poll has run during a tick or another poll
  faults

rigid  == <<site, interval>>
row    == <<status, failures, due_in>>
table  == <<cycles, productive>>
health == <<phase, seen, verdict>>
poll   == <<pc, kind>>
vars   == <<rigid, row, table, health, poll, overlap, faults>>

Unread   == [status |-> "active", failures |-> 0]   \* seen, outside the pass
Writing  == {"shell", "attempt", "next", "record"}
KindsOf(cs) == [i \in DOMAIN cs |-> cs[i].kind]

Init ==
  /\ site \in {Kinds, {"failed"}, {"stable"}}
  /\ interval \in Intervals
  /\ status = "active" /\ failures = 0 /\ due_in = 0   \* due at once
  /\ cycles = <<>> /\ productive \in BOOLEAN
  /\ phase = "sleep" /\ verdict = "insufficient_data"
  /\ seen = Unread
  /\ pc = [p \in Pollers |-> "idle"] /\ kind = [p \in Pollers |-> "fresh"]
  /\ overlap = FALSE /\ faults = 0

AllIdle == \A p \in Pollers : pc[p] = "idle"

\* The cycles are in the order of their age: what leaves the window is at
\* the end.
Older(cs) == LET kept == {i \in DOMAIN cs : cs[i].age < Window}
             IN [i \in 1 .. Cardinality(kept) |-> [cs[i] EXCEPT !.age = @ + 1]]

\* interval.tick(): the clock has moved on, the daemon begins a tick.
BeginTick ==
  /\ phase = "sleep" /\ AllIdle
  /\ phase' = "poll"
  /\ due_in' = IF due_in > 0 THEN due_in - 1 ELSE 0
  /\ cycles' = Older(cycles)
  /\ UNCHANGED <<rigid, status, failures, productive, seen, verdict, poll, overlap, faults>>
-----------------------------------------------------------------------------
(* A poll.                                                                 *)

\* Mutant: next_poll_at < now.
DueStrictly == status = "active" /\ due_in < 0

\* list_sources_due.
Due == status = "active" /\ due_in <= 0

BeginPoll == /\ phase = "poll" /\ pc[Daemon] = "idle" /\ Due
             /\ pc' = [pc EXCEPT ![Daemon] = "crawl"]
             /\ UNCHANGED <<rigid, row, table, health, kind, overlap, faults>>

NothingDue == /\ phase = "poll" /\ pc[Daemon] = "idle" /\ ~Due
              /\ phase' = "list"
              /\ UNCHANGED <<rigid, row, table, seen, verdict, poll, overlap, faults>>

\* crawl poll --source: poll_source does not ask for the status.
CliPoll(p) == /\ p # Daemon /\ pc[p] = "idle" /\ Len(cycles) < MaxCycles
              /\ pc' = [pc EXCEPT ![p] = "crawl"]
              /\ overlap' = (overlap \/ phase # "sleep" \/ ~AllIdle)
              /\ UNCHANGED <<rigid, row, table, health, kind, faults>>

Goto(p, from, to) == pc[p] = from /\ pc' = [pc EXCEPT ![p] = to]

CrawlEnds(p) == \E k \in site :
  /\ Goto(p, "crawl", IF k = "shell" THEN "shell" ELSE "attempt")
  /\ kind' = [kind EXCEPT ![p] = k]
  /\ UNCHANGED <<rigid, row, table, health, overlap, faults>>

\* mark_source_status(JsOnly).
MarkShell(p) == /\ Goto(p, "shell", "attempt")
                /\ status' = "js_only"
                /\ UNCHANGED <<rigid, failures, due_in, table, health, kind, overlap, faults>>

\* Mutant: any error makes the attempt a failure.
SuccessIfNoError(k) == ~ErrorDominated(k)

\* errors == 0 || html_fetched + binaries_fetched > 0.
Success(k) == k # "failed"

\* mark_source_fetch_attempt (and mark_source_changed, which nobody reads).
MarkAttempt(p) ==
  /\ Goto(p, "attempt", "next")
  /\ failures' = CASE Success(kind[p]) -> 0
                   [] ~Success(kind[p]) /\ failures < DeadFailures -> failures + 1
                   [] OTHER -> failures
  /\ UNCHANGED <<rigid, status, due_in, table, health, kind, overlap, faults>>

SetNextPoll(p) ==
  /\ Goto(p, "next", "record")
  /\ due_in' = interval
  /\ UNCHANGED <<rigid, status, failures, table, health, kind, overlap, faults>>

\* The worker is done; the daemon's tick goes on to the health pass.
PollOver(p) == phase' = IF p = Daemon THEN "list" ELSE phase

\* The window is ordered by started_at: after an overlap the cycle recorded
\* last may be the one that started first.
Places == {1} \cup IF overlap /\ cycles # <<>> /\ Head(cycles).age = 0 THEN {2} ELSE {}

\* insert_poll_cycle; a fresh cycle may have inserted enough documents.
Record(p) ==
  /\ Goto(p, "record", "idle") /\ kind' = [kind EXCEPT ![p] = "fresh"]
  /\ \E i \in Places : cycles' = InsertAt(cycles, i, [kind |-> kind[p], age |-> 0])
  /\ productive' \in IF kind[p] \in {"fresh", "noisy"} THEN {productive, TRUE} ELSE {productive}
  /\ PollOver(p)
  /\ UNCHANGED <<rigid, row, seen, verdict, overlap, faults>>

\* A store error: `?` leaves poll, what follows is not written.
PollError(p) ==
  /\ pc[p] \in Writing \cup {"crawl"}
  /\ pc' = [pc EXCEPT ![p] = "idle"] /\ kind' = [kind EXCEPT ![p] = "fresh"]
  /\ PollOver(p)
  /\ faults < MaxFaults /\ faults' = faults + 1
  /\ UNCHANGED <<rigid, row, table, seen, verdict, overlap>>

\* The daemon dies and is started again: its first tick is due at once.
Crash ==
  /\ pc' = [pc EXCEPT ![Daemon] = "idle"] /\ kind' = [kind EXCEPT ![Daemon] = "fresh"]
  /\ phase' = "poll" /\ seen' = Unread
  /\ overlap' = (overlap \/ \E p \in Pollers \ {Daemon} : pc[p] # "idle")
  /\ faults < MaxFaults /\ faults' = faults + 1
  /\ UNCHANGED <<rigid, row, table, verdict>>
-----------------------------------------------------------------------------
(* The health pass.                                                        *)

\* list_sources, filtered to active and js_only.
List ==
  /\ phase = "list"
  /\ IF status \in {"active", "js_only"}
     THEN phase' = "evaluate" /\ seen' = [status |-> status, failures |-> failures]
     ELSE phase' = "sleep" /\ UNCHANGED seen
  /\ UNCHANGED <<rigid, row, table, verdict, poll, overlap, faults>>

\* evaluate_health reads poll_cycles; upsert_source_health.
Evaluate ==
  /\ phase = "evaluate"
  /\ verdict' = Verdict(seen.status, seen.failures, KindsOf(cycles), productive)
  /\ phase' = IF verdict' \in {"healthy", "insufficient_data"} THEN "sleep" ELSE "react"
  /\ seen' = Unread
  /\ UNCHANGED <<rigid, row, table, poll, overlap, faults>>

\* react_to_verdict (a repair of a structural failure: module RepairQueue).
React ==
  /\ phase = "react"
  /\ status' = CASE verdict = "dead"            -> "dead"
                 [] verdict = "dormant_blocked" -> "dormant"
                 [] OTHER                       -> status
  /\ phase' = "sleep"
  /\ UNCHANGED <<rigid, failures, due_in, table, seen, verdict, poll, overlap, faults>>

\* A store error: the pass goes on with the next source.
HealthError ==
  /\ phase \in {"list", "evaluate", "react"}
  /\ phase' = "sleep" /\ seen' = Unread
  /\ faults < MaxFaults /\ faults' = faults + 1
  /\ UNCHANGED <<rigid, row, table, verdict, poll, overlap>>

WorkStep(p) == CrawlEnds(p) \/ MarkShell(p) \/ MarkAttempt(p) \/ SetNextPoll(p) \/ Record(p)
TickStep    == BeginTick \/ BeginPoll \/ NothingDue \/ List \/ Evaluate \/ React

Next == \/ TickStep \/ (\E p \in Pollers : CliPoll(p) \/ WorkStep(p))
        \/ (\E p \in Pollers : PollError(p)) \/ Crash \/ HealthError

Spec == Init /\ [][Next]_vars

\* The daemon ticks and polls end; nobody has to run the CLI.
FairSpec == Spec /\ WF_vars(TickStep) /\ \A p \in Pollers : WF_vars(WorkStep(p))
-----------------------------------------------------------------------------
(* Type invariant; the daemon is in a poll in that phase of its tick only. *)
TypeOK ==
  /\ site \subseteq Kinds /\ interval \in Intervals
  /\ status \in {"active", "js_only", "dormant", "dead"}
  /\ failures \in 0 .. DeadFailures
  /\ due_in \in 0 .. interval
  /\ cycles \in Seq([kind : Kinds, age : 0 .. Window])
  /\ productive \in BOOLEAN
  /\ phase \in {"poll", "list", "evaluate", "react", "sleep"}
  /\ seen \in [status : {"active", "js_only"}, failures : 0 .. DeadFailures]
  /\ verdict \in Verdicts
  /\ pc \in [Pollers -> Writing \cup {"idle", "crawl"}] /\ kind \in [Pollers -> Kinds]
  /\ pc[Daemon] # "idle" => phase = "poll"
  /\ overlap \in BOOLEAN /\ faults \in 0 .. MaxFaults

(* A source found to be a JavaScript shell stays js_only: the health pass, *)
(* which judges js_only sources too and writes the status without looking, *)
(* does not overrule it (unless the CLI polls in the middle of a tick).    *)
ShellSticks ==
  [][status = "js_only" /\ ~overlap' => status' = "js_only"]_vars

\* The last n polls failed, and no more.
IsFailedRun(cs, n) ==
  /\ \A i \in 1 .. n : cs[i].kind = "failed"
  /\ n < Len(cs) => cs[n + 1].kind # "failed"
FailedRun(cs) == CHOOSE n \in 0 .. Len(cs) : IsFailedRun(cs, n)

(* consecutive_failures and poll_cycles are two records of the same run of *)
(* failures, written by different statements, and Dead reads the one and   *)
(* DormantBlocked the other: without faults and overlapping polls they     *)
(* agree, whoever polls and whatever has left the window.                  *)
FailuresAgree ==
  ~overlap /\ faults = 0 /\ AllIdle /\ failures < DeadFailures =>
    LET n == FailedRun(cycles)
    IN IF n < Len(cycles) THEN failures = n ELSE failures >= n

(* The row of a source is sound at any time: its types, the daemon in a    *)
(* poll in one phase of its tick only, and its two records of failures.    *)
RowIsSound == TypeOK /\ FailuresAgree

(* A site that answers nothing but errors is retired, for every polling    *)
(* interval: by its error rate where the window holds enough cycles, by    *)
(* consecutive_failures where it does not; also with crashes and errors.   *)
BlockedIsRetired ==
  site = {"failed"} => <>(status \in {"dormant", "dead"})

(* An active source is polled again and again: no crash or store error     *)
(* between the statements of a poll loses it.                              *)
PolledWhileActive ==
  []<>(status # "active" \/ \E p \in Pollers : pc[p] = "crawl")

(* health.rs:35-36: "`docs_unchanged > 0` is fine - that's the signature   *)
(* of a fully-crawled, stable site."  A site of which every poll succeeds  *)
(* and finds its documents unchanged is not called structurally failed.    *)
StableIsHealthy == site = {"stable"} => verdict # "structurally_failed"
=============================================================================
