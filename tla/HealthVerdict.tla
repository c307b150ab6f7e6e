---------------------------- MODULE HealthVerdict ----------------------------
(***************************************************************************)
(* crawler_v2/health.rs, decide_verdict: the verdict on a source, from its *)
(* status, its consecutive_failures, the poll cycles of the rolling window *)
(* (newest first) and the documents ever inserted.  A cycle is abstracted  *)
(* to what the verdict can tell apart:                                     *)
(*   "fresh"   nothing of the below (as a rule: a document is new)         *)
(*   "stable"  pages were fetched, none is new or changed                  *)
(*   "mixed"   the same, and more fetches failed than pages were fetched   *)
(*   "noisy"   the same, but a document is new or changed                  *)
(*   "failed"  no page was fetched and some fetch failed                   *)
(*   "shell"   the entry page was a JavaScript shell                       *)
(***************************************************************************)
EXTENDS Naturals, Sequences, FiniteSets

CONSTANTS MinCycles,    \* MIN_CYCLES_FOR_VERDICT
          Streak,       \* STRUCTURAL_FAILURE_STREAK
          DeadFailures  \* DEAD_CONSECUTIVE_FAILURES

ASSUME VerdictAssumption == {MinCycles, Streak, DeadFailures} \subseteq Nat \ {0}

Kinds    == {"fresh", "stable", "mixed", "noisy", "failed", "shell"}
Verdicts == {"shell_detected", "dead", "insufficient_data", "dormant_blocked",
             "structurally_failed", "healthy"}

ErrorDominated(k) == k \in {"mixed", "noisy", "failed"}
NonProductive(k)  == k \in {"stable", "mixed"}

ShellDetected(status, ks) ==
  status = "js_only" \/ (ks # <<>> /\ Head(ks) = "shell")

\* DORMANT_ERROR_RATE is 0.8.
Blocked(ks) ==
  5 * Cardinality({i \in DOMAIN ks : ErrorDominated(ks[i])}) >= 4 * Len(ks)

StructurallyFailed(ks, productive) ==
  Len(ks) >= Streak /\ productive /\ \A i \in 1 .. Streak : NonProductive(ks[i])

\* The first rule that applies decides.
Decide(rules) == rules[CHOOSE i \in DOMAIN rules :
                         rules[i][1] /\ \A j \in 1 .. i - 1 : ~rules[j][1]][2]

\* Mutant: too few cycles are never enough, not even for Dead.
VerdictCyclesFirst(status, failures, ks, productive) ==
  Decide(<< <<ShellDetected(status, ks), "shell_detected">>,
            <<Len(ks) < MinCycles, "insufficient_data">>,
            <<failures >= DeadFailures, "dead">>,
            <<Blocked(ks), "dormant_blocked">>,
            <<StructurallyFailed(ks, productive), "structurally_failed">>,
            <<TRUE, "healthy">> >>)

\* Mutant: a shell is only asked for after the error rate.
VerdictBlockedFirst(status, failures, ks, productive) ==
  Decide(<< <<failures >= DeadFailures, "dead">>,
            <<Len(ks) < MinCycles, "insufficient_data">>,
            <<Blocked(ks), "dormant_blocked">>,
            <<ShellDetected(status, ks), "shell_detected">>,
            <<StructurallyFailed(ks, productive), "structurally_failed">>,
            <<TRUE, "healthy">> >>)

\* decide_verdict; productive: PREVIOUSLY_PRODUCTIVE_THRESHOLD was reached.
Verdict(status, failures, ks, productive) ==
  Decide(<< <<ShellDetected(status, ks), "shell_detected">>,
            <<failures >= DeadFailures, "dead">>,
            <<Len(ks) < MinCycles, "insufficient_data">>,
            <<Blocked(ks), "dormant_blocked">>,
            <<StructurallyFailed(ks, productive), "structurally_failed">>,
            <<TRUE, "healthy">> >>)
=============================================================================
