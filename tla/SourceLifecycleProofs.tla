----------------------- MODULE SourceLifecycleProofs -----------------------
(***************************************************************************)
(* That a source found to be a JavaScript shell stays js_only.  The health *)
(* pass writes a status without looking at the row, so the argument is     *)
(* that outside an overlap what it has seen is still the status, and that  *)
(* js_only is judged "shell_detected", which it does not react to.         *)
(*                                                                         *)
(* That the row is sound: a poll counts its failure before it records its  *)
(* cycle, so between the two the failures agree with the cycles as they    *)
(* will be.                                                                *)
(***************************************************************************)
EXTENDS SourceLifecycle, FiniteSetTheorems, TLAPS

(* The status js_only alone decides the verdict: it is the first rule.     *)
LEMMA ShellFirst ==
  ASSUME NEW f, NEW ks, NEW pr
  PROVE  Verdict("js_only", f, ks, pr) = "shell_detected"
<1> DEFINE R == << <<ShellDetected("js_only", ks), "shell_detected">>,
                   <<f >= DeadFailures, "dead">>,
                   <<Len(ks) < MinCycles, "insufficient_data">>,
                   <<Blocked(ks), "dormant_blocked">>,
                   <<StructurallyFailed(ks, pr), "structurally_failed">>,
                   <<TRUE, "healthy">> >>
           First(i) == R[i][1] /\ \A j \in 1 .. i - 1 : ~R[j][1]
<1>1. DOMAIN R = 1 .. 6
  OBVIOUS
<1>2. R[1][1] /\ R[1][2] = "shell_detected"
  BY DEF ShellDetected
<1> HIDE DEF R
<1>3. \A i \in DOMAIN R : First(i) => i = 1
  BY <1>1, <1>2
<1>4. First(1)
  BY <1>2
<1>5. (CHOOSE i \in DOMAIN R : First(i)) = 1
  BY <1>1, <1>3, <1>4
<1>6. Verdict("js_only", f, ks, pr) = R[CHOOSE i \in DOMAIN R : First(i)][2]
  BY DEF Verdict, Decide, R
<1> QED
  BY <1>2, <1>5, <1>6

(* Outside an overlap only the daemon polls during a tick, and in the poll *)
(* phase only; what the health pass has seen is the status.                *)
OnlyDaemon  == /\ pc = [p \in Pollers |-> pc[p]]
               /\ pc[Daemon] # "idle" => phase = "poll"
               /\ ~overlap /\ phase # "sleep" =>
                    \A p \in Pollers \ {Daemon} : pc[p] = "idle"
SeenIsRow   == ~overlap /\ phase = "evaluate" => seen.status = status
NoReaction  == ~overlap /\ phase = "react" /\ status = "js_only" =>
                 verdict = "shell_detected"
ShellInv    == overlap \in BOOLEAN /\ OnlyDaemon /\ SeenIsRow /\ NoReaction

LEMMA ShellInit == Init => ShellInv
BY PollersAssumption DEF Init, ShellInv, OnlyDaemon, SeenIsRow, NoReaction

(* A status is written by a worker that found a shell, or by React.        *)
LEMMA StatusStep ==
  ASSUME [Next]_vars, ~(\E p \in Pollers : MarkShell(p)), ~React
  PROVE  status' = status
BY DEF Next, vars, row, rigid, TickStep, WorkStep, BeginTick, BeginPoll, NothingDue, CliPoll,
       CrawlEnds, MarkAttempt, SetNextPoll, Record, PollError, Crash, List, Evaluate,
       HealthError

LEMMA ShellStep == ShellInv /\ [Next]_vars => ShellInv'
<1> SUFFICES ASSUME ShellInv, [Next]_vars PROVE ShellInv'
  OBVIOUS
<1> USE PollersAssumption
<1> USE DEF ShellInv, OnlyDaemon, SeenIsRow, NoReaction
<1>1. CASE BeginTick
  BY <1>1 DEF BeginTick, poll, AllIdle
<1>2. CASE BeginPoll
  BY <1>2 DEF BeginPoll, row, health
<1>3. CASE NothingDue
  BY <1>3 DEF NothingDue, row, poll
<1>4. ASSUME NEW p \in Pollers, CliPoll(p) PROVE ShellInv'
  BY <1>4 DEF CliPoll, row, health
<1>5. ASSUME NEW p \in Pollers, CrawlEnds(p) PROVE ShellInv'
  BY <1>5 DEF CrawlEnds, Goto, row, health
<1>6. ASSUME NEW p \in Pollers, MarkShell(p) PROVE ShellInv'
  BY <1>6 DEF MarkShell, Goto, health
<1>7. ASSUME NEW p \in Pollers, MarkAttempt(p) PROVE ShellInv'
  BY <1>7 DEF MarkAttempt, Goto, health
<1>8. ASSUME NEW p \in Pollers, SetNextPoll(p) PROVE ShellInv'
  BY <1>8 DEF SetNextPoll, Goto, health
<1>9. ASSUME NEW p \in Pollers, Record(p) PROVE ShellInv'
  BY <1>9 DEF Record, Goto, PollOver, row
<1>10. ASSUME NEW p \in Pollers, PollError(p) PROVE ShellInv'
  BY <1>10 DEF PollError, PollOver, Writing, row
<1>11. CASE Crash
  BY <1>11 DEF Crash, row
<1>12. CASE List
  BY <1>12 DEF List, row, poll
<1>13. CASE Evaluate
  BY <1>13, ShellFirst DEF Evaluate, row, poll
<1>14. CASE React
  BY <1>14 DEF React, poll
<1>15. CASE HealthError
  BY <1>15 DEF HealthError, row, poll
<1>16. CASE UNCHANGED vars
  BY <1>16 DEF vars, row, health, poll
<1> QED
  BY <1>1, <1>2, <1>3, <1>4, <1>5, <1>6, <1>7, <1>8, <1>9, <1>10, <1>11, <1>12, <1>13,
     <1>14, <1>15, <1>16 DEF Next, TickStep, WorkStep

(* A source found to be a shell stays js_only, whoever polls it and        *)
(* whatever crashes, unless the CLI polls in the middle of a tick.         *)
THEOREM ShellIsKept == Spec => ShellSticks
<1>1. ShellInv /\ [Next]_vars =>
        [status = "js_only" /\ ~overlap' => status' = "js_only"]_vars
  <2> SUFFICES ASSUME ShellInv, [Next]_vars, status = "js_only", ~overlap'
               PROVE  status' = "js_only"
    OBVIOUS
  <2>1. CASE \E p \in Pollers : MarkShell(p)
    BY <2>1 DEF MarkShell
  <2>2. CASE React
    BY <2>2 DEF React, ShellInv, NoReaction
  <2> QED
    BY <2>1, <2>2, StatusStep
<1> QED
  BY <1>1, ShellInit, ShellStep, PTL DEF Spec, ShellSticks

(***************************************************************************)
(* Failures and cycles.                                                    *)
(***************************************************************************)
Cycle == [kind : Kinds, age : 0 .. Window]
InOrder(cs) == \A i, j \in DOMAIN cs : i <= j => cs[i].age <= cs[j].age

AgreesWith(f, cs) ==
  \E n \in 0 .. Len(cs) :
    /\ IsFailedRun(cs, n)
    /\ f < DeadFailures => IF n < Len(cs) THEN f = n ELSE f >= n

LEMMA CycleFields == \A c \in Cycle : c.age \in Nat /\ c.age <= Window /\ c.kind \in Kinds
<1>1. Window \in Nat
  BY TimesAssumption
<1>2. ASSUME NEW c \in Cycle PROVE c.age \in 0 .. Window /\ c.kind \in Kinds
  BY DEF Cycle
<1> QED
  BY <1>1, <1>2

LEMMA RunIsUnique ==
  ASSUME NEW cs \in Seq(Cycle), NEW m \in 0 .. Len(cs), NEW n \in 0 .. Len(cs),
         IsFailedRun(cs, m), IsFailedRun(cs, n)
  PROVE  m = n
<1>1. ASSUME NEW a \in 0 .. Len(cs), NEW b \in 0 .. Len(cs), a < b,
             IsFailedRun(cs, a), IsFailedRun(cs, b)
      PROVE  FALSE
  <2>1. a + 1 \in 1 .. b /\ a < Len(cs)
    BY <1>1
  <2> QED
    BY <1>1, <2>1 DEF IsFailedRun
<1> QED
  BY <1>1

LEMMA RunIsFound ==
  ASSUME NEW cs \in Seq(Cycle), NEW n \in 0 .. Len(cs), IsFailedRun(cs, n)
  PROVE  FailedRun(cs) = n
BY RunIsUnique DEF FailedRun

(* A poll that is done: its cycle comes first.                             *)
LEMMA AttemptAgrees ==
  ASSUME NEW cs \in Seq(Cycle), NEW c \in Cycle, NEW f \in 0 .. DeadFailures,
         AgreesWith(f, cs),
         NEW g, g = CASE Success(c.kind) -> 0
                    [] ~Success(c.kind) /\ f < DeadFailures -> f + 1
                    [] OTHER -> f
  PROVE  AgreesWith(g, <<c>> \o cs) /\ g \in 0 .. DeadFailures
<1> DEFINE longer == <<c>> \o cs
<1>1. DeadFailures \in Nat \ {0}
  BY VerdictAssumption
<1>2. PICK n \in 0 .. Len(cs) :
        /\ IsFailedRun(cs, n)
        /\ f < DeadFailures => IF n < Len(cs) THEN f = n ELSE f >= n
  BY DEF AgreesWith
<1>3. /\ longer \in Seq(Cycle) /\ Len(longer) = Len(cs) + 1 /\ longer[1] = c
      /\ \A i \in 1 .. Len(cs) : longer[i + 1] = cs[i]
  OBVIOUS
<1> HIDE DEF longer
<1>4. CASE Success(c.kind)
  <2>1. g = 0 /\ 0 \in 0 .. Len(longer) /\ 0 < Len(longer)
    <3>1. g = 0
      BY <1>4 DEF Success
    <3>2. Len(longer) \in Nat /\ Len(longer) > 0
      BY <1>3
    <3> QED
      BY <3>1, <3>2
  <2>2. longer[0 + 1].kind # "failed"
    BY <1>3, <1>4 DEF Success
  <2>3. IsFailedRun(longer, 0)
    BY <2>2 DEF IsFailedRun
  <2> QED
    BY <1>1, <2>1, <2>3 DEF AgreesWith, longer
<1>5. CASE ~Success(c.kind)
  <2>1. IsFailedRun(longer, n + 1)
    <3>1. ASSUME NEW i \in 1 .. n + 1 PROVE longer[i].kind = "failed"
      <4>1. CASE i = 1
        BY <1>3, <1>5, <4>1 DEF Success
      <4>2. CASE i # 1
        <5>1. i - 1 \in 1 .. n /\ i - 1 \in 1 .. Len(cs) /\ (i - 1) + 1 = i
          BY <4>2
        <5>2. longer[i] = cs[i - 1]
          BY <1>3, <5>1
        <5> QED
          BY <1>2, <5>1, <5>2 DEF IsFailedRun
      <4> QED
        BY <4>1, <4>2
    <3>2. n + 1 < Len(longer) => longer[(n + 1) + 1].kind # "failed"
      BY <1>2, <1>3 DEF IsFailedRun
    <3> QED
      BY <3>1, <3>2 DEF IsFailedRun
  <2>2. n + 1 \in 0 .. Len(longer) /\ (n + 1 < Len(longer) <=> n < Len(cs))
    BY <1>3
  <2>3. g = IF f < DeadFailures THEN f + 1 ELSE f
    BY <1>5
  <2> QED
    BY <1>1, <1>2, <2>1, <2>2, <2>3 DEF AgreesWith, longer
<1> QED
  BY <1>4, <1>5

(* What has left the window, of cycles in the order of their age, is a tail.*)
LEMMA OlderIsPrefix ==
  ASSUME NEW cs \in Seq(Cycle), InOrder(cs)
  PROVE  /\ Older(cs) \in Seq(Cycle) /\ InOrder(Older(cs)) /\ Len(Older(cs)) <= Len(cs)
         /\ \A i \in 1 .. Len(Older(cs)) : Older(cs)[i].kind = cs[i].kind
<1> DEFINE kept == {i \in DOMAIN cs : cs[i].age < Window}
           m == Cardinality(kept)
<1>1. Len(cs) \in Nat /\ DOMAIN cs = 1 .. Len(cs) /\ Window \in Nat
  BY TimesAssumption
<1>2. /\ IsFiniteSet(1 .. Len(cs)) /\ Cardinality(1 .. Len(cs)) = Len(cs)
  BY <1>1, FS_Interval
<1>3. IsFiniteSet(kept) /\ m <= Len(cs) /\ m \in Nat
  BY <1>1, <1>2, FS_Subset, FS_CardinalityType
<1>4. ASSUME NEW i \in 1 .. m PROVE i \in kept
  <2> SUFFICES ASSUME i \notin kept PROVE FALSE
    OBVIOUS
  <2>1. i \in DOMAIN cs /\ ~(cs[i].age < Window)
    <3>1. i \in DOMAIN cs
      BY <1>1, <1>3
    <3> QED
      BY <3>1
  <2>2. kept \subseteq 1 .. i - 1
    <3> SUFFICES ASSUME NEW j \in kept, j >= i PROVE FALSE
      BY <1>1
    <3>1. cs[i].age <= cs[j].age /\ cs[j].age < Window
      BY <2>1 DEF InOrder
    <3>2. cs[i].age \in Nat /\ cs[j].age \in Nat
      <4>1. cs[i] \in Cycle /\ cs[j] \in Cycle
        BY <1>1, <2>1
      <4> QED
        BY <4>1, CycleFields
    <3> QED
      BY <1>1, <2>1, <3>1, <3>2
  <2>3. IsFiniteSet(1 .. i - 1) /\ Cardinality(1 .. i - 1) = i - 1
    <3>1. i \in Int /\ i >= 1 /\ i - 1 \in Int
      BY <1>3
    <3>2. IsFiniteSet(1 .. i - 1) /\ Cardinality(1 .. i - 1) = IF 1 > i - 1 THEN 0 ELSE (i - 1) - 1 + 1
      BY <3>1, FS_Interval
    <3> QED
      BY <3>1, <3>2
  <2>4. m <= i - 1
    BY <2>2, <2>3, FS_Subset
  <2> QED
    BY <1>3, <2>4
<1> HIDE DEF kept, m
<1> DEFINE aged == [i \in 1 .. m |-> [cs[i] EXCEPT !.age = @ + 1]]
<1>5. Older(cs) = aged
  BY DEF Older, kept, m
<1>6. ASSUME NEW i \in 1 .. m
      PROVE  aged[i] \in Cycle /\ aged[i].kind = cs[i].kind /\ aged[i].age = cs[i].age + 1
  <2>1. i \in DOMAIN cs /\ cs[i] \in Cycle /\ cs[i].age < Window
    BY <1>1, <1>3, <1>4 DEF kept
  <2> QED
    BY <1>1, <2>1, SMTT(30) DEF Cycle
<1>7. aged \in Seq(Cycle) /\ Len(aged) = m /\ DOMAIN aged = 1 .. m
  BY <1>3, <1>6
<1> HIDE DEF aged
<1>8. InOrder(aged)
  <2> SUFFICES ASSUME NEW i \in 1 .. m, NEW j \in 1 .. m, i <= j PROVE aged[i].age <= aged[j].age
    BY <1>7 DEF InOrder
  <2>1. i \in DOMAIN cs /\ j \in DOMAIN cs
    BY <1>1, <1>3
  <2>2. cs[i].age <= cs[j].age /\ cs[i].age \in Nat /\ cs[j].age \in Nat
    <3>1. cs[i] \in Cycle /\ cs[j] \in Cycle
      BY <1>1, <2>1
    <3> QED
      BY <2>1, <3>1, CycleFields DEF InOrder
  <2> QED
    BY <1>6, <2>2
<1> QED
  BY <1>3, <1>5, <1>6, <1>7, <1>8

LEMMA OlderAgrees ==
  ASSUME NEW cs \in Seq(Cycle), InOrder(cs), NEW f \in 0 .. DeadFailures, AgreesWith(f, cs)
  PROVE  AgreesWith(f, Older(cs))
<1> DEFINE rest == Older(cs)
<1>1. /\ rest \in Seq(Cycle) /\ Len(rest) <= Len(cs) /\ Len(rest) \in Nat
      /\ \A i \in 1 .. Len(rest) : rest[i].kind = cs[i].kind
  BY OlderIsPrefix
<1> HIDE DEF rest
<1>2. PICK n \in 0 .. Len(cs) :
        /\ IsFailedRun(cs, n)
        /\ f < DeadFailures => IF n < Len(cs) THEN f = n ELSE f >= n
  BY DEF AgreesWith
<1>3. CASE n < Len(rest)
  <2>1. IsFailedRun(rest, n)
    BY <1>1, <1>2, <1>3 DEF IsFailedRun
  <2> QED
    BY <1>1, <1>2, <1>3, <2>1 DEF AgreesWith, rest
<1>4. CASE n >= Len(rest)
  <2>1. IsFailedRun(rest, Len(rest))
    BY <1>1, <1>2, <1>4 DEF IsFailedRun
  <2>2. f < DeadFailures => f >= Len(rest)
    BY <1>1, <1>2, <1>4, VerdictAssumption
  <2> QED
    BY <1>1, <2>1, <2>2 DEF AgreesWith, rest
<1> QED
  BY <1>1, <1>3, <1>4

LEMMA CycleIsInserted ==
  ASSUME NEW cs \in Seq(Cycle), NEW c \in Cycle, InOrder(cs), c.age = 0,
         NEW i \in {1, 2}, i = 2 => cs # <<>> /\ Head(cs).age = 0
  PROVE  /\ InsertAt(cs, i, c) \in Seq(Cycle) /\ InOrder(InsertAt(cs, i, c))
         /\ i = 1 => InsertAt(cs, i, c) = <<c>> \o cs
<1>1. Len(cs) \in Nat /\ DOMAIN cs = 1 .. Len(cs) /\ \A j \in 1 .. Len(cs) : cs[j].age \in Nat
  <2>1. \A j \in 1 .. Len(cs) : cs[j] \in Cycle
    OBVIOUS
  <2> QED
    BY <2>1, CycleFields
<1>2. CASE i = 1
  <2>1. InsertAt(cs, i, c) = <<c>> \o cs
    BY <1>2 DEF InsertAt
  <2>2. /\ <<c>> \o cs \in Seq(Cycle) /\ DOMAIN (<<c>> \o cs) = 1 .. Len(cs) + 1
        /\ (<<c>> \o cs)[1] = c /\ \A j \in 2 .. Len(cs) + 1 : (<<c>> \o cs)[j] = cs[j - 1]
    OBVIOUS
  <2> QED
    BY <1>1, <2>1, <2>2, SMTT(30) DEF InOrder
<1>3. CASE i = 2
  <2>1. Len(cs) >= 1 /\ cs[1].age = 0
    BY <1>1, <1>3
  <2>2. InsertAt(cs, i, c) = SubSeq(cs, 1, 1) \o <<c>> \o SubSeq(cs, 2, Len(cs))
    BY <1>3 DEF InsertAt
  <2> DEFINE longer == SubSeq(cs, 1, 1) \o <<c>> \o SubSeq(cs, 2, Len(cs))
  <2>3. /\ longer \in Seq(Cycle) /\ DOMAIN longer = 1 .. Len(cs) + 1
        /\ longer[1] = cs[1] /\ longer[2] = c
        /\ \A j \in 3 .. Len(cs) + 1 : longer[j] = cs[j - 1]
    BY <1>1, <2>1
  <2> HIDE DEF longer
  <2>4. InOrder(longer)
    <3>1. ASSUME NEW j \in 1 .. Len(cs) + 1, NEW k \in 1 .. Len(cs) + 1, j <= k
          PROVE  longer[j].age <= longer[k].age
      <4>1. \A l \in 1 .. Len(cs) + 1 : longer[l].age \in Nat
        <5>1. \A l \in 1 .. Len(cs) + 1 : longer[l] \in Cycle
          BY <2>3
        <5> QED
          BY <5>1, CycleFields
      <4>2. CASE j <= 2
        <5>1. longer[j].age = 0
          BY <2>1, <2>3, <3>1, <4>2
        <5> QED
          BY <4>1, <5>1
      <4>3. CASE j > 2
        <5>1. /\ longer[j] = cs[j - 1] /\ longer[k] = cs[k - 1] /\ j - 1 <= k - 1
              /\ j - 1 \in 1 .. Len(cs) /\ k - 1 \in 1 .. Len(cs)
          BY <1>1, <2>3, <3>1, <4>3
        <5> QED
          BY <1>1, <5>1 DEF InOrder
      <4> QED
        BY <4>2, <4>3
    <3> QED
      BY <2>3, <3>1 DEF InOrder
  <2>5. InsertAt(cs, i, c) = longer
    BY <2>2 DEF longer
  <2> QED
    BY <1>3, <2>3, <2>4, <2>5
<1> QED
  BY <1>2, <1>3

(***************************************************************************)
(* The row.                                                                *)
(***************************************************************************)
Anew(p) == [kind |-> kind[p], age |-> 0]

(* One poll at a time while nothing overlaps; and the failures agree with  *)
(* the cycles, with the one that is not recorded yet after its attempt was *)
(* counted.                                                                *)
OnePoll == \A p, q \in Pollers : pc[p] # "idle" /\ pc[q] # "idle" => p = q
Counted ==
  /\ \A p \in Pollers : pc[p] \in {"next", "record"} => AgreesWith(failures, <<Anew(p)>> \o cycles)
  /\ (\A p \in Pollers : pc[p] \notin {"next", "record"}) => AgreesWith(failures, cycles)

RowInv ==
  /\ TypeOK /\ InOrder(cycles)
  /\ ~overlap => OnePoll /\ (phase # "sleep" => \A p \in Pollers \ {Daemon} : pc[p] = "idle")
  /\ ~overlap /\ faults = 0 => Counted

LEMMA VerdictIsOne ==
  ASSUME NEW st, NEW f, NEW ks, NEW pr PROVE Verdict(st, f, ks, pr) \in Verdicts
<1> DEFINE R == << <<ShellDetected(st, ks), "shell_detected">>,
                   <<f >= DeadFailures, "dead">>,
                   <<Len(ks) < MinCycles, "insufficient_data">>,
                   <<Blocked(ks), "dormant_blocked">>,
                   <<StructurallyFailed(ks, pr), "structurally_failed">>,
                   <<TRUE, "healthy">> >>
           First(i) == R[i][1] /\ \A j \in 1 .. i - 1 : ~R[j][1]
<1>1. DOMAIN R = 1 .. 6 /\ R[6][1]
  OBVIOUS
<1>2. \A i \in DOMAIN R : R[i][2] \in Verdicts
  BY DEF Verdicts
<1> HIDE DEF R
<1>3. \E i \in DOMAIN R : First(i)
  <2>1. CASE R[1][1]
    BY <1>1, <2>1
  <2>2. CASE ~R[1][1] /\ R[2][1]
    BY <1>1, <2>2
  <2>3. CASE ~R[1][1] /\ ~R[2][1] /\ R[3][1]
    BY <1>1, <2>3
  <2>4. CASE ~R[1][1] /\ ~R[2][1] /\ ~R[3][1] /\ R[4][1]
    BY <1>1, <2>4
  <2>5. CASE ~R[1][1] /\ ~R[2][1] /\ ~R[3][1] /\ ~R[4][1] /\ R[5][1]
    BY <1>1, <2>5
  <2>6. CASE ~R[1][1] /\ ~R[2][1] /\ ~R[3][1] /\ ~R[4][1] /\ ~R[5][1]
    BY <1>1, <2>6
  <2> QED
    BY <2>1, <2>2, <2>3, <2>4, <2>5, <2>6
<1>4. (CHOOSE i \in DOMAIN R : First(i)) \in DOMAIN R
  BY <1>3
<1>5. Verdict(st, f, ks, pr) = R[CHOOSE i \in DOMAIN R : First(i)][2]
  BY DEF Verdict, Decide, R
<1> QED
  BY <1>2, <1>4, <1>5

LEMMA RowBegins == Init => RowInv
<1> SUFFICES ASSUME Init PROVE RowInv
  OBVIOUS
<1>1. TypeOK
  <2>1. /\ interval \in Nat /\ DeadFailures \in Nat /\ MaxFaults \in Nat
    BY TimesAssumption, BoundsAssumption, VerdictAssumption DEF Init
  <2>2. /\ site \subseteq Kinds /\ verdict \in Verdicts /\ "fresh" \in Kinds
    BY DEF Init, Kinds, Verdicts
  <2>3. cycles \in Seq([kind : Kinds, age : 0 .. Window])
    BY DEF Init
  <2>4. seen \in [status : {"active", "js_only"}, failures : 0 .. DeadFailures]
    BY <2>1 DEF Init, Unread
  <2>5. /\ pc \in [Pollers -> Writing \cup {"idle", "crawl"}] /\ kind \in [Pollers -> Kinds]
        /\ pc[Daemon] = "idle"
    BY <2>2, PollersAssumption DEF Init
  <2>6. /\ due_in \in 0 .. interval /\ failures \in 0 .. DeadFailures /\ faults \in 0 .. MaxFaults
    BY <2>1 DEF Init
  <2> QED
    BY <2>2, <2>3, <2>4, <2>5, <2>6 DEF Init, TypeOK
<1>2. InOrder(cycles) /\ AgreesWith(failures, cycles)
  BY DEF Init, InOrder, AgreesWith, IsFailedRun
<1> QED
  BY <1>1, <1>2 DEF Init, RowInv, OnePoll, Counted

LEMMA RowTypesStep ==
  ASSUME RowInv, [Next]_vars PROVE TypeOK' /\ InOrder(cycles)'
<1> DEFINE Good == TypeOK' /\ InOrder(cycles)'
<1> SUFFICES Good
  OBVIOUS
<1>1. /\ interval \in Nat /\ Window \in Nat /\ DeadFailures \in Nat /\ MaxFaults \in Nat
      /\ Daemon \in Pollers /\ due_in \in Nat
  BY TimesAssumption, BoundsAssumption, VerdictAssumption, PollersAssumption DEF RowInv, TypeOK
<1>2. ASSUME UNCHANGED <<site, interval, cycles>>, due_in' \in 0 .. interval,
             status' \in {"active", "js_only", "dormant", "dead"},
             failures' \in 0 .. DeadFailures, productive' \in BOOLEAN,
             phase' \in {"poll", "list", "evaluate", "react", "sleep"},
             seen' \in [status : {"active", "js_only"}, failures : 0 .. DeadFailures],
             verdict' \in Verdicts, pc' \in [Pollers -> Writing \cup {"idle", "crawl"}],
             kind' \in [Pollers -> Kinds], pc'[Daemon] # "idle" => phase' = "poll",
             overlap' \in BOOLEAN, faults' \in 0 .. MaxFaults
      PROVE  Good
  BY <1>2 DEF RowInv, TypeOK
<1> USE DEF RowInv, TypeOK
<1> HIDE DEF Good
<1>3. CASE BeginTick
  <2>1. /\ UNCHANGED <<site, interval, status, failures, productive, seen, verdict, pc, kind,
                       overlap, faults>>
        /\ phase' = "poll" /\ due_in' = IF due_in > 0 THEN due_in - 1 ELSE 0
        /\ cycles' = Older(cycles)
    BY <1>3 DEF BeginTick, rigid, poll
  <2>2. due_in' \in 0 .. interval
    BY <1>1, <2>1
  <2>3. cycles' \in Seq(Cycle) /\ InOrder(cycles')
    BY <2>1, OlderIsPrefix DEF Cycle
  <2> QED
    BY <2>1, <2>2, <2>3 DEF Good, Cycle, InOrder
<1>4. CASE BeginPoll \/ NothingDue
  BY <1>1, <1>2, <1>4 DEF BeginPoll, NothingDue, rigid, row, table, health, poll
<1>5. ASSUME NEW p \in Pollers, CliPoll(p) PROVE Good
  BY <1>1, <1>2, <1>5 DEF CliPoll, rigid, row, table, health
<1>6. ASSUME NEW p \in Pollers, CrawlEnds(p) PROVE Good
  <2>1. PICK k \in site : /\ Goto(p, "crawl", IF k = "shell" THEN "shell" ELSE "attempt")
                          /\ kind' = [kind EXCEPT ![p] = k]
                          /\ UNCHANGED <<rigid, row, table, health, overlap, faults>>
    BY <1>6 DEF CrawlEnds
  <2>2. k \in Kinds
    OBVIOUS
  <2>3. kind' \in [Pollers -> Kinds] /\ pc' \in [Pollers -> Writing \cup {"idle", "crawl"}]
    BY <2>1, <2>2 DEF Goto, Writing
  <2>4. pc'[Daemon] # "idle" => phase' = "poll"
    BY <1>1, <2>1 DEF Goto, health
  <2> QED
    BY <1>1, <1>2, <2>1, <2>3, <2>4 DEF rigid, row, table, health
<1>7. ASSUME NEW p \in Pollers, MarkShell(p) \/ SetNextPoll(p) PROVE Good
  <2>1. pc' \in [Pollers -> Writing \cup {"idle", "crawl"}] /\ (pc'[Daemon] # "idle" => phase' = "poll")
    BY <1>1, <1>7 DEF MarkShell, SetNextPoll, Goto, Writing, health
  <2>2. CASE MarkShell(p)
    BY <1>1, <1>2, <2>1, <2>2 DEF MarkShell, rigid, table, health
  <2>3. CASE SetNextPoll(p)
    BY <1>1, <1>2, <2>1, <2>3 DEF SetNextPoll, rigid, table, health
  <2> QED
    BY <1>7, <2>2, <2>3
<1>8. ASSUME NEW p \in Pollers, MarkAttempt(p) PROVE Good
  <2>1. failures' \in 0 .. DeadFailures
    BY <1>1, <1>8 DEF MarkAttempt
  <2> QED
    BY <1>1, <1>2, <1>8, <2>1 DEF MarkAttempt, Goto, Writing, rigid, table, health
<1>9. ASSUME NEW p \in Pollers, Record(p) PROVE Good
  <2>1. PICK i \in Places : cycles' = InsertAt(cycles, i, Anew(p))
    BY <1>9 DEF Record, Anew
  <2>2. Anew(p) \in Cycle /\ Anew(p).age = 0
    BY <1>1 DEF Anew, Cycle
  <2>3. i \in {1, 2} /\ (i = 2 => cycles # <<>> /\ Head(cycles).age = 0)
    BY DEF Places
  <2>4. cycles' \in Seq(Cycle) /\ InOrder(cycles')
    BY <2>1, <2>2, <2>3, CycleIsInserted DEF Cycle
  <2>5. /\ UNCHANGED <<site, interval, status, failures, due_in, seen, verdict, overlap, faults>>
        /\ pc' = [pc EXCEPT ![p] = "idle"] /\ kind' = [kind EXCEPT ![p] = "fresh"]
        /\ productive' \in BOOLEAN /\ phase' = IF p = Daemon THEN "list" ELSE phase
    BY <1>9 DEF Record, PollOver, Goto, rigid, row
  <2>6. /\ pc' \in [Pollers -> Writing \cup {"idle", "crawl"}] /\ kind' \in [Pollers -> Kinds]
        /\ pc'[Daemon] # "idle" => phase' = "poll"
    BY <1>1, <2>5 DEF Kinds
  <2> QED
    BY <2>4, <2>5, <2>6 DEF Good, Cycle, InOrder
<1>10. ASSUME NEW p \in Pollers, PollError(p) PROVE Good
  BY <1>1, <1>2, <1>10 DEF PollError, PollOver, Kinds, rigid, row, table
<1>11. CASE Crash
  BY <1>1, <1>2, <1>11 DEF Crash, Kinds, Unread, rigid, row, table
<1>12. CASE List
  BY <1>1, <1>2, <1>12 DEF List, rigid, row, table, poll
<1>13. CASE Evaluate
  <2>1. verdict' \in Verdicts
    BY <1>13, VerdictIsOne DEF Evaluate
  <2> QED
    BY <1>1, <1>2, <1>13, <2>1 DEF Evaluate, Unread, rigid, row, table, poll
<1>14. CASE React \/ HealthError
  BY <1>1, <1>2, <1>14 DEF React, HealthError, Unread, rigid, row, table, poll
<1>15. CASE UNCHANGED vars
  BY <1>2, <1>15 DEF vars, rigid, row, table, health, poll
<1> QED
  BY <1>3, <1>4, <1>5, <1>6, <1>7, <1>8, <1>9, <1>10, <1>11, <1>12, <1>13, <1>14, <1>15
     DEF Next, TickStep, WorkStep

(* Outside an overlap a poll has the row for itself.                       *)
LEMMA OnePollStep ==
  ASSUME RowInv, [Next]_vars, ~overlap'
  PROVE  /\ ~overlap /\ OnePoll'
         /\ phase' # "sleep" => \A p \in Pollers \ {Daemon} : pc'[p] = "idle"
<1>1. /\ pc \in [Pollers -> Writing \cup {"idle", "crawl"}] /\ overlap \in BOOLEAN
      /\ pc[Daemon] # "idle" => phase = "poll"
      /\ Daemon \in Pollers
  BY PollersAssumption DEF RowInv, TypeOK
<1>2. ~overlap
  BY DEF Next, vars, TickStep, WorkStep, BeginTick, BeginPoll, NothingDue, CliPoll, CrawlEnds,
         MarkShell, MarkAttempt, SetNextPoll, Record, PollError, Crash, List, Evaluate, React,
         HealthError
<1>3. OnePoll /\ (phase # "sleep" => \A p \in Pollers \ {Daemon} : pc[p] = "idle")
  BY <1>2 DEF RowInv
<1> DEFINE Alone == OnePoll' /\ (phase' # "sleep" => \A p \in Pollers \ {Daemon} : pc'[p] = "idle")
<1>4. ASSUME NEW p \in Pollers, pc[p] # "idle", \A q \in Pollers : q # p => pc'[q] = pc[q],
             phase' \in {phase, "list", "poll"}, p = Daemon \/ phase' = phase \/ pc'[p] = "idle"
      PROVE  Alone
  <2>1. \A q \in Pollers : q # p => pc'[q] = "idle"
    BY <1>3, <1>4 DEF OnePoll
  <2>2. p # Daemon => phase = "sleep"
    BY <1>3, <1>4
  <2> QED
    BY <1>4, <2>1, <2>2 DEF OnePoll
<1>5. CASE BeginTick
  BY <1>1, <1>5 DEF BeginTick, poll, AllIdle, OnePoll
<1>6. CASE BeginPoll
  BY <1>1, <1>3, <1>6 DEF BeginPoll, health, OnePoll
<1>7. CASE NothingDue \/ List \/ Evaluate \/ React \/ HealthError
  <2>1. pc' = pc /\ phase # "sleep"
    BY <1>7 DEF NothingDue, List, Evaluate, React, HealthError, poll
  <2> QED
    BY <1>2, <1>3, <2>1 DEF OnePoll
<1>8. ASSUME NEW p \in Pollers, CliPoll(p) PROVE Alone
  <2>1. /\ phase = "sleep" /\ AllIdle /\ phase' = phase /\ pc' = [pc EXCEPT ![p] = "crawl"]
    BY <1>8 DEF CliPoll, health
  <2> QED
    BY <1>1, <2>1 DEF AllIdle, OnePoll
<1>9. ASSUME NEW p \in Pollers, WorkStep(p) \/ PollError(p) PROVE Alone
  <2>1. pc[p] # "idle" /\ \A q \in Pollers : q # p => pc'[q] = pc[q]
    BY <1>1, <1>9 DEF WorkStep, CrawlEnds, MarkShell, MarkAttempt, SetNextPoll, Record, PollError,
                      Goto, Writing
  <2>2. phase' \in {phase, "list"} /\ (p = Daemon \/ phase' = phase)
    BY <1>9 DEF WorkStep, CrawlEnds, MarkShell, MarkAttempt, SetNextPoll, Record, PollError,
                PollOver, health
  <2> QED
    BY <1>4, <2>1, <2>2
<1>10. CASE Crash
  <2>1. \A p \in Pollers : pc'[p] = "idle"
    BY <1>1, <1>10 DEF Crash
  <2> QED
    BY <1>2, <2>1 DEF OnePoll
<1>11. CASE UNCHANGED vars
  BY <1>3, <1>11 DEF vars, poll, health, OnePoll
<1>12. Alone
  BY <1>5, <1>6, <1>7, <1>8, <1>9, <1>10, <1>11 DEF Next, TickStep, WorkStep
<1> QED
  BY <1>2, <1>12

(* The two statements of a poll that write the two records: the failures   *)
(* are counted, then the cycle is recorded.                                *)
LEMMA CountedStep ==
  ASSUME RowInv, TypeOK', [Next]_vars, ~overlap', ~overlap, faults' = 0
  PROVE  Counted'
<1>1. /\ pc \in [Pollers -> Writing \cup {"idle", "crawl"}] /\ kind \in [Pollers -> Kinds]
      /\ failures \in 0 .. DeadFailures /\ cycles \in Seq(Cycle) /\ InOrder(cycles)
      /\ Daemon \in Pollers /\ Window \in Nat /\ faults \in Nat
  BY PollersAssumption, BoundsAssumption, TimesAssumption DEF RowInv, TypeOK, Cycle
<1>2. faults = 0
  <2>1. faults' = faults \/ faults' = faults + 1
    BY DEF Next, vars, TickStep, WorkStep, BeginTick, BeginPoll, NothingDue, CliPoll, CrawlEnds,
         MarkShell, MarkAttempt, SetNextPoll, Record, PollError, Crash, List, Evaluate, React,
         HealthError
  <2> QED
    BY <1>1, <2>1
<1>3. Counted /\ OnePoll
  BY <1>2 DEF RowInv
<1>4. \A p \in Pollers : Anew(p) \in Cycle /\ Anew(p).kind = kind[p] /\ Anew(p).age = 0
  BY <1>1 DEF Anew, Cycle
<1>5. ASSUME UNCHANGED <<failures, cycles>>,
             \A p \in Pollers : pc[p] \in {"next", "record"} <=> pc'[p] \in {"next", "record"},
             \A p \in Pollers : pc[p] \in {"next", "record"} => kind'[p] = kind[p]
      PROVE  Counted'
  BY <1>3, <1>5 DEF Counted, Anew
<1>6. CASE BeginTick
  <2>1. /\ \A p \in Pollers : pc[p] = "idle" /\ pc'[p] = "idle"
        /\ failures' = failures /\ cycles' = Older(cycles)
    BY <1>6 DEF BeginTick, AllIdle, poll
  <2>2. AgreesWith(failures, cycles)
    BY <1>3, <2>1 DEF Counted
  <2>3. AgreesWith(failures, Older(cycles))
    BY <1>1, <2>2, OlderAgrees
  <2> QED
    BY <2>1, <2>3 DEF Counted
<1>7. CASE BeginPoll \/ NothingDue \/ List \/ Evaluate \/ React
  BY <1>1, <1>5, <1>7 DEF BeginPoll, NothingDue, List, Evaluate, React, row, table, poll
<1>8. ASSUME NEW p \in Pollers, CliPoll(p) PROVE Counted'
  BY <1>1, <1>5, <1>8 DEF CliPoll, row, table
<1>9. ASSUME NEW p \in Pollers, CrawlEnds(p) \/ MarkShell(p) PROVE Counted'
  BY <1>1, <1>5, <1>9 DEF CrawlEnds, MarkShell, Goto, row, table
<1>10. ASSUME NEW p \in Pollers, SetNextPoll(p) PROVE Counted'
  BY <1>1, <1>5, <1>10 DEF SetNextPoll, Goto, table
<1>11. ASSUME NEW p \in Pollers, MarkAttempt(p) PROVE Counted'
  <2>1. /\ pc[p] = "attempt" /\ pc' = [pc EXCEPT ![p] = "next"] /\ UNCHANGED <<cycles, kind>>
        /\ failures' = CASE Success(kind[p]) -> 0
                        [] ~Success(kind[p]) /\ failures < DeadFailures -> failures + 1
                        [] OTHER -> failures
    BY <1>11 DEF MarkAttempt, Goto, table
  <2>2. \A q \in Pollers : pc[q] \notin {"next", "record"} /\ (q # p => pc'[q] = "idle")
    BY <1>1, <1>3, <2>1 DEF OnePoll
  <2>3. AgreesWith(failures, cycles)
    BY <1>3, <2>2 DEF Counted
  <2>4. AgreesWith(failures', <<Anew(p)>> \o cycles)
    <3>1. failures' = CASE Success(Anew(p).kind) -> 0
                        [] ~Success(Anew(p).kind) /\ failures < DeadFailures -> failures + 1
                        [] OTHER -> failures
      BY <1>4, <2>1
    <3> QED
      BY <1>1, <1>4, <2>3, <3>1, AttemptAgrees
  <2>5. pc'[p] = "next" /\ Anew(p)' = Anew(p)
    BY <1>1, <2>1 DEF Anew
  <2> QED
    BY <2>1, <2>2, <2>4, <2>5 DEF Counted
<1>12. ASSUME NEW p \in Pollers, Record(p) PROVE Counted'
  <2>1. /\ pc[p] = "record" /\ pc' = [pc EXCEPT ![p] = "idle"] /\ failures' = failures
        /\ cycles' = InsertAt(cycles, 1, Anew(p))
    <3>1. Places = {1}
      BY DEF Places
    <3> QED
      BY <1>12, <3>1 DEF Record, Goto, row, Anew
  <2>2. cycles' = <<Anew(p)>> \o cycles
    BY <1>1, <1>4, <2>1, CycleIsInserted
  <2>3. AgreesWith(failures, cycles')
    BY <1>3, <2>1, <2>2 DEF Counted
  <2>4. \A q \in Pollers : pc'[q] = "idle"
    BY <1>1, <1>3, <2>1 DEF OnePoll
  <2> QED
    BY <2>1, <2>3, <2>4 DEF Counted
<1>13. ASSUME faults' = faults + 1 PROVE Counted'
  BY <1>1, <1>2, <1>13
<1>14. CASE UNCHANGED vars
  BY <1>5, <1>14 DEF vars, row, table, poll
<1> QED
  BY <1>6, <1>7, <1>8, <1>9, <1>10, <1>11, <1>12, <1>13, <1>14
     DEF Next, TickStep, WorkStep, PollError, Crash, HealthError

LEMMA RowStep == RowInv /\ [Next]_vars => RowInv'
<1> SUFFICES ASSUME RowInv, [Next]_vars PROVE RowInv'
  OBVIOUS
<1>1. TypeOK' /\ InOrder(cycles)'
  BY RowTypesStep
<1>2. ~overlap' => /\ ~overlap /\ OnePoll'
                   /\ phase' # "sleep" => \A p \in Pollers \ {Daemon} : pc'[p] = "idle"
  BY OnePollStep
<1>3. ~overlap' /\ faults' = 0 => Counted'
  BY <1>1, <1>2, CountedStep
<1> QED
  BY <1>1, <1>2, <1>3 DEF RowInv

(* The row of a source is sound, for every number of polls and ticks: its  *)
(* consecutive failures and the cycles of its window, which two statements *)
(* of a poll write and two rules of the verdict read, tell the same, as    *)
(* long as polls do not overlap and no statement fails.                    *)
THEOREM RecordsAgree == Spec => []RowIsSound
<1>1. ASSUME RowInv PROVE RowIsSound
  <2>1. TypeOK
    BY <1>1 DEF RowInv
  <2>2. FailuresAgree
    <3> SUFFICES ASSUME ~overlap, faults = 0, AllIdle, failures < DeadFailures
                 PROVE  IF FailedRun(cycles) < Len(cycles) THEN failures = FailedRun(cycles)
                        ELSE failures >= FailedRun(cycles)
      BY DEF FailuresAgree
    <3>1. AgreesWith(failures, cycles) /\ cycles \in Seq(Cycle)
      BY <1>1 DEF RowInv, Counted, AllIdle, TypeOK, Cycle
    <3>2. PICK n \in 0 .. Len(cycles) : /\ IsFailedRun(cycles, n)
                                        /\ IF n < Len(cycles) THEN failures = n ELSE failures >= n
      BY <3>1 DEF AgreesWith
    <3>3. FailedRun(cycles) = n
      BY <3>1, <3>2, RunIsFound
    <3> QED
      BY <3>2, <3>3
  <2> QED
    BY <2>1, <2>2 DEF RowIsSound
<1> QED
  BY <1>1, RowBegins, RowStep, PTL DEF Spec
=============================================================================
