---------------------------- MODULE CorpusProofs -----------------------------
(***************************************************************************)
(* Proofs about the scripts that make the corpus and the training sets:    *)
(* CrawlBatch for every registry, SiteCrawl for every site and whatever its*)
(* servers answer, Composition for every set of files, Teaching for every  *)
(* contract the teacher may write, and Datasets for every set of contracts,*)
(* seeds and gold items; all for every choice of the options and bounds.   *)
(***************************************************************************)
EXTENDS CorpusCrawls, Teaching, Datasets, Composition, FiniteSetTheorems, PickingProofs

LogKinds == {"whole", "glued", "torn", "split"}
LogLines == [phase : {"batch_start", "source_done", "fts_sync", "batch_done"},
             source : RegistryIds \cup {"none"}, kind : LogKinds]
Under == batch.at \in {"poll", "index", "log", "sync"}
Runs == [at : BatchPoints, todo : Seq(Registry), processed : Nat, wanted : SUBSET RegistryIds]

BatchTypes ==
  /\ live \in [RegistryIds -> SUBSET (1 .. DocLimit)]
  /\ made \in [RegistryIds -> 0 .. DocLimit]
  /\ \A id \in RegistryIds : live[id] \subseteq 1 .. made[id]
  /\ chunked \subseteq Documents /\ late \subseteq chunked
  /\ fts \in [Documents -> Nat]
  /\ children \subseteq {"poll", "index"} \X RegistryIds
  /\ batchLog \in Seq(LogLines)
  /\ openLine => batchLog # <<>>
  /\ batch \in Runs
  /\ openLine \in BOOLEAN /\ unresumed \in BOOLEAN
  /\ batchRuns \in 0 .. BatchRuns /\ batchKills \in 0 .. BatchKills

(* What is left to do is of the wanted tiers, each source once; a source   *)
(* that was to be done and was not gone through is still to come.          *)
TodoOK ==
  /\ \A k \in DOMAIN batch.todo : batch.todo[k].tier <= TierMax
  /\ \A j, k \in DOMAIN batch.todo : batch.todo[j].id = batch.todo[k].id => j = k
  /\ batch.at \in {"index", "log"} => batch.todo # <<>>
  /\ batch.at \in {"off", "dry", "ended", "raised"} => batch.todo = <<>>
  /\ batch.at \in {"off", "dry", "raised"} => batch.wanted = {}
  /\ \A id \in batch.wanted : GoneThrough(id) # {} \/ \E k \in DOMAIN batch.todo : batch.todo[k].id = id

(* The log ends with a newline once a run has written its first line; as   *)
(* long as runs resume, no source that is left to do is in it.             *)
LogOK ==
  /\ Under => ~openLine
  /\ batchRuns = 0 => batchLog = <<>> /\ batch.at = "off"
  /\ ~unresumed => /\ \A id : \A j, k \in Finished(id) : j = k
                   /\ \A k \in DOMAIN batch.todo : Finished(batch.todo[k].id) = {}

BatchInv == BatchTypes /\ TodoOK /\ LogOK /\ OneFtsRow /\ FtsCovers
-----------------------------------------------------------------------------
(* Of sources some comes before all the others.                            *)
LEMMA FirstOf ==
  ASSUME BatchTypes, NEW S \in SUBSET Registry, S # {}
  PROVE  \E s \in S : \A t \in S \ {s} : Earlier(s, t)
<1> DEFINE docs(s) == Cardinality(live[s.id])
<1>1. \A s \in Registry : s.tier \in Nat /\ s.order \in Nat /\ docs(s) \in Nat
  <2> SUFFICES ASSUME NEW s \in Registry PROVE docs(s) \in Nat
    BY RegistryAssumption
  <2>1. live[s.id] \in SUBSET (1 .. DocLimit)
    BY DEF BatchTypes, RegistryIds
  <2>2. IsFiniteSet(1 .. DocLimit)
    <3>1. 1 \in Int /\ DocLimit \in Int
      BY RunAssumption
    <3> QED
      BY <3>1, FS_Interval, ZenonT(30)
  <2> QED
    BY <2>1, <2>2, FS_Subset, FS_CardinalityType
<1> HIDE DEF docs
<1>2. PICK a \in S : \A t \in S : a.tier <= t.tier
  <2> DEFINE T == {s.tier : s \in S}
  <2>1. T \subseteq Nat /\ T # {}
    BY <1>1
  <2>2. PICK n \in T : \A m \in T : n <= m
    BY <2>1, Least
  <2> QED
    BY <2>2
<1> DEFINE A == {s \in S : s.tier = a.tier}
<1>3. PICK b \in A : \A t \in A : docs(b) <= docs(t)
  <2> DEFINE T == {docs(s) : s \in A}
  <2>1. T \subseteq Nat /\ T # {}
    BY <1>1
  <2>2. PICK n \in T : \A m \in T : n <= m
    BY <2>1, Least
  <2> QED
    BY <2>2
<1> DEFINE B == {s \in A : docs(s) = docs(b)}
<1>4. PICK c \in B : \A t \in B : c.order <= t.order
  <2> DEFINE T == {s.order : s \in B}
  <2>1. T \subseteq Nat /\ T # {}
    BY <1>1
  <2>2. PICK n \in T : \A m \in T : n <= m
    BY <2>1, Least
  <2> QED
    BY <2>2
<1>5. ASSUME NEW t \in S, t # c PROVE Earlier(c, t)
  <2>1. c \in Registry /\ t \in Registry /\ c.order # t.order
    BY <1>5, RegistryAssumption
  <2>2. CASE t \notin A
    BY <1>1, <1>2, <2>1, <2>2 DEF Earlier
  <2>3. CASE t \in A \ B
    <3>1. docs(c) < docs(t) /\ c.tier = t.tier
      BY <1>1, <1>3, <2>1, <2>3
    <3> QED
      BY <3>1 DEF Earlier, docs
  <2>4. CASE t \in B
    <3>1. docs(c) = docs(t) /\ c.tier = t.tier /\ c.order < t.order
      BY <1>1, <1>4, <2>1, <2>4
    <3> QED
      BY <3>1 DEF Earlier, docs
  <2> QED
    BY <2>2, <2>3, <2>4
<1> QED
  BY <1>5

(* So they can be put in order.                                            *)
InOrder(list, S, n) ==
  /\ list \in [1 .. n -> S]
  /\ \A j, k \in 1 .. n : j < k => Earlier(list[j], list[k])

LEMMA Orders ==
  ASSUME BatchTypes, NEW S \in SUBSET Registry
  PROVE  Cardinality(S) \in Nat /\ \E list : InOrder(list, S, Cardinality(S))
<1> DEFINE G == {n \in Nat : \A T \in SUBSET Registry :
                   Cardinality(T) = n => \E list : InOrder(list, T, n)}
           N == Cardinality(S)
<1>0. \A T \in SUBSET Registry : IsFiniteSet(T) /\ Cardinality(T) \in Nat
  BY RegistryAssumption, FS_Subset, FS_CardinalityType
<1>1. 0 \in G
  <2> SUFFICES ASSUME NEW T \in SUBSET Registry PROVE \E list : InOrder(list, T, 0)
    OBVIOUS
  <2> DEFINE list == [k \in 1 .. 0 |-> 0]
  <2>1. InOrder(list, T, 0)
    BY DEF InOrder
  <2> QED
    BY <2>1
<1>2. ASSUME NEW n \in 1 .. N, n - 1 \in G PROVE n \in G
  <2> SUFFICES ASSUME NEW T \in SUBSET Registry, Cardinality(T) = n
               PROVE  \E list : InOrder(list, T, n)
    BY <1>0
  <2>0. n \in Nat /\ n # 0
    BY <1>0
  <2>1. T # {}
    BY <2>0, FS_EmptySet
  <2>2. PICK s \in T : \A t \in T \ {s} : Earlier(s, t)
    BY <2>1, FirstOf
  <2>3. Cardinality(T \ {s}) = n - 1
    BY <1>0, FS_RemoveElement
  <2>4. PICK rest : InOrder(rest, T \ {s}, n - 1)
    BY <1>2, <2>3
  <2> DEFINE list == [k \in 1 .. n |-> IF k = 1 THEN s ELSE rest[k - 1]]
  <2>5. rest \in [1 .. n - 1 -> T \ {s}] /\ \A j, k \in 1 .. n - 1 : j < k => Earlier(rest[j], rest[k])
    BY <2>4 DEF InOrder
  <2>6. \A k \in 1 .. n : k = 1 \/ (k - 1 \in 1 .. n - 1 /\ rest[k - 1] \in T \ {s})
    BY <2>0, <2>5
  <2>7. list \in [1 .. n -> T]
    BY <2>6
  <2>8. ASSUME NEW j \in 1 .. n, NEW k \in 1 .. n, j < k PROVE Earlier(list[j], list[k])
    <3>1. k # 1 /\ list[k] = rest[k - 1] /\ k - 1 \in 1 .. n - 1
      BY <2>0, <2>8
    <3>2. CASE j = 1
      BY <2>2, <2>5, <3>1, <3>2
    <3>3. CASE j # 1
      <4>1. list[j] = rest[j - 1] /\ j - 1 \in 1 .. n - 1 /\ j - 1 < k - 1
        BY <2>0, <2>8, <3>3
      <4> QED
        BY <2>5, <3>1, <4>1
    <3> QED
      BY <3>2, <3>3
  <2>9. InOrder(list, T, n)
    BY <2>7, <2>8 DEF InOrder
  <2> QED
    BY <2>9
<1> HIDE DEF G
<1>3. 0 .. N \subseteq G
  BY <1>0, <1>1, <1>2, UpTo
<1>4. N \in G
  BY <1>0, <1>3
<1> QED
  BY <1>0, <1>4 DEF G

(* load_sources() returns each eligible source once.                       *)
Lists(list, S) ==
  /\ list \in Seq(S)
  /\ \A j, k \in DOMAIN list : list[j] = list[k] => j = k
  /\ \A s \in S : \E k \in DOMAIN list : list[k] = s

LEMMA EachSourceOnce ==
  ASSUME BatchTypes, NEW option
  PROVE  Eligible(option) \subseteq Registry /\ Lists(LoadSources(option), Eligible(option))
<1> DEFINE S == Eligible(option)
           N == Cardinality(S)
           list == LoadSources(option)
<1>1. S \in SUBSET Registry
  BY DEF Eligible
<1>2. N \in Nat /\ \E y : InOrder(y, S, N)
  BY <1>1, Orders
<1>3. InOrder(list, S, N)
  BY <1>2 DEF InOrder, LoadSources
<1> HIDE DEF S, list
<1>4. list \in [1 .. N -> S] /\ \A j, k \in 1 .. N : j < k => Earlier(list[j], list[k])
  BY <1>3 DEF InOrder
<1>5. \A s \in S : ~ Earlier(s, s)
  <2> SUFFICES ASSUME NEW s \in S PROVE ~ Earlier(s, s)
    OBVIOUS
  <2>1. s.tier \in Nat /\ s.order \in Nat /\ live[s.id] \in SUBSET (1 .. DocLimit)
    BY <1>1, RegistryAssumption DEF BatchTypes, RegistryIds
  <2>2. IsFiniteSet(1 .. DocLimit)
    <3>1. 1 \in Int /\ DocLimit \in Int
      BY RunAssumption
    <3> QED
      BY <3>1, FS_Interval, ZenonT(30)
  <2>3. Cardinality(live[s.id]) \in Nat
    BY <2>1, <2>2, FS_Subset, FS_CardinalityType
  <2> QED
    BY <2>1, <2>3 DEF Earlier
<1>6. \A j, k \in 1 .. N : list[j] = list[k] => j = k
  <2> SUFFICES ASSUME NEW j \in 1 .. N, NEW k \in 1 .. N, list[j] = list[k], j # k PROVE FALSE
    OBVIOUS
  <2>1. j < k \/ k < j
    BY <1>2
  <2> QED
    BY <1>4, <1>5, <2>1
<1>7. list \in Surjection(1 .. N, S)
  <2>1. list \in Injection(1 .. N, S)
    BY <1>4, <1>6 DEF Injection, IsInjective
  <2>2. IsFiniteSet(S) /\ Cardinality(1 .. N) = N
    <3>1. IsFiniteSet(S)
      BY <1>1, RegistryAssumption, FS_Subset
    <3>2. Cardinality(1 .. N) = N
      BY <1>2, FS_Interval
    <3> QED
      BY <3>1, <3>2
  <2> QED
    BY <2>1, <2>2, FS_Injection DEF S
<1>8. \A s \in S : \E k \in 1 .. N : list[k] = s
  BY <1>7 DEF Surjection
<1>9. list \in Seq(S) /\ DOMAIN list = 1 .. N
  BY <1>2, <1>4
<1> QED
  BY <1>1, <1>6, <1>8, <1>9 DEF Lists, S, list

(* NotDone and Cut leave some of the sources of a list out.                *)
Leaves(y, list) ==
  /\ \A k \in DOMAIN y : \E j \in DOMAIN list : y[k] = list[j]
  /\ (\A j, k \in DOMAIN list : list[j] = list[k] => j = k)
        => \A j, k \in DOMAIN y : y[j] = y[k] => j = k

LEMMA NotDoneLeaves ==
  ASSUME NEW S, NEW list \in Seq(S)
  PROVE  /\ NotDone(list) \in Seq(S) /\ Leaves(NotDone(list), list)
         /\ \A k \in DOMAIN NotDone(list) : NotDone(list)[k].id \notin LoadDone(batchLog)
         /\ \A k \in DOMAIN list : list[k].id \in LoadDone(batchLog)
                                   \/ \E j \in DOMAIN NotDone(list) : NotDone(list)[j] = list[k]
<1> DEFINE K == {k \in DOMAIN list : list[k].id \notin LoadDone(batchLog)}
           y == NotDone(list)
           L == K \cap (1 .. Len(list))
<1>1. y = Picked(list, K) /\ DOMAIN list = 1 .. Len(list)
  BY DEF NotDone
<1> HIDE DEF y
<1>2. y \in Seq(S) /\ \E pos : PlacesOf(pos, y, list, L)
  BY <1>1, PickedPlaces
<1>3. PICK pos : PlacesOf(pos, y, list, L)
  BY <1>2
<1>4. DOMAIN y = 1 .. Len(y) /\ pos \in [1 .. Len(y) -> L]
  BY <1>2, <1>3 DEF PlacesOf
<1>5. \A i \in DOMAIN y : y[i] = list[pos[i]] /\ pos[i] \in L /\ pos[i] \in DOMAIN list
  BY <1>1, <1>3, <1>4 DEF PlacesOf
<1>6. Leaves(y, list)
  BY <1>3, <1>4, <1>5 DEF Leaves, PlacesOf
<1>7. \A k \in DOMAIN y : y[k].id \notin LoadDone(batchLog)
  BY <1>5
<1>8. \A k \in L : \E i \in 1 .. Len(y) : pos[i] = k
  BY <1>3 DEF PlacesOf
<1>9. ASSUME NEW k \in DOMAIN list, list[k].id \notin LoadDone(batchLog)
      PROVE  \E j \in DOMAIN y : y[j] = list[k]
  <2>1. k \in L
    BY <1>1, <1>9
  <2> QED
    BY <1>4, <1>5, <1>8, <2>1, ZenonT(60)
<1> QED
  BY <1>2, <1>6, <1>7, <1>9 DEF y

LEMMA CutLeaves ==
  ASSUME NEW S, NEW list \in Seq(S)
  PROVE  /\ Cut(list) \in Seq(S) /\ Leaves(Cut(list), list)
         /\ SourceLimit = 0 => Cut(list) = list
<1>1. SourceLimit \in Nat
  BY RunAssumption
<1>2. CASE SourceLimit > 0 /\ SourceLimit < Len(list)
  <2> DEFINE y == SubSeq(list, 1, SourceLimit)
  <2>1. y \in Seq(S) /\ DOMAIN y = 1 .. SourceLimit /\ \A k \in 1 .. SourceLimit : y[k] = list[k]
    BY <1>1, <1>2
  <2>2. 1 .. SourceLimit \subseteq DOMAIN list
    BY <1>1, <1>2
  <2> HIDE DEF y
  <2>3. Leaves(y, list)
    BY <2>1, <2>2 DEF Leaves
  <2> QED
    BY <1>2, <2>1, <2>3 DEF Cut, y
<1>3. CASE ~(SourceLimit > 0 /\ SourceLimit < Len(list))
  BY <1>1, <1>3 DEF Cut, Leaves
<1> QED
  BY <1>2, <1>3
-----------------------------------------------------------------------------
(* A line that is written adds itself, or goes into the open line it runs  *)
(* into, which a source that was gone through survives, if not readably.   *)
Extended(line) ==
  /\ batchLog' \in Seq(LogLines) /\ batchLog' # <<>>
  /\ \A id : GoneThrough(id) \subseteq GoneThrough(id)'
  /\ \A id : line # LogLine("source_done", id, "whole") => Finished(id)' \subseteq Finished(id)
  /\ ~openLine => \A id : line = LogLine("source_done", id, "whole") =>
        /\ GoneThrough(id)' # {}
        /\ Finished(id) = {} => \A j, k \in Finished(id)' : j = k

LEMMA LineAdds ==
  ASSUME BatchTypes, NEW line \in LogLines, batchLog' = WithLine(line)
  PROVE  Extended(line)
<1> DEFINE n == Len(batchLog)
           is(id) == LogLine("source_done", id, "whole")
           was(id) == LogLine("source_done", id, "glued")
<1>1. batchLog \in Seq(LogLines) /\ n \in Nat /\ DOMAIN batchLog = 1 .. n /\ openLine \in BOOLEAN
  BY DEF BatchTypes
<1>2. \A id : is(id) # was(id) /\ is(id).kind = "whole"
  BY DEF LogLine
<1>3. CASE openLine
  <2>1. n \in 1 .. n /\ batchLog' = [batchLog EXCEPT ![n] = Overrun(batchLog[n])]
    <3>1. batchLog # <<>>
      BY <1>3 DEF BatchTypes
    <3>2. n # 0
      BY <1>1, <3>1
    <3> QED
      BY <1>1, <1>3, <3>2 DEF WithLine
  <2>2. batchLog[n] \in LogLines
    BY <1>1, <2>1
  <2>3. /\ Overrun(batchLog[n]) \in LogLines /\ Overrun(batchLog[n]).kind # "whole"
        /\ \A id : batchLog[n] \in {is(id), was(id)} => Overrun(batchLog[n]) = was(id)
    BY <2>2 DEF Overrun, LogLines, LogKinds, LogLine
  <2> DEFINE new == Overrun(batchLog[n])
  <2> HIDE DEF new
  <2>4. /\ batchLog' \in Seq(LogLines) /\ DOMAIN batchLog' = 1 .. n /\ batchLog'[n] = new
        /\ \A k \in 1 .. n : k # n => batchLog'[k] = batchLog[k]
    <3>1. batchLog \in [1 .. n -> LogLines] /\ new \in LogLines
      BY <1>1, <2>3 DEF new
    <3>2. batchLog' = [batchLog EXCEPT ![n] = new]
      BY <2>1 DEF new
    <3> HIDE DEF n
    <3>3. batchLog' \in [1 .. n -> LogLines]
      BY <2>1, <3>1, <3>2
    <3>4. batchLog' \in Seq(LogLines)
      BY <1>1, <3>3
    <3> QED
      BY <2>1, <3>1, <3>2, <3>3, <3>4
  <2>5. batchLog' # <<>>
    <3>1. DOMAIN batchLog' # {}
      BY <2>1, <2>4
    <3>2. DOMAIN << >> = {}
      OBVIOUS
    <3> QED
      BY <3>1, <3>2
  <2> HIDE DEF n, is, was
  <2>6. \A id : Finished(id) = {k \in 1 .. n : batchLog[k] = is(id)}
                /\ Finished(id)' = {k \in 1 .. n : batchLog'[k] = is(id)}
    BY <1>1, <2>4 DEF Finished, is
  <2>7. \A id : GoneThrough(id) = {k \in 1 .. n : batchLog[k] \in {is(id), was(id)}}
                /\ GoneThrough(id)' = {k \in 1 .. n : batchLog'[k] \in {is(id), was(id)}}
    BY <1>1, <2>4 DEF Finished, GoneThrough, is, was
  <2>8. \A id : new # is(id)
    BY <1>2, <2>3 DEF new
  <2>9. \A id : Finished(id)' \subseteq Finished(id)
    BY <2>4, <2>6, <2>8
  <2>10. \A id : GoneThrough(id) \subseteq GoneThrough(id)'
    BY <2>3, <2>4, <2>7 DEF new
  <2> QED
    BY <1>3, <2>4, <2>5, <2>9, <2>10 DEF Extended
<1>4. CASE ~openLine
  <2>1. batchLog' = Append(batchLog, line)
    BY <1>4 DEF WithLine
  <2>2. /\ batchLog' \in Seq(LogLines) /\ DOMAIN batchLog' = 1 .. n + 1
        /\ batchLog'[n + 1] = line /\ \A k \in 1 .. n : batchLog'[k] = batchLog[k]
    BY <1>1, <2>1
  <2>3. /\ \A k \in 1 .. n + 1 : k \in 1 .. n \/ k = n + 1
        /\ n + 1 \in 1 .. n + 1 /\ n + 1 \notin 1 .. n /\ 1 .. n \subseteq 1 .. n + 1
    BY <1>1
  <2>4. batchLog' # <<>>
    BY <2>2, <2>3
  <2> HIDE DEF n, is, was
  <2>5. \A id : Finished(id) = {k \in 1 .. n : batchLog[k] = is(id)}
                /\ Finished(id)' = {k \in 1 .. n + 1 : batchLog'[k] = is(id)}
    BY <1>1, <2>2 DEF Finished, is
  <2>6. \A id : GoneThrough(id) = {k \in 1 .. n : batchLog[k] \in {is(id), was(id)}}
                /\ GoneThrough(id)' = {k \in 1 .. n + 1 : batchLog'[k] \in {is(id), was(id)}}
    BY <1>1, <2>2 DEF Finished, GoneThrough, is, was
  <2>7. \A id : GoneThrough(id) \subseteq GoneThrough(id)'
    BY <2>2, <2>3, <2>6
  <2>8. \A id : line # is(id) => Finished(id)' \subseteq Finished(id)
    BY <2>2, <2>3, <2>5
  <2>9. ASSUME NEW id, line = is(id)
        PROVE  GoneThrough(id)' # {} /\ (Finished(id) = {} => \A j, k \in Finished(id)' : j = k)
    <3>1. n + 1 \in GoneThrough(id)'
      BY <2>2, <2>3, <2>6, <2>9
    <3>2. Finished(id) = {} => Finished(id)' \subseteq {n + 1}
      BY <2>2, <2>3, <2>5
    <3> QED
      BY <3>1, <3>2
  <2> QED
    BY <2>2, <2>4, <2>7, <2>8, <2>9 DEF Extended, is
<1> QED
  BY <1>3, <1>4

(* A line about no source leaves what the log says of sources, or less.    *)
LEMMA OtherLine ==
  ASSUME BatchTypes, NEW phase \in {"batch_start", "fts_sync", "batch_done"}, NEW kind \in LogKinds,
         batchLog' = WithLine(LogLine(phase, "none", kind))
  PROVE  /\ batchLog' \in Seq(LogLines) /\ batchLog' # <<>>
         /\ \A id : GoneThrough(id) \subseteq GoneThrough(id)' /\ Finished(id)' \subseteq Finished(id)
<1>1. LogLine(phase, "none", kind) \in LogLines
  BY DEF LogLines, LogLine
<1>2. \A id : LogLine(phase, "none", kind) # LogLine("source_done", id, "whole")
  BY DEF LogLine
<1>3. Extended(LogLine(phase, "none", kind))
  BY <1>1, LineAdds
<1> QED
  BY <1>2, <1>3 DEF Extended

(* load_done() reads what the log says is done.                            *)
LEMMA DoneIsFinished ==
  ASSUME BatchTypes, NEW id PROVE id \in LoadDone(batchLog) <=> Finished(id) # {}
<1>1. batchLog \in Seq(LogLines)
  BY DEF BatchTypes
<1>2. \A k \in DOMAIN batchLog : batchLog[k] \in LogLines
  BY <1>1
<1>3. \A k \in DOMAIN batchLog : batchLog[k] = LogLine("source_done", id, "whole")
        <=> batchLog[k].phase = "source_done" /\ batchLog[k].kind = "whole" /\ batchLog[k].source = id
  BY <1>2 DEF LogLines, LogLine
<1> QED
  BY <1>3 DEF LoadDone, Finished

LEMMA BatchBegins == RunInit => BatchInv
<1> SUFFICES ASSUME RunInit PROVE BatchInv
  OBVIOUS
<1>1. BatchTypes
  <2>1. DocLimit \in Nat /\ BatchRuns \in Nat /\ BatchKills \in Nat
    BY RunAssumption
  <2>2. live \in [RegistryIds -> SUBSET (1 .. DocLimit)] /\ made \in [RegistryIds -> 0 .. DocLimit]
    BY <2>1 DEF RunInit
  <2>3. \A id \in RegistryIds : live[id] \subseteq 1 .. made[id]
    BY DEF RunInit
  <2>4. /\ fts \in [Documents -> Nat] /\ chunked \subseteq Documents /\ batchLog \in Seq(LogLines)
        /\ late \subseteq chunked /\ children \subseteq {"poll", "index"} \X RegistryIds
    BY DEF RunInit
  <2>5. batch \in Runs
    BY DEF RunInit, NoBatch, Runs, BatchPoints
  <2>6. openLine = FALSE /\ unresumed \in BOOLEAN
    BY DEF RunInit
  <2>7. batchRuns \in 0 .. BatchRuns /\ batchKills \in 0 .. BatchKills
    BY <2>1 DEF RunInit
  <2> QED
    BY <2>2, <2>3, <2>4, <2>5, <2>6, <2>7 DEF BatchTypes
<1>2. TodoOK /\ LogOK
  BY DEF RunInit, TodoOK, LogOK, NoBatch, Finished, Under
<1>3. OneFtsRow /\ FtsCovers
  BY DEF RunInit, OneFtsRow, FtsCovers, NoBatch
<1> QED
  BY <1>1, <1>2, <1>3 DEF BatchInv

LEMMA EmptyRun ==
  ASSUME NEW point \in BatchPoints
  PROVE  [at |-> point, todo |-> <<>>, processed |-> 0, wanted |-> {}] \in Runs
BY DEF Runs

(* A run that has nothing to do: load_done() raised, or it only lists the  *)
(* sources.                                                                *)
LEMMA IdleKeeps ==
  ASSUME BatchInv, NEW point \in {"raised", "dry"}, batch' = [NoBatch EXCEPT !.at = point],
         batchRuns < BatchRuns, batchRuns' = batchRuns + 1,
         UNCHANGED <<live, made, chunked, fts, batchLog, openLine, children, late, unresumed,
                     batchKills>>
  PROVE  BatchInv'
<1>0. BatchTypes /\ TodoOK /\ LogOK /\ OneFtsRow /\ FtsCovers
  BY DEF BatchInv
<1>1. batch' \in Runs /\ batch'.at = point /\ batch'.todo = <<>> /\ batch'.wanted = {}
  <2>1. batch' = [at |-> point, todo |-> <<>>, processed |-> 0, wanted |-> {}]
    BY DEF NoBatch
  <2>2. point \in BatchPoints
    BY DEF BatchPoints
  <2> QED
    <3>1. [at |-> point, todo |-> <<>>, processed |-> 0, wanted |-> {}] \in Runs
      BY <2>2, EmptyRun
    <3>2. batch' \in Runs
      BY <2>1, <3>1, Zenon
    <3> QED
      BY <2>1, <3>2
<1>2. batchRuns' \in 0 .. BatchRuns /\ batchRuns' # 0
  BY <1>0, RunAssumption DEF BatchTypes
<1>3. BatchTypes'
  BY <1>0, <1>1, <1>2 DEF BatchTypes
<1>4. TodoOK'
  BY <1>1 DEF TodoOK
<1>5. \A id : Finished(id)' = Finished(id)
  BY DEF Finished
<1>6. LogOK'
  BY <1>0, <1>1, <1>2, <1>5 DEF LogOK, Under
<1>7. OneFtsRow' /\ FtsCovers'
  BY <1>0, <1>1 DEF OneFtsRow, FtsCovers
<1> QED
  BY <1>3, <1>4, <1>6, <1>7 DEF BatchInv

(* A run starts with what the log does not have yet, or with everything    *)
(* when it does not resume.                                                *)
LEMMA StartKeeps ==
  ASSUME BatchInv, NEW option, NEW resume \in BOOLEAN, StartRun(option, resume) PROVE BatchInv'
<1> DEFINE listed == LoadSources(option)
           kept == IF resume THEN NotDone(listed) ELSE listed
           S == Eligible(option)
           asked == IF SourceLimit = 0 THEN {s.id : s \in S} ELSE {}
           stopped == resume /\ Undecodable(batchLog)
<1>0. BatchTypes /\ TodoOK /\ LogOK /\ OneFtsRow /\ FtsCovers
  BY DEF BatchInv
<1>1. /\ batch' = IF stopped THEN [NoBatch EXCEPT !.at = "raised"]
                  ELSE [at |-> "start", todo |-> Cut(kept), processed |-> 0, wanted |-> asked]
      /\ batchRuns' = batchRuns + 1 /\ batchRuns < BatchRuns
      /\ unresumed' = (unresumed \/ (~resume /\ batchRuns > 0))
      /\ UNCHANGED <<live, made, chunked, fts, batchLog, openLine, children, late, batchKills>>
  BY DEF StartRun, Begin
<1> HIDE DEF stopped
<1>2. ASSUME stopped PROVE BatchInv'
  <2>1. batch' = [NoBatch EXCEPT !.at = "raised"] /\ unresumed' = unresumed
    BY <1>0, <1>1, <1>2 DEF stopped, BatchTypes
  <2> QED
    BY <1>1, <2>1, IdleKeeps
<1>3. ASSUME ~stopped PROVE BatchInv'
  <2>1. batch' = [at |-> "start", todo |-> Cut(kept), processed |-> 0, wanted |-> asked]
    BY <1>1, <1>3
  <2>2. S \subseteq Registry /\ Lists(listed, S)
    BY <1>0, EachSourceOnce
  <2> HIDE DEF listed, S, asked
  <2>3. listed \in Seq(S)
    BY <2>2 DEF Lists
  <2>4. /\ kept \in Seq(S) /\ Leaves(kept, listed)
        /\ resume => \A k \in DOMAIN kept : kept[k].id \notin LoadDone(batchLog)
        /\ \A k \in DOMAIN listed : listed[k].id \in LoadDone(batchLog)
                                    \/ \E j \in DOMAIN kept : kept[j] = listed[k]
    <3>1. CASE resume
      BY <2>3, <3>1, NotDoneLeaves
    <3>2. CASE ~resume
      BY <2>3, <3>2 DEF Leaves
    <3> QED
      BY <3>1, <3>2
  <2> HIDE DEF kept
  <2>5. Cut(kept) \in Seq(S) /\ Leaves(Cut(kept), kept) /\ (SourceLimit = 0 => Cut(kept) = kept)
    BY <2>4, CutLeaves
  <2>6. \A id : Finished(id)' = Finished(id) /\ GoneThrough(id)' = GoneThrough(id)
    BY <1>1 DEF Finished, GoneThrough
  <2>7. asked \subseteq RegistryIds
    BY <2>2 DEF asked, RegistryIds
  <2>8. batch' \in Runs
    <3>1. Cut(kept) \in Seq(Registry)
      BY <2>2, <2>5
    <3> QED
      BY <2>1, <2>7, <3>1 DEF Runs, BatchPoints
  <2>9. batch'.at = "start" /\ batch'.todo = Cut(kept) /\ batch'.wanted = asked
    BY <2>1
  <2>10. BatchTypes'
    <3>1. unresumed' \in BOOLEAN /\ batchRuns' \in 0 .. BatchRuns
      BY <1>0, <1>1, RunAssumption DEF BatchTypes
    <3> QED
      BY <1>0, <1>1, <2>8, <3>1 DEF BatchTypes
  <2>11. /\ \A k \in DOMAIN Cut(kept) : Cut(kept)[k] \in S
         /\ \A j, k \in DOMAIN Cut(kept) : Cut(kept)[j] = Cut(kept)[k] => j = k
    BY <2>2, <2>4, <2>5 DEF Leaves, Lists
  <2>12. \A k \in DOMAIN Cut(kept) : \E j \in DOMAIN kept : Cut(kept)[k] = kept[j]
    BY <2>5 DEF Leaves
  <2>13. TodoOK'
    <3>1. \A k \in DOMAIN Cut(kept) : Cut(kept)[k].tier <= TierMax
      BY <2>11 DEF S, Eligible
    <3>2. \A j, k \in DOMAIN Cut(kept) : Cut(kept)[j].id = Cut(kept)[k].id => j = k
      BY <2>2, <2>11, RegistryAssumption
    <3>3. ASSUME NEW id \in asked
          PROVE  GoneThrough(id)' # {} \/ \E k \in DOMAIN Cut(kept) : Cut(kept)[k].id = id
      <4>1. PICK s \in S : s.id = id /\ SourceLimit = 0
        BY <3>3 DEF asked
      <4>2. PICK k \in DOMAIN listed : listed[k] = s
        BY <2>2 DEF Lists
      <4>3. CASE id \in LoadDone(batchLog)
        <5>1. Finished(id) # {}
          BY <1>0, <4>3, DoneIsFinished
        <5> QED
          BY <2>6, <5>1 DEF GoneThrough
      <4>4. CASE id \notin LoadDone(batchLog)
        BY <2>4, <2>5, <4>1, <4>2, <4>4
      <4> QED
        BY <4>3, <4>4
    <3> QED
      BY <2>9, <3>1, <3>2, <3>3 DEF TodoOK
  <2>14. LogOK'
    <3>1. batchRuns' # 0 /\ batchRuns \in Nat
      BY <1>0, <1>1, RunAssumption DEF BatchTypes
    <3>2. PICK todo : todo = Cut(kept)
      OBVIOUS
    <3>3. ASSUME ~unresumed'
          PROVE  /\ \A id : \A j, k \in Finished(id)' : j = k
                 /\ \A k \in DOMAIN todo : Finished(todo[k].id)' = {}
      <4>1. ~unresumed /\ (resume \/ batchLog = <<>>)
        <5>1. ~unresumed /\ ~(~resume /\ batchRuns > 0)
          BY <1>1, <3>3
        <5> QED
          BY <1>0, <3>1, <5>1 DEF LogOK
      <4>2. \A k \in DOMAIN todo : Finished(todo[k].id) = {}
        <5>1. CASE resume
          BY <1>0, <2>4, <2>12, <3>2, <5>1, DoneIsFinished
        <5>2. CASE batchLog = <<>>
          BY <5>2 DEF Finished
        <5> QED
          BY <4>1, <5>1, <5>2
      <4> QED
        BY <1>0, <2>6, <4>1, <4>2 DEF LogOK
    <3> QED
      BY <2>9, <3>1, <3>2, <3>3 DEF LogOK, Under
  <2>15. OneFtsRow' /\ FtsCovers'
    BY <1>0, <1>1, <2>9 DEF OneFtsRow, FtsCovers
  <2> QED
    BY <2>10, <2>13, <2>14, <2>15 DEF BatchInv
<1> QED
  BY <1>2, <1>3

LEMMA DryKeeps == ASSUME BatchInv, NEW resume \in BOOLEAN, DryRun(resume) PROVE BatchInv'
<1>1. /\ \E point \in {"raised", "dry"} : batch' = [NoBatch EXCEPT !.at = point]
      /\ batchRuns < BatchRuns /\ batchRuns' = batchRuns + 1
      /\ UNCHANGED <<live, made, chunked, fts, batchLog, openLine, children, late, unresumed,
                     batchKills>>
  BY DEF DryRun, Begin
<1> QED
  BY <1>1, IdleKeeps

(* The first line of a run may end the line of a source an earlier run     *)
(* went through; it does not undo that.                                    *)
LEMMA LogStartKeeps == ASSUME BatchInv, LogStart PROVE BatchInv'
<1>0. BatchTypes /\ TodoOK /\ LogOK /\ OneFtsRow /\ FtsCovers
  BY DEF BatchInv
<1>1. /\ batch.at \in {"start", "dry"} /\ batchLog' = WithLine(LogLine("batch_start", "none", "whole"))
      /\ openLine' = FALSE
      /\ batch' = IF batch.at = "dry" THEN NoBatch ELSE [batch EXCEPT !.at = "poll"]
      /\ UNCHANGED <<live, made, chunked, fts, children, late, unresumed, batchRuns, batchKills>>
  BY DEF LogStart, Logged
<1>2. /\ batchLog' \in Seq(LogLines) /\ batchLog' # <<>>
      /\ \A id : GoneThrough(id) \subseteq GoneThrough(id)' /\ Finished(id)' \subseteq Finished(id)
  BY <1>0, <1>1, OtherLine DEF LogKinds
<1>3. /\ batch' \in Runs /\ batch'.todo = batch.todo /\ batch'.wanted = batch.wanted
      /\ batch'.at \in {"off", "poll"} /\ (batch'.at = "off" => batch.at = "dry")
  <2>1. CASE batch.at = "dry"
    <3>1. batch.todo = <<>> /\ batch.wanted = {}
      BY <1>0, <2>1 DEF TodoOK
    <3> QED
      BY <1>1, <2>1, <3>1 DEF NoBatch, Runs, BatchPoints
  <2>2. CASE batch.at = "start"
    BY <1>0, <1>1, <2>2 DEF BatchTypes, Runs, BatchPoints
  <2> QED
    BY <1>1, <2>1, <2>2
<1>4. BatchTypes'
  BY <1>0, <1>1, <1>2, <1>3 DEF BatchTypes
<1>5. TodoOK'
  BY <1>0, <1>2, <1>3 DEF TodoOK
<1>6. batchRuns' # 0
  BY <1>0, <1>1 DEF LogOK
<1>7. ~unresumed' => \A id : \A j, k \in Finished(id)' : j = k
  BY <1>0, <1>1, <1>2 DEF LogOK
<1>8. PICK todo : todo = batch.todo
  OBVIOUS
<1>9. LogOK'
  <2>1. ~unresumed' => \A k \in DOMAIN todo : Finished(todo[k].id)' = {}
    BY <1>0, <1>1, <1>2, <1>8 DEF LogOK
  <2> QED
    BY <1>1, <1>3, <1>6, <1>7, <1>8, <2>1 DEF LogOK
<1>10. OneFtsRow' /\ FtsCovers'
  BY <1>0, <1>1, <1>3 DEF OneFtsRow, FtsCovers
<1> QED
  BY <1>4, <1>5, <1>9, <1>10 DEF BatchInv

(* A step that only moves the run on.                                      *)
LEMMA MovesOn ==
  ASSUME BatchInv, NEW point \in {"poll", "index", "log"}, batch.at \in {"poll", "index"},
         batch' = [batch EXCEPT !.at = point], batch.todo # <<>>,
         UNCHANGED <<batchLog, openLine, unresumed, batchRuns, batchKills>>
  PROVE  TodoOK' /\ LogOK' /\ batch' \in Runs /\ batch'.at = point
<1>0. BatchTypes /\ TodoOK /\ LogOK
  BY DEF BatchInv
<1>1. /\ batch' \in Runs
      /\ batch'.at = point /\ batch'.todo = batch.todo /\ batch'.wanted = batch.wanted
  BY <1>0 DEF BatchTypes, Runs, BatchPoints
<1>2. \A id : Finished(id)' = Finished(id) /\ GoneThrough(id)' = GoneThrough(id)
  BY DEF Finished, GoneThrough
<1>3. TodoOK'
  BY <1>0, <1>1, <1>2 DEF TodoOK
<1>4. LogOK'
  BY <1>0, <1>1, <1>2 DEF LogOK, Under
<1> QED
  BY <1>1, <1>3, <1>4

(* What a poll leaves, of a run or of a child without one.                 *)
LEMMA PolledKeeps ==
  ASSUME BatchTypes, NEW id \in RegistryIds, Polled(id)
  PROVE  /\ live' \in [RegistryIds -> SUBSET (1 .. DocLimit)]
         /\ made' \in [RegistryIds -> 0 .. DocLimit]
         /\ \A i \in RegistryIds : live'[i] \subseteq 1 .. made'[i]
<1> DEFINE new == made[id] + 1
<1>0. /\ live \in [RegistryIds -> SUBSET (1 .. DocLimit)] /\ made \in [RegistryIds -> 0 .. DocLimit]
      /\ \A i \in RegistryIds : live[i] \subseteq 1 .. made[i] /\ DocLimit \in Nat
  BY RunAssumption DEF BatchTypes
<1>1. CASE UNCHANGED <<live, made>>
  BY <1>0, <1>1
<1>2. ASSUME new <= DocLimit, made' = [made EXCEPT ![id] = new],
             NEW docs \in {live[id] \cup {new}, {new}}, live' = [live EXCEPT ![id] = docs]
      PROVE  /\ live' \in [RegistryIds -> SUBSET (1 .. DocLimit)]
             /\ made' \in [RegistryIds -> 0 .. DocLimit]
             /\ \A i \in RegistryIds : live'[i] \subseteq 1 .. made'[i]
  <2>1. made[id] \in Nat /\ new \in 1 .. DocLimit
    BY <1>0, <1>2
  <2>2. docs \subseteq 1 .. new /\ docs \subseteq 1 .. DocLimit
    BY <1>0, <1>2, <2>1
  <2> HIDE DEF new
  <2> QED
    BY <1>0, <1>2, <2>1, <2>2
<1> QED
  BY <1>1, <1>2 DEF Polled

LEMMA FirstId ==
  ASSUME BatchTypes, batch.todo # <<>>
  PROVE  Head(batch.todo).id \in RegistryIds
<1>1. batch.todo \in Seq(Registry)
  BY DEF BatchTypes, Runs
<1>2. Head(batch.todo) \in Registry
  BY <1>1
<1> QED
  BY <1>2 DEF RegistryIds

LEMMA PollKeeps == ASSUME BatchInv, PollSource PROVE BatchInv'
<1>0. BatchTypes /\ TodoOK /\ OneFtsRow /\ FtsCovers
  BY DEF BatchInv
<1>1. /\ batch.at = "poll" /\ batch.todo # <<>> /\ batch' = [batch EXCEPT !.at = "index"]
      /\ UNCHANGED <<chunked, fts, batchLog, openLine, children, late, unresumed, batchRuns, batchKills>>
  BY DEF PollSource
<1>2. TodoOK' /\ LogOK' /\ batch' \in Runs /\ batch'.at = "index"
  BY <1>1, MovesOn
<1>3. /\ live' \in [RegistryIds -> SUBSET (1 .. DocLimit)]
      /\ made' \in [RegistryIds -> 0 .. DocLimit]
      /\ \A i \in RegistryIds : live'[i] \subseteq 1 .. made'[i]
  BY <1>0, <1>1, FirstId, PolledKeeps DEF PollSource
<1>4. BatchTypes'
  BY <1>0, <1>1, <1>2, <1>3 DEF BatchTypes
<1>5. OneFtsRow' /\ FtsCovers'
  BY <1>0, <1>1, <1>2 DEF OneFtsRow, FtsCovers
<1> QED
  BY <1>2, <1>4, <1>5 DEF BatchInv

LEMMA UnchunkedOf ==
  ASSUME BatchTypes, NEW id \in RegistryIds PROVE Unchunked(id) \subseteq Documents
BY DEF BatchTypes, Unchunked, LiveDocs, Documents

LEMMA IndexKeeps == ASSUME BatchInv, IndexSource PROVE BatchInv'
<1>0. BatchTypes /\ TodoOK /\ OneFtsRow /\ FtsCovers
  BY DEF BatchInv
<1>1. /\ batch.at = "index" /\ batch' = [batch EXCEPT !.at = "log"]
      /\ UNCHANGED <<live, made, fts, batchLog, openLine, children, late, unresumed, batchRuns, batchKills>>
  BY DEF IndexSource
<1>2. batch.todo # <<>>
  BY <1>0, <1>1 DEF TodoOK
<1>3. TodoOK' /\ LogOK' /\ batch' \in Runs /\ batch'.at = "log"
  BY <1>1, <1>2, MovesOn
<1>4. chunked \subseteq chunked' /\ chunked' \subseteq Documents
  <2>1. PICK some \in SUBSET Unchunked(Head(batch.todo).id) : chunked' = chunked \cup some
    BY DEF IndexSource
  <2>2. Unchunked(Head(batch.todo).id) \subseteq Documents
    BY <1>0, <1>2, FirstId, UnchunkedOf
  <2> QED
    BY <1>0, <2>1, <2>2 DEF BatchTypes
<1>5. BatchTypes'
  BY <1>0, <1>1, <1>3, <1>4 DEF BatchTypes
<1>6. OneFtsRow' /\ FtsCovers'
  BY <1>0, <1>1, <1>3, <1>4 DEF OneFtsRow, FtsCovers
<1> QED
  BY <1>3, <1>5, <1>6 DEF BatchInv

(* A source that is through is in the log, and no longer left to do.       *)
LEMMA LogKeeps == ASSUME BatchInv, LogSource PROVE BatchInv'
<1> DEFINE source == Head(batch.todo).id
<1>0. BatchTypes /\ TodoOK /\ LogOK /\ OneFtsRow /\ FtsCovers
  BY DEF BatchInv
<1>1. /\ batch.at = "log" /\ batchLog' = WithLine(LogLine("source_done", source, "whole"))
      /\ openLine' = FALSE
      /\ UNCHANGED <<live, made, chunked, fts, children, late, unresumed, batchRuns, batchKills>>
  BY DEF LogSource, Logged
<1>2. PICK point \in {"sync", "poll"} :
        batch' = [batch EXCEPT !.processed = batch.processed + 1, !.todo = Tail(@), !.at = point]
  BY DEF LogSource
<1>3. batch.todo \in Seq(Registry) /\ batch.todo # <<>> /\ batch.processed \in Nat /\ ~openLine
  BY <1>0, <1>1 DEF BatchTypes, TodoOK, LogOK, Under, Runs
<1>4. /\ batch' \in Runs
      /\ batch'.at = point /\ batch'.todo = Tail(batch.todo) /\ batch'.wanted = batch.wanted
  <2>1. Tail(batch.todo) \in Seq(Registry)
    BY <1>3
  <2>2. batch \in Runs
    BY <1>0 DEF BatchTypes
  <2>3. batch' = [at |-> point, todo |-> Tail(batch.todo), processed |-> batch.processed + 1,
                  wanted |-> batch.wanted]
    BY <1>2, <2>2 DEF Runs
  <2>4. batch.processed + 1 \in Nat
    BY <1>3
  <2> QED
    BY <2>1, <2>2, <2>3, <2>4 DEF Runs, BatchPoints
<1>5. /\ source \in RegistryIds /\ source = batch.todo[1].id /\ 1 \in DOMAIN batch.todo
      /\ \A k \in DOMAIN Tail(batch.todo) :
           k + 1 \in DOMAIN batch.todo /\ Tail(batch.todo)[k] = batch.todo[k + 1] /\ k + 1 # 1
      /\ \A k \in DOMAIN batch.todo : k = 1 \/
           \E j \in DOMAIN Tail(batch.todo) : k = j + 1 /\ Tail(batch.todo)[j] = batch.todo[k]
  <2>1. Len(batch.todo) \in Nat /\ Len(batch.todo) # 0 /\ DOMAIN batch.todo = 1 .. Len(batch.todo)
    BY <1>3
  <2>2. /\ DOMAIN Tail(batch.todo) = 1 .. Len(batch.todo) - 1
        /\ \A k \in 1 .. Len(batch.todo) - 1 : Tail(batch.todo)[k] = batch.todo[k + 1]
    BY <1>3
  <2>3. Head(batch.todo) = batch.todo[1] /\ batch.todo[1] \in Registry
    BY <1>3, <2>1
  <2>4. ASSUME NEW k \in DOMAIN batch.todo, k # 1
        PROVE  \E j \in DOMAIN Tail(batch.todo) : k = j + 1 /\ Tail(batch.todo)[j] = batch.todo[k]
    <3>1. k - 1 \in 1 .. Len(batch.todo) - 1 /\ (k - 1) + 1 = k
      BY <2>1, <2>4
    <3> QED
      BY <2>2, <3>1
  <2>5. \A k \in DOMAIN Tail(batch.todo) : k + 1 \in DOMAIN batch.todo /\ k + 1 # 1
    BY <2>1, <2>2
  <2>6. source \in RegistryIds
    BY <2>3 DEF RegistryIds
  <2>7. source = batch.todo[1].id /\ 1 \in DOMAIN batch.todo
    BY <2>1, <2>3
  <2> HIDE DEF source
  <2> QED
    BY <2>2, <2>4, <2>5, <2>6, <2>7
<1>6. PICK todo : todo = Tail(batch.todo)
  OBVIOUS
<1>7. PICK src : src = source
  OBVIOUS
<1>8. /\ batchLog' \in Seq(LogLines) /\ batchLog' # <<>>
      /\ \A id : GoneThrough(id) \subseteq GoneThrough(id)'
      /\ GoneThrough(src)' # {}
      /\ Finished(src) = {} => \A j, k \in Finished(src)' : j = k
      /\ \A id : id # src => Finished(id)' \subseteq Finished(id)
  <2> DEFINE line == LogLine("source_done", src, "whole")
  <2>1. line \in LogLines /\ BatchTypes /\ batchLog' = WithLine(line)
    BY <1>0, <1>1, <1>5, <1>7 DEF LogLines, LogLine, LogKinds
  <2>2. \A id : line = LogLine("source_done", id, "whole") <=> id = src
    BY DEF LogLine
  <2> HIDE DEF line
  <2>3. Extended(line)
    BY <2>1, LineAdds
  <2> QED
    BY <1>3, <2>2, <2>3 DEF Extended
<1> HIDE DEF source
<1>9. BatchTypes'
  BY <1>0, <1>1, <1>4, <1>8 DEF BatchTypes
<1>10. \A k \in DOMAIN todo : todo[k].id # src
  BY <1>0, <1>5, <1>6, <1>7 DEF TodoOK
<1>11. TodoOK'
  <2>1. \A k \in DOMAIN todo : todo[k].tier <= TierMax
    BY <1>0, <1>5, <1>6 DEF TodoOK
  <2>2. ASSUME NEW j \in DOMAIN todo, NEW k \in DOMAIN todo, todo[j].id = todo[k].id PROVE j = k
    <3>1. j + 1 = k + 1 /\ j \in Int /\ k \in Int
      <4>1. j + 1 = k + 1
        BY <1>0, <1>5, <1>6, <2>2 DEF TodoOK
      <4>2. DOMAIN todo \subseteq Int
        BY <1>3, <1>6
      <4> QED
        BY <4>1, <4>2
    <3> QED
      BY <3>1
  <2>3. ASSUME NEW id \in batch.wanted
        PROVE  GoneThrough(id)' # {} \/ \E k \in DOMAIN todo : todo[k].id = id
    <3>1. CASE GoneThrough(id) # {}
      BY <1>8, <3>1
    <3>2. ASSUME NEW k \in DOMAIN batch.todo, batch.todo[k].id = id
          PROVE  GoneThrough(id)' # {} \/ \E j \in DOMAIN todo : todo[j].id = id
      BY <1>5, <1>6, <1>7, <1>8, <3>2
    <3> QED
      BY <1>0, <3>1, <3>2 DEF TodoOK
  <2> QED
    BY <1>4, <1>6, <2>1, <2>2, <2>3 DEF TodoOK
<1>12. LogOK'
  <2>1. batchRuns # 0 /\ batchRuns' = batchRuns
    BY <1>0, <1>1 DEF LogOK
  <2>2. ASSUME ~unresumed
        PROVE  /\ \A id : \A j, k \in Finished(id)' : j = k
               /\ \A k \in DOMAIN todo : Finished(todo[k].id)' = {}
    <3>1. /\ \A id : \A j, k \in Finished(id) : j = k
          /\ \A k \in DOMAIN batch.todo : Finished(batch.todo[k].id) = {}
      BY <1>0, <2>2 DEF LogOK
    <3>2. Finished(src) = {}
      BY <1>5, <1>7, <3>1
    <3>3. \A k \in DOMAIN todo : Finished(todo[k].id) = {}
      BY <1>5, <1>6, <3>1
    <3>4. \A id : \A j, k \in Finished(id)' : j = k
      BY <1>8, <3>1, <3>2
    <3>5. \A k \in DOMAIN todo : Finished(todo[k].id)' = {}
      BY <1>8, <1>10, <3>3
    <3> QED
      BY <3>4, <3>5
  <2> QED
    BY <1>1, <1>4, <1>6, <2>1, <2>2 DEF LogOK
<1>13. OneFtsRow' /\ FtsCovers'
  BY <1>0, <1>1, <1>4 DEF OneFtsRow, FtsCovers
<1> QED
  BY <1>9, <1>11, <1>12, <1>13 DEF BatchInv

(* A sync gives every chunk one row.                                       *)
LEMMA SyncsOnce ==
  ASSUME BatchTypes, OneFtsRow, Sync, chunked' = chunked
  PROVE  /\ fts' \in [Documents -> Nat] /\ OneFtsRow' /\ \A c \in chunked' : fts'[c] > 0
         /\ late' \subseteq chunked'
<1>1. fts \in [Documents -> Nat] /\ chunked \subseteq Documents /\ fts' = Synced /\ late' = {}
  BY DEF BatchTypes, Sync
<1>2. \A c \in Documents : fts'[c] = IF c \in chunked /\ fts[c] = 0 THEN 1 ELSE fts[c]
  BY <1>1 DEF Synced
<1>3. fts' \in [Documents -> Nat]
  BY <1>1 DEF Synced
<1> QED
  BY <1>1, <1>2, <1>3 DEF OneFtsRow

(* A line about no source, or none, while the run goes on or ends.         *)
LEMMA QuietLog ==
  ASSUME BatchInv, batch'.todo = batch.todo, batch'.wanted = batch.wanted,
         batch'.at \in {"poll", "ended"}, batch.at \in {"sync", "poll"},
         batch'.at = "ended" => batch.todo = <<>>,
         openLine' = FALSE, batchRuns' = batchRuns, unresumed' = unresumed,
         \A id : GoneThrough(id) \subseteq GoneThrough(id)' /\ Finished(id)' \subseteq Finished(id)
  PROVE  TodoOK' /\ LogOK'
<1>0. TodoOK /\ LogOK
  BY DEF BatchInv
<1>1. TodoOK'
  BY <1>0 DEF TodoOK
<1>2. batchRuns' # 0
  BY <1>0 DEF LogOK
<1>3. ~unresumed' => \A id : \A j, k \in Finished(id)' : j = k
  BY <1>0 DEF LogOK
<1>4. PICK todo : todo = batch.todo
  OBVIOUS
<1>5. ~unresumed' => \A k \in DOMAIN todo : Finished(todo[k].id)' = {}
  BY <1>0, <1>4 DEF LogOK
<1> QED
  BY <1>1, <1>2, <1>3, <1>4, <1>5 DEF LogOK

LEMMA SyncKeeps == ASSUME BatchInv, SyncFts PROVE BatchInv'
<1>0. BatchTypes /\ TodoOK /\ LogOK /\ OneFtsRow
  BY DEF BatchInv
<1>1. /\ batch.at = "sync" /\ Sync /\ batch' = [batch EXCEPT !.at = "poll"]
      /\ batchLog' = WithLine(LogLine("fts_sync", "none", "whole")) /\ openLine' = FALSE
      /\ UNCHANGED <<live, made, chunked, children, unresumed, batchRuns, batchKills>>
  BY DEF SyncFts, Logged
<1>2. /\ batchLog' \in Seq(LogLines) /\ batchLog' # <<>>
      /\ \A id : GoneThrough(id) \subseteq GoneThrough(id)' /\ Finished(id)' \subseteq Finished(id)
  BY <1>0, <1>1, OtherLine DEF LogKinds
<1>3. fts' \in [Documents -> Nat] /\ OneFtsRow' /\ late' \subseteq chunked'
  BY <1>0, <1>1, SyncsOnce
<1>4. batch' \in Runs /\ batch'.at = "poll" /\ batch'.todo = batch.todo /\ batch'.wanted = batch.wanted
  BY <1>0, <1>1 DEF BatchTypes, Runs, BatchPoints
<1>5. BatchTypes'
  BY <1>0, <1>1, <1>2, <1>3, <1>4 DEF BatchTypes
<1>6. TodoOK' /\ LogOK'
  BY <1>1, <1>2, <1>4, QuietLog
<1>7. FtsCovers'
  BY <1>4 DEF FtsCovers
<1> QED
  BY <1>3, <1>5, <1>6, <1>7 DEF BatchInv

(* At the end of a run nothing is left to do, and, if it syncs, every      *)
(* chunk has its row.                                                      *)
LEMMA EndKeeps == ASSUME BatchInv, EndRun PROVE BatchInv'
<1>0. BatchTypes /\ TodoOK /\ LogOK /\ OneFtsRow
  BY DEF BatchInv
<1>1. /\ batch.at = "poll" /\ batch.todo = <<>> /\ batch' = [batch EXCEPT !.at = "ended"]
      /\ IF SyncEvery = 0 THEN UNCHANGED <<fts, late>> ELSE Sync
      /\ batchLog' = WithLine(LogLine("batch_done", "none", "whole")) /\ openLine' = FALSE
      /\ UNCHANGED <<live, made, chunked, children, unresumed, batchRuns, batchKills>>
  BY DEF EndRun, Logged
<1>2. /\ batchLog' \in Seq(LogLines) /\ batchLog' # <<>>
      /\ \A id : GoneThrough(id) \subseteq GoneThrough(id)' /\ Finished(id)' \subseteq Finished(id)
  BY <1>0, <1>1, OtherLine DEF LogKinds
<1>3. /\ fts' \in [Documents -> Nat] /\ OneFtsRow' /\ late' \subseteq chunked'
      /\ SyncEvery > 0 => \A c \in chunked' : fts'[c] > 0
  <2>1. CASE SyncEvery = 0
    BY <1>0, <1>1, <2>1 DEF BatchTypes, OneFtsRow
  <2>2. CASE SyncEvery # 0
    BY <1>0, <1>1, <2>2, SyncsOnce
  <2> QED
    BY <2>1, <2>2
<1>4. batch' \in Runs /\ batch'.at = "ended" /\ batch'.todo = batch.todo /\ batch'.wanted = batch.wanted
  BY <1>0, <1>1 DEF BatchTypes, Runs, BatchPoints
<1>5. BatchTypes'
  BY <1>0, <1>1, <1>2, <1>3, <1>4 DEF BatchTypes
<1>6. TodoOK' /\ LogOK'
  BY <1>1, <1>2, <1>4, QuietLog
<1>7. FtsCovers'
  BY <1>3 DEF FtsCovers
<1> QED
  BY <1>3, <1>5, <1>6, <1>7 DEF BatchInv

(* A kill may leave a piece of the line that is being written, or all of   *)
(* it but its newline; the run's sources are then no longer left to do.    *)
LEMMA KillKeeps == ASSUME BatchInv, KillRun PROVE BatchInv'
<1>0. BatchTypes /\ TodoOK /\ LogOK /\ OneFtsRow
  BY DEF BatchInv
<1>1. /\ batch.at # "off" /\ batch' = NoBatch
      /\ batchKills < BatchKills /\ batchKills' = batchKills + 1
      /\ UNCHANGED <<live, made, chunked, unresumed, batchRuns>>
  BY DEF KillRun
<1>2. \/ batchLog' = batchLog /\ openLine' = openLine
      \/ openLine' = TRUE /\ ~Polling /\ \E piece \in Pieces : batchLog' = WithLine(piece)
  BY DEF KillRun
<1>3. fts' \in [Documents -> Nat] /\ OneFtsRow' /\ late' \subseteq chunked'
  <2>1. UNCHANGED <<fts, late>> \/ Sync
    BY DEF KillRun
  <2>2. CASE UNCHANGED <<fts, late>>
    BY <1>0, <1>1, <2>2 DEF BatchTypes, OneFtsRow
  <2>3. CASE Sync
    BY <1>0, <1>1, <2>3, SyncsOnce
  <2> QED
    BY <2>1, <2>2, <2>3
<1>4. children' \subseteq {"poll", "index"} \X RegistryIds
  <2>1. \/ children' = children
        \/ Polling /\ children' = children \cup {<<batch.at, Head(batch.todo).id>>}
    BY DEF KillRun
  <2>2. Polling => batch.at \in {"poll", "index"} /\ batch.todo # <<>>
    BY <1>0 DEF Polling, TodoOK
  <2>3. Polling => Head(batch.todo).id \in RegistryIds
    BY <1>0, <2>2, FirstId
  <2> QED
    BY <1>0, <2>1, <2>2, <2>3 DEF BatchTypes
<1>5. batchKills' \in 0 .. BatchKills
  BY <1>0, <1>1, RunAssumption DEF BatchTypes
<1>6. batch' \in Runs /\ batch'.at = "off" /\ batch'.todo = <<>> /\ batch'.wanted = {}
  BY <1>1 DEF NoBatch, Runs, BatchPoints
<1>7. /\ batchLog' \in Seq(LogLines)
      /\ openLine' \in BOOLEAN /\ (openLine' => batchLog' # <<>>)
      /\ ~unresumed => \A id : \A j, k \in Finished(id)' : j = k
  <2>1. CASE batchLog' = batchLog /\ openLine' = openLine
    <3>1. \A id : Finished(id)' = Finished(id)
      BY <2>1 DEF Finished
    <3> QED
      BY <1>0, <2>1, <3>1 DEF BatchTypes, LogOK
  <2>2. ASSUME openLine' = TRUE, ~Polling, NEW piece \in Pieces, batchLog' = WithLine(piece)
        PROVE  /\ batchLog' \in Seq(LogLines)
               /\ openLine' \in BOOLEAN /\ (openLine' => batchLog' # <<>>)
               /\ ~unresumed => \A id : \A j, k \in Finished(id)' : j = k
    <3>1. CASE batch.at = "log"
      <4>1. PICK src : src = Head(batch.todo).id
        OBVIOUS
      <4>2. batch.todo # <<>>
        BY <1>0, <3>1 DEF TodoOK
      <4>3. src \in RegistryIds
        BY <1>0, <4>1, <4>2, FirstId
      <4>4. PICK kind \in LogKinds : piece = LogLine("source_done", src, kind)
        BY <2>2, <3>1, <4>1 DEF Pieces, LogKinds
      <4>5. piece \in LogLines
        BY <4>3, <4>4 DEF LogLines, LogLine
      <4>6. Extended(piece)
        BY <1>0, <2>2, <4>5, LineAdds
      <4>7. \A id : piece = LogLine("source_done", id, "whole") => id = src
        BY <4>4 DEF LogLine
      <4>8. ~openLine
        BY <1>0, <3>1 DEF LogOK, Under
      <4>9. ASSUME ~unresumed PROVE \A id : \A j, k \in Finished(id)' : j = k
        <5>1. Finished(src) = {}
          <6>1. batch.todo \in Seq(Registry)
            BY <1>0 DEF BatchTypes, Runs
          <6>2. 1 \in DOMAIN batch.todo /\ src = batch.todo[1].id
            BY <4>1, <4>2, <6>1
          <6> QED
            BY <1>0, <4>9, <6>2 DEF LogOK
        <5>2. ASSUME NEW id PROVE \A j, k \in Finished(id)' : j = k
          <6>1. CASE piece = LogLine("source_done", id, "whole")
            BY <4>6, <4>7, <4>8, <5>1, <6>1 DEF Extended
          <6>2. CASE piece # LogLine("source_done", id, "whole")
            BY <1>0, <4>6, <4>9, <6>2 DEF Extended, LogOK
          <6> QED
            BY <6>1, <6>2
        <5> QED
          BY <5>2
      <4> QED
        BY <2>2, <4>6, <4>9 DEF Extended
    <3>2. CASE batch.at # "log"
      <4>1. PICK phase \in {"batch_start", "fts_sync", "batch_done"}, kind \in LogKinds :
               piece = LogLine(phase, "none", kind)
        <5> DEFINE phase == IF batch.at \in {"start", "dry"} THEN "batch_start"
                            ELSE IF batch.at = "sync" THEN "fts_sync" ELSE "batch_done"
        <5>2. phase \in {"batch_start", "fts_sync", "batch_done"}
          OBVIOUS
        <5>3. \E kind \in {"torn", "whole"} : piece = LogLine(phase, "none", kind)
          BY <2>2, <3>2 DEF Pieces
        <5> HIDE DEF phase
        <5> QED
          BY <5>2, <5>3 DEF LogKinds
      <4>2. /\ batchLog' \in Seq(LogLines) /\ batchLog' # <<>>
            /\ \A id : Finished(id)' \subseteq Finished(id)
        BY <1>0, <2>2, <4>1, OtherLine
      <4> QED
        BY <1>0, <2>2, <4>2 DEF LogOK
    <3> QED
      BY <3>1, <3>2
  <2> QED
    BY <1>2, <2>1, <2>2
<1>8. BatchTypes'
  BY <1>0, <1>1, <1>3, <1>4, <1>5, <1>6, <1>7 DEF BatchTypes
<1>9. TodoOK'
  BY <1>6 DEF TodoOK
<1>10. LogOK'
  <2>1. batchRuns' # 0
    BY <1>0, <1>1 DEF LogOK
  <2> QED
    BY <1>1, <1>6, <1>7, <2>1 DEF LogOK, Under
<1>11. FtsCovers'
  BY <1>6 DEF FtsCovers
<1> QED
  BY <1>3, <1>8, <1>9, <1>10, <1>11 DEF BatchInv

(* A child without a run changes the database and nothing else.            *)
LEMMA ChildKeeps == ASSUME BatchInv, ChildEnds PROVE BatchInv'
<1>0. BatchTypes /\ TodoOK /\ LogOK /\ OneFtsRow /\ FtsCovers
  BY DEF BatchInv
<1>1. UNCHANGED <<fts, batchLog, openLine, batch, unresumed, batchRuns, batchKills>>
  BY DEF ChildEnds
<1>2. PICK child \in children :
        /\ children' = children \ {child}
        /\ \/ child[1] = "poll" /\ Polled(child[2]) /\ UNCHANGED <<chunked, late>>
           \/ /\ child[1] = "index"
              /\ \E some \in SUBSET Unchunked(child[2]) :
                    chunked' = chunked \cup some /\ late' = late \cup some
              /\ UNCHANGED <<live, made>>
  BY DEF ChildEnds
<1>3. child[2] \in RegistryIds /\ children' \subseteq {"poll", "index"} \X RegistryIds
  BY <1>0, <1>2 DEF BatchTypes
<1>4. /\ live' \in [RegistryIds -> SUBSET (1 .. DocLimit)]
      /\ made' \in [RegistryIds -> 0 .. DocLimit]
      /\ \A i \in RegistryIds : live'[i] \subseteq 1 .. made'[i]
  <2>1. CASE Polled(child[2])
    BY <1>0, <1>3, <2>1, PolledKeeps
  <2>2. CASE UNCHANGED <<live, made>>
    BY <1>0, <2>2 DEF BatchTypes
  <2> QED
    BY <1>2, <2>1, <2>2
<1>5. PICK some \in SUBSET Documents : chunked' = chunked \cup some /\ late' = late \cup some
  <2>1. CASE UNCHANGED <<chunked, late>>
    <3>1. {} \in SUBSET Documents /\ chunked' = chunked \cup {} /\ late' = late \cup {}
      BY <2>1
    <3> QED
      BY <3>1
  <2>2. ASSUME NEW some \in SUBSET Unchunked(child[2]),
               chunked' = chunked \cup some, late' = late \cup some
        PROVE  \E more \in SUBSET Documents : chunked' = chunked \cup more /\ late' = late \cup more
    BY <1>0, <1>3, <2>2, UnchunkedOf
  <2> QED
    BY <1>2, <2>1, <2>2
<1>6. /\ chunked' \subseteq Documents /\ late' \subseteq chunked' /\ chunked \subseteq chunked'
      /\ chunked' \ late' \subseteq chunked \ late
  BY <1>0, <1>5 DEF BatchTypes
<1>7. BatchTypes'
  BY <1>0, <1>1, <1>3, <1>4, <1>6 DEF BatchTypes
<1>8. \A id : Finished(id)' = Finished(id) /\ GoneThrough(id)' = GoneThrough(id)
  BY <1>1 DEF Finished, GoneThrough
<1>9. TodoOK'
  BY <1>0, <1>1, <1>8 DEF TodoOK
<1>10. LogOK'
  BY <1>0, <1>1, <1>8 DEF LogOK, Under
<1>11. OneFtsRow' /\ FtsCovers'
  BY <1>0, <1>1, <1>6 DEF OneFtsRow, FtsCovers
<1> QED
  BY <1>7, <1>9, <1>10, <1>11 DEF BatchInv

LEMMA BatchStep == BatchInv /\ [RunNext]_crawlBatchVars => BatchInv'
<1> SUFFICES ASSUME BatchInv, [RunNext]_crawlBatchVars PROVE BatchInv'
  OBVIOUS
<1>1. CASE UNCHANGED crawlBatchVars
  BY <1>1 DEF crawlBatchVars, BatchInv, BatchTypes, TodoOK, LogOK, OneFtsRow, FtsCovers, Under,
              Finished, GoneThrough
<1>2. ASSUME NEW option \in BatchOptions, NEW resume \in BOOLEAN, StartRun(option, resume)
      PROVE BatchInv'
  BY <1>2, StartKeeps
<1>3. ASSUME NEW resume \in BOOLEAN, DryRun(resume) PROVE BatchInv'
  BY <1>3, DryKeeps
<1> QED
  BY <1>1, <1>2, <1>3, LogStartKeeps, PollKeeps, IndexKeeps, LogKeeps, SyncKeeps, EndKeeps,
     KillKeeps, ChildKeeps DEF RunNext

(* run_crawl_batch.py, whatever a poll or an index run does, wherever the  *)
(* script is killed, and while its children go on: no chunk is found       *)
(* twice, each can be found at the end of a run that syncs but for what    *)
(* such a child made later, the log never says twice that a source is done *)
(* as long as runs resume, and a run that has ended has left none out.     *)
THEOREM BatchesSound == RunSpec => []BatchesAreSound
<1>1. BatchInv => BatchesAreSound
  <2> SUFFICES ASSUME BatchInv PROVE BatchesAreSound
    OBVIOUS
  <2>0. BatchTypes /\ TodoOK /\ LogOK /\ OneFtsRow /\ FtsCovers
    BY DEF BatchInv
  <2>1. RunTypeOK
    <3>1. \A id \in RegistryIds : live[id] \subseteq 1 .. made[id] /\ made[id] <= DocLimit
      BY <2>0, RunAssumption DEF BatchTypes
    <3>2. /\ late \subseteq chunked /\ chunked \subseteq Documents /\ \A c \in Documents : fts[c] \in Nat
          /\ children \subseteq {"poll", "index"} \X RegistryIds /\ (openLine => batchLog # <<>>)
      BY <2>0 DEF BatchTypes
    <3>3. batch.at \in BatchPoints /\ batch.todo \in Seq(Registry)
      BY <2>0 DEF BatchTypes, Runs
    <3>4. \A s \in ToSet(batch.todo) : s \in Registry /\ s.tier <= TierMax
      BY <2>0, <3>3 DEF TodoOK, ToSet
    <3>5. batchRuns \in 0 .. BatchRuns /\ batchKills \in 0 .. BatchKills
      BY <2>0 DEF BatchTypes
    <3> QED
      BY <3>1, <3>2, <3>3, <3>4, <3>5 DEF RunTypeOK
  <2>2. FinishedOnce
    <3> SUFFICES ASSUME ~unresumed, NEW id \in RegistryIds PROVE Cardinality(Finished(id)) <= 1
      BY DEF FinishedOnce
    <3>1. \A j, k \in Finished(id) : j = k
      BY <2>0 DEF LogOK
    <3>2. CASE Finished(id) = {}
      BY <3>2, FS_EmptySet
    <3>3. ASSUME NEW k \in Finished(id) PROVE Cardinality(Finished(id)) <= 1
      <4>1. Finished(id) = {k}
        BY <3>1
      <4>2. Cardinality({k}) = 1
        BY FS_Singleton
      <4> QED
        BY <4>1, <4>2
    <3> QED
      BY <3>2, <3>3
  <2>3. RunIsComplete
    <3>1. \A id \in batch.wanted : GoneThrough(id) # {} \/ \E k \in DOMAIN batch.todo : TRUE
      BY <2>0 DEF TodoOK
    <3>2. batch.at = "ended" => DOMAIN batch.todo = {}
      BY <2>0 DEF TodoOK
    <3> QED
      BY <3>1, <3>2 DEF RunIsComplete
  <2> QED
    BY <2>0, <2>1, <2>2, <2>3 DEF BatchesAreSound
<1> QED
  BY <1>1, BatchBegins, BatchStep, PTL DEF RunSpec
-----------------------------------------------------------------------------
(* crawl_sources.py.                                                       *)

Lines == [url : Urls, depth : Nat, kind : Answered]
Items == Urls \X Nat
SiteRecords == [visited : SUBSET Urls, pages : Seq(Items), documents : Seq(Items),
                html : Nat, pdf : Nat, errors : Nat, resumed : BOOLEAN, on : BOOLEAN]
Current == Head(left).id

SiteTypes ==
  /\ left \in Seq(ToSet(Sources))
  /\ manifests \in [SourceIds -> Seq(Lines)]
  /\ ragged \subseteq SourceIds
  /\ site \in SiteRecords
  /\ DOMAIN crawls = SourceIds
  /\ misnamed \in BOOLEAN
  /\ runsDone \in 0 .. CrawlRuns /\ killsDone \in 0 .. CrawlKills
  /\ site.on => left # <<>>
  /\ ~site.on => site = NoSite

(* Each source is crawled once in a run, and summed up when it is through. *)
LeftOK ==
  /\ \A j, k \in DOMAIN left : left[j].id = left[k].id => j = k
  /\ \A k \in DOMAIN left : crawls[left[k].id] = NoSummary

(* What the queues hold.                                                   *)
PageItem(q) ==
  (q[1] = Homepage \/ (q[1] \in SameSite /\ Named[q[1]] = "page")) /\ q[2] <= MaxDepth
DocumentItem(q) == q[1] \in SameSite /\ Named[q[1]] = "document" /\ q[2] <= MaxPdfDepth
QueuesOK(pages, documents) ==
  /\ \A k \in DOMAIN pages : PageItem(pages[k])
  /\ \A k \in DOMAIN documents : DocumentItem(documents[k])
OnlyHome(pages, documents) ==
  documents = <<>> /\ \A k \in DOMAIN pages : pages[k][1] = Homepage

(* A link of a page that has been fetched is met, too deep, or queued.     *)
Waits(v, d, pages, documents) ==
  \/ /\ Named[v] = "page"
     /\ \E k \in DOMAIN pages : pages[k][1] = v /\ pages[k][2] <= d
  \/ /\ Named[v] = "document"
     /\ \E k \in DOMAIN documents : documents[k][1] = v /\ documents[k][2] <= d
LinkWaits(u, d, visited, pages, documents) ==
  \A v \in SameSite : v \in ToSet(Links[u]) =>
    v \in visited \/ d + 1 > DepthLimit(Named[v]) \/ Waits(v, d + 1, pages, documents)
LinksWait(m, visited, pages, documents) ==
  \A k \in DOMAIN m : m[k].kind = "html" => LinkWaits(m[k].url, m[k].depth, visited, pages, documents)

(* Breadth first: the crawl is at depth c.                                 *)
PagesLevel(pages, c) ==
  /\ \A k \in DOMAIN pages : c <= pages[k][2] /\ pages[k][2] <= c + 1
  /\ \A j, k \in DOMAIN pages : j < k => pages[j][2] <= pages[k][2]
DocumentsLevel(documents, c) == \A k \in DOMAIN documents : documents[k][2] = c + 1
LinesLevel(m, c) ==
  \A k \in DOMAIN m :
    /\ m[k].depth <= c + 1
    /\ m[k].url = Homepage \/ Named[m[k].url] = "page" => m[k].depth <= c
Level(m, pages, documents) ==
  \E c \in Nat : PagesLevel(pages, c) /\ DocumentsLevel(documents, c) /\ LinesLevel(m, c)

(* The first crawl of a source has recorded whatever it met; it begins with*)
(* the homepage.                                                           *)
First(m, visited, pages, documents) ==
  /\ visited = LoadManifest(m)
  /\ LinksWait(m, visited, pages, documents)
  /\ IF m = <<>> THEN OnlyHome(pages, documents) ELSE m[1].url = Homepage

(* A later one has nothing to do if the manifest begins with the homepage, *)
(* and otherwise does not put it there.                                    *)
Later(m, isRagged, visited, pages, documents) ==
  /\ m # <<>> /\ m[1].url = Homepage => OnlyHome(pages, documents)
  /\ m = <<>> => Homepage \in visited \/ (isRagged /\ OnlyHome(pages, documents))

WalkOK ==
  site.on =>
    /\ QueuesOK(site.pages, site.documents)
    /\ LoadManifest(manifests[Current]) \subseteq site.visited
    /\ site.resumed =>
         Later(manifests[Current], Current \in ragged, site.visited, site.pages, site.documents)
    /\ ~site.resumed =>
         /\ Current \notin ragged
         /\ First(manifests[Current], site.visited, site.pages, site.documents)
         /\ misnamed \/ Level(manifests[Current], site.pages, site.documents)

SiteInv ==
  /\ SiteTypes /\ LeftOK /\ WalkOK /\ RecordedOnce /\ CapsHold
  /\ ShortestDepth /\ DocumentsComplete /\ PagesComplete
-----------------------------------------------------------------------------
(* Sequences: the first member, the rest, and one sequence after another.  *)
LEMMA FirstAndRest ==
  ASSUME NEW S, NEW s \in Seq(S), s # <<>>
  PROVE  /\ 1 \in DOMAIN s /\ Head(s) = s[1] /\ s[1] \in S
         /\ Tail(s) \in Seq(S)
         /\ \A k \in DOMAIN Tail(s) : k + 1 \in DOMAIN s /\ Tail(s)[k] = s[k + 1] /\ 1 < k + 1
         /\ \A k \in DOMAIN s : k = 1 \/ \E j \in DOMAIN Tail(s) : k = j + 1 /\ Tail(s)[j] = s[k]
<1>1. Len(s) \in Nat /\ Len(s) # 0 /\ DOMAIN s = 1 .. Len(s)
  OBVIOUS
<1>2. /\ Tail(s) \in Seq(S) /\ DOMAIN Tail(s) = 1 .. Len(s) - 1
      /\ \A k \in 1 .. Len(s) - 1 : Tail(s)[k] = s[k + 1]
  OBVIOUS
<1>3. 1 \in DOMAIN s /\ Head(s) = s[1] /\ s[1] \in S
  BY <1>1
<1>4. \A k \in DOMAIN Tail(s) : k + 1 \in DOMAIN s /\ 1 < k + 1
  BY <1>1, <1>2
<1>5. ASSUME NEW k \in DOMAIN s, k # 1
      PROVE  \E j \in DOMAIN Tail(s) : k = j + 1 /\ Tail(s)[j] = s[k]
  <2>1. k - 1 \in 1 .. Len(s) - 1 /\ (k - 1) + 1 = k
    BY <1>1, <1>5
  <2> QED
    BY <1>2, <2>1
<1> QED
  BY <1>2, <1>3, <1>4, <1>5

LEMMA OneAfterOther ==
  ASSUME NEW S, NEW s \in Seq(S), NEW t \in Seq(S)
  PROVE  /\ s \o t \in Seq(S)
         /\ \A k \in DOMAIN (s \o t) : \/ k \in DOMAIN s /\ (s \o t)[k] = s[k]
                                       \/ \E j \in DOMAIN t : k = Len(s) + j /\ (s \o t)[k] = t[j]
         /\ \A k \in DOMAIN s : k \in DOMAIN (s \o t) /\ (s \o t)[k] = s[k]
         /\ \A j \in DOMAIN t : Len(s) + j \in DOMAIN (s \o t) /\ (s \o t)[Len(s) + j] = t[j]
<1> DEFINE n == Len(s)
           m == Len(t)
           st == s \o t
<1>1. n \in Nat /\ m \in Nat /\ DOMAIN s = 1 .. n /\ DOMAIN t = 1 .. m
  OBVIOUS
<1>2. /\ st \in Seq(S) /\ DOMAIN st = 1 .. n + m
      /\ \A k \in 1 .. n + m : st[k] = IF k <= n THEN s[k] ELSE t[k - n]
  OBVIOUS
<1> HIDE DEF st, n, m
<1>3. ASSUME NEW k \in DOMAIN st
      PROVE  \/ k \in DOMAIN s /\ st[k] = s[k]
             \/ \E j \in DOMAIN t : k = n + j /\ st[k] = t[j]
  <2>1. CASE k <= n
    BY <1>1, <1>2, <2>1
  <2>2. CASE ~(k <= n)
    <3>1. k - n \in 1 .. m /\ k = n + (k - n) /\ st[k] = t[k - n]
      BY <1>1, <1>2, <2>2
    <3> QED
      BY <1>1, <3>1
  <2> QED
    BY <2>1, <2>2
<1>4. \A k \in DOMAIN s : k \in DOMAIN st /\ st[k] = s[k]
  BY <1>1, <1>2
<1>5. ASSUME NEW j \in DOMAIN t PROVE n + j \in DOMAIN st /\ st[n + j] = t[j]
  <2>1. n + j \in 1 .. n + m /\ ~(n + j <= n) /\ (n + j) - n = j
    BY <1>1
  <2> QED
    BY <1>2, <2>1
<1> QED
  BY <1>2, <1>3, <1>4, <1>5 DEF st, n
-----------------------------------------------------------------------------
(* main() crawls each chosen source once.                                  *)
LEMMA ChosenOnce ==
  ASSUME NEW y \in Chosen
  PROVE  /\ y \in Seq(ToSet(Sources))
         /\ \A j, k \in DOMAIN y : y[j].id = y[k].id => j = k
<1> DEFINE S == ToSet(Sources)
           f == Filtered(Sources)
           list == Limited(f)
<1>1. Sources \in Seq(S) /\ \A s, t \in S : s.id = t.id => s = t
  BY SourcesAssumption DEF ToSet
<1> HIDE DEF S
<1>2. f \in Seq(S)
  BY <1>1, PickedPlaces DEF Filtered
<1> HIDE DEF f
<1>3. list \in Seq(S)
  <2>1. MaxSources \in Nat
    BY SiteAssumption
  <2> QED
    BY <1>2, <2>1 DEF Limited
<1>4. y \in Sorted(list)
  BY DEF Chosen, f
<1> HIDE DEF list
<1>5. /\ DOMAIN list = 1 .. Len(list) /\ Len(list) \in Nat /\ ToSet(list) \subseteq S
      /\ y \in [DOMAIN list -> ToSet(list)]
      /\ \A j, k \in DOMAIN list : y[j] = y[k] => j = k
  BY <1>3, <1>4 DEF Sorted, ToSet
<1>6. y \in Seq(S)
  BY <1>5
<1>7. DOMAIN y = DOMAIN list /\ \A k \in DOMAIN y : y[k] \in S
  BY <1>5
<1> QED
  BY <1>1, <1>5, <1>6, <1>7 DEF S

(* What is queued of a page's links.                                       *)
LEMMA NewLinksAre ==
  ASSUME NEW u \in Urls, NEW d \in Nat, NEW V, NEW named
  PROVE  LET new == NewLinks(u, d, V, named)
         IN  /\ new \in Seq(Items)
             /\ \A k \in DOMAIN new : /\ new[k][1] \in SameSite \ V /\ Named[new[k][1]] = named
                                      /\ new[k][2] = d + 1 /\ d + 1 <= DepthLimit(named)
             /\ d + 1 <= DepthLimit(named) =>
                  \A v \in SameSite \ V : v \in ToSet(Links[u]) /\ Named[v] = named
                                            => \E k \in DOMAIN new : new[k][1] = v
<1> DEFINE L == Links[u]
           K == {k \in DOMAIN L : L[k] \in SameSite \ V /\ Named[L[k]] = named}
           found == Picked(L, K)
           items == [k \in DOMAIN found |-> <<found[k], d + 1>>]
           new == NewLinks(u, d, V, named)
<1>1. L \in Seq(Urls) /\ DOMAIN L = 1 .. Len(L)
  BY SiteAssumption
<1>2. new = IF d + 1 <= DepthLimit(named) THEN items ELSE <<>>
  BY DEF NewLinks
<1> HIDE DEF L, found, new
<1>3. found \in Seq(Urls) /\ \E pos : PlacesOf(pos, found, L, K \cap (1 .. Len(L)))
  BY <1>1, PickedPlaces DEF found
<1>4. PICK pos : PlacesOf(pos, found, L, K \cap (1 .. Len(L)))
  BY <1>3
<1>5. DOMAIN found = 1 .. Len(found) /\ Len(found) \in Nat
  BY <1>3
<1>6. \A k \in DOMAIN found : found[k] \in SameSite \ V /\ Named[found[k]] = named
  BY <1>4, <1>5 DEF PlacesOf
<1>7. \A v \in SameSite \ V : v \in ToSet(L) /\ Named[v] = named => \E k \in DOMAIN found : found[k] = v
  <2> SUFFICES ASSUME NEW v \in SameSite \ V, v \in ToSet(L), Named[v] = named
               PROVE  \E k \in DOMAIN found : found[k] = v
    OBVIOUS
  <2>1. PICK k \in DOMAIN L : L[k] = v
    BY DEF ToSet
  <2>2. k \in K \cap (1 .. Len(L))
    BY <1>1, <2>1
  <2>3. PICK i \in 1 .. Len(found) : pos[i] = k
    BY <1>4, <2>2 DEF PlacesOf
  <2> QED
    BY <1>4, <1>5, <2>1, <2>3 DEF PlacesOf
<1>8. /\ items \in Seq(Items) /\ DOMAIN items = DOMAIN found
      /\ \A k \in DOMAIN found : items[k][1] = found[k] /\ items[k][2] = d + 1
  <2>1. \A k \in DOMAIN found : <<found[k], d + 1>> \in Items
    BY <1>3 DEF Items
  <2>2. items \in [1 .. Len(found) -> Items]
    BY <1>5, <2>1
  <2> QED
    BY <1>5, <2>2
<1> HIDE DEF items
<1>9. CASE d + 1 <= DepthLimit(named)
  BY <1>2, <1>6, <1>7, <1>8, <1>9 DEF new, L
<1>10. CASE ~(d + 1 <= DepthLimit(named))
  BY <1>2, <1>10 DEF new
<1> QED
  BY <1>9, <1>10
-----------------------------------------------------------------------------
(* The next item: documents go first.                                      *)
Takes(pages, documents, q, restPages, restDocuments) ==
  \/ /\ documents # <<>> /\ q = Head(documents)
     /\ restPages = pages /\ restDocuments = Tail(documents)
  \/ /\ documents = <<>> /\ pages # <<>> /\ q = Head(pages)
     /\ restPages = Tail(pages) /\ restDocuments = <<>>

LEMMA PopTakes ==
  ASSUME SiteTypes, ItemNext
  PROVE  /\ Takes(site.pages, site.documents, Pop.item, Pop.pages, Pop.documents)
         /\ site.documents = <<>> => site.html < MaxPages
<1>1. CASE site.documents # <<>>
  BY <1>1 DEF Pop, Popped, Takes
<1>2. CASE site.documents = <<>>
  <2>1. site.pages # <<>> /\ site.html < MaxPages
    BY <1>2 DEF ItemNext, PageNext
  <2> QED
    BY <1>2, <2>1 DEF Pop, Popped, Takes
<1> QED
  BY <1>1, <1>2

(* What is taken and what is left.                                         *)
LEMMA TakenAndLeft ==
  ASSUME NEW pages \in Seq(Items), NEW documents \in Seq(Items),
         NEW q, NEW restPages, NEW restDocuments,
         Takes(pages, documents, q, restPages, restDocuments)
  PROVE  /\ q \in Items /\ restPages \in Seq(Items) /\ restDocuments \in Seq(Items)
         /\ \A k \in DOMAIN restPages : \E j \in DOMAIN pages : restPages[k] = pages[j]
         /\ \A k \in DOMAIN restDocuments : \E j \in DOMAIN documents : restDocuments[k] = documents[j]
         /\ \A j \in DOMAIN pages :
              pages[j] = q \/ \E k \in DOMAIN restPages : restPages[k] = pages[j]
         /\ \A j \in DOMAIN documents :
              documents[j] = q \/ \E k \in DOMAIN restDocuments : restDocuments[k] = documents[j]
         /\ \/ documents = <<>> /\ \E j \in DOMAIN pages : q = pages[j]
            \/ \E j \in DOMAIN documents : q = documents[j]
<1>1. CASE documents # <<>>
  <2>1. q = Head(documents) /\ restPages = pages /\ restDocuments = Tail(documents)
    BY <1>1 DEF Takes
  <2>2. /\ q = documents[1] /\ 1 \in DOMAIN documents /\ q \in Items /\ restDocuments \in Seq(Items)
    BY <1>1, <2>1, FirstAndRest
  <2>3. \A k \in DOMAIN restDocuments : \E j \in DOMAIN documents : restDocuments[k] = documents[j]
    BY <1>1, <2>1, FirstAndRest
  <2>4. \A j \in DOMAIN documents : j = 1 \/ \E k \in DOMAIN restDocuments : restDocuments[k] = documents[j]
    BY <1>1, <2>1, FirstAndRest
  <2> QED
    BY <2>1, <2>2, <2>3, <2>4
<1>2. CASE documents = <<>>
  <2>1. pages # <<>> /\ q = Head(pages) /\ restPages = Tail(pages) /\ restDocuments = <<>>
    BY <1>2 DEF Takes
  <2>2. /\ q = pages[1] /\ 1 \in DOMAIN pages /\ q \in Items /\ restPages \in Seq(Items)
    BY <2>1, FirstAndRest
  <2>3. \A k \in DOMAIN restPages : \E j \in DOMAIN pages : restPages[k] = pages[j]
    BY <2>1, FirstAndRest
  <2>4. \A j \in DOMAIN pages : j = 1 \/ \E k \in DOMAIN restPages : restPages[k] = pages[j]
    BY <2>1, FirstAndRest
  <2>5. \A k \in DOMAIN restDocuments : FALSE
    BY <2>1
  <2> QED
    BY <1>2, <2>1, <2>2, <2>3, <2>4, <2>5
<1> QED
  BY <1>1, <1>2

(* What is queued after a fetch.                                           *)
Adds(u, d, visited, kind, pages, documents) ==
  /\ pages = IF kind = "html" THEN NewLinks(u, d, visited, "page") ELSE <<>>
  /\ documents = IF kind = "html" THEN NewLinks(u, d, visited, "document") ELSE <<>>

LEMMA AddedAre ==
  ASSUME NEW u \in Urls, NEW d \in Nat, NEW visited, NEW kind, NEW pages, NEW documents,
         Adds(u, d, visited, kind, pages, documents)
  PROVE  /\ pages \in Seq(Items) /\ documents \in Seq(Items)
         /\ \A k \in DOMAIN pages : /\ pages[k][1] \in SameSite \ visited
                                    /\ Named[pages[k][1]] = "page"
                                    /\ pages[k][2] = d + 1 /\ d + 1 <= MaxDepth
         /\ \A k \in DOMAIN documents : /\ documents[k][1] \in SameSite \ visited
                                        /\ Named[documents[k][1]] = "document"
                                        /\ documents[k][2] = d + 1 /\ d + 1 <= MaxPdfDepth
         /\ kind = "html" => LinkWaits(u, d, visited, pages, documents)
<1>1. CASE kind # "html"
  BY <1>1 DEF Adds
<1>2. CASE kind = "html"
  <2>1. /\ pages = NewLinks(u, d, visited, "page") /\ documents = NewLinks(u, d, visited, "document")
        /\ DepthLimit("page") = MaxDepth /\ DepthLimit("document") = MaxPdfDepth
    BY <1>2 DEF Adds, DepthLimit
  <2>2. /\ pages \in Seq(Items)
        /\ \A k \in DOMAIN pages : /\ pages[k][1] \in SameSite \ visited
                                   /\ Named[pages[k][1]] = "page"
                                   /\ pages[k][2] = d + 1 /\ d + 1 <= MaxDepth
    BY <2>1, NewLinksAre
  <2>3. /\ documents \in Seq(Items)
        /\ \A k \in DOMAIN documents : /\ documents[k][1] \in SameSite \ visited
                                       /\ Named[documents[k][1]] = "document"
                                       /\ documents[k][2] = d + 1 /\ d + 1 <= MaxPdfDepth
    BY <2>1, NewLinksAre
  <2>4. d + 1 <= MaxDepth =>
          \A v \in SameSite \ visited : v \in ToSet(Links[u]) /\ Named[v] = "page"
                                        => \E k \in DOMAIN pages : pages[k][1] = v
    BY <2>1, NewLinksAre
  <2>5. d + 1 <= MaxPdfDepth =>
          \A v \in SameSite \ visited : v \in ToSet(Links[u]) /\ Named[v] = "document"
                                        => \E k \in DOMAIN documents : documents[k][1] = v
    BY <2>1, NewLinksAre
  <2>6. LinkWaits(u, d, visited, pages, documents)
    <3> SUFFICES ASSUME NEW v \in SameSite, v \in ToSet(Links[u]), v \notin visited,
                        ~(d + 1 > DepthLimit(Named[v]))
                 PROVE  Waits(v, d + 1, pages, documents)
      BY DEF LinkWaits
    <3>0. MaxDepth \in Nat /\ MaxPdfDepth \in Nat /\ d + 1 \in Nat
      BY SiteAssumption
    <3>1. CASE Named[v] = "page"
      <4>1. d + 1 <= MaxDepth
        BY <2>1, <3>0, <3>1
      <4>2. PICK k \in DOMAIN pages : pages[k][1] = v
        BY <2>4, <3>1, <4>1
      <4>3. pages[k][2] <= d + 1
        BY <2>2, <3>0
      <4> QED
        BY <3>1, <4>2, <4>3 DEF Waits
    <3>2. CASE Named[v] = "document"
      <4>1. d + 1 <= MaxPdfDepth
        BY <2>1, <3>0, <3>2
      <4>2. PICK k \in DOMAIN documents : documents[k][1] = v
        BY <2>5, <3>2, <4>1
      <4>3. documents[k][2] <= d + 1
        BY <2>3, <3>0
      <4> QED
        BY <3>2, <4>2, <4>3 DEF Waits
    <3>3. Named[v] \in {"page", "document"}
      BY SiteAssumption
    <3> QED
      BY <3>1, <3>2, <3>3
  <2> QED
    BY <2>2, <2>3, <2>6
<1> QED
  BY <1>1, <1>2
-----------------------------------------------------------------------------
(* The queues stay as they should when an item is taken and others added.  *)
LEMMA QueuesStay ==
  ASSUME NEW pages \in Seq(Items), NEW documents \in Seq(Items), QueuesOK(pages, documents),
         NEW q, NEW restPages, NEW restDocuments,
         Takes(pages, documents, q, restPages, restDocuments)
  PROVE  /\ QueuesOK(restPages, restDocuments)
         /\ OnlyHome(pages, documents) => OnlyHome(restPages, restDocuments) /\ q[1] = Homepage
         /\ PageItem(q) \/ DocumentItem(q)
         /\ documents = <<>> => PageItem(q)
         /\ documents # <<>> => DocumentItem(q)
<1>1. /\ \A k \in DOMAIN restPages : \E j \in DOMAIN pages : restPages[k] = pages[j]
      /\ \A k \in DOMAIN restDocuments : \E j \in DOMAIN documents : restDocuments[k] = documents[j]
  BY TakenAndLeft
<1>2. QueuesOK(restPages, restDocuments)
  BY <1>1 DEF QueuesOK
<1>3. documents = <<>> => PageItem(q) /\ restDocuments = <<>> /\ \E j \in DOMAIN pages : q = pages[j]
  <2> SUFFICES ASSUME documents = <<>> PROVE PageItem(q) /\ restDocuments = <<>> /\ \E j \in DOMAIN pages : q = pages[j]
    OBVIOUS
  <2>1. pages # <<>> /\ q = Head(pages) /\ restDocuments = <<>>
    BY DEF Takes
  <2>2. q = pages[1] /\ 1 \in DOMAIN pages
    BY <2>1, FirstAndRest
  <2> QED
    BY <2>1, <2>2 DEF QueuesOK
<1>4. documents # <<>> => DocumentItem(q)
  <2> SUFFICES ASSUME documents # <<>> PROVE DocumentItem(q)
    OBVIOUS
  <2>1. q = Head(documents)
    BY DEF Takes
  <2>2. q = documents[1] /\ 1 \in DOMAIN documents
    BY <2>1, FirstAndRest
  <2> QED
    BY <2>2 DEF QueuesOK
<1>5. OnlyHome(pages, documents) => OnlyHome(restPages, restDocuments) /\ q[1] = Homepage
  BY <1>1, <1>3 DEF OnlyHome
<1> QED
  BY <1>2, <1>3, <1>4, <1>5

LEMMA QueuesGrow ==
  ASSUME NEW pages \in Seq(Items), NEW documents \in Seq(Items), QueuesOK(pages, documents),
         NEW u \in Urls, NEW d \in Nat, NEW visited, NEW kind, NEW newPages, NEW newDocuments,
         Adds(u, d, visited, kind, newPages, newDocuments)
  PROVE  /\ pages \o newPages \in Seq(Items) /\ documents \o newDocuments \in Seq(Items)
         /\ QueuesOK(pages \o newPages, documents \o newDocuments)
<1>1. /\ newPages \in Seq(Items) /\ newDocuments \in Seq(Items)
      /\ \A k \in DOMAIN newPages : PageItem(newPages[k])
      /\ \A k \in DOMAIN newDocuments : DocumentItem(newDocuments[k])
  BY AddedAre DEF PageItem, DocumentItem
<1>2. \A k \in DOMAIN (pages \o newPages) : PageItem((pages \o newPages)[k])
  <2> SUFFICES ASSUME NEW k \in DOMAIN (pages \o newPages) PROVE PageItem((pages \o newPages)[k])
    OBVIOUS
  <2>1. \/ k \in DOMAIN pages /\ (pages \o newPages)[k] = pages[k]
        \/ \E j \in DOMAIN newPages : (pages \o newPages)[k] = newPages[j]
    BY <1>1, OneAfterOther
  <2> QED
    BY <1>1, <2>1 DEF QueuesOK
<1>3. \A k \in DOMAIN (documents \o newDocuments) : DocumentItem((documents \o newDocuments)[k])
  <2> SUFFICES ASSUME NEW k \in DOMAIN (documents \o newDocuments)
               PROVE  DocumentItem((documents \o newDocuments)[k])
    OBVIOUS
  <2>1. \/ k \in DOMAIN documents /\ (documents \o newDocuments)[k] = documents[k]
        \/ \E j \in DOMAIN newDocuments : (documents \o newDocuments)[k] = newDocuments[j]
    BY <1>1, OneAfterOther
  <2> QED
    BY <1>1, <2>1 DEF QueuesOK
<1>4. pages \o newPages \in Seq(Items) /\ documents \o newDocuments \in Seq(Items)
  BY <1>1, OneAfterOther
<1> QED
  BY <1>2, <1>3, <1>4 DEF QueuesOK
-----------------------------------------------------------------------------
(* A url that waits is still waiting when another is taken, and when items *)
(* are added.                                                              *)
LEMMA WaitsOn ==
  ASSUME NEW pages \in Seq(Items), NEW documents \in Seq(Items),
         NEW q, NEW restPages, NEW restDocuments,
         Takes(pages, documents, q, restPages, restDocuments),
         NEW v, NEW d, Waits(v, d, pages, documents), q[1] # v
  PROVE  Waits(v, d, restPages, restDocuments)
<1>1. \A j \in DOMAIN pages :
        pages[j] = q \/ \E k \in DOMAIN restPages : restPages[k] = pages[j]
  BY TakenAndLeft
<1>2. \A j \in DOMAIN documents :
        documents[j] = q \/ \E k \in DOMAIN restDocuments : restDocuments[k] = documents[j]
  BY TakenAndLeft
<1> QED
  BY <1>1, <1>2 DEF Waits

LEMMA WaitsAmongMore ==
  ASSUME NEW pages \in Seq(Items), NEW documents \in Seq(Items),
         NEW morePages \in Seq(Items), NEW moreDocuments \in Seq(Items), NEW v, NEW d,
         Waits(v, d, pages, documents) \/ Waits(v, d, morePages, moreDocuments)
  PROVE  Waits(v, d, pages \o morePages, documents \o moreDocuments)
<1> DEFINE p == pages \o morePages
           t == documents \o moreDocuments
<1>1. /\ \A k \in DOMAIN pages : k \in DOMAIN p /\ p[k] = pages[k]
      /\ \A k \in DOMAIN morePages : Len(pages) + k \in DOMAIN p /\ p[Len(pages) + k] = morePages[k]
  BY OneAfterOther
<1>2. /\ \A k \in DOMAIN documents : k \in DOMAIN t /\ t[k] = documents[k]
      /\ \A k \in DOMAIN moreDocuments :
           Len(documents) + k \in DOMAIN t /\ t[Len(documents) + k] = moreDocuments[k]
  BY OneAfterOther
<1> HIDE DEF p, t
<1>3. Waits(v, d, p, t)
  BY <1>1, <1>2 DEF Waits
<1> QED
  BY <1>3 DEF p, t

LEMMA LinkWaitsOn ==
  ASSUME NEW pages \in Seq(Items), NEW documents \in Seq(Items),
         NEW q, NEW restPages, NEW restDocuments,
         Takes(pages, documents, q, restPages, restDocuments),
         NEW u, NEW d, NEW visited, LinkWaits(u, d, visited, pages, documents)
  PROVE  LinkWaits(u, d, visited \cup {q[1]}, restPages, restDocuments)
<1> SUFFICES ASSUME NEW v \in SameSite, v \in ToSet(Links[u]), v \notin visited, v # q[1],
                    ~(d + 1 > DepthLimit(Named[v]))
             PROVE  Waits(v, d + 1, restPages, restDocuments)
  BY DEF LinkWaits
<1>1. Waits(v, d + 1, pages, documents)
  BY DEF LinkWaits
<1> QED
  BY <1>1, WaitsOn

LEMMA LinkWaitsAmongMore ==
  ASSUME NEW pages \in Seq(Items), NEW documents \in Seq(Items),
         NEW morePages \in Seq(Items), NEW moreDocuments \in Seq(Items), NEW u, NEW d, NEW visited,
         \/ LinkWaits(u, d, visited, pages, documents)
         \/ LinkWaits(u, d, visited, morePages, moreDocuments)
  PROVE  LinkWaits(u, d, visited, pages \o morePages, documents \o moreDocuments)
<1> SUFFICES ASSUME NEW v \in SameSite, v \in ToSet(Links[u]), v \notin visited,
                    ~(d + 1 > DepthLimit(Named[v]))
             PROVE  Waits(v, d + 1, pages \o morePages, documents \o moreDocuments)
  BY DEF LinkWaits
<1>1. Waits(v, d + 1, pages, documents) \/ Waits(v, d + 1, morePages, moreDocuments)
  BY DEF LinkWaits
<1> QED
  BY <1>1, WaitsAmongMore
-----------------------------------------------------------------------------
(* A crawl goes down one level at a time: what is left is on the level of  *)
(* the item taken.                                                         *)
LEMMA LevelsOn ==
  ASSUME NEW pages \in Seq(Items), NEW documents \in Seq(Items),
         NEW q, NEW restPages, NEW restDocuments,
         Takes(pages, documents, q, restPages, restDocuments),
         NEW c \in Nat, PagesLevel(pages, c), DocumentsLevel(documents, c)
  PROVE  /\ PagesLevel(restPages, c) /\ DocumentsLevel(restDocuments, c)
         /\ documents # <<>> => q[2] = c + 1
         /\ documents = <<>> => /\ q[2] \in Nat /\ c <= q[2] /\ q[2] <= c + 1
                                /\ PagesLevel(restPages, q[2]) /\ restDocuments = <<>>
<1>1. CASE documents # <<>>
  <2>1. q = Head(documents) /\ restPages = pages /\ restDocuments = Tail(documents)
    BY <1>1 DEF Takes
  <2>2. 1 \in DOMAIN documents /\ q = documents[1]
    BY <1>1, <2>1, FirstAndRest
  <2>3. \A k \in DOMAIN restDocuments : \E j \in DOMAIN documents : restDocuments[k] = documents[j]
    BY TakenAndLeft
  <2> QED
    BY <1>1, <2>1, <2>2, <2>3 DEF DocumentsLevel
<1>2. CASE documents = <<>>
  <2>1. pages # <<>> /\ q = Head(pages) /\ restPages = Tail(pages) /\ restDocuments = <<>>
    BY <1>2 DEF Takes
  <2>2. 1 \in DOMAIN pages /\ q = pages[1] /\ q \in Items
    BY <2>1, FirstAndRest
  <2>3. \A k \in DOMAIN restPages : k + 1 \in DOMAIN pages /\ restPages[k] = pages[k + 1] /\ 1 < k + 1
    BY <2>1, FirstAndRest
  <2>4. q[2] \in Nat /\ c <= q[2] /\ q[2] <= c + 1
    BY <2>2 DEF PagesLevel, Items
  <2>5. \A k \in DOMAIN pages : pages[k][2] \in Nat
    BY DEF Items
  <2>6. \A j, k \in DOMAIN restPages : j < k => j + 1 < k + 1
    <3>1. DOMAIN restPages \subseteq Nat
      BY TakenAndLeft
    <3> QED
      BY <3>1
  <2>7. \A j, k \in DOMAIN restPages : j < k => restPages[j][2] <= restPages[k][2]
    BY <2>3, <2>6 DEF PagesLevel
  <2>8. \A k \in DOMAIN restPages : c <= restPages[k][2] /\ restPages[k][2] <= c + 1
    BY <2>3 DEF PagesLevel
  <2>9. \A k \in DOMAIN restPages : q[2] <= restPages[k][2] /\ restPages[k][2] <= q[2] + 1
    <3> SUFFICES ASSUME NEW k \in DOMAIN restPages
                 PROVE  q[2] <= restPages[k][2] /\ restPages[k][2] <= q[2] + 1
      OBVIOUS
    <3>1. q[2] <= restPages[k][2]
      BY <2>2, <2>3 DEF PagesLevel
    <3>2. restPages[k][2] <= c + 1 /\ restPages[k][2] \in Nat
      BY <2>3, <2>5, <2>8
    <3> QED
      BY <2>4, <3>1, <3>2
  <2>10. \A k \in DOMAIN restDocuments : FALSE
    BY <2>1
  <2> QED
    BY <1>2, <2>1, <2>4, <2>7, <2>8, <2>9, <2>10 DEF PagesLevel, DocumentsLevel
<1> QED
  BY <1>1, <1>2

LEMMA LevelsGrow ==
  ASSUME NEW pages \in Seq(Items), NEW documents \in Seq(Items),
         NEW newPages \in Seq(Items), NEW newDocuments \in Seq(Items), NEW c \in Nat,
         PagesLevel(pages, c), DocumentsLevel(documents, c),
         \A k \in DOMAIN newPages : newPages[k][2] = c + 1,
         \A k \in DOMAIN newDocuments : newDocuments[k][2] = c + 1
  PROVE  PagesLevel(pages \o newPages, c) /\ DocumentsLevel(documents \o newDocuments, c)
<1> DEFINE p == pages \o newPages
           t == documents \o newDocuments
           n == Len(pages)
<1>1. /\ p \in Seq(Items)
      /\ \A k \in DOMAIN p : \/ k \in DOMAIN pages /\ p[k] = pages[k]
                             \/ \E j \in DOMAIN newPages : k = n + j /\ p[k] = newPages[j]
  BY OneAfterOther, SMTT(30)
<1>2. \A k \in DOMAIN t : \/ k \in DOMAIN documents /\ t[k] = documents[k]
                          \/ \E j \in DOMAIN newDocuments : t[k] = newDocuments[j]
  BY OneAfterOther
<1>3. n \in Nat /\ DOMAIN pages = 1 .. n /\ DOMAIN newPages \subseteq Nat \ {0}
  OBVIOUS
<1> HIDE DEF p, t, n
<1>4. \A k \in DOMAIN p : c <= p[k][2] /\ p[k][2] <= c + 1
  <2>1. \A k \in DOMAIN pages : c <= pages[k][2] /\ pages[k][2] <= c + 1
    BY DEF PagesLevel
  <2>2. c <= c + 1 /\ c + 1 <= c + 1
    OBVIOUS
  <2>3. \A k \in DOMAIN newPages : c <= newPages[k][2] /\ newPages[k][2] <= c + 1
    BY <2>2
  <2> QED
    BY <1>1, <2>1, <2>3
<1>5. ASSUME NEW j \in DOMAIN p, NEW k \in DOMAIN p, j < k PROVE p[j][2] <= p[k][2]
  <2>1. CASE k \in DOMAIN pages /\ p[k] = pages[k]
    <3>1. j \in DOMAIN pages /\ p[j] = pages[j]
      <4>1. ASSUME NEW i \in DOMAIN newPages, j = n + i PROVE FALSE
        BY <1>3, <1>5, <2>1, <4>1
      <4> QED
        BY <1>1, <4>1
    <3> QED
      BY <1>5, <2>1, <3>1 DEF PagesLevel
  <2>2. CASE \E i \in DOMAIN newPages : p[k] = newPages[i]
    BY <1>4, <2>2
  <2> QED
    BY <1>1, <2>1, <2>2
<1>6. DocumentsLevel(t, c)
  BY <1>2 DEF DocumentsLevel
<1> QED
  BY <1>4, <1>5, <1>6 DEF PagesLevel, p, t
-----------------------------------------------------------------------------
(* The manifest with one line more.                                        *)
LEMMA LineAdded ==
  ASSUME NEW m \in Seq(Lines), NEW e \in Lines
  PROVE  LET m2 == Append(m, e)
         IN  /\ m2 \in Seq(Lines) /\ m2 # <<>>
             /\ \A k \in DOMAIN m2 : (k \in DOMAIN m /\ m2[k] = m[k]) \/ (k = Len(m) + 1 /\ m2[k] = e)
             /\ \A k \in DOMAIN m : k \in DOMAIN m2 /\ m2[k] = m[k]
             /\ Len(m) + 1 \in DOMAIN m2 /\ m2[Len(m) + 1] = e /\ Len(m) + 1 \notin DOMAIN m
             /\ LoadManifest(m2) = LoadManifest(m) \cup {e.url}
             /\ m2[1] = IF m = <<>> THEN e ELSE m[1]
<1> DEFINE m2 == Append(m, e)
           n == Len(m)
<1>1. n \in Nat /\ DOMAIN m = 1 .. n /\ (m = <<>> <=> n = 0)
  OBVIOUS
<1>2. /\ m2 \in Seq(Lines) /\ DOMAIN m2 = 1 .. n + 1 /\ m2 # <<>>
      /\ m2[n + 1] = e /\ \A k \in 1 .. n : m2[k] = m[k]
  OBVIOUS
<1> HIDE DEF m2, n
<1>3. \A k \in 1 .. n + 1 : k \in 1 .. n \/ k = n + 1
  BY <1>1
<1>4. n + 1 \in 1 .. n + 1 /\ n + 1 \notin 1 .. n /\ 1 .. n \subseteq 1 .. n + 1
  BY <1>1
<1>5. \A k \in DOMAIN m2 : (k \in DOMAIN m /\ m2[k] = m[k]) \/ (k = n + 1 /\ m2[k] = e)
  BY <1>1, <1>2, <1>3
<1>6. \A k \in DOMAIN m : k \in DOMAIN m2 /\ m2[k] = m[k]
  BY <1>1, <1>2, <1>4
<1>7. n + 1 \in DOMAIN m2 /\ m2[n + 1] = e /\ n + 1 \notin DOMAIN m
  BY <1>1, <1>2, <1>4
<1>8. LoadManifest(m2) = LoadManifest(m) \cup {e.url}
  BY <1>5, <1>6, <1>7 DEF LoadManifest
<1>9. m2[1] = IF m = <<>> THEN e ELSE m[1]
  <2>1. CASE m = <<>>
    BY <1>1, <1>2, <2>1
  <2>2. CASE m # <<>>
    <3>1. 1 \in 1 .. n
      BY <1>1, <2>2
    <3> QED
      BY <1>2, <2>2, <3>1
  <2> QED
    BY <2>1, <2>2
<1> QED
  BY <1>2, <1>5, <1>6, <1>7, <1>8, <1>9 DEF m2, n

(* One turn of the loop, as far as it concerns the queues and the manifest.*)
Turn(pages, documents, visited, u, d, kind, restPages, restDocuments, newPages, newDocuments) ==
  /\ pages \in Seq(Items) /\ documents \in Seq(Items) /\ QueuesOK(pages, documents)
  /\ u \in Urls /\ d \in Nat /\ kind \in Answered /\ u \notin visited
  /\ Takes(pages, documents, <<u, d>>, restPages, restDocuments)
  /\ Adds(u, d, visited \cup {u}, kind, newPages, newDocuments)

LEMMA TurnIs ==
  ASSUME NEW pages, NEW documents, NEW visited, NEW u, NEW d, NEW kind,
         NEW restPages, NEW restDocuments, NEW newPages, NEW newDocuments,
         Turn(pages, documents, visited, u, d, kind, restPages, restDocuments, newPages, newDocuments)
  PROVE  /\ restPages \in Seq(Items) /\ restDocuments \in Seq(Items)
         /\ newPages \in Seq(Items) /\ newDocuments \in Seq(Items)
         /\ restPages \o newPages \in Seq(Items) /\ restDocuments \o newDocuments \in Seq(Items)
         /\ QueuesOK(restPages \o newPages, restDocuments \o newDocuments)
         /\ Entry(u, d, kind) \in Lines
         /\ documents = <<>> => (u = Homepage \/ (u \in SameSite /\ Named[u] = "page")) /\ d <= MaxDepth
         /\ documents # <<>> => u \in SameSite /\ Named[u] = "document" /\ d <= MaxPdfDepth
         /\ OnlyHome(pages, documents) => u = Homepage
<1> USE DEF Turn
<1>1. restPages \in Seq(Items) /\ restDocuments \in Seq(Items)
  BY TakenAndLeft
<1>2. newPages \in Seq(Items) /\ newDocuments \in Seq(Items)
  BY AddedAre
<1>3. QueuesOK(restPages, restDocuments)
  BY QueuesStay
<1>4. restPages \o newPages \in Seq(Items) /\ restDocuments \o newDocuments \in Seq(Items)
  BY <1>1, <1>3, QueuesGrow
<1>5. QueuesOK(restPages \o newPages, restDocuments \o newDocuments)
  BY <1>1, <1>3, QueuesGrow
<1>6. documents = <<>> => PageItem(<<u, d>>)
  BY QueuesStay
<1>7. documents # <<>> => DocumentItem(<<u, d>>)
  BY QueuesStay
<1>8. OnlyHome(pages, documents) => u = Homepage
  BY QueuesStay
<1>9. Entry(u, d, kind) \in Lines
  BY DEF Entry, Lines
<1> QED
  BY <1>1, <1>2, <1>4, <1>5, <1>6, <1>7, <1>8, <1>9 DEF PageItem, DocumentItem

(* A first crawl goes on as one.                                           *)
LEMMA FirstGoesOn ==
  ASSUME NEW pages, NEW documents, NEW visited, NEW u, NEW d, NEW kind,
         NEW restPages, NEW restDocuments, NEW newPages, NEW newDocuments,
         Turn(pages, documents, visited, u, d, kind, restPages, restDocuments, newPages, newDocuments),
         NEW m \in Seq(Lines), First(m, visited, pages, documents)
  PROVE  First(Append(m, Entry(u, d, kind)), visited \cup {u},
               restPages \o newPages, restDocuments \o newDocuments)
<1> DEFINE e == Entry(u, d, kind)
           m2 == Append(m, e)
           P == restPages \o newPages
           D == restDocuments \o newDocuments
           V == visited \cup {u}
<1>1. /\ e \in Lines /\ e.url = u /\ e.depth = d /\ e.kind = kind
      /\ restPages \in Seq(Items) /\ restDocuments \in Seq(Items)
      /\ newPages \in Seq(Items) /\ newDocuments \in Seq(Items)
      /\ OnlyHome(pages, documents) => u = Homepage
  BY TurnIs DEF Entry
<1>2. /\ pages \in Seq(Items) /\ documents \in Seq(Items) /\ u \in Urls /\ d \in Nat
      /\ Takes(pages, documents, <<u, d>>, restPages, restDocuments) /\ <<u, d>>[1] = u
      /\ Adds(u, d, V, kind, newPages, newDocuments)
  BY DEF Turn
<1>3. visited = LoadManifest(m) /\ LinksWait(m, visited, pages, documents)
  BY DEF First
<1> HIDE DEF e, m2, P, D, V
<1>4. /\ m2 \in Seq(Lines) /\ m2 # <<>>
      /\ \A k \in DOMAIN m2 : (k \in DOMAIN m /\ m2[k] = m[k]) \/ m2[k] = e
      /\ LoadManifest(m2) = LoadManifest(m) \cup {e.url}
      /\ m2[1] = IF m = <<>> THEN e ELSE m[1]
  BY <1>1, LineAdded DEF m2
<1>5. V = LoadManifest(m2)
  BY <1>1, <1>3, <1>4 DEF V
<1>6. LinksWait(m2, V, P, D)
  <2> SUFFICES ASSUME NEW k \in DOMAIN m2, m2[k].kind = "html"
               PROVE  LinkWaits(m2[k].url, m2[k].depth, V, P, D)
    BY DEF LinksWait
  <2>1. CASE k \in DOMAIN m /\ m2[k] = m[k]
    <3>1. LinkWaits(m2[k].url, m2[k].depth, visited, pages, documents)
      BY <1>3, <2>1 DEF LinksWait
    <3>2. LinkWaits(m2[k].url, m2[k].depth, V, restPages, restDocuments)
      <4>1. LinkWaits(m2[k].url, m2[k].depth, visited \cup {<<u, d>>[1]}, restPages, restDocuments)
        BY <1>2, <3>1, LinkWaitsOn
      <4> QED
        BY <1>2, <4>1 DEF V
    <3> QED
      BY <1>1, <3>2, LinkWaitsAmongMore DEF P, D
  <2>2. CASE m2[k] = e
    <3>1. LinkWaits(u, d, V, newPages, newDocuments)
      BY <1>1, <1>2, <2>2, AddedAre
    <3>2. LinkWaits(u, d, V, P, D)
      BY <1>1, <3>1, LinkWaitsAmongMore DEF P, D
    <3> QED
      BY <1>1, <2>2, <3>2
  <2> QED
    BY <1>4, <2>1, <2>2
<1>7. m2[1].url = Homepage
  BY <1>1, <1>4 DEF First
<1>8. First(m2, V, P, D)
  BY <1>4, <1>5, <1>6, <1>7 DEF First
<1> QED
  BY <1>8 DEF e, m2, P, D, V

(* It stays breadth first, unless a document's url answers with a page.    *)
LEMMA LevelGoesOn ==
  ASSUME NEW pages, NEW documents, NEW visited, NEW u, NEW d, NEW kind,
         NEW restPages, NEW restDocuments, NEW newPages, NEW newDocuments,
         Turn(pages, documents, visited, u, d, kind, restPages, restDocuments, newPages, newDocuments),
         NEW m \in Seq(Lines), First(m, visited, pages, documents), Level(m, pages, documents),
         ~(kind = "html" /\ Named[u] = "document")
  PROVE  Level(Append(m, Entry(u, d, kind)), restPages \o newPages, restDocuments \o newDocuments)
<1> DEFINE e == Entry(u, d, kind)
           m2 == Append(m, e)
           P == restPages \o newPages
           D == restDocuments \o newDocuments
<1>1. /\ e \in Lines /\ e.url = u /\ e.depth = d
      /\ restPages \in Seq(Items) /\ restDocuments \in Seq(Items)
      /\ newPages \in Seq(Items) /\ newDocuments \in Seq(Items)
      /\ documents # <<>> => Named[u] = "document"
  BY TurnIs DEF Entry
<1>2. /\ pages \in Seq(Items) /\ documents \in Seq(Items) /\ u \in Urls /\ d \in Nat
      /\ Takes(pages, documents, <<u, d>>, restPages, restDocuments) /\ <<u, d>>[2] = d
      /\ Adds(u, d, visited \cup {u}, kind, newPages, newDocuments) /\ u \notin visited
  BY DEF Turn
<1>3. PICK c \in Nat : PagesLevel(pages, c) /\ DocumentsLevel(documents, c) /\ LinesLevel(m, c)
  BY DEF Level
<1>4. \A k \in DOMAIN m : m[k] \in Lines
  OBVIOUS
<1>5. \A k \in DOMAIN m : m[k].depth \in Nat
  BY <1>4 DEF Lines
<1> HIDE DEF e, m2, P, D
<1>6. \A k \in DOMAIN m2 : (k \in DOMAIN m /\ m2[k] = m[k]) \/ m2[k] = e
  BY <1>1, LineAdded DEF m2
<1>7. PagesLevel(restPages, c) /\ DocumentsLevel(restDocuments, c)
  BY <1>2, <1>3, LevelsOn
<1>8. CASE documents # <<>>
  <2>1. u # Homepage
    <3>1. m # <<>> /\ m[1].url = Homepage /\ visited = LoadManifest(m)
      BY <1>8 DEF First, OnlyHome
    <3>2. 1 \in DOMAIN m
      BY <3>1, FirstAndRest
    <3> QED
      BY <1>2, <3>1, <3>2 DEF LoadManifest
  <2>2. d = c + 1
    BY <1>2, <1>3, <1>8, LevelsOn
  <2>3. newPages = <<>> /\ newDocuments = <<>>
    BY <1>1, <1>2, <1>8 DEF Adds
  <2>4. PagesLevel(P, c) /\ DocumentsLevel(D, c)
    <3>1. \A k \in DOMAIN newPages : newPages[k][2] = c + 1
      BY <2>3
    <3>2. \A k \in DOMAIN newDocuments : newDocuments[k][2] = c + 1
      BY <2>3
    <3> QED
      BY <1>1, <1>7, <3>1, <3>2, LevelsGrow DEF P, D
  <2>5. e.depth <= c + 1 /\ ~(e.url = Homepage \/ Named[e.url] = "page")
    BY <1>1, <1>8, <2>1, <2>2
  <2>6. LinesLevel(m2, c)
    BY <1>3, <1>6, <2>5 DEF LinesLevel
  <2> QED
    BY <2>4, <2>6 DEF Level, e, m2, P, D
<1>9. CASE documents = <<>>
  <2>0. PagesLevel(restPages, <<u, d>>[2])
    BY <1>2, <1>3, <1>9, LevelsOn
  <2>1. c <= d /\ d <= c + 1
    <3>1. c <= <<u, d>>[2] /\ <<u, d>>[2] <= c + 1
      BY <1>2, <1>3, <1>9, LevelsOn
    <3> QED
      BY <1>2, <3>1
  <2>2. PagesLevel(restPages, d)
    BY <1>2, <2>0
  <2>3. DocumentsLevel(restDocuments, d)
    <3>1. restDocuments = <<>>
      BY <1>2, <1>9 DEF Takes
    <3> QED
      BY <3>1 DEF DocumentsLevel
  <2>4. /\ \A k \in DOMAIN newPages : newPages[k][2] = d + 1
        /\ \A k \in DOMAIN newDocuments : newDocuments[k][2] = d + 1
    BY <1>2, AddedAre
  <2>5. PagesLevel(P, d) /\ DocumentsLevel(D, d)
    <3>1. PagesLevel(restPages \o newPages, d)
      BY <1>1, <1>2, <2>2, <2>3, <2>4, LevelsGrow
    <3>2. DocumentsLevel(restDocuments \o newDocuments, d)
      BY <1>1, <1>2, <2>2, <2>3, <2>4, LevelsGrow
    <3> QED
      BY <3>1, <3>2 DEF P, D
  <2>6. LinesLevel(m2, d)
    <3> SUFFICES ASSUME NEW k \in DOMAIN m2
                 PROVE  /\ m2[k].depth <= d + 1
                        /\ m2[k].url = Homepage \/ Named[m2[k].url] = "page" => m2[k].depth <= d
      BY DEF LinesLevel
    <3>1. CASE k \in DOMAIN m /\ m2[k] = m[k]
      <4>1. m2[k].depth \in Nat /\ m2[k].depth <= c + 1
        BY <1>3, <1>5, <3>1 DEF LinesLevel
      <4>2. m2[k].depth <= d + 1
        BY <1>2, <2>1, <4>1
      <4>3. ASSUME m2[k].url = Homepage \/ Named[m2[k].url] = "page" PROVE m2[k].depth <= d
        <5>1. m2[k].depth <= c
          BY <1>3, <3>1, <4>3 DEF LinesLevel
        <5> QED
          BY <1>2, <2>1, <4>1, <5>1
      <4> QED
        BY <4>2, <4>3
    <3>2. CASE m2[k] = e
      BY <1>1, <1>2, <3>2
    <3> QED
      BY <1>6, <3>1, <3>2
  <2> QED
    BY <1>2, <2>5, <2>6 DEF Level, e, m2, P, D
<1> QED
  BY <1>8, <1>9

(* No url of a manifest is deeper than one step beyond a page that links   *)
(* to it.                                                                  *)
Shortest(m) ==
  \A j, k \in DOMAIN m :
    m[j].kind = "html" /\ m[k].url \in ToSet(Links[m[j].url]) /\ m[k].url \in SameSite
      => m[k].depth <= m[j].depth + 1

LEMMA ShortestGoesOn ==
  ASSUME NEW pages, NEW documents, NEW visited, NEW u, NEW d, NEW kind,
         NEW restPages, NEW restDocuments, NEW newPages, NEW newDocuments,
         Turn(pages, documents, visited, u, d, kind, restPages, restDocuments, newPages, newDocuments),
         NEW m \in Seq(Lines), First(m, visited, pages, documents), Level(m, pages, documents),
         ~(kind = "html" /\ Named[u] = "document"), Shortest(m)
  PROVE  Shortest(Append(m, Entry(u, d, kind)))
<1> DEFINE e == Entry(u, d, kind)
           m2 == Append(m, e)
<1>1. /\ e \in Lines /\ e.url = u /\ e.depth = d /\ e.kind = kind
      /\ documents = <<>> => (u = Homepage \/ (u \in SameSite /\ Named[u] = "page")) /\ d <= MaxDepth
      /\ documents # <<>> => u \in SameSite /\ Named[u] = "document" /\ d <= MaxPdfDepth
  BY TurnIs DEF Entry
<1>2. /\ pages \in Seq(Items) /\ documents \in Seq(Items) /\ u \in Urls /\ d \in Nat
      /\ Takes(pages, documents, <<u, d>>, restPages, restDocuments) /\ <<u, d>>[2] = d
      /\ u \notin visited
  BY DEF Turn
<1>3. PICK c \in Nat : PagesLevel(pages, c) /\ DocumentsLevel(documents, c) /\ LinesLevel(m, c)
  BY DEF Level
<1>4. \A k \in DOMAIN m : m[k] \in Lines
  OBVIOUS
<1>5. \A k \in DOMAIN m : m[k].depth \in Nat
  BY <1>4 DEF Lines
<1> HIDE DEF e, m2
<1>6. \A k \in DOMAIN m2 : (k \in DOMAIN m /\ m2[k] = m[k]) \/ m2[k] = e
  BY <1>1, LineAdded DEF m2
<1>7. ASSUME NEW j \in DOMAIN m, m[j].kind = "html", u \in ToSet(Links[m[j].url]), u \in SameSite
      PROVE  d <= m[j].depth + 1
  <2>1. visited = LoadManifest(m) /\ m # <<>> /\ m[1].url = Homepage
    BY <1>7 DEF First
  <2>2. u # Homepage
    <3>1. 1 \in DOMAIN m
      BY <2>1, FirstAndRest
    <3> QED
      BY <1>2, <2>1, <3>1 DEF LoadManifest
  <2>3. LinkWaits(m[j].url, m[j].depth, visited, pages, documents)
    BY <1>7 DEF First, LinksWait
  <2>4. m[j].depth + 1 > DepthLimit(Named[u]) \/ Waits(u, m[j].depth + 1, pages, documents)
    BY <1>2, <1>7, <2>3 DEF LinkWaits
  <2>5. MaxDepth \in Nat /\ MaxPdfDepth \in Nat /\ m[j].depth \in Nat
    BY <1>5, <1>7, SiteAssumption
  <2>6. CASE m[j].depth + 1 > DepthLimit(Named[u])
    <3>1. d <= DepthLimit(Named[u])
      BY <1>1, <2>2 DEF DepthLimit
    <3>2. DepthLimit(Named[u]) \in Nat
      BY <2>5 DEF DepthLimit
    <3> QED
      BY <1>2, <2>5, <2>6, <3>1, <3>2
  <2>7. CASE Waits(u, m[j].depth + 1, pages, documents)
    <3>1. CASE documents # <<>>
      <4>1. d = c + 1
        BY <1>2, <1>3, <3>1, LevelsOn
      <4>2. PICK k \in DOMAIN documents : documents[k][2] <= m[j].depth + 1
        BY <1>1, <2>7, <3>1 DEF Waits
      <4> QED
        BY <1>3, <4>1, <4>2 DEF DocumentsLevel
    <3>2. CASE documents = <<>>
      <4>1. Named[u] = "page"
        BY <1>1, <2>2, <3>2
      <4>2. PICK k \in DOMAIN pages : pages[k][2] <= m[j].depth + 1
        BY <2>7, <4>1 DEF Waits
      <4>3. pages # <<>> /\ <<u, d>> = Head(pages)
        BY <1>2, <3>2 DEF Takes
      <4>4. 1 \in DOMAIN pages /\ pages[1] = <<u, d>>
        BY <1>2, <4>3, FirstAndRest
      <4>5. \A i \in DOMAIN pages : pages[i] \in Items
        BY <1>2
      <4>6. k = 1 \/ 1 < k
        <5>1. DOMAIN pages = 1 .. Len(pages) /\ Len(pages) \in Nat
          BY <1>2
        <5> QED
          BY <5>1
      <4>7. d <= pages[k][2] /\ pages[k][2] \in Nat
        <5>1. pages[k][2] \in Nat
          BY <4>5 DEF Items
        <5>2. CASE k = 1
          BY <1>2, <4>4, <5>1, <5>2
        <5>3. CASE 1 < k
          BY <1>2, <1>3, <4>4, <5>1, <5>3 DEF PagesLevel
        <5> QED
          BY <4>6, <5>2, <5>3
      <4> QED
        BY <1>2, <2>5, <4>2, <4>7
    <3> QED
      BY <3>1, <3>2
  <2> QED
    BY <2>4, <2>6, <2>7
<1>8. ASSUME NEW k \in DOMAIN m, kind = "html" PROVE m[k].depth <= d + 1
  <2>1. documents = <<>>
    BY <1>1, <1>8
  <2>2. c <= d
    BY <1>2, <1>3, <2>1, LevelsOn, ZenonT(60)
  <2>3. m[k].depth <= c + 1 /\ m[k].depth \in Nat
    BY <1>3, <1>5 DEF LinesLevel
  <2> QED
    BY <1>2, <2>2, <2>3
<1>9. ASSUME NEW j \in DOMAIN m2, NEW k \in DOMAIN m2, m2[j].kind = "html",
             m2[k].url \in ToSet(Links[m2[j].url]), m2[k].url \in SameSite
      PROVE  m2[k].depth <= m2[j].depth + 1
  <2>1. CASE j \in DOMAIN m /\ m2[j] = m[j] /\ k \in DOMAIN m /\ m2[k] = m[k]
    BY <1>9, <2>1 DEF Shortest
  <2>2. CASE j \in DOMAIN m /\ m2[j] = m[j] /\ m2[k] = e
    BY <1>1, <1>7, <1>9, <2>2
  <2>3. CASE m2[j] = e /\ k \in DOMAIN m /\ m2[k] = m[k]
    BY <1>1, <1>8, <1>9, <2>3
  <2>4. CASE m2[j] = e /\ m2[k] = e
    BY <1>1, <1>2, <2>4
  <2> QED
    BY <1>6, <2>1, <2>2, <2>3, <2>4
<1> QED
  BY <1>9 DEF Shortest, e, m2

(* A later crawl puts no homepage first.                                   *)
LEMMA LaterGoesOn ==
  ASSUME NEW pages, NEW documents, NEW visited, NEW u, NEW d, NEW kind,
         NEW restPages, NEW restDocuments, NEW newPages, NEW newDocuments,
         Turn(pages, documents, visited, u, d, kind, restPages, restDocuments, newPages, newDocuments),
         NEW m \in Seq(Lines), NEW isRagged \in BOOLEAN, LoadManifest(m) \subseteq visited,
         Later(m, isRagged, visited, pages, documents)
  PROVE  Later(AppendManifest(m, isRagged, Entry(u, d, kind)), FALSE, visited \cup {u},
               restPages \o newPages, restDocuments \o newDocuments)
<1> DEFINE e == Entry(u, d, kind)
           m2 == AppendManifest(m, isRagged, e)
<1>1. e \in Lines /\ e.url = u /\ (OnlyHome(pages, documents) => u = Homepage) /\ u \notin visited
  BY TurnIs DEF Entry, Turn
<1> HIDE DEF e, m2
<1>2. m2 = IF isRagged THEN m ELSE Append(m, e)
  BY DEF m2, AppendManifest
<1>3. Append(m, e) # <<>> /\ Append(m, e)[1] = IF m = <<>> THEN e ELSE m[1]
  BY <1>1, LineAdded
<1>4. m # <<>> => m[1].url \in visited
  <2> SUFFICES ASSUME m # <<>> PROVE m[1].url \in visited
    OBVIOUS
  <2>1. 1 \in DOMAIN m
    BY FirstAndRest
  <2> QED
    BY <2>1 DEF LoadManifest
<1>5. CASE m # <<>>
  <2>1. m[1].url # Homepage
    BY <1>1, <1>4, <1>5 DEF Later
  <2>2. m2 # <<>> /\ m2[1] = m[1]
    BY <1>2, <1>3, <1>5
  <2> QED
    BY <2>1, <2>2 DEF Later, m2, e
<1>6. CASE m = <<>>
  <2>1. Homepage \in visited \/ (isRagged /\ u = Homepage)
    BY <1>1, <1>6 DEF Later
  <2>2. m2 # <<>> => m2[1].url = u /\ ~isRagged
    BY <1>1, <1>2, <1>3, <1>6
  <2>3. Homepage \in visited \cup {u} /\ (m2 # <<>> => m2[1].url # Homepage)
    BY <1>1, <2>1, <2>2
  <2> QED
    BY <2>3 DEF Later, m2, e
<1> QED
  BY <1>5, <1>6

(* Nor does it change what a crawl is to leave out a url met before.       *)
LEMMA SkipStays ==
  ASSUME NEW pages \in Seq(Items), NEW documents \in Seq(Items), QueuesOK(pages, documents),
         NEW q, NEW restPages, NEW restDocuments,
         Takes(pages, documents, q, restPages, restDocuments),
         NEW visited, q[1] \in visited, NEW m \in Seq(Lines), NEW isRagged
  PROVE  /\ QueuesOK(restPages, restDocuments)
         /\ First(m, visited, pages, documents) => First(m, visited, restPages, restDocuments)
         /\ Level(m, pages, documents) => Level(m, restPages, restDocuments)
         /\ Later(m, isRagged, visited, pages, documents)
              => Later(m, isRagged, visited, restPages, restDocuments)
<1>1. QueuesOK(restPages, restDocuments)
  BY QueuesStay
<1>2. OnlyHome(pages, documents) => OnlyHome(restPages, restDocuments)
  BY QueuesStay
<1>3. ASSUME First(m, visited, pages, documents) PROVE First(m, visited, restPages, restDocuments)
  <2>1. ASSUME NEW k \in DOMAIN m, m[k].kind = "html"
        PROVE  LinkWaits(m[k].url, m[k].depth, visited, restPages, restDocuments)
    <3>1. LinkWaits(m[k].url, m[k].depth, visited, pages, documents)
      BY <1>3, <2>1 DEF First, LinksWait
    <3>2. LinkWaits(m[k].url, m[k].depth, visited \cup {q[1]}, restPages, restDocuments)
      BY <3>1, LinkWaitsOn
    <3>3. visited \cup {q[1]} = visited
      OBVIOUS
    <3> QED
      BY <3>2, <3>3
  <2> QED
    BY <1>2, <1>3, <2>1 DEF First, LinksWait
<1>4. ASSUME Level(m, pages, documents) PROVE Level(m, restPages, restDocuments)
  <2>1. PICK c \in Nat : PagesLevel(pages, c) /\ DocumentsLevel(documents, c) /\ LinesLevel(m, c)
    BY <1>4 DEF Level
  <2>2. PagesLevel(restPages, c) /\ DocumentsLevel(restDocuments, c)
    BY <2>1, LevelsOn
  <2> QED
    BY <2>1, <2>2 DEF Level
<1>5. Later(m, isRagged, visited, pages, documents)
        => Later(m, isRagged, visited, restPages, restDocuments)
  BY <1>2 DEF Later
<1> QED
  BY <1>1, <1>3, <1>4, <1>5
-----------------------------------------------------------------------------
LEMMA CurrentIs ==
  ASSUME SiteTypes, left # <<>>
  PROVE  /\ Current \in SourceIds /\ manifests[Current] \in Seq(Lines)
         /\ 1 \in DOMAIN left /\ left[1].id = Current
<1>1. 1 \in DOMAIN left /\ left[1] \in ToSet(Sources) /\ Head(left) = left[1]
  BY FirstAndRest DEF SiteTypes
<1> QED
  BY <1>1 DEF SiteTypes, Current, SourceIds

(* A fetch as a turn of the loop.                                          *)
FetchOf(kind, u, d, restPages, restDocuments, newPages, newDocuments) ==
  /\ site.on /\ site.html + site.pdf + site.errors < MaxSourceFetches
  /\ site.documents = <<>> => site.html < MaxPages
  /\ Turn(site.pages, site.documents, site.visited, u, d, kind,
          restPages, restDocuments, newPages, newDocuments)
  /\ site' = [site EXCEPT
       !.visited = site.visited \cup {u},
       !.pages = restPages \o newPages,
       !.documents = restDocuments \o newDocuments,
       !.html = @ + (IF kind = "html" THEN 1 ELSE 0),
       !.pdf = @ + (IF kind = "pdf" THEN 1 ELSE 0),
       !.errors = @ + (IF kind = "error" THEN 1 ELSE 0)]
  /\ manifests' = [manifests EXCEPT ![Current] =
                     AppendManifest(@, Current \in ragged, Entry(u, d, kind))]
  /\ ragged' = ragged \ {Current}
  /\ misnamed' = (misnamed \/ (kind = "html" /\ Named[u] = "document"))
  /\ UNCHANGED <<left, crawls, runsDone, killsDone>>

LEMMA FetchIs ==
  ASSUME SiteTypes, WalkOK, NEW kind \in Answered, Fetch(kind)
  PROVE  \E u, d, restPages, restDocuments, newPages, newDocuments :
           FetchOf(kind, u, d, restPages, restDocuments, newPages, newDocuments)
<1> DEFINE q == Pop.item
           u == q[1]
           d == q[2]
           V == site.visited \cup {u}
           newPages == IF kind = "html" THEN NewLinks(u, d, V, "page") ELSE <<>>
           newDocuments == IF kind = "html" THEN NewLinks(u, d, V, "document") ELSE <<>>
<1>1. site.on /\ ~Capped /\ ItemNext /\ u \notin site.visited
  BY DEF Fetch
<1>2. /\ Takes(site.pages, site.documents, q, Pop.pages, Pop.documents)
      /\ site.documents = <<>> => site.html < MaxPages
  BY <1>1, PopTakes
<1>3. site.pages \in Seq(Items) /\ site.documents \in Seq(Items)
  BY DEF SiteTypes, SiteRecords
<1>4. q \in Items
  BY <1>2, <1>3, TakenAndLeft
<1>5. q = <<u, d>> /\ u \in Urls /\ d \in Nat
  BY <1>4 DEF Items
<1>6. Adds(u, d, V, kind, newPages, newDocuments)
  BY DEF Adds
<1>7. QueuesOK(site.pages, site.documents)
  BY <1>1 DEF WalkOK
<1>8. site.html + site.pdf + site.errors < MaxSourceFetches
  <2>1. /\ site.html \in Nat /\ site.pdf \in Nat /\ site.errors \in Nat
        /\ MaxSourceFetches \in Nat
    BY SiteAssumption DEF SiteTypes, SiteRecords
  <2> QED
    BY <1>1, <2>1 DEF Capped
<1>9. /\ site' = [site EXCEPT
            !.visited = V,
            !.pages = Pop.pages \o newPages,
            !.documents = Pop.documents \o newDocuments,
            !.html = @ + (IF kind = "html" THEN 1 ELSE 0),
            !.pdf = @ + (IF kind = "pdf" THEN 1 ELSE 0),
            !.errors = @ + (IF kind = "error" THEN 1 ELSE 0)]
      /\ manifests' = [manifests EXCEPT ![Current] =
                         AppendManifest(@, Current \in ragged, Entry(u, d, kind))]
      /\ ragged' = ragged \ {Current}
      /\ misnamed' = (misnamed \/ (kind = "html" /\ Named[u] = "document"))
      /\ UNCHANGED <<left, crawls, runsDone, killsDone>>
  BY DEF Fetch, Current
<1> HIDE DEF q, u, d, newPages, newDocuments
<1>10. Turn(site.pages, site.documents, site.visited, u, d, kind,
            Pop.pages, Pop.documents, newPages, newDocuments)
  BY <1>1, <1>2, <1>3, <1>5, <1>6, <1>7 DEF Turn
<1>11. FetchOf(kind, u, d, Pop.pages, Pop.documents, newPages, newDocuments)
  BY <1>1, <1>2, <1>8, <1>9, <1>10 DEF FetchOf
<1> QED
  BY <1>11
-----------------------------------------------------------------------------
(* ShortestDepth says of each manifest that begins with the homepage what  *)
(* Shortest says.                                                          *)
LEMMA ShortestIs ==
  ASSUME NEW m
  PROVE  Shortest(m) <=>
           \A p \in {e \in ToSet(m) : e.kind \in {"html"}}, e \in ToSet(m) :
             e.url \in ToSet(Links[p.url]) /\ e.url \in SameSite => e.depth <= p.depth + 1
BY DEF Shortest, ToSet

(* While a source is crawled and no summary of it is there, its manifest   *)
(* can grow.                                                               *)
LEMMA CompleteStays ==
  ASSUME SiteTypes, LeftOK, DocumentsComplete, PagesComplete, left # <<>>,
         UNCHANGED crawls,
         \A id \in SourceIds \ {Current} : manifests'[id] = manifests[id]
  PROVE  DocumentsComplete' /\ PagesComplete'
<1>1. Current \in SourceIds /\ crawls[Current] = NoSummary
  BY CurrentIs DEF LeftOK
<1>2. ~Drained(Current)
  BY <1>1 DEF Drained, NoSummary
<1>3. \A id \in SourceIds : Drained(id)' <=> Drained(id)
  BY DEF Drained
<1>4. \A n : \A id \in SourceIds \ {Current} : Missing(id, n)' = Missing(id, n)
  BY DEF Missing, Linked, Fetched, Recorded
<1>5. DocumentsComplete'
  BY <1>2, <1>3, <1>4 DEF DocumentsComplete
<1>6. PagesComplete'
  BY <1>2, <1>3, <1>4 DEF PagesComplete
<1> QED
  BY <1>5, <1>6

LEMMA FetchKeeps ==
  ASSUME SiteInv, NEW kind \in Answered, Fetch(kind) PROVE SiteInv'
<1>0. SiteTypes /\ LeftOK /\ WalkOK /\ RecordedOnce /\ CapsHold
  BY DEF SiteInv
<1>1. PICK u, d, restPages, restDocuments, newPages, newDocuments :
        FetchOf(kind, u, d, restPages, restDocuments, newPages, newDocuments)
  BY <1>0, FetchIs
<1> DEFINE m == manifests[Current]
           e == Entry(u, d, kind)
           m2 == AppendManifest(m, Current \in ragged, e)
           P == restPages \o newPages
           D == restDocuments \o newDocuments
           V == site.visited \cup {u}
<1>2. /\ site.on /\ site.html + site.pdf + site.errors < MaxSourceFetches
      /\ site.documents = <<>> => site.html < MaxPages
      /\ Turn(site.pages, site.documents, site.visited, u, d, kind,
              restPages, restDocuments, newPages, newDocuments)
  BY <1>1 DEF FetchOf
<1>3. /\ site' = [site EXCEPT
            !.visited = V, !.pages = P, !.documents = D,
            !.html = @ + (IF kind = "html" THEN 1 ELSE 0),
            !.pdf = @ + (IF kind = "pdf" THEN 1 ELSE 0),
            !.errors = @ + (IF kind = "error" THEN 1 ELSE 0)]
      /\ manifests' = [manifests EXCEPT ![Current] = m2]
      /\ ragged' = ragged \ {Current}
      /\ misnamed' = (misnamed \/ (kind = "html" /\ Named[u] = "document"))
  BY <1>1 DEF FetchOf
<1>4. UNCHANGED <<left, crawls, runsDone, killsDone>> /\ Current' = Current
  BY <1>1 DEF FetchOf, Current
<1>5. left # <<>> /\ Current \in SourceIds /\ m \in Seq(Lines)
  BY <1>0, <1>2, CurrentIs DEF SiteTypes
<1>6. /\ P \in Seq(Items) /\ D \in Seq(Items) /\ QueuesOK(P, D) /\ e \in Lines /\ e.url = u
      /\ site.documents # <<>> => Named[u] = "document"
  BY <1>2, TurnIs DEF Entry
<1>7. u \in Urls /\ d \in Nat /\ u \notin site.visited
  BY <1>2 DEF Turn
<1> HIDE DEF m, e, m2, P, D, V
<1>8. manifests \in [SourceIds -> Seq(Lines)] /\ site \in SiteRecords /\ misnamed \in BOOLEAN
  BY <1>0 DEF SiteTypes
<1>9. m2 = IF Current \in ragged THEN m ELSE Append(m, e)
  BY DEF m2, AppendManifest
<1>10. m2 \in Seq(Lines)
  <2>1. Append(m, e) \in Seq(Lines)
    BY <1>5, <1>6, LineAdded
  <2> QED
    BY <1>5, <1>9, <2>1
<1>11. manifests'[Current] = m2 /\ \A id \in SourceIds \ {Current} : manifests'[id] = manifests[id]
  BY <1>3, <1>5, <1>8
<1>12. /\ site'.on = site.on /\ site'.resumed = site.resumed
       /\ site'.visited = V /\ site'.pages = P /\ site'.documents = D
       /\ site'.html = site.html + (IF kind = "html" THEN 1 ELSE 0)
       /\ site'.pdf = site.pdf + (IF kind = "pdf" THEN 1 ELSE 0)
       /\ site'.errors = site.errors + (IF kind = "error" THEN 1 ELSE 0)
  BY <1>3, <1>8 DEF SiteRecords
<1>13. site.html \in Nat /\ site.pdf \in Nat /\ site.errors \in Nat
  BY <1>8 DEF SiteRecords
<1>14. SiteTypes'
  <2>1. V \subseteq Urls
    BY <1>7, <1>8 DEF V, SiteRecords
  <2>2. site'.html \in Nat /\ site'.pdf \in Nat /\ site'.errors \in Nat
    BY <1>12, <1>13
  <2>3. /\ site' = [visited |-> site'.visited, pages |-> site'.pages,
                    documents |-> site'.documents, html |-> site'.html, pdf |-> site'.pdf,
                    errors |-> site'.errors, resumed |-> site'.resumed, on |-> site'.on]
        /\ site'.on \in BOOLEAN /\ site'.resumed \in BOOLEAN
    BY <1>3, <1>8 DEF SiteRecords
  <2>4. site' \in SiteRecords
    BY <1>6, <1>12, <2>1, <2>2, <2>3 DEF SiteRecords
  <2>5. manifests' \in [SourceIds -> Seq(Lines)]
    BY <1>3, <1>5, <1>8, <1>10
  <2>6. misnamed' \in BOOLEAN /\ ragged' \subseteq SourceIds
    BY <1>0, <1>3 DEF SiteTypes
  <2> QED
    BY <1>0, <1>2, <1>4, <1>5, <1>12, <2>4, <2>5, <2>6 DEF SiteTypes
<1>15. LeftOK'
  BY <1>0, <1>4 DEF LeftOK
<1>16. WalkOK'
  <2>1. LoadManifest(m) \subseteq site.visited
    BY <1>0, <1>2 DEF WalkOK, m
  <2>2. LoadManifest(m2) \subseteq V
    <3>1. LoadManifest(Append(m, e)) = LoadManifest(m) \cup {e.url}
      BY <1>5, <1>6, LineAdded
    <3> QED
      BY <1>6, <1>9, <2>1, <3>1 DEF V
  <2>3. Current \notin ragged'
    BY <1>3
  <2>4. CASE site.resumed
    <3>1. Later(m, Current \in ragged, site.visited, site.pages, site.documents)
      BY <1>0, <1>2, <2>4 DEF WalkOK, m
    <3>2. ASSUME Current \in ragged PROVE Later(m2, FALSE, V, P, D)
      <4>1. Later(m, TRUE, site.visited, site.pages, site.documents) /\ m2 = AppendManifest(m, TRUE, e)
        BY <3>1, <3>2 DEF Later, AppendManifest, m2
      <4> QED
        BY <1>2, <1>5, <2>1, <4>1, LaterGoesOn DEF e, P, D, V
    <3>3. ASSUME Current \notin ragged PROVE Later(m2, FALSE, V, P, D)
      <4>1. Later(m, FALSE, site.visited, site.pages, site.documents) /\ m2 = AppendManifest(m, FALSE, e)
        BY <3>1, <3>3 DEF Later, AppendManifest, m2
      <4> QED
        BY <1>2, <1>5, <2>1, <4>1, LaterGoesOn DEF e, P, D, V
    <3>4. Later(m2, Current \in ragged', V, P, D)
      <4>1. Later(m2, FALSE, V, P, D)
        BY <3>2, <3>3
      <4> QED
        BY <2>3, <4>1 DEF Later
    <3> QED
      BY <1>4, <1>6, <1>11, <1>12, <2>2, <2>4, <3>4 DEF WalkOK
  <2>5. CASE ~site.resumed
    <3>1. Current \notin ragged /\ First(m, site.visited, site.pages, site.documents)
      BY <1>0, <1>2, <2>5 DEF WalkOK, m
    <3>2. m2 = Append(m, e)
      BY <1>9, <3>1
    <3>3. First(m2, V, P, D)
      BY <1>2, <1>5, <3>1, <3>2, FirstGoesOn DEF e, P, D, V
    <3>4. misnamed' \/ Level(m2, P, D)
      <4> SUFFICES ASSUME ~misnamed' PROVE Level(m2, P, D)
        OBVIOUS
      <4>1. ~misnamed /\ ~(kind = "html" /\ Named[u] = "document")
        BY <1>3
      <4>2. Level(m, site.pages, site.documents)
        BY <1>0, <1>2, <2>5, <4>1 DEF WalkOK, m
      <4> QED
        BY <1>2, <1>5, <3>1, <3>2, <4>1, <4>2, LevelGoesOn DEF e, P, D
    <3> QED
      BY <1>4, <1>6, <1>11, <1>12, <2>2, <2>3, <2>5, <3>3, <3>4 DEF WalkOK
  <2> QED
    BY <2>4, <2>5
<1>17. RecordedOnce'
  <2>1. u \notin LoadManifest(m)
    BY <1>0, <1>2, <1>7 DEF WalkOK, m
  <2>2. \A j, k \in DOMAIN m : m[j].url = m[k].url => j = k
    BY <1>0, <1>5 DEF RecordedOnce, m
  <2>3. \A k \in DOMAIN m : m[k].url # u
    BY <2>1 DEF LoadManifest
  <2>4. \A k \in DOMAIN Append(m, e) :
          \/ k \in DOMAIN m /\ Append(m, e)[k] = m[k]
          \/ k = Len(m) + 1 /\ Append(m, e)[k] = e
    BY <1>5, <1>6, LineAdded
  <2>5. \A j, k \in DOMAIN Append(m, e) : Append(m, e)[j].url = Append(m, e)[k].url => j = k
    <3> DEFINE m3 == Append(m, e)
               n == Len(m) + 1
    <3>1. \A k \in DOMAIN m3 : (k \in DOMAIN m /\ m3[k] = m[k]) \/ (k = n /\ m3[k] = e)
      BY <2>4
    <3> HIDE DEF m3, n
    <3>2. \A j, k \in DOMAIN m3 : m3[j].url = m3[k].url => j = k
      BY <1>6, <2>2, <2>3, <3>1
    <3> QED
      BY <3>2 DEF m3
  <2>6. \A j, k \in DOMAIN m2 : m2[j].url = m2[k].url => j = k
    BY <1>9, <2>2, <2>5
  <2> QED
    BY <1>0, <1>11, <2>6 DEF RecordedOnce
<1>18. CapsHold'
  <2>1. MaxPages \in Nat /\ MaxSourceFetches \in Nat
    BY SiteAssumption
  <2>2. site'.html + site'.pdf + site'.errors <= site.html + site.pdf + site.errors + 1
    <3>1. kind = "html" => kind # "pdf" /\ kind # "error"
      OBVIOUS
    <3>2. kind = "pdf" => kind # "error"
      OBVIOUS
    <3> QED
      BY <1>12, <1>13, <3>1, <3>2
  <2>3. site'.html + site'.pdf + site'.errors <= MaxSourceFetches
    <3>1. site'.html \in Nat /\ site'.pdf \in Nat /\ site'.errors \in Nat
      BY <1>12, <1>13
    <3> QED
      BY <1>2, <1>13, <2>1, <2>2, <3>1
  <2>4. misnamed' \/ site'.html <= MaxPages
    <3> SUFFICES ASSUME ~misnamed' PROVE site'.html <= MaxPages
      OBVIOUS
    <3>1. ~misnamed /\ ~(kind = "html" /\ Named[u] = "document")
      BY <1>3
    <3>2. site.html <= MaxPages
      BY <1>0, <3>1 DEF CapsHold
    <3>3. CASE kind = "html"
      <4>1. site.html < MaxPages
        BY <1>2, <1>6, <3>1, <3>3
      <4> QED
        BY <1>12, <1>13, <2>1, <3>3, <4>1
    <3>4. CASE kind # "html"
      <4>1. site'.html = site.html
        BY <1>12, <1>13, <3>4
      <4> QED
        BY <3>2, <4>1
    <3> QED
      BY <3>3, <3>4
  <2> QED
    BY <2>3, <2>4 DEF CapsHold
<1>19. ShortestDepth'
  <2> SUFFICES ASSUME NEW id \in SourceIds, manifests'[id] # <<>>,
                      manifests'[id][1].url = Homepage, ~misnamed'
               PROVE  Shortest(manifests'[id])
    BY ShortestIs DEF ShortestDepth, BeginsAtHome, Fetched, Recorded
  <2>1. ~misnamed /\ ~(kind = "html" /\ Named[u] = "document")
    BY <1>3
  <2>2. \A i \in SourceIds : manifests[i] # <<>> /\ manifests[i][1].url = Homepage
                               => Shortest(manifests[i])
    BY <2>1, ShortestIs DEF SiteInv, ShortestDepth, BeginsAtHome, Fetched, Recorded
  <2>3. CASE id # Current
    BY <1>11, <2>2, <2>3
  <2>4. CASE id = Current
    <3>1. CASE Current \in ragged
      BY <1>5, <1>9, <1>11, <2>2, <2>4, <3>1 DEF m
    <3>2. CASE Current \notin ragged
      <4>1. m2 = Append(m, e) /\ m2[1].url = Homepage
        BY <1>9, <1>11, <2>4, <3>2
      <4>2. m2[1] = IF m = <<>> THEN e ELSE m[1]
        BY <1>5, <1>6, <4>1, LineAdded
      <4>3. CASE m = <<>>
        <5>1. /\ \A k \in DOMAIN m2 : m2[k] = e
              /\ e.depth \in Nat
          <6>1. \A k \in DOMAIN m2 : k \in DOMAIN m \/ m2[k] = e
            BY <1>5, <1>6, <4>1, LineAdded
          <6>2. DOMAIN m = {}
            BY <4>3
          <6> QED
            BY <1>6, <6>1, <6>2 DEF Lines
        <5>2. e.depth <= e.depth + 1
          BY <5>1
        <5>3. Shortest(m2)
          BY <5>1, <5>2 DEF Shortest
        <5> QED
          BY <1>11, <2>4, <5>3
      <4>4. CASE m # <<>>
        <5>1. m[1].url = Homepage
          BY <4>1, <4>2, <4>4
        <5>2. Shortest(m)
          BY <1>5, <2>2, <4>4, <5>1 DEF m
        <5>3. ~site.resumed
          <6> SUFFICES ASSUME site.resumed PROVE FALSE
            OBVIOUS
          <6>1. OnlyHome(site.pages, site.documents) /\ LoadManifest(m) \subseteq site.visited
            BY <1>0, <1>2, <4>4, <5>1 DEF WalkOK, Later, m
          <6>2. u = Homepage
            BY <1>2, <6>1, TurnIs
          <6>3. 1 \in DOMAIN m
            BY <1>5, <4>4, FirstAndRest
          <6>4. Homepage \in LoadManifest(m)
            BY <5>1, <6>3 DEF LoadManifest
          <6> QED
            BY <1>7, <6>1, <6>2, <6>4
        <5>4. First(m, site.visited, site.pages, site.documents)
          BY <1>0, <1>2, <5>3 DEF WalkOK, m
        <5>5. Level(m, site.pages, site.documents)
          BY <1>0, <1>2, <2>1, <5>3 DEF WalkOK, m
        <5>6. Shortest(m2)
          BY <1>2, <1>5, <2>1, <4>1, <5>2, <5>4, <5>5, ShortestGoesOn DEF e
        <5> QED
          BY <1>11, <2>4, <5>6
      <4> QED
        BY <4>3, <4>4
    <3> QED
      BY <3>1, <3>2
  <2> QED
    BY <2>3, <2>4
<1>20. DocumentsComplete' /\ PagesComplete'
  BY <1>0, <1>4, <1>5, <1>11, CompleteStays DEF SiteInv
<1> QED
  BY <1>14, <1>15, <1>16, <1>17, <1>18, <1>19, <1>20 DEF SiteInv
-----------------------------------------------------------------------------
(* The other steps.                                                        *)
LEMMA ManifestsStay ==
  ASSUME RecordedOnce, ShortestDepth, UNCHANGED <<manifests, misnamed>>
  PROVE  RecordedOnce' /\ ShortestDepth'
<1>1. RecordedOnce'
  BY DEF RecordedOnce
<1>2. ShortestDepth'
  BY DEF ShortestDepth, BeginsAtHome, Fetched, Recorded
<1> QED
  BY <1>1, <1>2

LEMMA OffIsNoSite == NoSite \in SiteRecords /\ ~NoSite.on /\ NoSite.html = 0
                     /\ NoSite.pdf = 0 /\ NoSite.errors = 0
BY DEF NoSite, SiteRecords

LEMMA NothingFetched == ASSUME site' = NoSite PROVE CapsHold' /\ WalkOK'
<1>1. ~site'.on /\ site'.html = 0 /\ site'.pdf = 0 /\ site'.errors = 0
  BY OffIsNoSite
<1>2. MaxPages \in Nat /\ MaxSourceFetches \in Nat
  BY SiteAssumption
<1>3. CapsHold'
  BY <1>1, <1>2 DEF CapsHold
<1>4. WalkOK'
  BY <1>1 DEF WalkOK
<1> QED
  BY <1>3, <1>4

LEMMA SumKeeps ==
  ASSUME SiteInv, left # <<>>, NEW status, NEW stop, Summed(status, stop),
         UNCHANGED <<manifests, misnamed, runsDone, killsDone>>, ragged' \subseteq SourceIds,
         stop = "queue_drained" /\ ~site.resumed =>
           /\ Missing(Current, "document") = {}
           /\ site.html < MaxPages => Missing(Current, "page") = {}
  PROVE  SiteInv'
<1>0. SiteTypes /\ LeftOK /\ RecordedOnce /\ ShortestDepth /\ DocumentsComplete /\ PagesComplete
  BY DEF SiteInv
<1>1. /\ crawls' = [crawls EXCEPT ![Current] = [status |-> status, stop |-> stop,
                                                html |-> site.html, resumed |-> site.resumed]]
      /\ left' = Tail(left) /\ site' = NoSite
  BY DEF Summed, Current
<1>2. Current \in SourceIds /\ 1 \in DOMAIN left /\ left[1].id = Current
  BY <1>0, CurrentIs
<1>3. /\ crawls'[Current].stop = stop /\ crawls'[Current].html = site.html
      /\ crawls'[Current].resumed = site.resumed
  BY <1>0, <1>1, <1>2 DEF SiteTypes
<1>4. DOMAIN crawls' = SourceIds /\ \A id \in SourceIds \ {Current} : crawls'[id] = crawls[id]
  BY <1>0, <1>1 DEF SiteTypes
<1>5. /\ left' \in Seq(ToSet(Sources))
      /\ \A k \in DOMAIN left' : k + 1 \in DOMAIN left /\ left'[k] = left[k + 1] /\ 1 < k + 1
  <2>1. left \in Seq(ToSet(Sources))
    BY <1>0 DEF SiteTypes
  <2>2. Tail(left) \in Seq(ToSet(Sources))
    BY <2>1, FirstAndRest
  <2>3. \A k \in DOMAIN Tail(left) : k + 1 \in DOMAIN left /\ Tail(left)[k] = left[k + 1] /\ 1 < k + 1
    BY <2>1, FirstAndRest
  <2> QED
    BY <1>1, <2>2, <2>3
<1>6. SiteTypes'
  <2>1. site' = NoSite /\ site' \in SiteRecords /\ ~site'.on
    BY <1>1, OffIsNoSite
  <2> QED
    BY <1>0, <1>4, <1>5, <2>1 DEF SiteTypes
<1>7. LeftOK'
  <2>0. /\ \A k \in DOMAIN left' : k \in Nat
        /\ \A k \in DOMAIN left' : left'[k].id \in SourceIds
    BY <1>5 DEF SourceIds
  <2>1. ASSUME NEW j \in DOMAIN left', NEW k \in DOMAIN left', left'[j].id = left'[k].id
        PROVE  j = k
    <3>1. j + 1 = k + 1
      BY <1>0, <1>5, <2>1 DEF LeftOK
    <3> QED
      BY <2>0, <3>1
  <2>2. ASSUME NEW k \in DOMAIN left' PROVE crawls'[left'[k].id] = NoSummary
    <3>1. k + 1 \in DOMAIN left /\ left'[k] = left[k + 1] /\ k + 1 # 1
      BY <1>5
    <3>2. left'[k].id # Current
      BY <1>0, <1>2, <3>1 DEF LeftOK
    <3>3. crawls[left[k + 1].id] = NoSummary
      BY <1>0, <3>1 DEF LeftOK
    <3> QED
      BY <1>4, <2>0, <3>1, <3>2, <3>3
  <2> QED
    BY <2>1, <2>2 DEF LeftOK
<1>8. \A n : \A id \in SourceIds : Missing(id, n)' = Missing(id, n)
  BY DEF Missing, Linked, Fetched, Recorded
<1>9. DocumentsComplete'
  <2> SUFFICES ASSUME NEW id \in SourceIds, crawls'[id].stop = "queue_drained", ~crawls'[id].resumed
               PROVE  Missing(id, "document") = {}
    BY <1>8 DEF DocumentsComplete, Drained
  <2>1. CASE id = Current
    BY <1>3, <2>1
  <2>2. CASE id # Current
    BY <1>0, <1>4, <2>2 DEF DocumentsComplete, Drained
  <2> QED
    BY <2>1, <2>2
<1>10. PagesComplete'
  <2> SUFFICES ASSUME NEW id \in SourceIds, crawls'[id].stop = "queue_drained",
                      ~crawls'[id].resumed, crawls'[id].html < MaxPages
               PROVE  Missing(id, "page") = {}
    BY <1>8 DEF PagesComplete, Drained
  <2>1. CASE id = Current
    BY <1>3, <2>1
  <2>2. CASE id # Current
    BY <1>0, <1>4, <2>2 DEF PagesComplete, Drained
  <2> QED
    BY <2>1, <2>2
<1>11. RecordedOnce' /\ ShortestDepth'
  BY <1>0, ManifestsStay
<1>12. CapsHold' /\ WalkOK'
  BY <1>1, NothingFetched
<1> QED
  BY <1>6, <1>7, <1>9, <1>10, <1>11, <1>12 DEF SiteInv

LEMMA BadHomepageKeeps == ASSUME SiteInv, BadHomepage PROVE SiteInv'
<1>1. /\ left # <<>> /\ Summed("bad_homepage", "none")
      /\ UNCHANGED <<manifests, ragged, misnamed, runsDone, killsDone>>
  BY DEF BadHomepage
<1>2. ragged' \subseteq SourceIds
  BY <1>1 DEF SiteInv, SiteTypes
<1> QED
  BY <1>1, <1>2, SumKeeps

LEMMA AbortKeeps == ASSUME SiteInv, AbortSite PROVE SiteInv'
<1>1. /\ site.on /\ Summed("aborted", "none") /\ LineLost
      /\ UNCHANGED <<manifests, misnamed, runsDone, killsDone>>
  BY DEF AbortSite
<1>2. left # <<>>
  BY <1>1 DEF SiteInv, SiteTypes
<1>3. ragged' \subseteq SourceIds
  <2>1. Current \in SourceIds
    BY <1>2, CurrentIs DEF SiteInv
  <2> QED
    BY <1>1, <2>1 DEF LineLost, Current, SiteInv, SiteTypes
<1> QED
  BY <1>1, <1>2, <1>3, SumKeeps

(* When nothing is left in the queues, or only pages and no budget for     *)
(* them, what the pages link to has been met.                              *)
LEMMA StopKeeps == ASSUME SiteInv, StopSite PROVE SiteInv'
<1>0. SiteTypes /\ WalkOK
  BY DEF SiteInv
<1>1. site.on /\ UNCHANGED <<manifests, ragged, misnamed, runsDone, killsDone>>
  BY DEF StopSite
<1>2. left # <<>> /\ ragged' \subseteq SourceIds
  BY <1>0, <1>1 DEF SiteTypes
<1>3. CASE Summed("ok", "source_elapsed_cap")
  BY <1>1, <1>2, <1>3, SumKeeps
<1>4. CASE Summed("ok", "source_fetch_cap")
  BY <1>1, <1>2, <1>4, SumKeeps
<1>5. CASE ~ItemNext /\ Summed("ok", "queue_drained")
  <2> DEFINE m == manifests[Current]
  <2>1. m \in Seq(Lines)
    BY <1>0, <1>2, CurrentIs
  <2>2. site.documents = <<>> /\ (site.html < MaxPages => site.pages = <<>>)
    BY <1>5 DEF ItemNext, PageNext
  <2>3. ASSUME ~site.resumed, NEW named, Missing(Current, named) # {},
               named = "document" \/ (named = "page" /\ site.html < MaxPages)
        PROVE  FALSE
    <3>1. First(m, site.visited, site.pages, site.documents)
      BY <1>0, <1>1, <2>3 DEF WalkOK
    <3>2. PICK v \in Linked(Current, named) : v \notin {e.url : e \in ToSet(m)}
      BY <2>3 DEF Missing, Recorded
    <3>3. PICK p \in ToSet(m) : /\ p.kind = "html" /\ v \in ToSet(Links[p.url])
                                /\ p.depth + 1 <= DepthLimit(named)
      BY <3>2 DEF Linked, Fetched, Recorded
    <3>4. v \in SameSite /\ Named[v] = named
      BY <3>2 DEF Linked
    <3>5. v \notin site.visited
      BY <3>1, <3>2 DEF First, LoadManifest, ToSet
    <3>6. PICK k \in DOMAIN m : m[k] = p
      BY <3>3 DEF ToSet
    <3>7. LinkWaits(p.url, p.depth, site.visited, site.pages, site.documents)
      BY <3>1, <3>3, <3>6 DEF First, LinksWait
    <3>8. p.depth + 1 > DepthLimit(named) \/ Waits(v, p.depth + 1, site.pages, site.documents)
      BY <3>3, <3>4, <3>5, <3>7 DEF LinkWaits
    <3>9. p.depth \in Nat /\ DepthLimit(named) \in Nat
      <4>1. m[k] \in Lines
        BY <2>1
      <4>2. MaxDepth \in Nat /\ MaxPdfDepth \in Nat
        BY SiteAssumption
      <4> QED
        BY <3>6, <4>1, <4>2 DEF Lines, DepthLimit
    <3>10. Waits(v, p.depth + 1, site.pages, site.documents)
      BY <3>3, <3>8, <3>9
    <3> QED
      BY <2>2, <2>3, <3>4, <3>10 DEF Waits
  <2>4. ~site.resumed => /\ Missing(Current, "document") = {}
                         /\ site.html < MaxPages => Missing(Current, "page") = {}
    BY <2>3
  <2> QED
    BY <1>1, <1>2, <1>5, <2>4, SumKeeps
<1> QED
  BY <1>3, <1>4, <1>5 DEF StopSite

LEMMA SkipKeeps == ASSUME SiteInv, SkipUrl PROVE SiteInv'
<1>0. SiteTypes /\ LeftOK /\ WalkOK /\ CapsHold
  BY DEF SiteInv
<1>1. /\ site.on /\ ItemNext /\ Pop.item[1] \in site.visited
      /\ site' = [site EXCEPT !.pages = Pop.pages, !.documents = Pop.documents]
      /\ UNCHANGED <<left, manifests, ragged, crawls, misnamed, runsDone, killsDone>>
  BY DEF SkipUrl
<1> DEFINE m == manifests[Current]
           P == Pop.pages
           D == Pop.documents
           q == Pop.item
<1>2. site \in SiteRecords /\ site.pages \in Seq(Items) /\ site.documents \in Seq(Items)
  BY <1>0 DEF SiteTypes, SiteRecords
<1>3. left # <<>> /\ m \in Seq(Lines)
  <2>1. left # <<>>
    BY <1>0, <1>1 DEF SiteTypes
  <2> QED
    BY <1>0, <2>1, CurrentIs
<1>4. Takes(site.pages, site.documents, q, P, D) /\ q[1] \in site.visited
      /\ site' = [site EXCEPT !.pages = P, !.documents = D]
  BY <1>0, <1>1, PopTakes
<1> HIDE DEF m, P, D, q
<1>5. P \in Seq(Items) /\ D \in Seq(Items)
  BY <1>2, <1>4, TakenAndLeft
<1>6. /\ site' \in SiteRecords /\ site'.on = site.on /\ site'.resumed = site.resumed
      /\ site'.visited = site.visited /\ site'.pages = P /\ site'.documents = D
      /\ site'.html = site.html /\ site'.pdf = site.pdf /\ site'.errors = site.errors
  BY <1>2, <1>4, <1>5 DEF SiteRecords
<1>7. SiteTypes'
  BY <1>0, <1>1, <1>6 DEF SiteTypes
<1>8. LeftOK'
  BY <1>0, <1>1 DEF LeftOK
<1>9. Current' = Current /\ manifests'[Current] = m /\ ragged' = ragged /\ misnamed' = misnamed
  BY <1>1 DEF Current, m
<1>10. QueuesOK(site.pages, site.documents)
  BY <1>0, <1>1 DEF WalkOK
<1>11. WalkOK'
  <2>1. QueuesOK(P, D)
    BY <1>2, <1>3, <1>4, <1>10, SkipStays
  <2>2. CASE site.resumed
    <3>1. Later(m, Current \in ragged, site.visited, site.pages, site.documents)
      BY <1>0, <1>1, <2>2 DEF WalkOK, m
    <3>2. OnlyHome(site.pages, site.documents) => OnlyHome(P, D)
      BY <1>2, <1>4, <1>10, QueuesStay
    <3>3. Later(m, Current \in ragged, site.visited, P, D)
      BY <3>1, <3>2 DEF Later
    <3> QED
      BY <1>0, <1>1, <1>6, <1>9, <2>1, <2>2, <3>3 DEF WalkOK, m
  <2>3. CASE ~site.resumed
    <3>1. First(m, site.visited, site.pages, site.documents) /\ Current \notin ragged
      BY <1>0, <1>1, <2>3 DEF WalkOK, m
    <3>2. First(m, site.visited, P, D)
      BY <1>2, <1>3, <1>4, <1>10, <3>1, SkipStays
    <3>3. misnamed \/ Level(m, P, D)
      <4> SUFFICES ASSUME ~misnamed PROVE Level(m, P, D)
        OBVIOUS
      <4>1. Level(m, site.pages, site.documents)
        BY <1>0, <1>1, <2>3 DEF WalkOK, m
      <4> QED
        BY <1>2, <1>3, <1>4, <1>10, <4>1, SkipStays
    <3> QED
      BY <1>0, <1>1, <1>6, <1>9, <2>1, <2>3, <3>1, <3>2, <3>3 DEF WalkOK, m
  <2> QED
    BY <2>2, <2>3
<1>12. CapsHold'
  BY <1>0, <1>6, <1>9 DEF CapsHold
<1>13. RecordedOnce' /\ ShortestDepth'
  BY <1>1, ManifestsStay DEF SiteInv
<1>14. DocumentsComplete' /\ PagesComplete'
  BY <1>0, <1>1, <1>3, CompleteStays DEF SiteInv
<1> QED
  BY <1>7, <1>8, <1>11, <1>12, <1>13, <1>14 DEF SiteInv

LEMMA StartSiteKeeps == ASSUME SiteInv, StartSite PROVE SiteInv'
<1>0. SiteTypes /\ LeftOK
  BY DEF SiteInv
<1> DEFINE m == manifests[Current]
           P == <<<<Homepage, 0>>>>
<1>1. /\ left # <<>> /\ ~site.on
      /\ site' = [NoSite EXCEPT !.on = TRUE, !.visited = LoadManifest(m), !.pages = P,
                                !.resumed = (m # <<>> \/ Current \in ragged)]
      /\ UNCHANGED <<left, manifests, ragged, crawls, misnamed, runsDone, killsDone>>
  BY DEF StartSite, Current
<1>2. m \in Seq(Lines)
  BY <1>0, <1>1, CurrentIs
<1>3. LoadManifest(m) \subseteq Urls
  <2>1. \A k \in DOMAIN m : m[k] \in Lines
    BY <1>2
  <2> QED
    BY <2>1 DEF LoadManifest, Lines
<1>4. P \in Seq(Items) /\ DOMAIN P = {1} /\ P[1] = <<Homepage, 0>>
  <2>1. <<Homepage, 0>> \in Items
    BY SiteAssumption DEF Items
  <2> QED
    BY <2>1
<1> HIDE DEF m, P
<1>5. /\ site'.on /\ (site'.resumed <=> m # <<>> \/ Current \in ragged)
      /\ site'.visited = LoadManifest(m) /\ site'.pages = P /\ site'.documents = <<>>
      /\ site'.html = 0 /\ site'.pdf = 0 /\ site'.errors = 0
  BY <1>1 DEF NoSite
<1>6. SiteTypes'
  <2>1. site' \in SiteRecords
    <3>1. /\ site'.on = TRUE
          /\ site'.resumed = (m # <<>> \/ Current \in ragged)
      BY <1>1 DEF NoSite
    <3>2. (m # <<>> \/ Current \in ragged) \in BOOLEAN
      OBVIOUS
    <3>3. site'.resumed \in BOOLEAN /\ site'.on \in BOOLEAN
      BY <3>1, <3>2
    <3>4. site' = [visited |-> site'.visited, pages |-> site'.pages,
                   documents |-> site'.documents, html |-> site'.html, pdf |-> site'.pdf,
                   errors |-> site'.errors, resumed |-> site'.resumed, on |-> site'.on]
      BY <1>1 DEF NoSite
    <3> QED
      <4>1. /\ site'.visited \in SUBSET Urls
            /\ site'.pages \in Seq(Items) /\ site'.documents \in Seq(Items)
        BY <1>3, <1>4, <1>5
      <4>2. site'.html \in Nat /\ site'.pdf \in Nat /\ site'.errors \in Nat
        BY <1>5
      <4> QED
        BY <3>3, <3>4, <4>1, <4>2 DEF SiteRecords
  <2> QED
    BY <1>0, <1>1, <1>5, <2>1 DEF SiteTypes
<1>7. LeftOK'
  BY <1>0, <1>1 DEF LeftOK
<1>8. Current' = Current /\ manifests'[Current] = m /\ ragged' = ragged
  BY <1>1 DEF Current, m
<1>9. QueuesOK(P, <<>>) /\ OnlyHome(P, <<>>)
  BY <1>4, SiteAssumption DEF QueuesOK, PageItem, OnlyHome
<1>10. WalkOK'
  <2>1. CASE m # <<>> \/ Current \in ragged
    <3>1. Later(m, Current \in ragged, LoadManifest(m), P, <<>>)
      BY <1>9, <2>1 DEF Later
    <3> QED
      BY <1>5, <1>8, <1>9, <2>1, <3>1 DEF WalkOK, m
  <2>2. CASE m = <<>> /\ Current \notin ragged
    <3>1. LinksWait(m, LoadManifest(m), P, <<>>)
      BY <2>2 DEF LinksWait
    <3>2. First(m, LoadManifest(m), P, <<>>)
      BY <1>9, <2>2, <3>1 DEF First
    <3>3. PagesLevel(P, 0) /\ DocumentsLevel(<<>>, 0) /\ LinesLevel(m, 0)
      BY <1>4, <2>2 DEF PagesLevel, DocumentsLevel, LinesLevel
    <3>4. Level(m, P, <<>>)
      BY <3>3 DEF Level
    <3> QED
      BY <1>5, <1>8, <1>9, <2>2, <3>2, <3>4 DEF WalkOK, m
  <2> QED
    BY <2>1, <2>2
<1>11. CapsHold'
  <2>1. MaxPages \in Nat /\ MaxSourceFetches \in Nat
    BY SiteAssumption
  <2> QED
    BY <1>5, <2>1 DEF CapsHold
<1>12. RecordedOnce' /\ ShortestDepth'
  BY <1>1, ManifestsStay DEF SiteInv
<1>13. DocumentsComplete' /\ PagesComplete'
  BY <1>0, <1>1, CompleteStays DEF SiteInv
<1> QED
  BY <1>6, <1>7, <1>10, <1>11, <1>12, <1>13 DEF SiteInv

(* A run begins and ends with no summaries.                                *)
LEMMA NoneComplete ==
  ASSUME crawls' = [s \in SourceIds |-> NoSummary]
  PROVE  DocumentsComplete' /\ PagesComplete' /\ DOMAIN crawls' = SourceIds
<1>1. \A id \in SourceIds : crawls'[id].stop = "none"
  BY DEF NoSummary
<1>2. \A id \in SourceIds : ~Drained(id)'
  BY <1>1 DEF Drained
<1> QED
  BY <1>2 DEF DocumentsComplete, PagesComplete

LEMMA StartCrawlKeeps == ASSUME SiteInv, StartCrawl PROVE SiteInv'
<1>0. SiteTypes /\ LeftOK /\ CapsHold
  BY DEF SiteInv
<1>1. /\ left = <<>> /\ runsDone < CrawlRuns /\ runsDone' = runsDone + 1 /\ left' \in Chosen
      /\ crawls' = [s \in SourceIds |-> NoSummary]
      /\ UNCHANGED <<manifests, ragged, site, misnamed, killsDone>>
  BY DEF StartCrawl
<1>2. site = NoSite /\ ~site'.on
  BY <1>0, <1>1, OffIsNoSite DEF SiteTypes
<1>3. left' \in Seq(ToSet(Sources)) /\ \A j, k \in DOMAIN left' : left'[j].id = left'[k].id => j = k
  BY <1>1, ChosenOnce
<1>4. runsDone' \in 0 .. CrawlRuns
  BY <1>0, <1>1, SiteAssumption DEF SiteTypes
<1>5. SiteTypes'
  BY <1>0, <1>1, <1>2, <1>3, <1>4, NoneComplete DEF SiteTypes
<1>6. LeftOK'
  <2>1. \A k \in DOMAIN left' : left'[k].id \in SourceIds
    BY <1>3 DEF SourceIds
  <2> QED
    BY <1>1, <1>3, <2>1 DEF LeftOK
<1>7. CapsHold' /\ WalkOK'
  BY <1>1, <1>2, NothingFetched
<1>8. RecordedOnce' /\ ShortestDepth'
  BY <1>1, ManifestsStay DEF SiteInv
<1> QED
  BY <1>1, <1>5, <1>6, <1>7, <1>8, NoneComplete DEF SiteInv

LEMMA KillCrawlKeeps == ASSUME SiteInv, KillCrawl PROVE SiteInv'
<1>0. SiteTypes
  BY DEF SiteInv
<1>1. /\ left # <<>> /\ killsDone < CrawlKills /\ killsDone' = killsDone + 1
      /\ left' = <<>> /\ site' = NoSite /\ crawls' = [s \in SourceIds |-> NoSummary]
      /\ LineLost /\ UNCHANGED <<manifests, misnamed, runsDone>>
  BY DEF KillCrawl
<1>2. ragged' \subseteq SourceIds
  <2>1. Current \in SourceIds
    BY <1>0, <1>1, CurrentIs
  <2> QED
    BY <1>0, <1>1, <2>1 DEF LineLost, Current, SiteTypes
<1>3. killsDone' \in 0 .. CrawlKills
  BY <1>0, <1>1, SiteAssumption DEF SiteTypes
<1>4. site' = NoSite /\ site' \in SiteRecords /\ ~site'.on /\ left' \in Seq(ToSet(Sources))
  BY <1>1, OffIsNoSite
<1>5. SiteTypes'
  BY <1>0, <1>1, <1>2, <1>3, <1>4, NoneComplete DEF SiteTypes
<1>6. LeftOK'
  BY <1>1 DEF LeftOK
<1>7. CapsHold' /\ WalkOK'
  BY <1>1, NothingFetched
<1>8. RecordedOnce' /\ ShortestDepth'
  BY <1>1, ManifestsStay DEF SiteInv
<1> QED
  BY <1>1, <1>5, <1>6, <1>7, <1>8, NoneComplete DEF SiteInv
-----------------------------------------------------------------------------
LEMMA SiteBegins == SiteInit => SiteInv
<1> SUFFICES ASSUME SiteInit PROVE SiteInv
  OBVIOUS
<1>1. /\ left = <<>> /\ manifests = [s \in SourceIds |-> <<>>] /\ ragged = {} /\ site = NoSite
      /\ crawls = [s \in SourceIds |-> NoSummary] /\ misnamed = FALSE
      /\ runsDone = 0 /\ killsDone = 0
  BY DEF SiteInit
<1>2. SiteTypes
  <2>1. CrawlRuns \in Nat /\ CrawlKills \in Nat
    BY SiteAssumption
  <2>2. manifests \in [SourceIds -> Seq(Lines)] /\ left \in Seq(ToSet(Sources))
    BY <1>1
  <2> QED
    <3>1. site \in SiteRecords /\ ~site.on
      BY <1>1, OffIsNoSite
    <3>2. runsDone \in 0 .. CrawlRuns /\ killsDone \in 0 .. CrawlKills
      BY <1>1, <2>1
    <3>3. misnamed \in BOOLEAN /\ ragged \subseteq SourceIds /\ DOMAIN crawls = SourceIds
      BY <1>1
    <3> QED
      BY <1>1, <2>2, <3>1, <3>2, <3>3 DEF SiteTypes
<1>3. LeftOK
  BY <1>1 DEF LeftOK
<1>4. WalkOK
  BY <1>1, OffIsNoSite DEF WalkOK
<1>5. CapsHold
  BY <1>1, OffIsNoSite, SiteAssumption DEF CapsHold
<1>6. RecordedOnce /\ ShortestDepth
  BY <1>1 DEF RecordedOnce, ShortestDepth, BeginsAtHome
<1>7. DocumentsComplete /\ PagesComplete
  <2>1. \A id \in SourceIds : crawls[id].stop = "none"
    BY <1>1 DEF NoSummary
  <2>2. \A id \in SourceIds : ~Drained(id)
    BY <2>1 DEF Drained
  <2> QED
    BY <2>2 DEF DocumentsComplete, PagesComplete
<1> QED
  BY <1>2, <1>3, <1>4, <1>5, <1>6, <1>7 DEF SiteInv

LEMMA SiteStep == SiteInv /\ [SiteNext]_siteVars => SiteInv'
<1> SUFFICES ASSUME SiteInv, [SiteNext]_siteVars PROVE SiteInv'
  OBVIOUS
<1>1. CASE UNCHANGED siteVars
  <2>1. UNCHANGED <<left, manifests, ragged, site, crawls, misnamed, runsDone, killsDone>>
    BY <1>1 DEF siteVars
  <2>2. SiteTypes' /\ LeftOK' /\ CapsHold'
    BY <2>1 DEF SiteInv, SiteTypes, LeftOK, CapsHold
  <2>3. WalkOK'
    BY <2>1 DEF SiteInv, WalkOK, Current
  <2>4. RecordedOnce' /\ ShortestDepth'
    BY <2>1, ManifestsStay DEF SiteInv
  <2>5. DocumentsComplete' /\ PagesComplete'
    BY <2>1 DEF SiteInv, DocumentsComplete, PagesComplete, Drained, Missing, Linked, Fetched, Recorded
  <2> QED
    BY <2>2, <2>3, <2>4, <2>5 DEF SiteInv
<1>2. ASSUME NEW kind \in Answered, Fetch(kind) PROVE SiteInv'
  BY <1>2, FetchKeeps
<1> QED
  BY <1>1, <1>2, StartCrawlKeeps, StartSiteKeeps, BadHomepageKeeps, StopKeeps, SkipKeeps,
     AbortKeeps, KillCrawlKeeps DEF SiteNext

(* crawl_sources.py, for every site, every budget, every answer of the     *)
(* servers, and however often the script is run, aborted and killed: no    *)
(* url is recorded twice; a manifest that begins with the homepage has no  *)
(* url deeper than one step beyond the pages that link to it; the budgets  *)
(* hold; and a first crawl that stops because nothing is left has fetched  *)
(* every document, and, if the budget lasts, every page, its pages link to.*)
THEOREM ManifestsSound == SiteSpec => []ManifestsAreSound
<1>1. SiteInv => ManifestsAreSound
  <2> SUFFICES ASSUME SiteInv PROVE ManifestsAreSound
    OBVIOUS
  <2>0. SiteTypes /\ WalkOK
    BY DEF SiteInv
  <2>1. SiteTypeOK
    <3>1. ToSet(left) \subseteq ToSet(Sources)
      <4>1. \A k \in DOMAIN left : left[k] \in ToSet(Sources)
        BY <2>0 DEF SiteTypes
      <4> QED
        BY <4>1 DEF ToSet
    <3>2. site.visited \subseteq Urls
      BY <2>0 DEF SiteTypes, SiteRecords
    <3>3. {p[1] : p \in ToSet(site.pages) \cup ToSet(site.documents)} \subseteq SameSite \cup {Homepage}
      <4>1. CASE site.on
        <5>1. /\ \A k \in DOMAIN site.pages : PageItem(site.pages[k])
              /\ \A k \in DOMAIN site.documents : DocumentItem(site.documents[k])
          BY <2>0, <4>1 DEF WalkOK, QueuesOK
        <5> QED
          BY <5>1 DEF PageItem, DocumentItem, ToSet
      <4>2. CASE ~site.on
        <5>1. site.pages = <<>> /\ site.documents = <<>>
          BY <2>0, <4>2 DEF SiteTypes, NoSite
        <5> QED
          BY <5>1 DEF ToSet
      <4> QED
        BY <4>1, <4>2
    <3> QED
      BY <2>0, <3>1, <3>2, <3>3 DEF SiteTypes, SiteTypeOK
  <2> QED
    BY <2>1 DEF SiteInv, ManifestsAreSound
<1> QED
  BY <1>1, SiteBegins, SiteStep, PTL DEF SiteSpec
-----------------------------------------------------------------------------
(* The two crawlers side by side.                                          *)
THEOREM CrawlsSound == SiteSpec /\ RunSpec => []CrawlsAreSound
BY ManifestsSound, BatchesSound, PTL DEF CrawlsAreSound
-----------------------------------------------------------------------------
(* Composition. What slices are made of, file by file, and what the        *)
(* grounded slice held before its refusals were capped.                    *)
FromFiles(names) == (UNION {RawFiles[f] : f \in names})
Before == IF "grounded" \in options.missing THEN {} ELSE Formatted(RawFiles["grounded"])

(* How far format_sft_v4.py and its slices have come: the order of its     *)
(* steps and the files each slice was read from.                           *)
V4OK ==
  making = "v4" =>
    /\ options \in Options
    /\ at \in {"start", "bailed", "loaded", "capped", "filled", "cut", "done"}
    /\ slices = [slice \in SliceNames |-> slices[slice]]
    /\ slices["grounded"] \subseteq FromFiles({"grounded", "fallback"})
    /\ slices["terse"] \subseteq RawFiles["terse"]
    /\ slices["english"] \subseteq FromFiles({"tulu1", "tulu2"})
    /\ capped \subseteq RawFiles["grounded"]
    /\ at = "loaded" => slices["grounded"] = Before
    /\ at = "capped" => slices["grounded"] = capped
    /\ at = "filled" => Cardinality(slices["grounded"]) <= Max({SliceTargets["grounded"], Cardinality(capped)})
    /\ at # "done" => trained = {} /\ validated = {}

(* build_v5_training_mix.py writes both of its files in one go.            *)
MixOK ==
  making = "mix" => at = "done" \/ (trained = {} /\ validated = {} /\ at = "start")

(* What picking the rare categories gives, kept while the guard set is     *)
(* topped up: two of each where there is room for two.                     *)
TwoOfEach ==
  GuardSize >= 2 * Cardinality(LowCoverage) =>
    /\ Cardinality(picked) <= GuardSize
    /\ \A cat \in LowCoverage : Cardinality(OfCat(cat) \cap picked) >= Min({2, Cardinality(OfCat(cat))})

GuardOK ==
  /\ picked \subseteq GuardItems
  /\ making = "guard" =>
       /\ at \in {"start", "topup", "done"}
       /\ at # "start" => TwoOfEach
       /\ at = "done" => Cardinality(picked) <= GuardSize
       /\ at = "start" => picked = {}
       /\ trained = {} /\ validated = {}

(* The invariant of the compositions: the parts of the property that hold  *)
(* at every step, and how far each builder has come.                       *)
CompInv ==
  /\ making \in {"v4", "mix", "guard"}
  /\ making # "v4" => \A slice \in SliceNames : slices[slice] = {}
  /\ V4OK /\ MixOK /\ GuardOK
  /\ RefusalShareHolds /\ FallbackIsNew /\ TargetsHold /\ ReplayHasNoTwins /\ EverySliceIsSplit
  /\ MixKeepsHeldOut
-----------------------------------------------------------------------------
(* The least and the greatest of two numbers.                              *)
LEMMA MinTwo ==
  ASSUME NEW a \in Int, NEW b \in Int
  PROVE  Min({a, b}) \in {a, b} /\ Min({a, b}) <= a /\ Min({a, b}) <= b
<1>1. \E x \in {a, b} : \A y \in {a, b} : x <= y
  <2>1. CASE a <= b
    BY <2>1
  <2>2. CASE b <= a
    BY <2>2
  <2> QED
    BY <2>1, <2>2
<1> QED
  BY <1>1 DEF Min

LEMMA MaxTwo ==
  ASSUME NEW a \in Int, NEW b \in Int
  PROVE  Max({a, b}) \in {a, b} /\ Max({a, b}) >= a /\ Max({a, b}) >= b
<1>1. \E x \in {a, b} : \A y \in {a, b} : x >= y
  <2>1. CASE a <= b
    BY <2>1
  <2>2. CASE b <= a
    BY <2>2
  <2> QED
    BY <2>1, <2>2
<1> QED
  BY <1>1 DEF Max

(* Up to n of some rows: all of them, or n.                                *)
LEMMA UpToMany ==
  ASSUME NEW rows, IsFiniteSet(rows), NEW n \in Nat, NEW some \in AtMost(n, rows)
  PROVE  /\ some \subseteq rows /\ IsFiniteSet(some) /\ Cardinality(some) \in Nat
         /\ Cardinality(rows) \in Nat
         /\ Cardinality(some) <= n /\ Cardinality(some) <= Cardinality(rows)
         /\ Cardinality(some) = n \/ some = rows
         /\ Cardinality(some) = Min({n, Cardinality(rows)})
<1>1. some \subseteq rows /\ Cardinality(some) = Min({n, Cardinality(rows)})
  BY DEF AtMost, kSubset
<1>2. IsFiniteSet(some) /\ Cardinality(some) \in Nat /\ Cardinality(rows) \in Nat
  BY <1>1, FS_Subset, FS_CardinalityType
<1>3. Cardinality(some) = Cardinality(rows) => some = rows
  BY <1>1, FS_Subset
<1> QED
  BY <1>1, <1>2, <1>3, MinTwo

(* Rounding down: the quotient, and the next one, around a.                *)
LEMMA DivIs ==
  ASSUME NEW a \in Nat, NEW k \in Nat, k > 0
  PROVE  a \div k \in Nat /\ (a \div k) * k <= a /\ a < (a \div k + 1) * k
<1>1. a \div k \in Nat
  OBVIOUS
<1>2. (a \div k) * k <= a
  OBVIOUS
<1>3. a < (a \div k) * k + k
  OBVIOUS
<1>4. (a \div k + 1) * k = (a \div k) * k + k
  BY <1>1
<1> QED
  BY <1>1, <1>2, <1>3, <1>4

(* A quotient that comes out even.                                         *)
LEMMA EvenIs ==
  ASSUME NEW a \in Nat, NEW k \in Nat, k > 0, a % k = 0 PROVE a = (a \div k) * k
  BY Z3

(* At a fraction of N in D, with a records that answer: (N * a) div (D - N)*)
(* refusals are within it, and one more would not be; where the quotient   *)
(* is even and one refusal less stays, one more would meet the fraction.   *)
LEMMA Fraction ==
  ASSUME NEW N \in Nat, NEW D \in Nat, N < D, NEW a \in Nat, NEW r \in Nat,
         NEW m \in Nat, m = (N * a) \div (D - N) \/ (m = (N * a) \div (D - N) - 1 /\ (N * a) % (D - N) = 0),
         r <= m
  PROVE  /\ r * D <= N * (a + r)
         /\ r = m => (r + 1) * D >= N * (a + r + 1)
<1> DEFINE k == D - N
           q == (N * a) \div k
<1>1. k \in Nat /\ k > 0 /\ D = N + k /\ N * a \in Nat
  OBVIOUS
<1>2. q \in Nat /\ q * k <= N * a /\ N * a < (q + 1) * k
  <2> HIDE DEF k
  <2> QED
    BY <1>1, DivIs
<1>3. m <= q /\ (m = q \/ m + 1 = q)
  <2>1. m = q \/ m = q - 1
    OBVIOUS
  <2> HIDE DEF k, q
  <2> QED
    BY <1>2, <2>1
<1>4. m + 1 = q => N * a = (m + 1) * k
  <2>1. ASSUME m + 1 = q PROVE (N * a) % k = 0
    <3>1. m = q \/ (m = q - 1 /\ (N * a) % k = 0)
      OBVIOUS
    <3> HIDE DEF k, q
    <3> QED
      BY <1>2, <2>1, <3>1
  <2>2. (N * a) % k = 0 => N * a = q * k
    <3> HIDE DEF k
    <3> QED
      BY <1>1, EvenIs
  <2> HIDE DEF k, q
  <2> QED
    BY <2>1, <2>2
<1> HIDE DEF k, q
<1>5. r * D = N * r + r * k /\ N * (a + r) = N * a + N * r
  BY <1>1
<1>6. r * k <= q * k
  BY <1>1, <1>2, <1>3
<1>7. N * r \in Nat /\ r * k \in Nat /\ q * k \in Nat
  BY <1>1, <1>2
<1>8. r * D <= N * (a + r)
  BY <1>1, <1>2, <1>5, <1>6, <1>7
<1>9. (r + 1) * D = N * (r + 1) + (r + 1) * k /\ N * (a + r + 1) = N * a + N * (r + 1)
  BY <1>1
<1>10. N * (r + 1) \in Nat /\ (r + 1) * k \in Nat
  BY <1>1
<1>11. ASSUME r = m PROVE (r + 1) * k >= N * a
  <2>1. CASE m = q
    BY <1>1, <1>2, <1>11, <2>1
  <2>2. CASE m + 1 = q
    BY <1>1, <1>4, <1>10, <1>11, <2>2
  <2> QED
    BY <1>3, <2>1, <2>2
<1>12. r = m => (r + 1) * D >= N * (a + r + 1)
  BY <1>1, <1>9, <1>10, <1>11
<1> QED
  BY <1>8, <1>12

(* Files of rows are finite, and two of them together.                     *)
LEMMA RawFinite ==
  /\ \A f \in RawNames : IsFiniteSet(RawFiles[f])
  /\ \A f, g \in RawNames : IsFiniteSet(FromFiles({f, g}))
<1>1. \A f \in RawNames : IsFiniteSet(RawFiles[f])
  BY CompositionAssumption
<1>2. ASSUME NEW f \in RawNames, NEW g \in RawNames PROVE IsFiniteSet(FromFiles({f, g}))
  <2>1. FromFiles({f, g}) = RawFiles[f] \cup RawFiles[g]
    BY DEF FromFiles
  <2> QED
    BY <1>1, <2>1, FS_Union
<1> QED
  BY <1>1, <1>2

(* Categories of at most two chosen items each hold two of them on average.*)
LEMMA TwosAddUp ==
  ASSUME NEW cats, IsFiniteSet(cats), NEW chosen, IsFiniteSet(chosen),
         \A item \in chosen : item.cat \in cats,
         \A cat \in cats : Cardinality({item \in chosen : item.cat = cat}) <= 2
  PROVE  Cardinality(chosen) <= 2 * Cardinality(cats)
<1> DEFINE N == Cardinality(cats)
           G == {n \in 0 .. N : \A C \in SUBSET cats : \A S \in SUBSET chosen :
                   Cardinality(C) = n /\ (\A item \in S : item.cat \in C) => Cardinality(S) <= 2 * n}
<1>0. N \in Nat
  BY FS_CardinalityType
<1>1. 0 \in G
  <2> SUFFICES ASSUME NEW C \in SUBSET cats, NEW S \in SUBSET chosen, Cardinality(C) = 0,
                      \A item \in S : item.cat \in C
               PROVE  Cardinality(S) <= 2 * 0
    BY <1>0
  <2>1. C = {}
    BY FS_Subset, FS_EmptySet
  <2>2. S = {}
    BY <2>1
  <2> QED
    BY <2>2, FS_EmptySet
<1>2. ASSUME NEW n \in 1 .. N, n - 1 \in G PROVE n \in G
  <2> SUFFICES ASSUME NEW C \in SUBSET cats, NEW S \in SUBSET chosen, Cardinality(C) = n,
                      \A item \in S : item.cat \in C
               PROVE  Cardinality(S) <= 2 * n
    OBVIOUS
  <2>1. IsFiniteSet(C) /\ IsFiniteSet(S)
    BY FS_Subset
  <2>2. C # {}
    <3>1. n # 0
      BY <1>0
    <3> QED
      BY <2>1, <3>1, FS_EmptySet
  <2>3. PICK c \in C : TRUE
    BY <2>2
  <2> DEFINE rest == {item \in S : item.cat # c}
             its == {item \in S : item.cat = c}
             all == {item \in chosen : item.cat = c}
  <2>4. Cardinality(C \ {c}) = n - 1 /\ C \ {c} \in SUBSET cats
    BY <2>1, <2>3, FS_RemoveElement
  <2>5. Cardinality(rest) <= 2 * (n - 1)
    <3>1. rest \in SUBSET chosen /\ \A item \in rest : item.cat \in C \ {c}
      OBVIOUS
    <3> HIDE DEF rest
    <3> QED
      BY <1>2, <2>4, <3>1
  <2>6. Cardinality(its) <= 2
    <3>1. its \subseteq all /\ all \subseteq chosen
      OBVIOUS
    <3>2. Cardinality(all) <= 2
      BY <2>3
    <3> HIDE DEF its, all
    <3>3. IsFiniteSet(all) /\ Cardinality(its) <= Cardinality(all) /\ IsFiniteSet(its)
      BY <3>1, FS_Subset
    <3>4. Cardinality(all) \in Nat /\ Cardinality(its) \in Nat
      BY <3>3, FS_CardinalityType
    <3> QED
      BY <3>2, <3>3, <3>4
  <2>7. S = rest \cup its /\ rest \subseteq S /\ its \subseteq S /\ rest \cap its = {}
    OBVIOUS
  <2> HIDE DEF rest, its, all
  <2>8. IsFiniteSet(rest) /\ IsFiniteSet(its)
    BY <2>1, <2>7, FS_Subset
  <2>9. Cardinality(rest) \in Nat /\ Cardinality(its) \in Nat /\ Cardinality(rest \cap its) = 0
    BY <2>7, <2>8, FS_CardinalityType, FS_EmptySet
  <2>10. Cardinality(S) = Cardinality(rest) + Cardinality(its) - Cardinality(rest \cap its)
    BY <2>7, <2>8, FS_Union
  <2> QED
    BY <1>0, <2>5, <2>6, <2>9, <2>10
<1>3. 0 .. N \subseteq G
  <2> HIDE DEF G, N
  <2> QED
    BY <1>0, <1>1, <1>2, UpTo
<1>4. N \in G
  BY <1>0, <1>3
<1>5. cats \in SUBSET cats /\ chosen \in SUBSET chosen
  OBVIOUS
<1> QED
  BY <1>4, <1>5

(* The first state, and the steps of format_sft_v4.py one by one.          *)
LEMMA CompBegins == CompositionInit => CompInv
<1> SUFFICES ASSUME CompositionInit PROVE CompInv
  OBVIOUS
<1> USE DEF CompositionInit
<1>1. \A slice \in SliceNames : slices[slice] = {}
  OBVIOUS
<1>2. V4OK
  BY <1>1 DEF V4OK, SliceNames
<1>3. MixOK /\ GuardOK
  BY DEF MixOK, GuardOK
<1>4. /\ RefusalShareHolds /\ FallbackIsNew /\ TargetsHold /\ EverySliceIsSplit /\ MixKeepsHeldOut
  BY DEF RefusalShareHolds, FallbackIsNew, TargetsHold, EverySliceIsSplit, MixKeepsHeldOut
<1>5. ReplayHasNoTwins
  BY <1>1 DEF ReplayHasNoTwins, SliceNames
<1> QED
  BY <1>1, <1>2, <1>3, <1>4, <1>5 DEF CompInv

(* A step of the v4 script leaves what the other two make alone.           *)
LEMMA V4Leaves ==
  ASSUME CompInv, making = "v4", making' = making, UNCHANGED picked
  PROVE  /\ making' \in {"v4", "mix", "guard"}
         /\ (making # "v4" => \A slice \in SliceNames : slices[slice] = {})'
         /\ MixOK' /\ GuardOK' /\ MixKeepsHeldOut'
  BY DEF CompInv, MixOK, GuardOK, MixKeepsHeldOut

LEMMA BailKeeps == ASSUME CompInv, Bail PROVE CompInv'
<1> USE DEF Bail
<1>1. V4OK'
  BY DEF CompInv, V4OK
<1>2. RefusalShareHolds' /\ FallbackIsNew' /\ TargetsHold' /\ EverySliceIsSplit'
  BY DEF RefusalShareHolds, FallbackIsNew, TargetsHold, EverySliceIsSplit
<1>3. ReplayHasNoTwins'
  BY DEF CompInv, ReplayHasNoTwins
<1> QED
  BY <1>1, <1>2, <1>3, V4Leaves DEF CompInv

LEMMA LoadKeeps == ASSUME CompInv, LoadSlices PROVE CompInv'
<1> USE DEF LoadSlices
<1>1. PICK replay \in AtMost(ReplaySize, ReplayPool({"tulu1", "tulu2"})) :
          slices' = [grounded |-> Before,
                     terse |-> IF "terse" \in options.missing THEN {}
                               ELSE Formatted(FilterTerse(RawFiles["terse"])),
                     english |-> Formatted(replay)]
  BY DEF Before
<1>2. replay \subseteq ReplayPool({"tulu1", "tulu2"})
  BY DEF AtMost, kSubset
<1>3. /\ slices' = [slice \in SliceNames |-> slices'[slice]]
      /\ slices'["grounded"] = Before /\ slices'["english"] = Formatted(replay)
      /\ slices'["terse"] \subseteq RawFiles["terse"]
  BY <1>1 DEF SliceNames, Formatted, FilterTerse
<1>4. slices'["english"] \subseteq ReplayPool({"tulu1", "tulu2"})
  BY <1>2, <1>3 DEF Formatted
<1>5. V4OK'
  <2>1. Before \subseteq FromFiles({"grounded", "fallback"})
    BY DEF Before, Formatted, FromFiles
  <2>2. slices'["english"] \subseteq FromFiles({"tulu1", "tulu2"})
    BY <1>4 DEF ReplayPool, FromFiles
  <2>3. Before' = Before
    BY DEF Before
  <2> QED
    BY <1>3, <2>1, <2>2, <2>3 DEF CompInv, V4OK
<1>6. RefusalShareHolds' /\ FallbackIsNew' /\ TargetsHold' /\ EverySliceIsSplit'
  BY DEF RefusalShareHolds, FallbackIsNew, TargetsHold, EverySliceIsSplit
<1>7. ReplayHasNoTwins'
  <2> SUFFICES ASSUME NEW a \in slices'["english"], NEW b \in slices'["english"], a.q = b.q PROVE a = b
    BY DEF ReplayHasNoTwins
  <2>1. PICK f \in {"tulu1", "tulu2"} : a \in RawFiles[f]
    BY <1>4 DEF ReplayPool
  <2>2. PICK g \in {"tulu1", "tulu2"} : b \in RawFiles[g]
    BY <1>4 DEF ReplayPool
  <2>3. a.id <= b.id /\ b.id <= a.id
    BY <1>4 DEF ReplayPool
  <2>4. f \in RawNames /\ g \in RawNames
    BY DEF RawNames
  <2>5. a.id \in Nat /\ b.id \in Nat
    BY <2>1, <2>2, <2>4, CompositionAssumption
  <2>6. a.id = b.id
    BY <2>3, <2>5
  <2> QED
    BY <2>1, <2>2, <2>4, <2>6, CompositionAssumption
<1> QED
  BY <1>5, <1>6, <1>7, V4Leaves DEF CompInv

(* Capping the refusals: as many as the fraction allows of what answers.   *)
LEMMA CapKeeps == ASSUME CompInv, CapRefusalFraction PROVE CompInv'
<1> DEFINE rows == slices["grounded"]
           refusing == Refusing(rows)
           answering == rows \ refusing
<1>0. /\ making = "v4" /\ at = "loaded" /\ at' = "capped"
      /\ UNCHANGED <<making, options, trained, validated, picked, catsLeft>>
      /\ slices' = [slices EXCEPT !["grounded"] = capped']
      /\ options \in Options /\ rows = Before /\ slices = [slice \in SliceNames |-> slices[slice]]
  BY DEF CapRefusalFraction, CompInv, V4OK
<1>1. rows \subseteq RawFiles["grounded"] /\ IsFiniteSet(rows)
  <2>1. rows \subseteq RawFiles["grounded"]
    BY <1>0 DEF Before, Formatted
  <2> QED
    BY <2>1, RawFinite, FS_Subset DEF RawNames
<1>2. refusing \subseteq rows /\ IsFiniteSet(refusing) /\ IsFiniteSet(answering)
  BY <1>1, FS_Subset DEF Refusing
<1>3. options.capRefusals =>
        \E m \in MaxRefused(rows) : \E kept \in AtMost(m, refusing) : capped' = answering \cup kept
  BY DEF CapRefusalFraction
<1>4. ~options.capRefusals => capped' = rows
  BY DEF CapRefusalFraction
<1>5. MaxRefused(rows) \subseteq Nat
  BY DEF MaxRefused
<1>6. ASSUME NEW m \in MaxRefused(rows), NEW kept \in AtMost(m, refusing), capped' = answering \cup kept
      PROVE  /\ capped' \subseteq rows /\ answering \subseteq capped'
             /\ Cardinality(Refusing(capped')) * RefusalCap[2] <= RefusalCap[1] * Cardinality(capped')
             /\ capped' # rows => (Cardinality(Refusing(capped')) + 1) * RefusalCap[2]
                                  >= RefusalCap[1] * (Cardinality(capped') + 1)
  <2> DEFINE a == Cardinality(answering)
             r == Cardinality(kept)
  <2>1. /\ kept \subseteq refusing /\ IsFiniteSet(kept) /\ r \in Nat /\ r <= m
        /\ r = m \/ kept = refusing
    BY <1>2, <1>5, UpToMany
  <2>2. Refusing(capped') = kept
    BY <1>6, <2>1 DEF Refusing
  <2>3. a \in Nat /\ answering \cap kept = {}
    BY <1>2, <2>1, FS_CardinalityType
  <2>4. Cardinality(capped') = a + r
    <3>1. Cardinality(answering \cap kept) = 0
      BY <2>3, FS_EmptySet
    <3>2. Cardinality(answering \cup kept) = a + r - Cardinality(answering \cap kept)
      BY <1>2, <2>1, FS_Union
    <3> QED
      BY <1>6, <2>1, <2>3, <3>1, <3>2
  <2>5. \/ m = (RefusalCap[1] * a) \div (RefusalCap[2] - RefusalCap[1])
        \/ /\ m = (RefusalCap[1] * a) \div (RefusalCap[2] - RefusalCap[1]) - 1
           /\ (RefusalCap[1] * a) % (RefusalCap[2] - RefusalCap[1]) = 0
    BY DEF MaxRefused
  <2>6. capped' # rows => r = m
    BY <1>2, <1>6, <2>1
  <2>7. RefusalCap[1] \in Nat /\ RefusalCap[2] \in Nat /\ RefusalCap[1] < RefusalCap[2]
    BY CompositionAssumption
  <2> HIDE DEF a, r
  <2>8. /\ r * RefusalCap[2] <= RefusalCap[1] * (a + r)
        /\ r = m => (r + 1) * RefusalCap[2] >= RefusalCap[1] * (a + r + 1)
    BY <1>5, <2>1, <2>3, <2>5, <2>7, Fraction
  <2>9. Cardinality(Refusing(capped')) = r
    BY <2>2 DEF r
  <2>10. capped' \subseteq rows /\ answering \subseteq capped'
    BY <1>2, <1>6, <2>1
  <2> QED
    BY <2>4, <2>6, <2>8, <2>9, <2>10
<1>7. capped' \subseteq rows
  BY <1>3, <1>4, <1>6
<1>8. /\ slices'["grounded"] = capped' /\ slices'["terse"] = slices["terse"]
      /\ slices'["english"] = slices["english"] /\ slices' = [slice \in SliceNames |-> slices'[slice]]
  BY <1>0 DEF SliceNames
<1>9. V4OK'
  <2>1. slices["grounded"] \subseteq FromFiles({"grounded", "fallback"})
    BY <1>0 DEF CompInv, V4OK
  <2>2. capped' \subseteq RawFiles["grounded"] /\ slices'["grounded"] \subseteq FromFiles({"grounded", "fallback"})
    BY <1>1, <1>7, <1>8, <2>1
  <2> QED
    BY <1>0, <1>8, <2>2 DEF CompInv, V4OK
<1>10. RefusalShareHolds'
  <2>1. Before' = rows
    BY <1>0 DEF Before
  <2>2. options.capRefusals =>
          /\ answering \subseteq capped'
          /\ Cardinality(Refusing(capped')) * RefusalCap[2] <= RefusalCap[1] * Cardinality(capped')
          /\ capped' # rows => (Cardinality(Refusing(capped')) + 1) * RefusalCap[2]
                                  >= RefusalCap[1] * (Cardinality(capped') + 1)
    BY <1>3, <1>6
  <2> HIDE DEF rows
  <2> QED
    BY <1>0, <2>1, <2>2 DEF RefusalShareHolds, Before, Refusing
<1>11. FallbackIsNew' /\ TargetsHold' /\ EverySliceIsSplit'
  BY <1>0 DEF FallbackIsNew, TargetsHold, EverySliceIsSplit
<1>12. ReplayHasNoTwins'
  BY <1>8 DEF CompInv, ReplayHasNoTwins
<1> QED
  BY <1>0, <1>9, <1>10, <1>11, <1>12, V4Leaves DEF CompInv

(* Filling up from the fallback file stays within the target, and takes    *)
(* only rows whose prompt the slice does not have.                         *)
LEMMA FallbackKeeps == ASSUME CompInv, FillSliceFromFallback PROVE CompInv'
<1> DEFINE rows == slices["grounded"]
           pool == {row \in Formatted(RawFiles["fallback"]) : NotYetIn(row, rows)}
           target == SliceTargets["grounded"]
<1>0. /\ making = "v4" /\ at = "capped" /\ at' = "filled"
      /\ UNCHANGED <<making, options, capped, trained, validated, picked, catsLeft>>
      /\ rows = capped /\ slices = [slice \in SliceNames |-> slices[slice]]
      /\ target \in Nat /\ capped \subseteq RawFiles["grounded"]
  BY CompositionAssumption DEF FillSliceFromFallback, CompInv, V4OK, SliceNames
<1>1. /\ IsFiniteSet(rows) /\ Cardinality(rows) \in Nat /\ IsFiniteSet(pool)
      /\ pool \subseteq RawFiles["fallback"] /\ \A row \in pool : NotYetIn(row, rows)
  <2>1. pool \subseteq RawFiles["fallback"] /\ \A row \in pool : NotYetIn(row, rows)
    BY DEF Formatted
  <2> HIDE DEF pool
  <2>2. IsFiniteSet(RawFiles["grounded"]) /\ IsFiniteSet(RawFiles["fallback"])
    BY RawFinite DEF RawNames
  <2> QED
    BY <1>0, <2>1, <2>2, FS_Subset, FS_CardinalityType
<1>2. \/ UNCHANGED slices
      \/ /\ Cardinality(rows) < target
         /\ \E more \in AtMost(target - Cardinality(rows), pool) :
              slices' = [slices EXCEPT !["grounded"] = rows \cup more]
  BY DEF FillSliceFromFallback
<1> HIDE DEF pool
<1>3. \E more : /\ more \subseteq pool
                /\ slices' = [slices EXCEPT !["grounded"] = rows \cup more]
                /\ Cardinality(rows \cup more) <= Max({target, Cardinality(rows)})
  <2>1. Max({target, Cardinality(rows)}) >= target /\ Max({target, Cardinality(rows)}) >= Cardinality(rows)
        /\ Max({target, Cardinality(rows)}) \in Nat
    BY <1>0, <1>1, MaxTwo
  <2>2. CASE UNCHANGED slices
    <3>1. rows \cup {} = rows /\ slices' = [slices EXCEPT !["grounded"] = rows \cup {}]
      BY <1>0, <2>2
    <3> QED
      BY <2>1, <3>1
  <2>3. ASSUME Cardinality(rows) < target, NEW more \in AtMost(target - Cardinality(rows), pool),
               slices' = [slices EXCEPT !["grounded"] = rows \cup more]
        PROVE  more \subseteq pool /\ Cardinality(rows \cup more) <= target
               /\ Cardinality(rows \cup more) \in Nat
    <3>1. target - Cardinality(rows) \in Nat
      BY <1>0, <1>1, <2>3
    <3>2. /\ more \subseteq pool /\ IsFiniteSet(more) /\ Cardinality(more) \in Nat
          /\ Cardinality(more) <= target - Cardinality(rows)
      BY <1>1, <2>3, <3>1, UpToMany, ZenonT(60)
    <3>3. /\ IsFiniteSet(rows \cup more) /\ IsFiniteSet(rows \cap more)
          /\ Cardinality(rows \cup more) = Cardinality(rows) + Cardinality(more) - Cardinality(rows \cap more)
      BY <1>1, <3>2, FS_Union, FS_Intersection
    <3>4. Cardinality(rows \cap more) \in Nat /\ Cardinality(rows \cup more) \in Nat
      BY <3>3, FS_CardinalityType
    <3> QED
      BY <1>0, <1>1, <3>2, <3>3, <3>4
  <2>4. ASSUME Cardinality(rows) < target, NEW more \in AtMost(target - Cardinality(rows), pool),
               slices' = [slices EXCEPT !["grounded"] = rows \cup more]
        PROVE  Cardinality(rows \cup more) <= Max({target, Cardinality(rows)})
    BY <1>0, <2>1, <2>3, <2>4
  <2> QED
    BY <1>2, <2>2, <2>3, <2>4
<1>4. PICK more : /\ more \subseteq pool
                  /\ slices' = [slices EXCEPT !["grounded"] = rows \cup more]
                  /\ Cardinality(rows \cup more) <= Max({target, Cardinality(rows)})
  BY <1>3
<1>5. /\ slices'["grounded"] = rows \cup more /\ slices'["terse"] = slices["terse"]
      /\ slices'["english"] = slices["english"] /\ slices' = [slice \in SliceNames |-> slices'[slice]]
  BY <1>0, <1>4 DEF SliceNames
<1>6. V4OK'
  <2>1. slices["grounded"] \subseteq FromFiles({"grounded", "fallback"})
    BY <1>0 DEF CompInv, V4OK
  <2>2. slices'["grounded"] \subseteq FromFiles({"grounded", "fallback"})
    BY <1>1, <1>4, <1>5, <2>1 DEF FromFiles
  <2>3. Cardinality(slices'["grounded"]) <= Max({SliceTargets["grounded"], Cardinality(capped')})
    BY <1>0, <1>4, <1>5
  <2> QED
    BY <1>0, <1>5, <2>2, <2>3 DEF CompInv, V4OK
<1>7. FallbackIsNew'
  <2>1. \A row \in slices'["grounded"] \ capped : NotYetIn(row, capped)
    BY <1>0, <1>1, <1>4, <1>5
  <2> QED
    BY <1>0, <2>1 DEF FallbackIsNew, NotYetIn
<1>8. RefusalShareHolds' /\ TargetsHold' /\ EverySliceIsSplit'
  BY <1>0 DEF RefusalShareHolds, TargetsHold, EverySliceIsSplit
<1>9. ReplayHasNoTwins'
  BY <1>5 DEF CompInv, ReplayHasNoTwins
<1> QED
  BY <1>0, <1>6, <1>7, <1>8, <1>9, V4Leaves DEF CompInv

(* A slice cut to its target is a part of it and within the target.        *)
LEMMA CutIs ==
  ASSUME CompInv, making = "v4", NEW slice \in SliceNames, NEW some \in CutTo(slice)
  PROVE  /\ some \subseteq slices[slice] /\ IsFiniteSet(slices[slice])
         /\ options.toTargets /\ SliceTargets[slice] > 0 => Cardinality(some) <= SliceTargets[slice]
<1>1. IsFiniteSet(slices[slice])
  <2>1. slices[slice] \subseteq FromFiles({"grounded", "fallback"})
        \/ slices[slice] \subseteq RawFiles["terse"] \/ slices[slice] \subseteq FromFiles({"tulu1", "tulu2"})
    BY DEF CompInv, V4OK, SliceNames
  <2>2. /\ IsFiniteSet(FromFiles({"grounded", "fallback"})) /\ IsFiniteSet(RawFiles["terse"])
        /\ IsFiniteSet(FromFiles({"tulu1", "tulu2"}))
    BY RawFinite DEF RawNames
  <2> QED
    BY <2>1, <2>2, FS_Subset
<1>2. CASE options.toTargets /\ SliceTargets[slice] > 0
  <2>1. some \in AtMost(SliceTargets[slice], slices[slice]) /\ SliceTargets[slice] \in Nat
    BY <1>2, CompositionAssumption DEF CutTo
  <2> QED
    BY <1>1, <2>1, UpToMany
<1>3. CASE ~(options.toTargets /\ SliceTargets[slice] > 0)
  BY <1>1, <1>3 DEF CutTo
<1> QED
  BY <1>2, <1>3

LEMMA CutKeeps == ASSUME CompInv, CapToTargets PROVE CompInv'
<1>0. /\ making = "v4" /\ at = "filled" /\ at' = "cut"
      /\ UNCHANGED <<making, options, capped, trained, validated, picked, catsLeft>>
      /\ SliceNames = {"grounded", "terse", "english"}
  BY DEF CapToTargets, SliceNames
<1>1. PICK grounded \in CutTo("grounded"), terse \in CutTo("terse"), english \in CutTo("english") :
          slices' = [grounded |-> grounded, terse |-> terse, english |-> english]
  BY DEF CapToTargets
<1>2. /\ slices'["grounded"] = grounded /\ slices'["terse"] = terse /\ slices'["english"] = english
      /\ slices' = [slice \in SliceNames |-> slices'[slice]]
  BY <1>0, <1>1
<1>3. \A slice \in SliceNames :
        /\ slices'[slice] \subseteq slices[slice] /\ IsFiniteSet(slices[slice])
        /\ options.toTargets /\ SliceTargets[slice] > 0 => Cardinality(slices'[slice]) <= SliceTargets[slice]
  <2>1. /\ grounded \subseteq slices["grounded"] /\ IsFiniteSet(slices["grounded"])
        /\ options.toTargets /\ SliceTargets["grounded"] > 0 => Cardinality(grounded) <= SliceTargets["grounded"]
    BY <1>0, CutIs
  <2>2. /\ terse \subseteq slices["terse"] /\ IsFiniteSet(slices["terse"])
        /\ options.toTargets /\ SliceTargets["terse"] > 0 => Cardinality(terse) <= SliceTargets["terse"]
    BY <1>0, CutIs
  <2>3. /\ english \subseteq slices["english"] /\ IsFiniteSet(slices["english"])
        /\ options.toTargets /\ SliceTargets["english"] > 0 => Cardinality(english) <= SliceTargets["english"]
    BY <1>0, CutIs
  <2> QED
    BY <1>0, <1>2, <2>1, <2>2, <2>3
<1>4. V4OK'
  BY <1>0, <1>2, <1>3 DEF CompInv, V4OK
<1>5. FallbackIsNew'
  BY <1>0, <1>3 DEF CompInv, FallbackIsNew
<1>6. TargetsHold'
  <2> DEFINE all == slices["grounded"]
             now == slices'["grounded"]
             most == Max({SliceTargets["grounded"], Cardinality(capped)})
  <2>1. IsFiniteSet(all) /\ now \subseteq all /\ IsFiniteSet(now) /\ Cardinality(now) <= Cardinality(all)
    BY <1>0, <1>3, FS_Subset
  <2>2. Cardinality(all) <= most
    BY <1>0 DEF CompInv, V4OK
  <2>3. Cardinality(all) \in Nat /\ Cardinality(now) \in Nat
    BY <2>1, FS_CardinalityType
  <2>4. most \in Int
    <3>1. IsFiniteSet(capped)
      BY <1>0, RawFinite, FS_Subset DEF CompInv, V4OK, RawNames
    <3>2. Cardinality(capped) \in Nat
      BY <3>1, FS_CardinalityType
    <3>3. "grounded" \in SliceNames
      BY <1>0
    <3>4. SliceTargets["grounded"] \in Nat
      BY <3>3, CompositionAssumption
    <3> QED
      <4> DEFINE a == SliceTargets["grounded"]
                 b == Cardinality(capped)
      <4>1. a \in Int /\ b \in Int
        BY <3>2, <3>4
      <4>2. most = Max({a, b})
        OBVIOUS
      <4> HIDE DEF a, b, most
      <4>3. Max({a, b}) \in {a, b}
        BY <4>1, MaxTwo
      <4> QED
        BY <4>1, <4>2, <4>3
  <2>5. Cardinality(now) <= most
    <3> HIDE DEF all, now, most
    <3> QED
      BY <2>1, <2>2, <2>3, <2>4
  <2>6. most' = most
    BY <1>0
  <2> QED
    BY <1>0, <1>3, <2>5, <2>6 DEF TargetsHold
<1>7. RefusalShareHolds' /\ EverySliceIsSplit'
  BY <1>0 DEF RefusalShareHolds, EverySliceIsSplit
<1>8. ReplayHasNoTwins'
  BY <1>0, <1>3 DEF CompInv, ReplayHasNoTwins
<1> QED
  BY <1>0, <1>4, <1>5, <1>6, <1>7, <1>8, V4Leaves DEF CompInv

(* What a slice holds out: some of a slice that has rows, never all of     *)
(* two.                                                                    *)
LEMMA HeldIs ==
  ASSUME CompInv, making = "v4", NEW slice \in SliceNames, NEW held \in HeldOf(slice)
  PROVE  /\ held \subseteq slices[slice]
         /\ slices[slice] # {} => held # {}
         /\ Cardinality(slices[slice]) > 1 => held # slices[slice]
<1> DEFINE all == slices[slice]
           n == Cardinality(all)
           k == SliceShare(n)
<1>1. IsFiniteSet(all)
  <2>1. all \subseteq FromFiles({"grounded", "fallback"})
        \/ all \subseteq RawFiles["terse"] \/ all \subseteq FromFiles({"tulu1", "tulu2"})
    BY DEF CompInv, V4OK, SliceNames
  <2>2. /\ IsFiniteSet(FromFiles({"grounded", "fallback"})) /\ IsFiniteSet(RawFiles["terse"])
        /\ IsFiniteSet(FromFiles({"tulu1", "tulu2"}))
    BY RawFinite DEF RawNames
  <2> HIDE DEF all
  <2> QED
    BY <2>1, <2>2, FS_Subset
<1>2. held \subseteq all /\ Cardinality(held) = k
  BY DEF HeldOf, kSubset
<1>3. n \in Nat /\ (n = 0 <=> all = {})
  BY <1>1, FS_CardinalityType, FS_EmptySet
<1> HIDE DEF n
<1>4. n # 0 => k >= 1 /\ (n > 1 => k < n)
  <2> SUFFICES ASSUME n # 0 PROVE k >= 1 /\ (n > 1 => k < n)
    OBVIOUS
  <2> DEFINE h == SliceHeldOutOf
             q == n \div h
  <2>1. h \in Nat /\ h >= 2
    BY CompositionAssumption
  <2> HIDE DEF h
  <2>2. q \in Nat /\ q * h <= n
    BY <1>3, <2>1, DivIs
  <2>3. q * 2 <= q * h
    BY <2>1, <2>2
  <2>4. q * h \in Nat
    BY <2>1, <2>2
  <2> HIDE DEF q
  <2>5. q < n
    BY <1>3, <2>2, <2>3, <2>4
  <2>6. k = Max({1, q})
    BY DEF SliceShare, q, h
  <2>7. Max({1, q}) \in {1, q} /\ Max({1, q}) >= 1
    BY <2>2, MaxTwo
  <2> QED
    BY <1>3, <2>2, <2>5, <2>6, <2>7
<1>5. all # {} => held # {}
  BY <1>2, <1>3, <1>4, FS_EmptySet
<1>6. n > 1 => held # all
  BY <1>2, <1>3, <1>4 DEF n
<1> QED
  BY <1>2, <1>5, <1>6 DEF n

(* The split of every slice: what trains and what validates.               *)
LEMMA SplitKeeps == ASSUME CompInv, StratifiedSplit PROVE CompInv'
<1>0. /\ making = "v4" /\ at = "cut"
      /\ UNCHANGED <<making, options, slices, capped, picked, catsLeft>>
      /\ SliceNames = {"grounded", "terse", "english"}
  BY DEF StratifiedSplit, SliceNames
<1>1. \/ at' = "bailed" /\ UNCHANGED <<trained, validated>>
      \/ /\ at' = "done"
         /\ \E grounded \in HeldOf("grounded"), terse \in HeldOf("terse"), english \in HeldOf("english") :
                  /\ validated' = grounded \cup terse \cup english
                  /\ trained' = (UNION {slices[slice] : slice \in SliceNames}) \ validated'
  BY DEF StratifiedSplit
<1>2. V4OK'
  BY <1>0, <1>1 DEF CompInv, V4OK, Before
<1>3. RefusalShareHolds' /\ FallbackIsNew' /\ TargetsHold'
  BY <1>0, <1>1 DEF CompInv, RefusalShareHolds, FallbackIsNew, TargetsHold
<1>4. ReplayHasNoTwins'
  BY <1>0 DEF CompInv, ReplayHasNoTwins
<1>5. EverySliceIsSplit'
  <2>1. CASE at' = "bailed"
    BY <2>1 DEF EverySliceIsSplit
  <2>2. ASSUME NEW grounded \in HeldOf("grounded"), NEW terse \in HeldOf("terse"), NEW english \in HeldOf("english"),
               validated' = grounded \cup terse \cup english,
               trained' = (UNION {slices[slice] : slice \in SliceNames}) \ validated'
        PROVE  EverySliceIsSplit'
    <3> DEFINE all == UNION {slices[slice] : slice \in SliceNames}
               held == [slice \in SliceNames |-> IF slice = "grounded" THEN grounded
                                                 ELSE IF slice = "terse" THEN terse ELSE english]
    <3>1. /\ held["grounded"] = grounded /\ held["terse"] = terse /\ held["english"] = english
      BY <1>0
    <3>2. \A slice \in SliceNames : held[slice] \in HeldOf(slice)
      BY <1>0, <2>2, <3>1
    <3>3. \A slice \in SliceNames :
            /\ held[slice] \subseteq slices[slice]
            /\ slices[slice] # {} => held[slice] # {}
            /\ Cardinality(slices[slice]) > 1 => held[slice] # slices[slice]
      <4> HIDE DEF held
      <4> QED
        BY <1>0, <3>2, HeldIs
    <3>4. validated' = UNION {held[slice] : slice \in SliceNames}
      BY <1>0, <2>2, <3>1
    <3> HIDE DEF held
    <3>5. validated' \subseteq all
      BY <3>3, <3>4
    <3>6. trained' \cup validated' = all /\ trained' \cap validated' = {}
      BY <2>2, <3>5
    <3>7. ASSUME NEW one \in SliceNames, NEW two \in SliceNames, one # two
          PROVE  slices[one] \cap slices[two] = {}
      <4> DEFINE from(slice) == IF slice = "grounded" THEN {"grounded", "fallback"}
                                ELSE IF slice = "terse" THEN {"terse"} ELSE {"tulu1", "tulu2"}
      <4>1. \A slice \in SliceNames : slices[slice] \subseteq FromFiles(from(slice)) /\ from(slice) \subseteq RawNames
        BY <1>0 DEF CompInv, V4OK, RawNames, FromFiles
      <4>2. from(one) \cap from(two) = {}
        BY <1>0, <3>7
      <4> HIDE DEF from
      <4> SUFFICES ASSUME NEW row \in slices[one], row \in slices[two] PROVE FALSE
        OBVIOUS
      <4>3. PICK f \in from(one) : row \in RawFiles[f]
        BY <4>1 DEF FromFiles
      <4>4. PICK g \in from(two) : row \in RawFiles[g]
        BY <4>1 DEF FromFiles
      <4>5. f = g
        BY <4>1, <4>3, <4>4, CompositionAssumption
      <4> QED
        BY <4>2, <4>5
    <3>8. ASSUME NEW slice \in SliceNames
          PROVE  /\ slices[slice] # {} => slices[slice] \cap validated' # {}
                 /\ Cardinality(slices[slice]) > 1 => slices[slice] \cap trained' # {}
      <4>1. slices[slice] # {} => slices[slice] \cap validated' # {}
        BY <3>3, <3>4
      <4>2. ASSUME Cardinality(slices[slice]) > 1 PROVE slices[slice] \cap trained' # {}
        <5>1. PICK row \in slices[slice] : row \notin held[slice]
          BY <3>3, <4>2
        <5>2. \A other \in SliceNames : row \notin held[other]
          BY <3>3, <3>7, <5>1
        <5>3. row \notin validated' /\ row \in all
          BY <3>4, <5>2
        <5> QED
          BY <2>2, <5>1, <5>3
      <4> QED
        BY <4>1, <4>2
    <3>9. all' = all
      BY <1>0
    <3> HIDE DEF all
    <3> QED
      BY <1>0, <3>6, <3>8, <3>9 DEF EverySliceIsSplit, all
  <2> QED
    BY <1>1, <2>1, <2>2
<1> QED
  BY <1>0, <1>2, <1>3, <1>4, <1>5, V4Leaves DEF CompInv

(* The mix: no record it trains on is held out but what is replayed, and   *)
(* only RAG rows are repeated.                                             *)
LEMMA MixKeeps == ASSUME CompInv, Mix PROVE CompInv'
<1>0. /\ making = "mix" /\ at = "start" /\ at' = "done"
      /\ UNCHANGED <<making, options, slices, capped, picked, catsLeft>>
  BY DEF Mix
<1>1. PICK rag \in RagHeldOut, dialogue \in DialogueHeldOut,
           replay \in AtMost(ReplayCount, ReplayUsable), again \in AtMost(ReplayCount, ReplayUsable) :
          /\ trained' = MixTrain(rag, dialogue, replay)
          /\ validated' = Labelled(rag, "rag", 1) \cup Labelled(dialogue, "dialogue", 1)
                          \cup Labelled(again, "replay", 1)
  BY DEF Mix
<1>2. /\ rag \subseteq RagFormatted /\ dialogue \subseteq DialogueFormatted
      /\ replay \subseteq ReplayRows /\ again \subseteq ReplayRows
  <2>1. rag \subseteq RagFormatted
    <3>1. \A source, k : \A a \in kSubset(k, OfSource(RagFormatted, source)) : a \subseteq RagFormatted
      BY DEF kSubset, OfSource
    <3>2. \E a, b : rag = a \cup b /\ a \subseteq RagFormatted /\ b \subseteq RagFormatted
      BY <3>1 DEF RagHeldOut
    <3> QED
      BY <3>2
  <2>2. dialogue \subseteq DialogueFormatted
    BY DEF DialogueHeldOut, kSubset
  <2>3. replay \subseteq ReplayRows /\ again \subseteq ReplayRows
    BY DEF AtMost, kSubset, ReplayUsable
  <2> QED
    BY <2>1, <2>2, <2>3
<1>3. \A row \in RagFormatted :
        /\ row.source \in {"v5_rag_answer", "v5_rag_contract_json"}
        /\ row = [source |-> row.source, q |-> row.q, id |-> row.id]
  BY DEF RagFormatted
<1>4. \A row \in DialogueFormatted :
        /\ row.source \in {"v5_dialogue_contract_json", "v5_dialogue_response"}
        /\ row = [source |-> row.source, q |-> row.q, id |-> row.id]
  BY DEF DialogueFormatted
<1>5. \A row \in ReplayRows : row.source = "replay"
  BY CompositionAssumption
<1>6. \A t \in trained' :
        \/ t.label = "rag" /\ t.row \in RagFormatted \ rag
        \/ t.label = "dialogue" /\ t.row \in DialogueFormatted \ dialogue /\ t.copy = 1
        \/ t.label = "replay" /\ t.row \in ReplayRows /\ t.copy = 1
  BY <1>1, <1>2 DEF MixTrain, Labelled
<1>7. \A v \in validated' :
        \/ v.label = "rag" /\ v.row \in rag
        \/ v.label = "dialogue" /\ v.row \in dialogue
        \/ v.label = "replay" /\ v.row \in ReplayRows
  BY <1>1, <1>2 DEF Labelled
<1>8. MixKeepsHeldOut'
  <2>1. ASSUME NEW t \in trained', NEW v \in validated', SaysTheSame(t.row, v.row)
        PROVE  \/ t.label = "replay" /\ v.label = "replay"
               \/ t.label = v.label /\ t.row.id # v.row.id
    <3>1. t.row.source = v.row.source /\ t.row.q = v.row.q
      BY <2>1 DEF SaysTheSame
    <3>2. t.label = v.label
      BY <1>2, <1>3, <1>4, <1>5, <1>6, <1>7, <3>1
    <3>3. CASE t.label = "rag"
      BY <1>2, <1>3, <1>6, <1>7, <3>1, <3>2, <3>3
    <3>4. CASE t.label = "dialogue"
      BY <1>2, <1>4, <1>6, <1>7, <3>1, <3>2, <3>4
    <3> QED
      BY <1>6, <3>2, <3>3, <3>4
  <2>2. ASSUME NEW t \in trained', t.copy > 1 PROVE t.label = "rag"
    BY <1>6, <2>2
  <2> QED
    BY <2>1, <2>2 DEF MixKeepsHeldOut
<1>9. V4OK' /\ MixOK' /\ GuardOK'
  BY <1>0 DEF CompInv, V4OK, MixOK, GuardOK
<1>10. /\ RefusalShareHolds' /\ FallbackIsNew' /\ TargetsHold' /\ EverySliceIsSplit'
  BY <1>0 DEF RefusalShareHolds, FallbackIsNew, TargetsHold, EverySliceIsSplit
<1>11. ReplayHasNoTwins'
  BY <1>0 DEF CompInv, ReplayHasNoTwins
<1> QED
  BY <1>0, <1>8, <1>9, <1>10, <1>11 DEF CompInv

(* A step of the guard touches nothing of the other two.                   *)
LEMMA GuardLeaves ==
  ASSUME CompInv, making = "guard", UNCHANGED <<making, options, slices, capped, trained, validated>>,
         GuardOK'
  PROVE  CompInv'
<1>1. V4OK' /\ MixOK'
  BY DEF V4OK, MixOK
<1>2. RefusalShareHolds' /\ FallbackIsNew' /\ TargetsHold' /\ EverySliceIsSplit' /\ MixKeepsHeldOut'
  BY DEF RefusalShareHolds, FallbackIsNew, TargetsHold, EverySliceIsSplit, MixKeepsHeldOut
<1>3. ReplayHasNoTwins'
  BY DEF CompInv, ReplayHasNoTwins
<1> QED
  BY <1>1, <1>2, <1>3 DEF CompInv

(* Items of the guard set, and of each of its categories, are finitely     *)
(* many.                                                                   *)
LEMMA CatFinite ==
  /\ IsFiniteSet(GuardItems) /\ IsFiniteSet(LowCoverage) /\ GuardSize \in Nat
  /\ \A cat : IsFiniteSet(OfCat(cat)) /\ Cardinality(OfCat(cat)) \in Nat
  /\ \A some : some \subseteq GuardItems => IsFiniteSet(some) /\ Cardinality(some) \in Nat
<1>1. IsFiniteSet(GuardItems) /\ IsFiniteSet(LowCoverage) /\ GuardSize \in Nat
  BY CompositionAssumption
<1>2. \A some : some \subseteq GuardItems => IsFiniteSet(some) /\ Cardinality(some) \in Nat
  BY <1>1, FS_Subset, FS_CardinalityType
<1>3. \A cat : OfCat(cat) \subseteq GuardItems
  BY DEF OfCat
<1> QED
  BY <1>1, <1>2, <1>3

(* The first phase of the guard set: two of each rare category, or all it  *)
(* has, when the set has room for them.                                    *)
LEMMA LowKeeps == ASSUME CompInv, PickLowCoverage PROVE CompInv'
<1>0. /\ making = "guard" /\ at = "start" /\ at' = "topup"
      /\ UNCHANGED <<making, options, slices, capped, trained, validated>>
      /\ picked' \in PerCat(2, LowCoverage)
  BY DEF PickLowCoverage
<1>1. PICK chosen \in PerCat(2, LowCoverage) : picked' = chosen
  BY <1>0
<1>2. /\ chosen \subseteq GuardItems /\ \A item \in chosen : item.cat \in LowCoverage
      /\ \A cat \in LowCoverage : chosen \cap OfCat(cat) \in AtMost(2, OfCat(cat))
  BY DEF PerCat
<1>3. \A cat \in LowCoverage :
        /\ Cardinality(chosen \cap OfCat(cat)) <= 2
        /\ Cardinality(chosen \cap OfCat(cat)) = Min({2, Cardinality(OfCat(cat))})
        /\ Cardinality(chosen \cap OfCat(cat)) \in Nat
  BY <1>2, CatFinite, UpToMany
<1>4. \A cat \in LowCoverage : {item \in chosen : item.cat = cat} = chosen \cap OfCat(cat)
  BY <1>2 DEF OfCat
<1>5. Cardinality(chosen) <= 2 * Cardinality(LowCoverage)
  <2>1. IsFiniteSet(LowCoverage) /\ IsFiniteSet(chosen)
    BY <1>2, CatFinite
  <2>2. \A cat \in LowCoverage : Cardinality({item \in chosen : item.cat = cat}) <= 2
    BY <1>3, <1>4
  <2> QED
    BY <1>2, <2>1, <2>2, TwosAddUp
<1>6. TwoOfEach'
  <2>1. Cardinality(chosen) \in Nat /\ Cardinality(LowCoverage) \in Nat /\ GuardSize \in Nat
    BY <1>2, CatFinite, FS_CardinalityType
  <2>2. GuardSize >= 2 * Cardinality(LowCoverage) => Cardinality(chosen) <= GuardSize
    BY <1>5, <2>1
  <2>3. \A cat \in LowCoverage : Cardinality(OfCat(cat) \cap chosen) >= Min({2, Cardinality(OfCat(cat))})
    <3> TAKE cat \in LowCoverage
    <3>1. OfCat(cat) \cap chosen = chosen \cap OfCat(cat)
      OBVIOUS
    <3> QED
      BY <1>3, <3>1
  <2> QED
    BY <1>1, <2>2, <2>3 DEF TwoOfEach
<1>7. GuardOK'
  BY <1>0, <1>1, <1>2, <1>6 DEF CompInv, GuardOK
<1> QED
  BY <1>0, <1>7, GuardLeaves

(* Topping up adds, so the two of each rare category stay.                 *)
LEMMA TopUpKeeps == ASSUME CompInv, NEW cat \in GuardCats, TopUp(cat) PROVE CompInv'
<1> DEFINE room == IF Cardinality(picked) < GuardSize THEN GuardSize - Cardinality(picked) ELSE 0
           most == Min({PerCategory(FirstPhase), room})
<1>0. /\ making = "guard" /\ at = "topup" /\ picked \subseteq GuardItems
      /\ UNCHANGED <<making, at, options, slices, capped, trained, validated>>
      /\ TwoOfEach
  BY DEF TopUp, CompInv, GuardOK
<1>1. PICK more \in AtMost(most, OfCat(cat) \ picked) : picked' = picked \cup more
  BY DEF TopUp
<1>2. IsFiniteSet(picked) /\ Cardinality(picked) \in Nat /\ GuardSize \in Nat /\ room \in Nat
  BY <1>0, CatFinite
<1>3. FirstPhase \in Int
  <2>1. \A some : some \subseteq LowCoverage => Cardinality(some) \in Nat
    BY CatFinite, FS_Subset, FS_CardinalityType
  <2>2. {c \in LowCoverage : OfCat(c) # {}} \subseteq LowCoverage
        /\ {c \in LowCoverage : Cardinality(OfCat(c)) > 1} \subseteq LowCoverage
    OBVIOUS
  <2>3. Cardinality({c \in LowCoverage : OfCat(c) # {}}) \in Nat
    BY <2>1, <2>2
  <2>4. Cardinality({c \in LowCoverage : Cardinality(OfCat(c)) > 1}) \in Nat
    BY <2>1, <2>2
  <2> QED
    BY <2>3, <2>4 DEF FirstPhase
<1>4. PerCategory(FirstPhase) \in Int /\ PerCategory(FirstPhase) >= 1
  <2> DEFINE cats == Max({1, Cardinality(GuardCats)})
             each == (GuardSize - FirstPhase) \div cats
  <2>1. IsFiniteSet(GuardCats)
    <3>1. GuardCats = {item.cat : item \in GuardItems}
      BY DEF GuardCats
    <3> QED
      <4> DEFINE catOf == [item \in GuardItems |-> item.cat]
      <4>1. catOf \in Surjection(GuardItems, GuardCats)
        BY <3>1 DEF Surjection
      <4> HIDE DEF catOf
      <4> QED
        BY <4>1, CatFinite, FS_Surjection
  <2>2. Cardinality(GuardCats) \in Nat
    BY <2>1, FS_CardinalityType
  <2>3. cats \in Nat /\ cats >= 1
    <3>1. 1 \in Int /\ Cardinality(GuardCats) \in Int
      BY <2>2
    <3>2. /\ Max({1, Cardinality(GuardCats)}) \in {1, Cardinality(GuardCats)}
          /\ Max({1, Cardinality(GuardCats)}) >= 1
      BY <3>1, MaxTwo
    <3> QED
      BY <2>2, <3>2
  <2> HIDE DEF cats
  <2>4. each \in Int
    BY <1>2, <1>3, <2>3
  <2> HIDE DEF each
  <2>5. Max({1, each}) \in {1, each} /\ Max({1, each}) >= 1
    <3>1. 1 \in Int
      OBVIOUS
    <3> QED
      BY <2>4, <3>1, MaxTwo
  <2>6. PerCategory(FirstPhase) = Max({1, each})
    BY DEF PerCategory, each, cats
  <2> QED
    BY <2>4, <2>5, <2>6
<1>5. most \in Nat /\ most <= room
  <2>1. most \in {PerCategory(FirstPhase), room} /\ most <= room
    <3>1. PerCategory(FirstPhase) \in Int /\ room \in Int
      BY <1>2, <1>4
    <3> HIDE DEF room
    <3> QED
      BY <3>1, MinTwo
  <2> QED
    BY <1>2, <1>4, <2>1
<1> HIDE DEF most
<1>6. /\ more \subseteq OfCat(cat) \ picked /\ IsFiniteSet(more) /\ Cardinality(more) \in Nat
      /\ Cardinality(more) <= most
  <2>1. OfCat(cat) \ picked \subseteq GuardItems
    BY DEF OfCat
  <2>2. IsFiniteSet(OfCat(cat) \ picked)
    BY <2>1, CatFinite
  <2> QED
    BY <1>1, <1>5, <2>2, UpToMany
<1>7. picked' \subseteq GuardItems
  BY <1>0, <1>1, <1>6 DEF OfCat
<1>8. Cardinality(picked) <= GuardSize => Cardinality(picked') <= GuardSize
  <2>1. picked \cap more = {}
    BY <1>6
  <2>2. Cardinality(picked \cap more) = 0
    BY <2>1, FS_EmptySet
  <2>3. Cardinality(picked \cup more) = Cardinality(picked) + Cardinality(more) - Cardinality(picked \cap more)
    BY <1>2, <1>6, FS_Union
  <2> QED
    BY <1>1, <1>2, <1>5, <1>6, <2>2, <2>3
<1>9. TwoOfEach'
  <2>1. ASSUME NEW c \in LowCoverage, Cardinality(OfCat(c) \cap picked) >= Min({2, Cardinality(OfCat(c))})
        PROVE  Cardinality(OfCat(c) \cap picked') >= Min({2, Cardinality(OfCat(c))})
    <3>1. OfCat(c) \cap picked \subseteq OfCat(c) \cap picked' /\ OfCat(c) \cap picked' \subseteq OfCat(c)
      BY <1>1
    <3>2. IsFiniteSet(OfCat(c) \cap picked')
      BY <3>1, CatFinite, FS_Subset
    <3>3. Cardinality(OfCat(c) \cap picked) <= Cardinality(OfCat(c) \cap picked')
          /\ Cardinality(OfCat(c) \cap picked') \in Nat
          /\ Cardinality(OfCat(c) \cap picked) \in Nat
      BY <3>1, <3>2, FS_Subset, FS_CardinalityType
    <3>4. Min({2, Cardinality(OfCat(c))}) \in Int
      <4>1. 2 \in Int /\ Cardinality(OfCat(c)) \in Int
        BY CatFinite
      <4>2. Min({2, Cardinality(OfCat(c))}) \in {2, Cardinality(OfCat(c))}
        BY <4>1, MinTwo
      <4> QED
        BY <4>1, <4>2
    <3> QED
      BY <2>1, <3>3, <3>4
  <2> QED
    BY <1>0, <1>8, <2>1 DEF TwoOfEach
<1>10. GuardOK'
  BY <1>0, <1>7, <1>9 DEF CompInv, GuardOK
<1> QED
  BY <1>0, <1>10, GuardLeaves

(* The final cut takes nothing when the set is within its size.            *)
LEMMA CutGuardKeeps == ASSUME CompInv, CutGuard PROVE CompInv'
<1>0. /\ making = "guard" /\ at = "topup" /\ at' = "done" /\ picked \subseteq GuardItems
      /\ UNCHANGED <<making, options, slices, capped, trained, validated>>
      /\ TwoOfEach /\ picked' \in AtMost(GuardSize, picked)
  BY DEF CutGuard, CompInv, GuardOK
<1>1. PICK kept \in AtMost(GuardSize, picked) : picked' = kept
  BY <1>0
<1>2. /\ kept \subseteq picked /\ Cardinality(kept) \in Nat /\ Cardinality(picked) \in Nat
      /\ Cardinality(kept) <= GuardSize /\ GuardSize \in Nat
      /\ Cardinality(kept) = GuardSize \/ kept = picked
  BY <1>0, CatFinite, UpToMany
<1>3. Cardinality(picked) <= GuardSize => kept = picked
  <2>1. CASE Cardinality(kept) = GuardSize /\ Cardinality(picked) <= GuardSize
    <3>1. Cardinality(kept) <= Cardinality(picked) /\ IsFiniteSet(picked)
      BY <1>0, <1>2, CatFinite, FS_Subset
    <3>2. Cardinality(kept) = Cardinality(picked)
      BY <1>2, <2>1, <3>1
    <3> QED
      BY <1>2, <3>1, <3>2, FS_Subset
  <2> QED
    BY <1>2, <2>1
<1>4. TwoOfEach'
  BY <1>0, <1>1, <1>2, <1>3 DEF TwoOfEach
<1>5. GuardOK'
  BY <1>0, <1>1, <1>2, <1>4 DEF CompInv, GuardOK
<1> QED
  BY <1>0, <1>5, GuardLeaves

(* A step that changes nothing.                                            *)
LEMMA CompStays == ASSUME CompInv, UNCHANGED compositionVars PROVE CompInv'
<1> USE DEF compositionVars
<1>1. V4OK' /\ MixOK' /\ GuardOK'
  BY DEF CompInv, V4OK, MixOK, GuardOK, TwoOfEach, Before
<1>2. RefusalShareHolds' /\ FallbackIsNew' /\ TargetsHold' /\ EverySliceIsSplit' /\ MixKeepsHeldOut'
  BY DEF CompInv, RefusalShareHolds, FallbackIsNew, TargetsHold, EverySliceIsSplit, MixKeepsHeldOut
<1>3. ReplayHasNoTwins'
  BY DEF CompInv, ReplayHasNoTwins
<1> QED
  BY <1>1, <1>2, <1>3 DEF CompInv

(* The compositions keep their invariant, whatever the files hold: the     *)
(* loading, the cap, the fallback, the cut, the split and the three        *)
(* builders.                                                               *)
THEOREM CompInvariant == CompositionSpec => []CompInv
<1>1. CompositionInit => CompInv
  BY CompBegins
<1>2. CompInv /\ [CompositionNext]_compositionVars => CompInv'
  <2> SUFFICES ASSUME CompInv, [CompositionNext]_compositionVars PROVE CompInv'
    OBVIOUS
  <2>1. CASE UNCHANGED compositionVars
    BY <2>1, CompStays
  <2>2. CASE Bail \/ LoadSlices \/ CapRefusalFraction \/ FillSliceFromFallback
    BY <2>2, BailKeeps, LoadKeeps, CapKeeps, FallbackKeeps
  <2>3. CASE CapToTargets \/ StratifiedSplit \/ Mix
    BY <2>3, CutKeeps, SplitKeeps, MixKeeps
  <2>4. CASE PickLowCoverage \/ CutGuard \/ \E cat \in GuardCats : TopUp(cat)
    BY <2>4, LowKeeps, CutGuardKeeps, TopUpKeeps
  <2> QED
    BY <2>1, <2>2, <2>3, <2>4 DEF CompositionNext
<1> QED
  BY <1>1, <1>2, PTL DEF CompositionSpec

(* MixesAreSound: the share of refusals, the fallback, the targets, the    *)
(* split of every slice, the held-out rows of the mix and the rare         *)
(* categories of the guard, for every set of files, every size and every   *)
(* choice of the options.                                                  *)
THEOREM MixesSound == CompositionSpec => []MixesAreSound
<1>1. CompInv => MixesAreSound
  <2> SUFFICES ASSUME CompInv PROVE MixesAreSound
    OBVIOUS
  <2>1. CompositionTypeOK
    BY DEF CompInv, CompositionTypeOK, V4OK, MixOK, GuardOK
  <2>2. LowCoverageHasTwo
    BY DEF CompInv, LowCoverageHasTwo, GuardOK, TwoOfEach
  <2> QED
    BY <2>1, <2>2 DEF CompInv, MixesAreSound
<1> QED
  BY <1>1, CompInvariant, PTL
-----------------------------------------------------------------------------
(* A judged contract has the shape of what the teacher wrote, and one      *)
(* without issues went through its validator.                              *)
Lesson(rec) ==
  /\ Contract(rec) /\ rec.script \in Scripts
  /\ rec.issues \in BOOLEAN /\ (~rec.issues => Valid(rec))

(* The least of some numbers is one of them.                               *)
LEMMA LeastIs == ASSUME NEW T, T \subseteq Nat, T # {} PROVE Min(T) \in T
<1>1. \E n \in T : \A m \in T : n <= m
  BY Least
<1> QED
  BY <1>1 DEF Min

(* Sources as the prompt numbers them are a sequence with a number each.   *)
LEMMA NumberedIs ==
  ASSUME NEW srcs, srcs \in Seq(Range(srcs))
  PROVE  /\ Numbered(srcs) \in Seq(Range(Numbered(srcs)))
         /\ \A source \in Range(Numbered(srcs)) : source.rank \in Nat
<1> DEFINE n == Numbered(srcs)
<1>1. DOMAIN srcs = 1 .. Len(srcs) /\ Len(srcs) \in Nat
  OBVIOUS
<1>2. n = [i \in 1 .. Len(srcs) |-> [rank |-> i, url |-> srcs[i].url, host |-> srcs[i].host]]
  BY <1>1 DEF Numbered
<1>3. \A i \in 1 .. Len(srcs) : n[i].rank = i
  BY <1>2
<1>4. n = [i \in 1 .. Len(srcs) |-> n[i]]
  BY <1>2
<1>5. DOMAIN n = 1 .. Len(srcs)
  BY <1>2
<1> HIDE DEF n
<1>6. n \in Seq(Range(n))
  <2>1. \A i \in 1 .. Len(srcs) : n[i] \in Range(n)
    BY <1>5 DEF Range
  <2> QED
    BY <1>1, <1>4, <2>1
<1>7. \A source \in Range(n) : \E i \in 1 .. Len(srcs) : source = n[i]
  BY <1>5 DEF Range
<1> QED
  BY <1>1, <1>3, <1>6, <1>7 DEF n

(* What a script adds to a teaching: the sources numbered by the gold      *)
(* script, and the verdict of its validator.                               *)
LEMMA JudgedIs ==
  ASSUME NEW teaching \in Teachings, NEW script \in Scripts
  PROVE  Lesson(Judged(teaching, script))
<1> DEFINE asked == Asked(teaching, script)
           rec == SetField(asked, "script", script)
           judged == SetField(rec, "issues", ~Valid(rec))
           F == {"id", "q", "lang", "sources", "ability", "asks", "questions", "relevant", "facts", "contacts",
                 "text", "missing", "domains"}
<1>1. Contract(teaching) /\ F \subseteq DOMAIN teaching
  BY TeachingAssumption DEF Contract
<1>2. Contract(asked)
  <2>1. CASE script = "gold"
    <3> DEFINE one == SetField(teaching, "sources", Numbered(teaching.sources))
    <3>1. /\ F \subseteq DOMAIN one /\ one.sources = Numbered(teaching.sources)
          /\ \A field \in F : field # "sources" => one[field] = teaching[field]
      BY <1>1 DEF SetField
    <3>2. asked = SetField(one, "domains", {teaching.sources[i].host : i \in DOMAIN teaching.sources})
      BY <2>1 DEF Asked, FromGold
    <3> HIDE DEF one, asked
    <3>3. /\ F \subseteq DOMAIN asked
          /\ \A field \in F : field # "domains" => asked[field] = one[field]
      BY <3>1, <3>2 DEF SetField
    <3>4. /\ asked.sources = Numbered(teaching.sources) /\ asked.text = teaching.text
          /\ asked.facts = teaching.facts /\ asked.contacts = teaching.contacts
          /\ asked.ability = teaching.ability
      BY <3>1, <3>3
    <3>5. /\ asked.sources \in Seq(Range(asked.sources))
          /\ \A source \in Range(asked.sources) : source.rank \in Nat
      BY <1>1, <3>4, NumberedIs DEF Contract
    <3> QED
      BY <1>1, <3>3, <3>4, <3>5 DEF Contract
  <2>2. CASE script = "rag"
    <3>1. asked = SetField(teaching, "contacts", <<>>)
      BY <2>2 DEF Asked
    <3> HIDE DEF asked
    <3>2. /\ F \subseteq DOMAIN asked /\ asked.contacts = <<>>
          /\ asked.sources = teaching.sources /\ asked.text = teaching.text
          /\ asked.facts = teaching.facts /\ asked.ability = teaching.ability
      BY <1>1, <3>1 DEF SetField
    <3>3. ItemList(<<>>)
      BY DEF ItemList, Range
    <3> QED
      BY <1>1, <3>2, <3>3 DEF Contract
  <2>3. CASE script \notin {"gold", "rag"}
    BY <1>1, <2>3 DEF Asked
  <2> QED
    BY <2>1, <2>2, <2>3
<1> HIDE DEF asked
<1>3. /\ F \subseteq DOMAIN rec /\ \A field \in F : rec[field] = asked[field]
      /\ rec.script = script /\ "script" \in DOMAIN rec
  BY <1>2 DEF Contract, SetField
<1> HIDE DEF rec
<1>4. /\ F \subseteq DOMAIN judged /\ \A field \in F : judged[field] = rec[field]
      /\ judged.script = rec.script /\ judged.issues = ~Valid(rec)
  BY <1>3 DEF SetField
<1> HIDE DEF judged
<1>5. /\ judged.sources = rec.sources /\ judged.ability = rec.ability /\ judged.asks = rec.asks
      /\ judged.questions = rec.questions /\ judged.relevant = rec.relevant /\ judged.facts = rec.facts
      /\ judged.contacts = rec.contacts
      /\ judged.text = rec.text /\ judged.missing = rec.missing /\ judged.domains = rec.domains
  BY <1>4
<1>6. Contract(judged)
  BY <1>2, <1>3, <1>4, <1>5 DEF Contract
<1>7. Valid(judged) = Valid(rec)
  BY <1>4, <1>5 DEF Valid, ValidRag, ValidPlanner, SourcesAreKnown, Used, DomainsAgree, FactRefs, RefsIn
<1>8. judged.issues \in BOOLEAN /\ (~judged.issues => Valid(judged))
  <2>1. Valid(rec) \in BOOLEAN
    BY DEF Valid, ValidRag, ValidPlanner
  <2> QED
    BY <1>4, <1>7, <2>1
<1>9. Judged(teaching, script) = judged
  BY DEF Judged, judged, rec, asked
<1> QED
  BY <1>3, <1>4, <1>6, <1>8, <1>9 DEF Lesson

---------------------------------------------------------------------------
(* Citations *)

(* A sentence is a record of what it says and its citations.               *)
Shaped(part) == part = [says |-> part.says, marks |-> part.marks]

(* A sentence is what it says and its citations.                           *)
LEMMA SameParts ==
  ASSUME NEW a, NEW b, Shaped(a), Shaped(b), a.says = b.says, a.marks = b.marks
  PROVE  a = b
BY DEF Shaped

LEMMA ShapedIs ==
  ASSUME NEW says, NEW marks, NEW part, part = [says |-> says, marks |-> marks]
  PROVE  Shaped(part) /\ part.says = says /\ part.marks = marks
BY DEF Shaped

(* A sentence with other citations says the same.                          *)
LEMMA Remarked ==
  ASSUME NEW part, NEW marks, NEW b, Shaped(part), b = [part EXCEPT !.marks = marks]
  PROVE  Shaped(b) /\ b.says = part.says /\ b.marks = marks
<1> DEFINE s == part.says
           m == part.marks
<1>1. part = [says |-> s, marks |-> m]
  BY DEF Shaped
<1> HIDE DEF s, m
<1>2. b = [says |-> s, marks |-> marks]
  BY <1>1
<1> QED
  BY <1>2, ShapedIs DEF s

Marked(b, part, marks) == b = [part EXCEPT !.marks = marks]

LEMMA RemarkedToo ==
  ASSUME NEW part, NEW marks, NEW b, Shaped(part), Marked(b, part, marks)
  PROVE  Shaped(b) /\ b.says = part.says /\ b.marks = marks
BY Remarked, ZenonT(60) DEF Marked

(* The numbers a text cites are those of the citations of its sentences.   *)
LEMMA CitedIs ==
  ASSUME NEW text, NEW kind, NEW x
  PROVE  x \in MarksIn(text, kind) <=>
           \E i \in DOMAIN text : \E mark \in text[i].marks : mark[1] = kind /\ mark[2] = x
BY DEF MarksIn

(* t is the beginning of text.                                             *)
PartOf(t, text) ==
  /\ t \in Seq(Range(text)) /\ DOMAIN t = 1 .. Len(t) /\ Len(t) <= Len(text) /\ Len(t) \in Nat
  /\ \A i \in 1 .. Len(t) : t[i] = text[i]

(* Taking a refusal off the end leaves the beginning of the text.          *)
LEMMA TailOff ==
  ASSUME NEW text, text \in Seq(Range(text)), NEW t, PartOf(t, text), NEW k
  PROVE  PartOf(StripTail(k, t), text)
<1> DEFINE S == Range(text)
           n == Len(t)
<1>1. t \in Seq(S) /\ n \in Nat /\ n <= Len(text) /\ \A i \in 1 .. n : t[i] = text[i]
  BY DEF PartOf
<1>2. CASE t # <<>> /\ IsTail(k, Last(t).says)
  <2>1. StripTail(k, t) = SubSeq(t, 1, n - 1)
    BY <1>2 DEF StripTail, Front
  <2>2. n # 0
    BY <1>1, <1>2
  <2> DEFINE u == SubSeq(t, 1, n - 1)
  <2> HIDE DEF S
  <2>3. /\ u \in Seq(S) /\ Len(u) = n - 1 /\ DOMAIN u = 1 .. n - 1
        /\ \A i \in 1 .. n - 1 : u[i] = t[i]
    <3> DEFINE m == n - 1
    <3>1. m \in Nat /\ m <= Len(t) /\ 1 \in Nat
      <4> HIDE DEF u
      <4> QED
        BY <1>1, <2>2
    <3> HIDE DEF m
    <3>2. LET w == SubSeq(t, 1, m)
          IN  w \in Seq(S) /\ Len(w) = m /\ DOMAIN w = 1 .. m /\ \A i \in 1 .. m : w[i] = t[i]
      BY <1>1, <3>1
    <3> QED
      BY <3>2 DEF m
  <2>4. n - 1 \in Nat /\ n - 1 <= Len(text) /\ \A i \in 1 .. n - 1 : i \in 1 .. n
    <3>1. Len(text) \in Nat
      OBVIOUS
    <3> HIDE DEF n
    <3> QED
      BY <1>1, <2>2, <3>1
  <2> HIDE DEF u
  <2>5. PartOf(u, text)
    BY <1>1, <2>3, <2>4 DEF PartOf, S
  <2> QED
    BY <2>1, <2>5 DEF u
<1>3. CASE ~(t # <<>> /\ IsTail(k, Last(t).says))
  BY <1>3 DEF StripTail
<1> QED
  BY <1>2, <1>3

LEMMA StrippedIs ==
  ASSUME NEW text, text \in Seq(Range(text))
  PROVE  LET t == StripRefusalTail(text)
         IN  /\ t \in Seq(Range(text)) /\ DOMAIN t = 1 .. Len(t) /\ DOMAIN t \subseteq DOMAIN text
             /\ \A i \in DOMAIN t : t[i] = text[i]
             /\ text = <<>> => t = <<>>
<1> DEFINE t1 == StripTail(1, text)
           t2 == StripTail(2, t1)
           t3 == StripTail(3, t2)
           t4 == StripTail(4, t3)
<1>1. PartOf(text, text)
  BY DEF PartOf
<1>2. PartOf(t1, text)
  BY <1>1, TailOff
<1> HIDE DEF t1
<1>3. PartOf(t2, text)
  BY <1>2, TailOff
<1> HIDE DEF t2
<1>4. PartOf(t3, text)
  BY <1>3, TailOff
<1> HIDE DEF t3
<1>5. PartOf(t4, text)
  BY <1>4, TailOff
<1> HIDE DEF t4
<1>6. StripRefusalTail(text) = t4
  BY DEF StripRefusalTail, t1, t2, t3, t4
<1>7. /\ t4 \in Seq(Range(text)) /\ DOMAIN t4 = 1 .. Len(t4) /\ Len(t4) <= Len(text) /\ Len(t4) \in Nat
      /\ \A i \in 1 .. Len(t4) : t4[i] = text[i]
  BY <1>5 DEF PartOf
<1>8. DOMAIN text = 1 .. Len(text) /\ Len(text) \in Nat /\ (text = <<>> => Len(text) = 0)
  OBVIOUS
<1>9. 1 .. Len(t4) \subseteq 1 .. Len(text) /\ (Len(text) = 0 => Len(t4) = 0)
  BY <1>7, <1>8
<1>10. Len(t4) = 0 => t4 = <<>>
  BY <1>7
<1> QED
  BY <1>6, <1>7, <1>8, <1>9, <1>10

(* No pattern matches at the end of a text that does not end in a refusal. *)
LEMMA NoTail ==
  ASSUME NEW text, text # <<>> => Last(text).says \notin DOMAIN Refusals, NEW k
  PROVE  StripTail(k, text) = text
BY DEF StripTail, IsTail

(* A refusal of one of the three languages at the end is taken off, and    *)
(* nothing with it.                                                        *)
LEMMA AddedTailOff ==
  ASSUME NEW text, NEW answer, text # <<>>, answer # <<>>, Front(text) = answer,
         Last(answer).says \notin DOMAIN Refusals,
         Last(text).says \in {"refusal_ne", "refusal_en", "refusal_roman"}
  PROVE  StripRefusalTail(text) = answer
<1>1. \A k : StripTail(k, answer) = answer
  BY NoTail
<1>2. DOMAIN Refusals = {"refusal_ne", "source_ne", "official_ne", "refusal_en", "refusal_roman"}
      /\ Refusals["refusal_ne"] = {1, 2} /\ Refusals["refusal_en"] = {3} /\ Refusals["refusal_roman"] = {4}
  BY DEF Refusals
<1>3. \A k : StripTail(k, text) = IF k \in Refusals[Last(text).says] THEN answer ELSE text
  BY <1>2 DEF StripTail, IsTail
<1>4. CASE Last(text).says = "refusal_ne"
  <2>1. StripTail(1, text) = answer
    BY <1>2, <1>3, <1>4
  <2> QED
    BY <1>1, <2>1 DEF StripRefusalTail
<1>5. CASE Last(text).says = "refusal_en"
  <2>1. /\ StripTail(1, text) = text /\ StripTail(2, text) = text /\ StripTail(3, text) = answer
    BY <1>2, <1>3, <1>5
  <2> QED
    BY <1>1, <2>1 DEF StripRefusalTail
<1>6. CASE Last(text).says = "refusal_roman"
  <2>1. /\ StripTail(1, text) = text /\ StripTail(2, text) = text /\ StripTail(3, text) = text
        /\ StripTail(4, text) = answer
    BY <1>2, <1>3, <1>6
  <2> QED
    BY <2>1 DEF StripRefusalTail
<1> QED
  BY <1>4, <1>5, <1>6

(* What the v6.2 rules make of one citation.                               *)
Repair62(mark, srcs) ==
  CASE mark[1] = "url" -> SidForUrl(mark[2], srcs)
    [] mark[1] = "num" /\ NumberInRange(mark[2], srcs) -> {<<"sid", mark[2]>>}
    [] OTHER -> {mark}
(* And the v6.3 rules.                                                     *)
Repair63(mark, srcs) ==
  CASE mark[1] = "url" -> SidForUrl(mark[2], srcs)
    [] mark[1] = "num" -> {<<"sid", mark[2]>>}
    [] OTHER -> {mark}

(* Normalising rewrites the citations of what is left, sentence by         *)
(* sentence.                                                               *)
LEMMA NormalizedIs ==
  ASSUME NEW text, text \in Seq(Range(text)), NEW srcs,
         \A part \in Range(text) : Shaped(part)
  PROVE  LET t == StripRefusalTail(text)
             n == NormalizeV62(text, srcs)
         IN  /\ n = [i \in DOMAIN t |-> n[i]]
             /\ \A i \in DOMAIN t :
                  /\ Shaped(n[i]) /\ n[i].says = t[i].says
                  /\ \A x : x \in n[i].marks <=> \E mark \in t[i].marks : x \in Repair62(mark, srcs)
<1> DEFINE t == StripRefusalTail(text)
           n == NormalizeV62(text, srcs)
           fixed == [i \in DOMAIN t |-> UNION {Repair62(mark, srcs) : mark \in t[i].marks}]
<1>1. n = [i \in DOMAIN t |-> [t[i] EXCEPT !.marks = fixed[i]]]
  BY DEF NormalizeV62, OverMarks, Repair62
<1>2. \A i \in DOMAIN t : Shaped(t[i])
  BY StrippedIs DEF Range
<1>3. \A i \in DOMAIN t : \A x : x \in fixed[i] <=> \E mark \in t[i].marks : x \in Repair62(mark, srcs)
  OBVIOUS
<1> HIDE DEF fixed, n, t
<1>4. ASSUME NEW i \in DOMAIN t
      PROVE  Shaped(n[i]) /\ n[i].says = t[i].says /\ n[i].marks = fixed[i]
  <2>1. n[i] = [t[i] EXCEPT !.marks = fixed[i]]
    BY <1>1
  <2>2. Shaped(t[i])
    BY <1>2
  <2> QED
    BY <2>1, <2>2, Remarked, ZenonT(60)
<1>5. n = [i \in DOMAIN t |-> n[i]]
  BY <1>1
<1> QED
  BY <1>3, <1>4, <1>5 DEF n, t

(* A URL becomes the number of the source that has it, and of that one     *)
(* alone when no other source has it.                                      *)
LEMMA SidForUrlIs ==
  ASSUME NEW srcs, srcs \in Seq(Range(srcs)), NEW u
  PROVE  /\ \A m \in SidForUrl(u, srcs) : \E i \in DOMAIN srcs : m = <<"sid", Ref(srcs, i)>>
         /\ \A n \in DOMAIN srcs :
              srcs[n].url = u /\ (\A i \in DOMAIN srcs : srcs[i].url = u => i = n)
              => SidForUrl(u, srcs) = {<<"sid", Ref(srcs, n)>>}
<1> DEFINE same == {i \in DOMAIN srcs : srcs[i].url = u}
           near == {i \in DOMAIN srcs : {srcs[i].url, u} \in Near}
<1>1. same \subseteq Nat /\ near \subseteq Nat /\ same \subseteq DOMAIN srcs /\ near \subseteq DOMAIN srcs
  OBVIOUS
<1>2. SidForUrl(u, srcs) = IF same # {} THEN {<<"sid", Ref(srcs, Min(same))>>}
                           ELSE IF near # {} THEN {<<"sid", Ref(srcs, Min(near))>>} ELSE {}
  BY DEF SidForUrl
<1>3. \A n \in DOMAIN srcs : srcs[n].url = u => n \in same
  OBVIOUS
<1>4. \A i \in same : i \in DOMAIN srcs /\ srcs[i].url = u
  OBVIOUS
<1> HIDE DEF same, near
<1>5. (same # {} => Min(same) \in same) /\ (near # {} => Min(near) \in near)
  BY <1>1, LeastIs
<1>6. \A m \in SidForUrl(u, srcs) : \E i \in DOMAIN srcs : m = <<"sid", Ref(srcs, i)>>
  BY <1>1, <1>2, <1>5
<1>7. ASSUME NEW n \in DOMAIN srcs, srcs[n].url = u, \A i \in DOMAIN srcs : srcs[i].url = u => i = n
      PROVE  SidForUrl(u, srcs) = {<<"sid", Ref(srcs, n)>>}
  <2>1. n \in same
    BY <1>3, <1>7
  <2>2. Min(same) \in same
    BY <1>5, <2>1
  <2>3. Min(same) = n
    BY <1>4, <1>7, <2>2
  <2> QED
    BY <1>2, <2>1, <2>3
<1> QED
  BY <1>6, <1>7

(* A contract that was let through cites sources of its own list, in its   *)
(* text and in its facts, and no URL.                                      *)
LEMMA ValidCites ==
  ASSUME NEW rec, Lesson(rec), Valid(rec)
  PROVE  /\ MarksIn(rec.text, "sid") \subseteq Refs(rec.sources) /\ FactRefs(rec) \subseteq Refs(rec.sources)
         /\ MarksIn(rec.text, "url") = {}
         /\ \A i \in DOMAIN rec.facts : rec.facts[i].ids # {}
         /\ \A i \in DOMAIN rec.contacts : rec.contacts[i].ids # {}
<1>1. CASE rec.script = "rag"
  <2>1. ValidRag(rec)
    BY <1>1 DEF Valid
  <2>2. RankedRefs(rec.sources) \subseteq Refs(rec.sources)
    BY DEF RankedRefs, Refs, Ref
  <2> QED
    BY <2>1, <2>2 DEF ValidRag, SourcesAreKnown
<1>2. CASE rec.script # "rag"
  BY <1>2 DEF Valid, ValidPlanner, SourcesAreKnown
<1> QED
  BY <1>1, <1>2

(* What the rows of citation rewriting are made of.                        *)
LEMMA ControlRowIs ==
  ASSUME NEW rec, NEW row \in ControlRowsV62(rec), NEW answer, answer = NormalizeV62(rec.text, rec.sources)
  PROVE  /\ Usable(rec) /\ answer # <<>> /\ ~HasBadCitation(answer)
         /\ row.text = answer /\ row.sources = rec.sources
         /\ \/ row.draft = <<>>
            \/ /\ row.draft # answer
               /\ row.draft \in {CorruptNumeric(answer), CorruptRawUrl(answer, rec.sources),
                               CorruptTail(answer, rec.lang)}
BY DEF ControlRowsV62, TrainingRow

(* The sentences of a normalised answer without URLs and bare numbers, and *)
(* where its citations come from.                                          *)
LEMMA AnswerIs ==
  ASSUME NEW rec, Lesson(rec), NEW answer, answer = NormalizeV62(rec.text, rec.sources),
         ~HasBadCitation(answer)
  PROVE  /\ answer \in Seq(Range(answer))
         /\ \A i \in DOMAIN answer : Shaped(answer[i])
         /\ \A i \in DOMAIN answer : \A mark \in answer[i].marks :
              \/ mark[2] \in MarksIn(rec.text, "sid")
              \/ MarksIn(rec.text, "url") # {} /\ mark[2] \in Refs(rec.sources)
              \/ /\ mark[2] \in MarksIn(rec.text, "num") /\ mark[2] \in Nat
                 /\ NumberInRange(mark[2], rec.sources)
         /\ \A i \in DOMAIN answer : \A mark \in answer[i].marks : mark = <<"sid", mark[2]>>
<1> DEFINE t == StripRefusalTail(rec.text)
           srcs == rec.sources
<1>1. /\ rec.text \in Seq(Range(rec.text)) /\ \A part \in Range(rec.text) : Sentence(part)
      /\ srcs \in Seq(Range(srcs))
  BY DEF Lesson, Contract
<1>2. \A part \in Range(rec.text) : Shaped(part)
  BY <1>1 DEF Sentence, Shaped
<1>3. /\ t \in Seq(Range(rec.text)) /\ DOMAIN t = 1 .. Len(t) /\ DOMAIN t \subseteq DOMAIN rec.text
      /\ \A i \in DOMAIN t : t[i] = rec.text[i]
  BY <1>1, StrippedIs
<1>4. /\ answer = [i \in DOMAIN t |-> answer[i]]
      /\ \A i \in DOMAIN t :
           /\ Shaped(answer[i]) /\ answer[i].says = t[i].says
           /\ \A x : x \in answer[i].marks <=> \E mark \in t[i].marks : x \in Repair62(mark, srcs)
  BY <1>1, <1>2, NormalizedIs
<1>5. \A i \in DOMAIN t : t[i] \in Range(rec.text)
  BY <1>3 DEF Range
<1> HIDE DEF t
<1>6. DOMAIN answer = 1 .. Len(t) /\ Len(t) \in Nat
  BY <1>3, <1>4
<1>7. answer \in Seq(Range(answer))
  <2>1. answer = [i \in 1 .. Len(t) |-> answer[i]]
    BY <1>4, <1>6
  <2>2. \A i \in 1 .. Len(t) : answer[i] \in Range(answer)
    BY <1>6 DEF Range
  <2> QED
    BY <1>6, <2>1, <2>2
<1>9. ASSUME NEW i \in DOMAIN answer, NEW mark \in answer[i].marks
      PROVE  /\ mark = <<"sid", mark[2]>>
             /\ \/ mark[2] \in MarksIn(rec.text, "sid")
                \/ MarksIn(rec.text, "url") # {} /\ mark[2] \in Refs(rec.sources)
                \/ /\ mark[2] \in MarksIn(rec.text, "num") /\ mark[2] \in Nat
                   /\ NumberInRange(mark[2], rec.sources)
  <2>1. PICK m \in t[i].marks : mark \in Repair62(m, srcs)
    BY <1>3, <1>4, <1>6
  <2>2. i \in DOMAIN rec.text /\ t[i] = rec.text[i] /\ Sentence(t[i])
    BY <1>1, <1>3, <1>5, <1>6
  <2>3. /\ m = <<m[1], m[2]>> /\ m[1] \in {"sid", "num", "url"} /\ (m[1] # "url" => m[2] \in Nat)
    BY <2>1, <2>2 DEF Sentence
  <2>4. m[2] \in MarksIn(rec.text, m[1])
    BY <2>1, <2>2, CitedIs
  <2>5. mark[1] \notin {"url", "num"}
    <3>1. mark[2] \in MarksIn(answer, mark[1])
      BY CitedIs
    <3>2. MarksIn(answer, "url") = {} /\ MarksIn(answer, "num") = {}
      BY DEF HasBadCitation
    <3> QED
      BY <3>1, <3>2
  <2>6. CASE m[1] = "url"
    <3>1. mark \in SidForUrl(m[2], srcs)
      BY <2>1, <2>6 DEF Repair62
    <3>2. PICK j \in DOMAIN srcs : mark = <<"sid", Ref(srcs, j)>>
      BY <1>1, <3>1, SidForUrlIs
    <3>3. mark[2] \in Refs(srcs)
      BY <3>2 DEF Refs
    <3> QED
      BY <2>4, <2>6, <3>2, <3>3
  <2>7. CASE m[1] = "num" /\ NumberInRange(m[2], srcs)
    <3>1. mark = <<"sid", m[2]>>
      BY <2>1, <2>7 DEF Repair62
    <3> QED
      BY <2>3, <2>4, <2>7, <3>1
  <2>8. CASE m[1] # "url" /\ ~(m[1] = "num" /\ NumberInRange(m[2], srcs))
    <3>1. mark = m
      BY <2>1, <2>8 DEF Repair62
    <3> QED
      BY <2>3, <2>4, <2>5, <3>1
  <2> QED
    BY <2>6, <2>7, <2>8
<1>10. \A i \in DOMAIN answer : Shaped(answer[i])
  BY <1>3, <1>4, <1>6
<1> QED
  BY <1>7, <1>9, <1>10

(* With sources numbered by position, a v6.2 answer cites numbers that the *)
(* rules accept, and with sources at all, those of the list.               *)
LEMMA CitesInRange ==
  ASSUME NEW rec, Lesson(rec), Valid(rec), Positioned(rec.sources),
         NEW answer, answer = NormalizeV62(rec.text, rec.sources), ~HasBadCitation(answer),
         NEW i \in DOMAIN answer, NEW mark \in answer[i].marks
  PROVE  /\ mark[2] \in Nat /\ NumberInRange(mark[2], rec.sources)
         /\ rec.sources # <<>> => mark[2] \in Refs(rec.sources) /\ mark[2] \in DOMAIN rec.sources
<1> DEFINE srcs == rec.sources
           N == Len(srcs)
           x == mark[2]
<1>1. srcs \in Seq(Range(srcs)) /\ N \in Nat /\ DOMAIN srcs = 1 .. N /\ (srcs = <<>> <=> N = 0)
  BY DEF Lesson, Contract
<1>2. Refs(srcs) = 1 .. N
  BY <1>1 DEF Refs, Positioned
<1>3. \/ x \in MarksIn(rec.text, "sid")
      \/ MarksIn(rec.text, "url") # {} /\ x \in Refs(srcs)
      \/ x \in Nat /\ NumberInRange(x, srcs)
  BY AnswerIs
<1>4. x \in Refs(srcs) \/ (x \in Nat /\ NumberInRange(x, srcs))
  BY <1>3, ValidCites
<1> HIDE DEF x
<1>5. Max({1, N}) \in {1, N} /\ Max({1, N}) >= N /\ Max({1, N}) >= 1
  <2>1. 1 \in Int /\ N \in Int
    BY <1>1
  <2> HIDE DEF N
  <2> QED
    BY <2>1, MaxTwo
<1>6. NumberInRange(x, srcs) <=> x >= 1 /\ x <= Max({1, N})
  BY DEF NumberInRange
<1> HIDE DEF N, srcs
<1>7. x \in Nat /\ NumberInRange(x, srcs)
  BY <1>1, <1>2, <1>4, <1>5, <1>6
<1>8. srcs # <<>> => x \in 1 .. N
  BY <1>1, <1>5, <1>6, <1>7
<1> QED
  BY <1>1, <1>2, <1>7, <1>8 DEF x, srcs

(* The values of a list are members of it.                                 *)
LEMMA ValuedIs ==
  ASSUME NEW items, ItemList(items)
  PROVE  /\ Valued(items) \in Seq(Range(items))
         /\ \A item \in Range(Valued(items)) : item \in Range(items)
<1> DEFINE K == {i \in DOMAIN items : items[i].value}
           valued == Picked(items, K)
<1>1. items \in Seq(Range(items))
  BY DEF ItemList
<1>2. valued \in Seq(Range(items))
  BY <1>1, PickedPlaces
<1>3. Valued(items) = valued
  BY DEF Valued
<1> HIDE DEF valued
<1>4. \A item \in Range(valued) : item \in Range(items)
  BY <1>2 DEF Range
<1> QED
  BY <1>2, <1>3, <1>4

(* An extraction row cites sources its contract has.                       *)
LEMMA ExtractionIs ==
  ASSUME NEW rec, Lesson(rec), NEW row \in ExtractionRowsV63(rec)
  PROVE  MarksIn(row.text, "sid") \subseteq Refs(row.sources)
<1> DEFINE values == Valued(rec.facts) \o Valued(rec.contacts)
           lines == [i \in DOMAIN values |-> ValueLine(values[i])]
           n == Min({ValueLimit, Len(lines)})
<1>1. /\ Usable(rec) /\ row.text = SubSeq(lines, 1, n) /\ row.sources = rec.sources
  <2> DEFINE answer == SubSeq(lines, 1, n)
             about == <<"extract", rec.facts, rec.contacts>>
  <2>1. ExtractionRowsV63(rec) =
          IF ~Usable(rec) \/ lines = <<>> THEN {}
          ELSE {TrainingRow("v6_3_exact_value_extraction", "extract_v63", about, rec, <<>>, answer, "answer")}
    BY DEF ExtractionRowsV63
  <2> HIDE DEF lines, n, answer, about
  <2>2. Usable(rec)
        /\ row = TrainingRow("v6_3_exact_value_extraction", "extract_v63", about, rec, <<>>, answer, "answer")
    BY <2>1
  <2>3. row.text = answer /\ row.sources = rec.sources
    BY <2>2, SMTT(30) DEF TrainingRow
  <2> QED
    BY <2>2, <2>3 DEF answer
<1>2. Valid(rec)
  BY <1>1 DEF Usable, Lesson
<1>3. ItemList(rec.facts) /\ ItemList(rec.contacts)
  BY DEF Lesson, Contract
<1> DEFINE S == Range(rec.facts) \cup Range(rec.contacts)
<1>4. values \in Seq(S) /\ Len(values) \in Nat /\ DOMAIN values = 1 .. Len(values)
  <2> DEFINE a == Valued(rec.facts)
             b == Valued(rec.contacts)
             A == Range(rec.facts)
             B == Range(rec.contacts)
  <2>1. a \in Seq(A) /\ b \in Seq(B)
    BY <1>3, ValuedIs
  <2> HIDE DEF a, b, A, B
  <2>2. a \in Seq(A \cup B) /\ b \in Seq(A \cup B)
    BY <2>1
  <2>3. a \o b \in Seq(A \cup B)
    BY <2>2
  <2> QED
    BY <2>3 DEF a, b, A, B
<1> HIDE DEF values
<1>5. ASSUME NEW item \in S
      PROVE  item.ids # {} /\ item.ids \subseteq Nat /\ item.ids \subseteq FactRefs(rec)
  <2>1. CASE item \in Range(rec.facts)
    <3>1. PICK k \in DOMAIN rec.facts : item = rec.facts[k]
      BY <2>1 DEF Range
    <3>2. item.ids # {} /\ item.ids \subseteq Nat
      BY <1>2, <1>3, <2>1, <3>1, ValidCites DEF ItemList
    <3>3. item.ids \subseteq RefsIn(rec.facts)
      BY <3>1 DEF RefsIn
    <3> QED
      BY <3>2, <3>3 DEF FactRefs
  <2>2. CASE item \in Range(rec.contacts)
    <3>1. PICK k \in DOMAIN rec.contacts : item = rec.contacts[k]
      BY <2>2 DEF Range
    <3>2. item.ids # {} /\ item.ids \subseteq Nat
      BY <1>2, <1>3, <2>2, <3>1, ValidCites DEF ItemList
    <3>3. item.ids \subseteq RefsIn(rec.contacts)
      BY <3>1 DEF RefsIn
    <3> QED
      BY <3>2, <3>3 DEF FactRefs
  <2> QED
    BY <2>1, <2>2
<1>6. ASSUME NEW i \in 1 .. Len(values)
      PROVE  /\ lines[i].marks = {<<"sid", Min(values[i].ids)>>}
             /\ Min(values[i].ids) \in FactRefs(rec)
  <2>1. values[i] \in S
    BY <1>4
  <2>2. values[i].ids # {} /\ values[i].ids \subseteq Nat /\ values[i].ids \subseteq FactRefs(rec)
    BY <1>5, <2>1
  <2>3. Min(values[i].ids) \in values[i].ids
    BY <2>2, LeastIs
  <2>4. lines[i] = ValueLine(values[i])
    BY <1>4
  <2>5. ValueLine(values[i]).marks = {<<"sid", Min(values[i].ids)>>}
    BY <2>2 DEF ValueLine
  <2> QED
    BY <2>2, <2>3, <2>4, <2>5
<1>7. /\ lines = [i \in 1 .. Len(values) |-> lines[i]]
      /\ Len(lines) = Len(values) /\ DOMAIN lines = 1 .. Len(values)
  BY <1>4
<1> HIDE DEF lines, S
<1>8. n \in Nat /\ n <= Len(lines)
  <2>1. 5 \in Int /\ Len(lines) \in Int
    BY <1>4, <1>7
  <2>2. n \in {5, Len(lines)} /\ n <= Len(lines)
    BY <2>1, MinTwo DEF ValueLimit
  <2> QED
    BY <1>4, <1>7, <2>2
<1> HIDE DEF n
<1>9. \A i \in DOMAIN row.text : i \in DOMAIN lines /\ row.text[i] = lines[i]
  BY <1>1, <1>4, <1>7, <1>8
<1>10. MarksIn(row.text, "sid") \subseteq FactRefs(rec)
  <2> SUFFICES ASSUME NEW x \in MarksIn(row.text, "sid") PROVE x \in FactRefs(rec)
    OBVIOUS
  <2>1. PICK i \in DOMAIN row.text : \E mark \in row.text[i].marks : mark[1] = "sid" /\ mark[2] = x
    BY CitedIs
  <2> QED
    BY <1>6, <1>7, <1>9, <2>1
<1> QED
  BY <1>1, <1>2, <1>10, ValidCites

(* CitesWhatIsListed: rows of both scripts cite sources of their own       *)
(* prompts.                                                                *)
LEMMA CitesListed ==
  ASSUME \A rec \in records : Lesson(rec)
  PROVE  CitesWhatIsListed
<1>1. ASSUME NEW rec \in records, rec.sources # <<>>, Positioned(rec.sources), NEW row \in ControlRowsV62(rec)
      PROVE  MarksIn(row.text, "sid") \subseteq Refs(row.sources)
  <2> DEFINE answer == NormalizeV62(rec.text, rec.sources)
  <2>1. Usable(rec) /\ ~HasBadCitation(answer) /\ row.text = answer /\ row.sources = rec.sources
    BY ControlRowIs
  <2>2. Valid(rec) /\ Lesson(rec)
    BY <2>1 DEF Usable, Lesson
  <2>3. \A i \in DOMAIN answer : \A mark \in answer[i].marks : mark[2] \in Refs(rec.sources)
    BY <1>1, <2>1, <2>2, CitesInRange
  <2> HIDE DEF answer
  <2> SUFFICES ASSUME NEW x \in MarksIn(row.text, "sid") PROVE x \in Refs(row.sources)
    OBVIOUS
  <2>4. PICK i \in DOMAIN row.text : \E mark \in row.text[i].marks : mark[1] = "sid" /\ mark[2] = x
    BY CitedIs
  <2> QED
    BY <2>1, <2>3, <2>4
<1> QED
  BY <1>1, ExtractionIs DEF CitesWhatIsListed

(* RowsKeepToTheDomains: what went through the validator cites hosts of    *)
(* the domains only, and normalising adds none.                            *)
LEMMA DomainsReach ==
  ASSUME \A rec \in records : Lesson(rec)
  PROVE  RowsKeepToTheDomains
<1> SUFFICES ASSUME NEW rec \in records, rec.domains # {}, ~Bracketed(rec), NEW row \in ControlRowsV62(rec)
             PROVE  HostsOf(MarksIn(row.text, "sid"), row.sources) \subseteq rec.domains
  BY DEF RowsKeepToTheDomains
<1> DEFINE answer == NormalizeV62(rec.text, rec.sources)
           cited == MarksIn(row.text, "sid")
<1>1. Usable(rec) /\ ~HasBadCitation(answer) /\ row.text = answer /\ row.sources = rec.sources
  BY ControlRowIs
<1>2. Valid(rec) /\ Lesson(rec) /\ rec.ability = "answer"
  BY <1>1 DEF Usable, Lesson
<1>3. \A i \in DOMAIN answer : \A mark \in answer[i].marks : mark[2] \in MarksIn(rec.text, "sid")
  <2>1. MarksIn(rec.text, "url") = {} /\ MarksIn(rec.text, "num") = {}
    BY <1>2, ValidCites DEF Bracketed
  <2> QED
    BY <1>1, <1>2, <2>1, AnswerIs
<1> HIDE DEF answer
<1>4. cited \subseteq MarksIn(rec.text, "sid")
  <2> SUFFICES ASSUME NEW x \in MarksIn(row.text, "sid") PROVE x \in MarksIn(rec.text, "sid")
    OBVIOUS
  <2>1. PICK i \in DOMAIN row.text : \E mark \in row.text[i].marks : mark[1] = "sid" /\ mark[2] = x
    BY CitedIs
  <2> QED
    BY <1>1, <1>3, <2>1
<1> HIDE DEF cited
<1>5. \E known : cited \subseteq Used(rec, known) /\ (Used(rec, known) # {} => DomainsAgree(rec, Used(rec, known)))
  <2>1. CASE rec.script = "rag"
    <3>1. /\ MarksIn(rec.text, "sid") \subseteq RankedRefs(rec.sources)
          /\ DomainsAgree(rec, Used(rec, RankedRefs(rec.sources)))
      BY <1>2, <2>1 DEF Valid, ValidRag, SourcesAreKnown
    <3> QED
      BY <1>4, <3>1 DEF Used
  <2>2. CASE rec.script # "rag"
    <3>1. /\ MarksIn(rec.text, "sid") \subseteq Refs(rec.sources)
          /\ Used(rec, Refs(rec.sources)) # {} => DomainsAgree(rec, Used(rec, Refs(rec.sources)))
      BY <1>2, <2>2 DEF Valid, ValidPlanner, SourcesAreKnown
    <3> QED
      BY <1>4, <3>1 DEF Used
  <2> QED
    BY <2>1, <2>2
<1>6. PICK known : cited \subseteq Used(rec, known) /\ (Used(rec, known) # {} => DomainsAgree(rec, Used(rec, known)))
  BY <1>5
<1>7. HostsOf(cited, rec.sources) \subseteq HostsOf(Used(rec, known), rec.sources)
  BY <1>6 DEF HostsOf
<1>8. CASE Used(rec, known) = {}
  <2>1. cited = {}
    BY <1>6, <1>8
  <2> QED
    BY <1>1, <2>1 DEF HostsOf, cited
<1>9. CASE Used(rec, known) # {}
  BY <1>1, <1>6, <1>7, <1>9 DEF DomainsAgree, cited
<1> QED
  BY <1>8, <1>9

(* EverySentenceIsCited: where a citation was missing one was added, and   *)
(* rows with a bad one were left out.                                      *)
LEMMA SentencesCited ==
  ASSUME \A rec \in records : Lesson(rec)
  PROVE  EverySentenceIsCited
<1> SUFFICES ASSUME NEW rec \in records, NEW row \in CitationRowsV63(rec)
             PROVE  /\ \A i \in DOMAIN row.text : \E mark \in row.text[i].marks : mark[1] = "sid"
                    /\ ~HasBadCitation(row.text)
  BY DEF EverySentenceIsCited
<1> DEFINE srcs == rec.sources
           normal == NormalizeV63(rec.text, srcs)
           answer == EnsureSentenceCitations(normal)
<1>0. Lesson(rec) /\ row.text = answer
  BY DEF CitationRowsV63, TrainingRow
<1>1. /\ rec.text \in Seq(Range(rec.text)) /\ \A part \in Range(rec.text) : Sentence(part)
      /\ srcs \in Seq(Range(srcs))
  BY <1>0 DEF Lesson, Contract
<1>2. normal = [i \in DOMAIN rec.text |->
          [rec.text[i] EXCEPT !.marks = UNION {Repair63(mark, srcs) : mark \in rec.text[i].marks}]]
  BY DEF NormalizeV63, OverMarks, Repair63
<1>3. ASSUME NEW i \in DOMAIN rec.text
      PROVE  /\ normal[i] = [says |-> rec.text[i].says, marks |-> normal[i].marks]
             /\ \A mark \in normal[i].marks : mark[1] = "sid"
  <2>1. Sentence(rec.text[i])
    BY <1>1 DEF Range
  <2> DEFINE all == UNION {Repair63(mark, srcs) : mark \in rec.text[i].marks}
  <2>2. normal[i] = [rec.text[i] EXCEPT !.marks = all]
    BY <1>2
  <2>3. rec.text[i] = [says |-> rec.text[i].says, marks |-> rec.text[i].marks]
    BY <2>1 DEF Sentence
  <2>4. \A mark \in all : mark[1] = "sid"
    <3> SUFFICES ASSUME NEW m \in rec.text[i].marks, NEW mark \in Repair63(m, srcs) PROVE mark[1] = "sid"
      OBVIOUS
    <3>1. m = <<m[1], m[2]>> /\ m[1] \in {"sid", "num", "url"}
      BY <2>1 DEF Sentence
    <3>2. CASE m[1] = "url"
      <4>1. mark \in SidForUrl(m[2], srcs)
        BY <3>2 DEF Repair63
      <4>2. PICK j \in DOMAIN srcs : mark = <<"sid", Ref(srcs, j)>>
        BY <1>1, <4>1, SidForUrlIs
      <4> QED
        BY <4>2
    <3>3. CASE m[1] = "num"
      BY <3>3 DEF Repair63
    <3>4. CASE m[1] = "sid"
      BY <3>4 DEF Repair63
    <3> QED
      BY <3>1, <3>2, <3>3, <3>4
  <2> HIDE DEF all, normal
  <2>5. normal[i] = [says |-> rec.text[i].says, marks |-> all]
    BY <2>2, <2>3
  <2>6. normal[i].marks = all
    BY <2>5
  <2> QED
    BY <2>4, <2>5, <2>6
<1>4. DOMAIN normal = DOMAIN rec.text
  BY <1>2
<1> HIDE DEF normal
<1>5. ASSUME NEW i \in DOMAIN normal
      PROVE  /\ \A mark \in answer[i].marks : mark[1] = "sid"
             /\ \E mark \in answer[i].marks : mark[1] = "sid"
  <2>1. CASE \E mark \in normal[i].marks : mark[1] = "sid"
    <3>1. answer[i] = normal[i]
      BY <2>1 DEF EnsureSentenceCitations
    <3> QED
      BY <1>3, <1>4, <2>1, <3>1
  <2>2. CASE ~\E mark \in normal[i].marks : mark[1] = "sid"
    <3> DEFINE more == normal[i].marks \cup {<<"sid", 1>>}
    <3>1. answer[i] = [normal[i] EXCEPT !.marks = more]
      BY <2>2 DEF EnsureSentenceCitations
    <3>2. normal[i] = [says |-> rec.text[i].says, marks |-> normal[i].marks]
      BY <1>3, <1>4
    <3>3. answer[i].marks = more
      <4> HIDE DEF more, answer
      <4> QED
        BY <3>1, <3>2
    <3>4. <<"sid", 1>> \in more /\ <<"sid", 1>>[1] = "sid" /\ \A mark \in more : mark[1] = "sid"
      <4>1. <<"sid", 1>>[1] = "sid" /\ <<"sid", 1>> \in more
        OBVIOUS
      <4>2. \A mark \in more : mark \in normal[i].marks \/ mark = <<"sid", 1>>
        OBVIOUS
      <4> HIDE DEF more
      <4> QED
        BY <1>3, <1>4, <4>1, <4>2
    <3> HIDE DEF more, answer
    <3> QED
      BY <3>3, <3>4
  <2> QED
    BY <2>1, <2>2
<1>6. DOMAIN answer = DOMAIN normal
  BY DEF EnsureSentenceCitations
<1> HIDE DEF answer
<1>7. MarksIn(answer, "url") = {} /\ MarksIn(answer, "num") = {}
  BY <1>5, <1>6, CitedIs
<1> QED
  BY <1>0, <1>5, <1>6, <1>7 DEF HasBadCitation

(* Drafts *)

OnDomain(f, S) == f = [x \in S |-> f[x]]
\* What the sentences of a draft are to those of the answer.
Spoils(draft, answer, spoiled) ==
  /\ OnDomain(draft, DOMAIN answer)
  /\ \A i \in DOMAIN answer :
       /\ Shaped(draft[i]) /\ draft[i].says = answer[i].says
       /\ \A x : x \in draft[i].marks <=> \E m \in answer[i].marks : x = spoiled[m]
Undone(answer, spoiled, srcs) ==
  \A i \in DOMAIN answer : \A m \in answer[i].marks : Repair62(spoiled[m], srcs) = {m}
Sentences(answer) == answer \in Seq(Range(answer)) /\ \A i \in DOMAIN answer : Shaped(answer[i])

(* Sequences with the same sentences at the same places are the same.      *)
LEMMA SameTexts ==
  ASSUME NEW n, NEW answer, Sentences(answer), OnDomain(n, DOMAIN answer),
         \A i \in DOMAIN answer : Shaped(n[i]) /\ n[i].says = answer[i].says /\ n[i].marks = answer[i].marks
  PROVE  n = answer
<1>1. \A i \in DOMAIN answer : n[i] = answer[i]
  BY SameParts DEF Sentences
<1>2. OnDomain(answer, DOMAIN answer)
  BY DEF Sentences, OnDomain
<1> QED
  BY <1>1, <1>2 DEF OnDomain

(* A draft that spoils each citation of an answer by itself, in a way the  *)
(* rules undo, is repaired to the answer.                                  *)
LEMMA DraftIsRepaired ==
  ASSUME NEW answer, Sentences(answer), answer # <<>>, Last(answer).says \notin DOMAIN Refusals,
         NEW srcs, NEW spoiled, Undone(answer, spoiled, srcs),
         NEW draft, Spoils(draft, answer, spoiled)
  PROVE  NormalizeV62(draft, srcs) = answer
<1> DEFINE N == Len(answer)
           t == StripRefusalTail(draft)
           n == NormalizeV62(draft, srcs)
<1>1. N \in Nat /\ N # 0 /\ DOMAIN answer = 1 .. N
  BY DEF Sentences
<1>2. DOMAIN draft = 1 .. N /\ OnDomain(draft, 1 .. N)
  BY <1>1 DEF Spoils, OnDomain
<1>3. \A i \in 1 .. N : draft[i].says = answer[i].says /\ Shaped(draft[i])
  BY <1>1 DEF Spoils
<1>4. draft \in Seq(Range(draft)) /\ Len(draft) = N
  <2>1. \A i \in 1 .. N : draft[i] \in Range(draft)
    BY <1>2 DEF Range
  <2>2. draft \in [1 .. N -> Range(draft)]
    BY <1>2, <2>1 DEF OnDomain
  <2> HIDE DEF N
  <2>3. draft \in Seq(Range(draft))
    BY <1>1, <2>2
  <2> QED
    BY <1>1, <1>2, <2>3
<1>5. t = draft
  <2>1. Last(draft).says = Last(answer).says
    BY <1>1, <1>3, <1>4 DEF Last
  <2>2. \A k : StripTail(k, draft) = draft
    BY <2>1, NoTail
  <2> QED
    BY <2>2 DEF StripRefusalTail
<1>6. /\ OnDomain(n, DOMAIN t)
      /\ \A i \in DOMAIN t :
           /\ Shaped(n[i]) /\ n[i].says = t[i].says
           /\ \A x : x \in n[i].marks <=> \E mark \in t[i].marks : x \in Repair62(mark, srcs)
  <2>1. \A part \in Range(draft) : Shaped(part)
    BY <1>2, <1>3 DEF Range
  <2> QED
    BY <1>4, <2>1, NormalizedIs DEF OnDomain
<1> HIDE DEF n, t, N
<1>7. ASSUME NEW i \in DOMAIN answer
      PROVE  Shaped(n[i]) /\ n[i].says = answer[i].says /\ n[i].marks = answer[i].marks
  <2>1. i \in DOMAIN t /\ draft[i].says = answer[i].says
    BY <1>1, <1>2, <1>3, <1>5
  <2>2. Shaped(n[i]) /\ n[i].says = answer[i].says
    BY <1>5, <1>6, <2>1
  <2>3. \A x : x \in n[i].marks <=> \E mark \in draft[i].marks : x \in Repair62(mark, srcs)
    BY <1>5, <1>6, <2>1
  <2>4. \A x : x \in draft[i].marks <=> \E m \in answer[i].marks : x = spoiled[m]
    BY DEF Spoils
  <2>5. \A x : x \in n[i].marks <=> \E m \in answer[i].marks : x \in Repair62(spoiled[m], srcs)
    BY <2>3, <2>4
  <2>6. \A m \in answer[i].marks : Repair62(spoiled[m], srcs) = {m}
    BY DEF Undone
  <2>7. n[i].marks = answer[i].marks
    <3> DEFINE marks == answer[i].marks
               got == n[i].marks
    <3>1. /\ \A x : x \in got <=> \E m \in marks : x \in Repair62(spoiled[m], srcs)
          /\ \A m \in marks : Repair62(spoiled[m], srcs) = {m}
      BY <2>5, <2>6
    <3> HIDE DEF marks, got
    <3>2. ASSUME NEW x, x \in got
          PROVE  x \in marks
      <4>1. PICK m \in marks : x \in Repair62(spoiled[m], srcs)
        BY <3>1, <3>2
      <4>2. x = m
        BY <3>1, <4>1
      <4> QED
        BY <4>2
    <3>4. ASSUME NEW x, x \in marks
          PROVE  x \in got
      <4>1. x \in Repair62(spoiled[x], srcs)
        BY <3>1, <3>4
      <4> QED
        BY <3>1, <3>4, <4>1
    <3>3. got = marks
      BY <3>2, <3>4
    <3> QED
      BY <3>3 DEF marks, got
  <2> QED
    BY <2>2, <2>7
<1>8. OnDomain(n, DOMAIN answer)
  BY <1>1, <1>2, <1>5, <1>6
<1>9. n = answer
  BY <1>7, <1>8, SameTexts
<1> QED
  BY <1>9 DEF n

(* The tail a draft gets is taken off, and the rest is as the answer was.  *)
LEMMA TailIsRepaired ==
  ASSUME NEW answer, Sentences(answer), NEW srcs, NEW same, Undone(answer, same, srcs),
         \A i \in DOMAIN answer : \A m \in answer[i].marks : same[m] = m,
         answer # <<>>, Last(answer).says \notin DOMAIN Refusals, NEW lang
  PROVE  NormalizeV62(CorruptTail(answer, lang), srcs) = answer
<1> DEFINE N == Len(answer)
           tail == [says |-> TailIn(lang), marks |-> {}]
           draft == Append(answer, tail)
           n == NormalizeV62(draft, srcs)
<1>1. N \in Nat /\ DOMAIN answer = 1 .. N /\ answer \in Seq(Range(answer))
      /\ \A i \in DOMAIN answer : Shaped(answer[i])
  BY DEF Sentences
<1>2. /\ draft \in Seq(Range(answer) \cup {tail}) /\ Len(draft) = N + 1 /\ DOMAIN draft = 1 .. N + 1
      /\ draft[N + 1] = tail /\ \A i \in 1 .. N : draft[i] = answer[i]
      /\ N + 1 \in Nat
  BY <1>1
<1>3. draft \in Seq(Range(draft))
  <2> DEFINE M == N + 1
  <2>1. M \in Nat /\ DOMAIN draft = 1 .. M /\ draft = [i \in 1 .. M |-> draft[i]]
    <3>1. draft = [i \in 1 .. Len(draft) |-> draft[i]] /\ Len(draft) = N + 1
      BY <1>2
    <3> QED
      BY <1>2, <3>1
  <2> HIDE DEF M, draft, N, tail
  <2>2. \A i \in 1 .. M : draft[i] \in Range(draft)
    BY <2>1 DEF Range
  <2>3. draft \in [1 .. M -> Range(draft)]
    BY <2>1, <2>2
  <2> QED
    BY <2>1, <2>3
<1>4. tail.says = TailIn(lang) /\ Shaped(tail)
  BY ShapedIs
<1> HIDE DEF tail, draft
<1>5. StripRefusalTail(draft) = answer
  <2>1. Last(draft).says = TailIn(lang) /\ draft # <<>>
    BY <1>1, <1>2, <1>4 DEF Last
  <2>2. Front(draft) = SubSeq(draft, 1, N)
    BY <1>1, <1>2, <2>1 DEF Front
  <2>3. SubSeq(draft, 1, N) = [i \in 1 .. N |-> draft[i]]
    BY <1>1, <1>2
  <2>4. [i \in 1 .. N |-> draft[i]] = [i \in 1 .. N |-> answer[i]]
    BY <1>2
  <2>5. answer = [i \in 1 .. N |-> answer[i]]
    BY <1>1
  <2>6. Front(draft) = answer
    BY <2>2, <2>3, <2>4, <2>5
  <2>7. TailIn(lang) \in {"refusal_ne", "refusal_en", "refusal_roman"}
    BY DEF TailIn
  <2> QED
    BY <2>1, <2>6, <2>7, AddedTailOff
<1>6. \A part \in Range(draft) : Shaped(part)
  <2>1. \A part \in Range(draft) : \E i \in 1 .. N + 1 : part = draft[i]
    BY <1>2 DEF Range
  <2>2. \A i \in 1 .. N + 1 : i \in 1 .. N \/ i = N + 1
    BY <1>1
  <2> QED
    BY <1>1, <1>2, <1>4, <2>1, <2>2
<1>7. /\ OnDomain(n, DOMAIN answer)
      /\ \A i \in DOMAIN answer :
           /\ Shaped(n[i]) /\ n[i].says = answer[i].says
           /\ \A x : x \in n[i].marks <=> \E mark \in answer[i].marks : x \in Repair62(mark, srcs)
  BY <1>3, <1>5, <1>6, NormalizedIs DEF OnDomain
<1> HIDE DEF n, N
<1>8. ASSUME NEW i \in DOMAIN answer
      PROVE  Shaped(n[i]) /\ n[i].says = answer[i].says /\ n[i].marks = answer[i].marks
  <2>1. \A m \in answer[i].marks : Repair62(same[m], srcs) = {m} /\ same[m] = m
    BY DEF Undone
  <2>2. \A x : x \in n[i].marks <=> \E m \in answer[i].marks : x \in Repair62(same[m], srcs)
    BY <1>7, <2>1
  <2>3. n[i].marks = answer[i].marks
    <3> DEFINE marks == answer[i].marks
               got == n[i].marks
    <3>1. /\ \A x : x \in got <=> \E m \in marks : x \in Repair62(same[m], srcs)
          /\ \A m \in marks : Repair62(same[m], srcs) = {m}
      BY <2>1, <2>2
    <3> HIDE DEF marks, got
    <3>2. ASSUME NEW x, x \in got
          PROVE  x \in marks
      <4>1. PICK m \in marks : x \in Repair62(same[m], srcs)
        BY <3>1, <3>2
      <4>2. x = m
        BY <3>1, <4>1
      <4> QED
        BY <4>2
    <3>4. ASSUME NEW x, x \in marks
          PROVE  x \in got
      <4>1. x \in Repair62(same[x], srcs)
        BY <3>1, <3>4
      <4> QED
        BY <3>1, <3>4, <4>1
    <3>3. got = marks
      BY <3>2, <3>4
    <3> QED
      BY <3>3 DEF marks, got
  <2> QED
    BY <1>7, <2>3
<1>9. n = answer
  BY <1>7, <1>8, SameTexts
<1> QED
  BY <1>9 DEF n, CorruptTail, draft, tail

Rewritten(draft, answer, was) == draft = [i \in DOMAIN answer |-> [answer[i] EXCEPT !.marks = was[i]]]

(* Changing the citations of the sentences one by one, and nothing else.   *)
LEMMA SpoiledIs ==
  ASSUME NEW answer, Sentences(answer), NEW was, NEW draft, NEW spoiled,
         Rewritten(draft, answer, was),
         \A i \in DOMAIN answer : \A x : x \in was[i] <=> \E m \in answer[i].marks : x = spoiled[m]
  PROVE  Spoils(draft, answer, spoiled)
<1>1. OnDomain(draft, DOMAIN answer)
  BY DEF OnDomain, Rewritten
<1>2. ASSUME NEW i \in DOMAIN answer
      PROVE  Shaped(draft[i]) /\ draft[i].says = answer[i].says /\ draft[i].marks = was[i]
  <2>1. Marked(draft[i], answer[i], was[i])
    BY DEF Rewritten, Marked
  <2>2. Shaped(answer[i])
    BY DEF Sentences
  <2> QED
    BY <2>1, <2>2, RemarkedToo
<1>3. ASSUME NEW i \in DOMAIN answer
      PROVE  \A x : x \in draft[i].marks <=> \E m \in answer[i].marks : x = spoiled[m]
  <2>1. draft[i].marks = was[i]
    BY <1>2
  <2>2. \A x : x \in was[i] <=> \E m \in answer[i].marks : x = spoiled[m]
    OBVIOUS
  <2> QED
    BY <2>1, <2>2
<1> QED
  BY <1>1, <1>2, <1>3 DEF Spoils

(* Where there are as many URLs as sources, no two sources share one.      *)
LEMMA UrlsDiffer ==
  ASSUME NEW srcs, srcs \in Seq(Range(srcs)),
         Cardinality({srcs[i].url : i \in DOMAIN srcs}) = Len(srcs)
  PROVE  \A i, j \in DOMAIN srcs : srcs[i].url = srcs[j].url => i = j
<1> DEFINE N == Len(srcs)
           urls == {srcs[i].url : i \in DOMAIN srcs}
           of == [i \in 1 .. N |-> srcs[i].url]
<1>1. N \in Nat /\ N \in Int /\ 1 \in Int /\ DOMAIN srcs = 1 .. N
  OBVIOUS
<1>2. of \in Surjection(1 .. N, urls)
  BY <1>1 DEF Surjection
<1>3. IsFiniteSet(1 .. N) /\ Cardinality(1 .. N) = N
  <2>1. 1 \in Int /\ N \in Int /\ N \in Nat
    BY <1>1
  <2> HIDE DEF N
  <2>2. IsFiniteSet(1 .. N) /\ Cardinality(1 .. N) = IF 1 > N THEN 0 ELSE N - 1 + 1
    BY <2>1, FS_Interval
  <2> QED
    BY <2>1, <2>2
<1>4. Cardinality(urls) = N
  OBVIOUS
<1> HIDE DEF N, urls, of
<1>5. of \in Injection(1 .. N, urls)
  BY <1>2, <1>3, <1>4, FS_Surjection
<1>6. \A i, j \in 1 .. N : of[i] = of[j] => i = j
  BY <1>5 DEF Injection, IsInjective
<1>7. \A i \in 1 .. N : of[i] = srcs[i].url
  BY DEF of
<1> QED
  BY <1>1, <1>6, <1>7, ZenonT(60)

(* DraftsAreRepairable: each of the three ways a draft is spoiled is       *)
(* undone by the rule that is to undo it.                                  *)
LEMMA DraftsRepairable ==
  ASSUME \A rec \in records : Lesson(rec)
  PROVE  DraftsAreRepairable
<1> SUFFICES ASSUME NEW rec \in records, NEW row \in ControlRowsV62(rec), row.draft # <<>>,
                    Positioned(row.sources), Last(row.text).says \notin DOMAIN Refusals,
                    Cardinality({row.sources[i].url : i \in DOMAIN row.sources}) = Len(row.sources)
             PROVE  row.draft # row.text /\ NormalizeV62(row.draft, row.sources) = row.text
  BY DEF DraftsAreRepairable
<1> DEFINE srcs == rec.sources
           answer == NormalizeV62(rec.text, srcs)
           all == UNION {answer[i].marks : i \in DOMAIN answer}
<1>1. /\ Usable(rec) /\ answer # <<>> /\ ~HasBadCitation(answer) /\ row.text = answer /\ row.sources = srcs
      /\ row.draft # answer
      /\ row.draft \in {CorruptNumeric(answer), CorruptRawUrl(answer, srcs), CorruptTail(answer, rec.lang)}
  BY ControlRowIs
<1>2. Lesson(rec) /\ Valid(rec) /\ srcs \in Seq(Range(srcs))
  BY <1>1 DEF Usable, Lesson, Contract
<1>3. /\ answer \in Seq(Range(answer))
      /\ \A i \in DOMAIN answer : Shaped(answer[i])
      /\ \A i \in DOMAIN answer : \A m \in answer[i].marks : m = <<"sid", m[2]>>
  <2>1. answer \in Seq(Range(answer))
    BY <1>1, <1>2, AnswerIs
  <2>2. \A i \in DOMAIN answer : Shaped(answer[i])
    BY <1>1, <1>2, AnswerIs
  <2>3. \A i \in DOMAIN answer : \A m \in answer[i].marks : m = <<"sid", m[2]>>
    BY <1>1, <1>2, AnswerIs
  <2> QED
    BY <2>1, <2>2, <2>3
<1>4. \A i \in DOMAIN answer : \A m \in answer[i].marks : m[2] \in Nat /\ NumberInRange(m[2], srcs)
  BY <1>1, <1>2, CitesInRange
<1>5. Last(answer).says \notin DOMAIN Refusals /\ Positioned(srcs)
      /\ Cardinality({srcs[i].url : i \in DOMAIN srcs}) = Len(srcs)
  BY <1>1
<1>6. \A i \in DOMAIN answer : \A m \in answer[i].marks : m \in all
  OBVIOUS
<1>7. \A m \in all : \E i \in DOMAIN answer : m \in answer[i].marks
  OBVIOUS
<1> HIDE DEF answer, all
<1>8. \A m \in all : m = <<"sid", m[2]>> /\ m[2] \in Nat /\ NumberInRange(m[2], srcs)
  BY <1>3, <1>4, <1>7
<1>12. Sentences(answer) /\ answer # <<>>
  BY <1>1, <1>3 DEF Sentences
<1>9. NormalizeV62(CorruptNumeric(answer), srcs) = answer
  <2> DEFINE spoiled == [m \in all |-> <<"num", m[2]>>]
  <2>1. \A m \in all : Repair62(spoiled[m], srcs) = {m}
    <3> TAKE m \in all
    <3>1. spoiled[m] = <<"num", m[2]>>
      OBVIOUS
    <3>2. Repair62(<<"num", m[2]>>, srcs) = {<<"sid", m[2]>>}
      BY <1>8 DEF Repair62
    <3> QED
      BY <1>8, <3>1, <3>2
  <2> DEFINE draft == CorruptNumeric(answer)
             F(mark) == IF mark[1] = "sid" THEN {<<"num", mark[2]>>} ELSE {mark}
             was == [i \in DOMAIN answer |-> UNION {F(mark) : mark \in answer[i].marks}]
  <2>2. draft = [i \in DOMAIN answer |-> [answer[i] EXCEPT !.marks = was[i]]]
    BY DEF CorruptNumeric, OverMarks
  <2>3. ASSUME NEW i \in DOMAIN answer
        PROVE  \A x : x \in was[i] <=> \E m \in answer[i].marks : x = spoiled[m]
    <3>1. \A m \in answer[i].marks : F(m) = {spoiled[m]}
      BY <1>6, <1>8
    <3>2. \A x : x \in was[i] <=> \E m \in answer[i].marks : x \in F(m)
      OBVIOUS
    <3> HIDE DEF spoiled, F, was
    <3> QED
      BY <3>1, <3>2
  <2> HIDE DEF spoiled, draft, was
  <2>4. Spoils(draft, answer, spoiled)
    BY <1>12, <2>2, <2>3, SpoiledIs DEF Rewritten
  <2>5. Undone(answer, spoiled, srcs)
    BY <1>6, <2>1 DEF Undone
  <2>8. NormalizeV62(draft, srcs) = answer
    BY <1>5, <1>12, <2>4, <2>5, DraftIsRepaired
  <2> QED
    BY <2>8 DEF draft
<1>10. NormalizeV62(CorruptRawUrl(answer, srcs), srcs) = answer
  <2> DEFINE spoiled == [m \in all |-> IF m[2] \in DOMAIN srcs THEN <<"url", srcs[m[2]].url>> ELSE m]
             draft == CorruptRawUrl(answer, srcs)
             F(mark) == IF mark[1] = "sid" /\ mark[2] \in DOMAIN srcs
                        THEN {<<"url", srcs[mark[2]].url>>} ELSE {mark}
             was == [i \in DOMAIN answer |-> UNION {F(mark) : mark \in answer[i].marks}]
  <2>1. \A m \in all : Repair62(spoiled[m], srcs) = {m}
    <3> TAKE m \in all
    <3>1. CASE m[2] \in DOMAIN srcs
      <4>1. spoiled[m] = <<"url", srcs[m[2]].url>>
        BY <3>1
      <4>2. Repair62(<<"url", srcs[m[2]].url>>, srcs) = SidForUrl(srcs[m[2]].url, srcs)
        BY DEF Repair62
      <4>3. \A i \in DOMAIN srcs : srcs[i].url = srcs[m[2]].url => i = m[2]
        BY <1>2, <1>5, <3>1, UrlsDiffer
      <4>4. SidForUrl(srcs[m[2]].url, srcs) = {<<"sid", Ref(srcs, m[2])>>}
        BY <1>2, <3>1, <4>3, SidForUrlIs
      <4>5. Ref(srcs, m[2]) = m[2]
        BY <1>5, <3>1 DEF Positioned
      <4> QED
        BY <1>8, <4>1, <4>2, <4>4, <4>5
    <3>2. CASE m[2] \notin DOMAIN srcs
      <4>1. spoiled[m] = m /\ m[1] = "sid"
        BY <1>8, <3>2
      <4> QED
        BY <4>1 DEF Repair62
    <3> QED
      BY <3>1, <3>2
  <2>2. draft = [i \in DOMAIN answer |-> [answer[i] EXCEPT !.marks = was[i]]]
    BY DEF CorruptRawUrl, OverMarks
  <2>3. ASSUME NEW i \in DOMAIN answer
        PROVE  \A x : x \in was[i] <=> \E m \in answer[i].marks : x = spoiled[m]
    <3>1. \A m \in answer[i].marks : F(m) = {spoiled[m]}
      BY <1>6, <1>8
    <3>2. \A x : x \in was[i] <=> \E m \in answer[i].marks : x \in F(m)
      OBVIOUS
    <3> HIDE DEF spoiled, F, was
    <3> QED
      BY <3>1, <3>2
  <2> HIDE DEF spoiled, draft, was
  <2>4. Spoils(draft, answer, spoiled)
    BY <1>12, <2>2, <2>3, SpoiledIs DEF Rewritten
  <2>5. Undone(answer, spoiled, srcs)
    BY <1>6, <2>1 DEF Undone
  <2>8. NormalizeV62(draft, srcs) = answer
    BY <1>5, <1>12, <2>4, <2>5, DraftIsRepaired
  <2> QED
    BY <2>8 DEF draft
<1>11. NormalizeV62(CorruptTail(answer, rec.lang), srcs) = answer
  <2> DEFINE same == [m \in all |-> m]
  <2>1. \A m \in all : Repair62(m, srcs) = {m}
    <3> TAKE m \in all
    <3>1. m[1] = "sid"
      BY <1>8
    <3> QED
      BY <3>1 DEF Repair62
  <2>2. \A i \in DOMAIN answer : \A m \in answer[i].marks : same[m] = m
    BY <1>6
  <2> HIDE DEF same
  <2>3. Undone(answer, same, srcs)
    BY <1>6, <2>1, <2>2 DEF Undone
  <2> QED
    BY <1>5, <1>12, <2>2, <2>3, TailIsRepaired
<1> QED
  BY <1>1, <1>9, <1>10, <1>11

(* The file grows by one judged contract at a time.                        *)
LessonInv ==
  /\ IsFiniteSet(records) /\ Cardinality(records) <= RecordLimit
  /\ \A rec \in records : Lesson(rec)

(* Distilling adds one judged contract and keeps the others.               *)
LEMMA LessonInvariant == TeachingSpec => []LessonInv
<1>1. TeachingInit => LessonInv
  BY TeachingAssumption, FS_EmptySet DEF TeachingInit, LessonInv
<1>2. LessonInv /\ [TeachingNext]_records => LessonInv'
  <2> SUFFICES ASSUME LessonInv, [TeachingNext]_records PROVE LessonInv'
    OBVIOUS
  <2>1. CASE UNCHANGED records
    BY <2>1 DEF LessonInv
  <2>2. CASE Distil
    <3>1. PICK teaching \in Teachings, script \in Scripts : records' = records \cup {Judged(teaching, script)}
      BY <2>2 DEF Distil
    <3> DEFINE rec == Judged(teaching, script)
    <3>2. Lesson(rec)
      BY JudgedIs
    <3>3. Cardinality(records) < RecordLimit /\ IsFiniteSet(records) /\ RecordLimit \in Nat
      BY <2>2, TeachingAssumption DEF Distil, LessonInv
    <3> HIDE DEF rec
    <3>4. /\ IsFiniteSet(records') /\ Cardinality(records) \in Nat
          /\ Cardinality(records') \in {Cardinality(records), Cardinality(records) + 1}
      BY <3>1, <3>3, FS_AddElement, FS_CardinalityType DEF rec
    <3>5. Cardinality(records') <= RecordLimit
      BY <3>3, <3>4
    <3>6. \A r \in records' : Lesson(r)
      BY <3>1, <3>2 DEF LessonInv, rec
    <3> QED
      BY <3>4, <3>5, <3>6 DEF LessonInv
  <2> QED
    BY <2>1, <2>2 DEF TeachingNext
<1> QED
  BY <1>1, <1>2, PTL DEF TeachingSpec

(* LessonsAreSound: rows cite what their prompts list and keep to the      *)
(* domains, drafts can be repaired and every sentence of a mandatory       *)
(* citation row is cited, whatever the teacher returned.                   *)
THEOREM LessonsSound == TeachingSpec => []LessonsAreSound
<1>1. LessonInv => LessonsAreSound
  <2> SUFFICES ASSUME LessonInv PROVE LessonsAreSound
    OBVIOUS
  <2>1. \A rec \in records : Lesson(rec)
    BY DEF LessonInv
  <2>2. TeachingTypeOK
    BY <2>1 DEF LessonInv, TeachingTypeOK, Lesson, Contract
  <2> QED
    BY <2>1, <2>2, CitesListed, DraftsRepairable, SentencesCited, DomainsReach DEF LessonsAreSound
<1> QED
  BY <1>1, LessonInvariant, PTL
-----------------------------------------------------------------------------
(* Datasets. The labels rows have in each set, and the fields of a row.    *)
V6Sources == {"v6_planner_composer_contract_json", "v6_planner_composer_final_answer"}
V63Sources == {"v6_3_mandatory_sentence_citations", "v6_3_exact_value_extraction",
               "v6_3_eval_failure_repair", "v6_3_hard_negative_refusal",
               "v6_3_service_dialogue_followup"}
RowFields == {"source", "system", "about", "q", "sources", "draft", "text", "ability", "copy"}

(* What the last script keeps of free-form rows does not refuse.           *)
Decides(row) == FreeForm(row) => row.ability \notin {"refuse", "refuse_json"}

(* A row as the script that writes this part makes it.                     *)
Fits(script, part, row) ==
  /\ DOMAIN row = RowFields
  /\ script = "v6" => row.source \in V6Sources
  /\ script = "v62" => row.source \in IF part = "control" THEN V62Sources ELSE V6Sources \cup V62Sources
  /\ script = "v63" /\ part = "control" => row.source \in V63Sources /\ row.ability # "refuse_json"
  /\ script = "v64" => Decides(row)

(* A file, and the builds it and its base come from.                       *)
AFile(file) ==
  /\ file = [status |-> file.status, rows |-> file.rows, build |-> file.build, base |-> file.base]
  /\ file.status \in {"none", "whole", "short", "torn"}
  /\ file.status # "whole" => file.rows = {}
  /\ file.build \in 0 .. builds
  /\ file.base \in (0 .. file.build) \X (0 .. file.build)

FilesOK ==
  /\ files = [name \in Builders \X Parts |-> files[name]]
  /\ \A name \in Builders \X Parts : AFile(files[name])
  /\ \A script \in Builders, part \in Parts : \A row \in files[<<script, part>>].rows : Fits(script, part, row)

(* How far the script that runs has come.                                  *)
Writes == step \in {"train", "val"}
StepOK ==
  /\ contracts \subseteq Curriculum /\ builds \in Nat
  /\ builder \in Builders \cup {"none"} /\ step \in Parts \cup {"bases", "idle"} /\ writing \in BOOLEAN
  /\ step = "idle" <=> builder = "none"
  /\ builder = "v6" => Writes
  /\ step = "bases" => builder \in {"v62", "v63"}
  /\ writing => step \in Parts /\ files[<<builder, step>>].status = "short"

(* What it has ready to write fits the parts it is for.                    *)
ReadyOK ==
  /\ ready = [part \in Parts \cup {"base"} |-> ready[part]]
  /\ builder # "none" => \A part \in Parts : \A row \in ready[part] : Fits(builder, part, row)
  /\ ready.base \in (0 .. builds) \X (0 .. builds)

(* Files the running script has not written are of earlier builds.         *)
Numbers ==
  /\ builder # "none" =>
       \A script \in Builders \ {builder}, part \in Parts : files[<<script, part>>].build < builds
  /\ builder # "none" => builds > 0 /\ files[<<builder, "val">>].build < builds
  /\ step \in {"control", "bases", "train"} => files[<<builder, "train">>].build < builds

(* What it has written is what it had ready.                               *)
Written ==
  /\ step = "val" => files[<<builder, "train">>] =
                       [status |-> "whole", rows |-> ready.train, build |-> builds, base |-> ready.base]
  /\ step \in {"bases", "train", "val"} /\ builder # "v6" =>
                       files[<<builder, "control">>].rows = ready.control

(* No base it read was torn.                                               *)
NotTorn ==
  (Writes /\ builder # "v6") \/ builder = "v64" =>
     \A part \in {"train", "val"} : files[<<BasePair(builder), part>>].status # "torn"

(* Sets without a common row, and whether the two files of version 6.2     *)
(* come from one build of their base.                                      *)
Apart(a, b) == a \cap b = {}
OneBase == LET under == files[<<"v62", "train">>].base IN under[1] = under[2]
(* What is ready to be written keeps held-out rows out of training.        *)
ReadyApart ==
  /\ builder = "v6" => Apart(ready.train, ready.val)
  /\ Writes /\ builder = "v62" /\ ready.base[1] = ready.base[2] => Apart(ready.train, ready.val)
  /\ Writes /\ builder = "v63" /\ Paired("v62") /\ OneBase => Apart(ready.train, RowsOf("v62", "val"))
  /\ builder = "v64" => Apart(MessagesOf(ready.train), MessagesOf(ready.val))
  /\ (Writes /\ builder # "v6") \/ builder = "v64" =>
        MessagesOf(ready.control) \subseteq MessagesOf(ready.train \cup ready.val)
  /\ Writes /\ builder = "v63" => ready.base = <<BuildOf("v62", "train"), BuildOf("v62", "val")>>

(* The files keep them out wherever they come from one build.              *)
FilesApart ==
  /\ BuildOf("v6", "train") = BuildOf("v6", "val") => Apart(RowsOf("v6", "train"), RowsOf("v6", "val"))
  /\ Paired("v62") /\ OneBase => Apart(RowsOf("v62", "train"), RowsOf("v62", "val"))
  /\ Paired("v62") /\ OneBase
     /\ files[<<"v63", "train">>].base = <<BuildOf("v62", "train"), BuildOf("v62", "val")>>
     => Apart(RowsOf("v63", "train"), RowsOf("v62", "val"))

(* The invariant of the data sets.                                         *)
DataInv == FilesOK /\ StepOK /\ ReadyOK /\ Numbers /\ Written /\ NotTorn /\ ReadyApart /\ FilesApart
           /\ HeldOutUnseen /\ ControlsAreUsed
-----------------------------------------------------------------------------
(* Of rows with the same messages one is kept, so messages are not lost.   *)
LEMMA DedupeKeeps ==
  ASSUME NEW rows
  PROVE  /\ DedupeRows(rows) \subseteq rows
         /\ MessagesOf(DedupeRows(rows)) = MessagesOf(rows)
         /\ \A a, b \in DedupeRows(rows) : Messages(a) = Messages(b) => a = b
<1> DEFINE one(m) == CHOOSE row \in rows : Messages(row) = m
<1>1. DedupeRows(rows) = {one(m) : m \in MessagesOf(rows)}
  BY DEF DedupeRows
<1>2. \A m \in MessagesOf(rows) : one(m) \in rows /\ Messages(one(m)) = m
  BY DEF MessagesOf
<1> HIDE DEF one
<1>3. MessagesOf(DedupeRows(rows)) = {Messages(row) : row \in DedupeRows(rows)}
  BY DEF MessagesOf
<1>4. MessagesOf(DedupeRows(rows)) = MessagesOf(rows)
  BY <1>1, <1>2, <1>3
<1> QED
  BY <1>1, <1>2, <1>4

(* The fields of a row, with the number of its copy.                       *)
LEMMA TrainingRowIs ==
  ASSUME NEW source, NEW system, NEW about, NEW rec, NEW draft, NEW text, NEW ability, NEW copy
  PROVE  LET row == WithCopy(TrainingRow(source, system, about, rec, draft, text, ability), copy)
         IN  DOMAIN row = RowFields /\ row.source = source /\ row.ability = ability
<1> DEFINE r == TrainingRow(source, system, about, rec, draft, text, ability)
<1>1. /\ DOMAIN r = {"source", "system", "about", "q", "sources", "draft", "text", "ability"}
      /\ r.source = source /\ r.ability = ability
  BY DEF TrainingRow
<1>2. DOMAIN r \cup {"copy"} = RowFields
  BY <1>1 DEF RowFields
<1> HIDE DEF r
<1>3. WithCopy(r, copy) = [x \in RowFields |-> IF x = "copy" THEN copy ELSE r[x]]
  BY <1>2 DEF WithCopy, SetField
<1>4. "source" \in RowFields /\ "ability" \in RowFields
  BY DEF RowFields
<1> DEFINE w == WithCopy(r, copy)
<1>5. DOMAIN w = RowFields
  BY <1>3
<1>6. w["source"] = r["source"]
  BY <1>3, <1>4
<1>7. w["ability"] = r["ability"]
  BY <1>3, <1>4
<1> HIDE DEF w
<1>8. DOMAIN w = RowFields /\ w.source = source /\ w.ability = ability
  BY <1>1, <1>5, <1>6, <1>7
<1> QED
  BY <1>8 DEF w, r

(* The rows of each script fit the part they are written to.               *)
LEMMA FormatFits ==
  ASSUME NEW rec, NEW row \in FormatV6(rec), NEW copy PROVE Fits("v6", "train", WithCopy(row, copy))
<1>1. \E source \in V6Sources : \E system, about, text :
        row = TrainingRow(source, system, about, rec, <<>>, text, rec.ability)
  BY DEF FormatV6, V6Sources
<1> QED
  BY <1>1, TrainingRowIs DEF Fits

LEMMA ControlFits62 ==
  ASSUME NEW rec, NEW row \in ControlRowsV62(rec), NEW copy
  PROVE  Fits("v62", "control", WithCopy(row, copy))
<1>1. \E source \in V62Sources : \E system, about, draft, text :
        row = TrainingRow(source, system, about, rec, draft, text, "answer")
  <2> DEFINE answer == NormalizeV62(rec.text, rec.sources)
             drafts == {<<"v6_2_rewrite_numeric_citations", CorruptNumeric(answer)>>,
                        <<"v6_2_rewrite_raw_url_citations", CorruptRawUrl(answer, rec.sources)>>,
                        <<"v6_2_rewrite_refusal_tail", CorruptTail(answer, rec.lang)>>}
  <2>1. \A d \in drafts : d[1] \in V62Sources
    BY DEF V62Sources
  <2>2. "v6_2_source_id_final_answer" \in V62Sources
    BY DEF V62Sources
  <2>3. row \in {TrainingRow("v6_2_source_id_final_answer", "final_v62", ToAnswer("final", rec), rec, <<>>,
                             answer, "answer")}
             \cup {TrainingRow(d[1], "rewrite_v62", <<"rewrite">>, rec, d[2], answer, "answer") :
                     d \in {x \in drafts : x[2] # answer}}
    BY DEF ControlRowsV62
  <2> HIDE DEF drafts, answer
  <2> QED
    BY <2>1, <2>2, <2>3
<1> QED
  BY <1>1, TrainingRowIs DEF Fits

Made63(row) ==
  \E source \in V63Sources, ability \in {"answer", "refuse", "follow_up"} :
     \E system, about, rec, draft, text : row = TrainingRow(source, system, about, rec, draft, text, ability)

LEMMA ControlFits63 ==
  ASSUME NEW row, Made63(row), NEW copy PROVE Fits("v63", "control", WithCopy(row, copy))
<1>1. \E source \in V63Sources, ability \in {"answer", "refuse", "follow_up"} :
         \E system, about, rec, draft, text : row = TrainingRow(source, system, about, rec, draft, text, ability)
  BY DEF Made63
<1> QED
  BY <1>1, TrainingRowIs DEF Fits

(* Rows of version 6.3 are of its five kinds.                              *)
LEMMA Lessons63 ==
  ASSUME NEW rec, NEW row \in CitationRowsV63(rec) \cup ExtractionRowsV63(rec)
  PROVE  Made63(row)
<1>1. ASSUME row \in CitationRowsV63(rec) PROVE Made63(row)
  BY <1>1 DEF CitationRowsV63, Made63, V63Sources
<1>2. ASSUME row \in ExtractionRowsV63(rec) PROVE Made63(row)
  BY <1>2 DEF ExtractionRowsV63, Made63, V63Sources
<1> QED
  BY <1>1, <1>2

LEMMA Rows63 ==
  ASSUME NEW items, NEW row,
         NEW B, B = UNION {RepairRowsV63(item) : item \in Gold},
         row \in B \cup RefusalRowsV63(items) \cup DialogueRowsV63
  PROVE  Made63(row)
<1>3. ASSUME NEW item, row \in RepairRowsV63(item) PROVE Made63(row)
  BY <1>3 DEF RepairRowsV63, Made63, V63Sources
<1>4. ASSUME row \in RefusalRowsV63(items) PROVE Made63(row)
  BY <1>4 DEF RefusalRowsV63, Made63, V63Sources
<1>5. ASSUME row \in DialogueRowsV63 PROVE Made63(row)
  BY <1>5 DEF DialogueRowsV63, Made63, V63Sources
<1>7. ASSUME row \in UNION {RepairRowsV63(item) : item \in Gold} PROVE Made63(row)
  <2>1. PICK R \in {RepairRowsV63(item) : item \in Gold} : row \in R
    BY <1>7
  <2>2. PICK item \in Gold : R = RepairRowsV63(item)
    BY <2>1
  <2> QED
    BY <2>1, <2>2, <1>3
<1> HIDE DEF Made63
<1> QED
  BY <1>4, <1>5, <1>7

(* Another system prompt leaves the label and the ability of a row.        *)
LEMMA NormalizeKeeps ==
  ASSUME NEW row, DOMAIN row = RowFields
  PROVE  LET n == NormalizeSystem(row)
         IN  DOMAIN n = RowFields /\ n.source = row.source /\ n.ability = row.ability
<1>1. ASSUME NEW value PROVE LET n == [row EXCEPT !.system = value]
                             IN  DOMAIN n = RowFields /\ n.source = row.source /\ n.ability = row.ability
  BY DEF RowFields
<1>2. NormalizeSystem(row) \in {row, [row EXCEPT !.system = "extract_v64"], [row EXCEPT !.system = "composer_v64"]}
  BY DEF NormalizeSystem
<1> QED
  BY <1>1, <1>2

(* The labels of positive rows, one by one.                                *)
LEMMA PositiveNames ==
  PositiveSources = {"v6_4_positive_mandatory_sentence_citations",
                     "v6_4_positive_exact_value_extraction",
                     "v6_4_positive_eval_failure_repair",
                     "v6_4_positive_service_dialogue_followup"}
  BY DEF PositiveSources, PositiveLabel

(* What version 6.4 takes from its base decides.                           *)
LEMMA BaseFits ==
  ASSUME NEW row, NEW part \in {"train", "val"}, Fits("v62", part, row), KeepBaseRow(row), NEW other
  PROVE  Fits("v64", other, NormalizeSystem(row))
<1>1. DOMAIN row = RowFields /\ row.source \in V6Sources \cup V62Sources
  BY DEF Fits
<1>2. FreeForm(row) => row.ability \notin {"refuse", "refuse_json"}
  BY <1>1, PositiveNames DEF FreeForm, KeepBaseRow, V6Sources, V62Sources
<1> DEFINE n == NormalizeSystem(row)
<1>3. DOMAIN n = RowFields /\ n.source = row.source /\ n.ability = row.ability
  BY <1>1, NormalizeKeeps
<1> HIDE DEF n
<1>4. Decides(n)
  BY <1>2, <1>3 DEF Decides, FreeForm
<1>5. Fits("v64", other, n)
  BY <1>3, <1>4 DEF Fits
<1> QED
  BY <1>5 DEF n

(* So does what it takes of the rows of version 6.3.                       *)
LEMMA PositiveFits ==
  ASSUME NEW rows, \A row \in rows : Fits("v63", "control", row),
         NEW p \in PositiveV63(rows), NEW other
  PROVE  Fits("v64", other, NormalizeSystem(p))
<1>1. PICK r \in rows : /\ r.source \in DOMAIN PositiveLabel /\ r.ability # "refuse"
                        /\ p = [r EXCEPT !.source = PositiveLabel[@]]
  BY DEF PositiveV63
<1>2. DOMAIN r = RowFields /\ r.ability # "refuse_json"
  BY DEF Fits
<1>3. DOMAIN p = RowFields /\ p.ability = r.ability
  BY <1>1, <1>2 DEF RowFields
<1> DEFINE n == NormalizeSystem(p)
<1>4. DOMAIN n = RowFields /\ n.source = p.source /\ n.ability = p.ability
  BY <1>3, NormalizeKeeps
<1> HIDE DEF n
<1>5. Decides(n)
  BY <1>1, <1>2, <1>3, <1>4 DEF Decides
<1>6. Fits("v64", other, n)
  BY <1>4, <1>5 DEF Fits
<1> QED
  BY <1>6 DEF n

(* And what its seeds make.                                                *)
LEMMA SeedsFit ==
  ASSUME NEW row \in PlannerRowsV64 \cup DialogueRowsV64, NEW other
  PROVE  Fits("v64", other, row)
<1>1. \E source \in {"v6_4_planner_json", "v6_4_dialogue_response"},
        ability \in {"planner", "follow_up", "off_domain"} : \E system, about, rec, text, copy :
        row = WithCopy(TrainingRow(source, system, about, rec, <<>>, text, ability), copy)
  <2>1. CASE row \in PlannerRowsV64
    BY <2>1 DEF PlannerRowsV64
  <2>2. CASE row \in DialogueRowsV64
    <3> DEFINE label(k) == IF Seeds[k].decision = "ask" THEN "follow_up" ELSE "off_domain"
    <3>1. PICK k : row = WithCopy(TrainingRow("v6_4_dialogue_response", "dialogue_v64", <<"plan">>, SeedItem(k),
                                              <<>>, Question, label(k)), k)
      BY <2>2 DEF DialogueRowsV64
    <3>2. label(k) \in {"planner", "follow_up", "off_domain"}
      OBVIOUS
    <3> HIDE DEF label
    <3> QED
      BY <3>1, <3>2
  <2> QED
    BY <2>1, <2>2
<1>2. DOMAIN row = RowFields /\ row.ability \notin {"refuse", "refuse_json"}
  BY <1>1, TrainingRowIs
<1> QED
  BY <1>2 DEF Fits, Decides

(* Its hard negatives are no free-form rows.                               *)
LEMMA NegativesFit ==
  ASSUME NEW items, NEW row \in Copies(RefusalRowsV64(items), 0), NEW other
  PROVE  Fits("v64", other, row)
<1>1. \E item : row = WithCopy(TrainingRow("v6_4_answerability_hard_negative_json", "answerability_v64",
                                            <<"answerability">>, item, <<>>, <<>>, "refuse_json"), 0)
  BY DEF Copies, RefusalRowsV64
<1>2. DOMAIN row = RowFields /\ row.source = "v6_4_answerability_hard_negative_json"
  BY <1>1, TrainingRowIs
<1>3. ~FreeForm(row)
  BY <1>2, PositiveNames DEF FreeForm, V62Sources
<1> QED
  BY <1>2, <1>3 DEF Fits, Decides

(* After deduplication held-out rows share no messages with the others,    *)
(* and every control row is in one of the two.                             *)
LEMMA HeldApart ==
  ASSUME NEW rows, NEW control, NEW held, NEW all, control \subseteq all, rows = DedupeRows(all)
  PROVE  /\ Apart(MessagesOf(rows \ held), MessagesOf(rows \cap held))
         /\ MessagesOf(control) \subseteq MessagesOf((rows \ held) \cup (rows \cap held))
<1>1. /\ \A a, b \in rows : Messages(a) = Messages(b) => a = b
      /\ MessagesOf(rows) = MessagesOf(all)
  BY DedupeKeeps
<1>2. (rows \ held) \cup (rows \cap held) = rows
  OBVIOUS
<1>3. MessagesOf(control) \subseteq MessagesOf(all)
  BY DEF MessagesOf
<1> QED
  BY <1>1, <1>2, <1>3 DEF Apart, MessagesOf

(* All that version 6.4 writes fits.                                       *)
LEMMA Rows64 ==
  ASSUME FilesOK, NEW items, NEW control, control = ControlRowsV64(items),
         NEW rows, rows = DedupeRows(BaseRowsV64 \cup control), NEW other
  PROVE  /\ \A row \in control : Fits("v64", other, row)
         /\ \A row \in rows : Fits("v64", other, row)
<1>0. /\ <<"v62", "train">> \in Builders \X Parts /\ <<"v62", "val">> \in Builders \X Parts
      /\ "v62" \in Builders /\ "v63" \in Builders /\ {"train", "val", "control"} \subseteq Parts
  BY DEF Builders, Parts
<1>1. \A row \in BaseRowsV64 : Fits("v64", other, row)
  <2> SUFFICES ASSUME NEW row \in BaseRowsV64 PROVE Fits("v64", other, row)
    OBVIOUS
  <2>1. PICK r \in RowsOf("v62", "train") \cup RowsOf("v62", "val") : KeepBaseRow(r) /\ row = NormalizeSystem(r)
    BY DEF BaseRowsV64
  <2>2. PICK part \in {"train", "val"} : r \in files[<<"v62", part>>].rows
    BY <2>1 DEF RowsOf
  <2>3. Fits("v62", part, r)
    BY <1>0, <2>2 DEF FilesOK
  <2> QED
    BY <2>1, <2>3, BaseFits
<1> DEFINE all == {NormalizeSystem(row) : row \in PositiveV63(RowsOf("v63", "control"))}
                  \cup PlannerRowsV64 \cup DialogueRowsV64 \cup Copies(RefusalRowsV64(items), 0)
<1>2. \A row \in all : Fits("v64", other, row)
  <2>1. \A row \in RowsOf("v63", "control") : Fits("v63", "control", row)
    BY <1>0 DEF FilesOK, RowsOf
  <2> DEFINE positive == {NormalizeSystem(row) : row \in PositiveV63(RowsOf("v63", "control"))}
  <2>2. \A row \in positive : Fits("v64", other, row)
    BY <2>1, PositiveFits
  <2>3. all = positive \cup (PlannerRowsV64 \cup DialogueRowsV64) \cup Copies(RefusalRowsV64(items), 0)
    OBVIOUS
  <2> HIDE DEF positive, all
  <2> QED
    BY <2>2, <2>3, SeedsFit, NegativesFit
<1>3. control = DedupeRows(all)
  BY DEF ControlRowsV64
<1> HIDE DEF all
<1>4. control \subseteq all /\ rows \subseteq BaseRowsV64 \cup control
  BY <1>3, DedupeKeeps
<1> QED
  BY <1>1, <1>2, <1>4

(* What the three properties and the invariant need as long as no file     *)
(* changes. *)
LEMMA FilesStay ==
  ASSUME DataInv, UNCHANGED files, builds' \in Nat, builds' >= builds
  PROVE  FilesOK' /\ FilesApart' /\ HeldOutUnseen' /\ ControlsAreUsed'
<1>1. FilesOK'
  <2>1. \A name \in Builders \X Parts : AFile(files[name])'
    BY DEF DataInv, FilesOK, AFile, StepOK
  <2> QED
    BY <2>1 DEF DataInv, FilesOK
<1>2. FilesApart'
  BY DEF DataInv, FilesApart, BuildOf, RowsOf, Paired, OneBase
<1>3. HeldOutUnseen' /\ ControlsAreUsed'
  BY DEF DataInv, HeldOutUnseen, ControlsAreUsed, BuildOf, RowsOf, Paired
<1> QED
  BY <1>1, <1>2, <1>3

(* The first state, and the steps one by one.                              *)
LEMMA DataBegins == DatasetsInit => DataInv
<1> SUFFICES ASSUME DatasetsInit PROVE DataInv
  OBVIOUS
<1> USE DEF DatasetsInit
<1>1. \A name \in Builders \X Parts : files[name] = NoFile
  OBVIOUS
<1>2. FilesOK
  <2>1. AFile(NoFile)
    BY DEF AFile, NoFile
  <2>2. NoFile.rows = {}
    BY DEF NoFile
  <2> QED
    BY <1>1, <2>1, <2>2 DEF FilesOK
<1>3. StepOK
  BY DatasetsAssumption DEF StepOK
<1>4. ReadyOK
  BY DEF ReadyOK, NothingReady, Parts
<1>5. Numbers /\ Written /\ NotTorn /\ ReadyApart
  BY DEF Numbers, Written, NotTorn, ReadyApart, Writes, Parts
<1>6. \A script \in Builders, part \in Parts : RowsOf(script, part) = {}
  BY <1>1 DEF RowsOf, NoFile
<1>7. FilesApart /\ HeldOutUnseen
  <2> {"v6", "v62", "v63", "v64"} \subseteq Builders /\ {"train", "val"} \subseteq Parts
    BY DEF Builders, Parts
  <2>1. MessagesOf({}) = {}
    BY DEF MessagesOf
  <2> QED
    BY <1>6, <2>1 DEF FilesApart, HeldOutUnseen, Apart
<1>8. ControlsAreUsed
  BY <1>6 DEF ControlsAreUsed, MessagesOf, Builders, Parts
<1> QED
  BY <1>2, <1>3, <1>4, <1>5, <1>7, <1>8 DEF DataInv

LEMMA RedistilKeeps == ASSUME DataInv, Redistil PROVE DataInv'
<1> USE DEF Redistil
<1>1. builds' \in Nat /\ builds' >= builds
  BY DEF DataInv, StepOK
<1>2. FilesOK' /\ FilesApart' /\ HeldOutUnseen' /\ ControlsAreUsed'
  BY <1>1, FilesStay
<1>3. builder = "none"
  BY DEF DataInv, StepOK
<1>4. StepOK' /\ ReadyOK'
  BY DEF DataInv, StepOK, ReadyOK, Writes
<1>5. Numbers' /\ Written' /\ NotTorn' /\ ReadyApart'
  BY <1>3 DEF Numbers, Written, NotTorn, ReadyApart, Writes
<1> QED
  BY <1>2, <1>4, <1>5 DEF DataInv

(* A script that begins, with the rows it has ready.                       *)
LEMMA BeginKeeps ==
  ASSUME DataInv, NEW script \in Builders, Begins(script),
         step' = IF script = "v6" THEN "train" ELSE "control",
         NEW c, NEW t, NEW v, NEW b \in (0 .. builds) \X (0 .. builds),
         ready' = [control |-> c, train |-> t, val |-> v, base |-> b],
         \A row \in c : Fits(script, "control", row),
         \A row \in t : Fits(script, "train", row),
         \A row \in v : Fits(script, "val", row),
         script = "v6" => Apart(t, v),
         script = "v64" => /\ Apart(MessagesOf(t), MessagesOf(v))
                           /\ MessagesOf(c) \subseteq MessagesOf(t \cup v)
                           /\ \A part \in {"train", "val"} : files[<<"v62", part>>].status # "torn"
  PROVE  DataInv'
<1> USE DEF Begins
<1>0. /\ builds \in Nat /\ builds' = builds + 1 /\ builder' = script /\ script # "none"
      /\ step = "idle" /\ ~writing
  BY DEF DataInv, StepOK, Builders, Parts
<1>1. builds' \in Nat /\ builds' >= builds
  BY <1>0
<1>2. FilesOK' /\ FilesApart' /\ HeldOutUnseen' /\ ControlsAreUsed'
  BY <1>1, FilesStay
<1>3. StepOK'
  BY <1>0 DEF DataInv, StepOK, Writes, Parts, Builders
<1>4. /\ ready'.control = c /\ ready'.train = t /\ ready'.val = v /\ ready'.base = b
      /\ ready' = [part \in Parts \cup {"base"} |-> ready'[part]]
  BY DEF Parts
<1>5. ReadyOK'
  <2>1. \A part \in Parts : \A row \in ready'[part] : Fits(script, part, row)
    BY <1>4 DEF Parts
  <2>2. b \in (0 .. builds') \X (0 .. builds')
    BY <1>0
  <2> QED
    BY <1>0, <1>4, <2>1, <2>2 DEF ReadyOK
<1>6. Numbers'
  <2>1. \A other \in Builders, part \in Parts : files[<<other, part>>].build \in 0 .. builds
    BY DEF DataInv, FilesOK, AFile
  <2>2. \A n \in 0 .. builds : n < builds'
    BY <1>0
  <2>4. \A other \in Builders, part \in Parts : files[<<other, part>>].build < builds'
    BY <2>1, <2>2
  <2>3. "val" \in Parts /\ "train" \in Parts
    BY DEF Parts
  <2> QED
    BY <1>0, <2>4, <2>3 DEF Numbers
<1>7. Written'
  BY <1>0 DEF Written
<1>8. NotTorn'
  BY <1>0 DEF NotTorn, Writes, BasePair
<1>9. ReadyApart'
  BY <1>0, <1>4 DEF ReadyApart, Writes
<1> QED
  BY <1>2, <1>3, <1>5, <1>6, <1>7, <1>8, <1>9 DEF DataInv

LEMMA StartV6Keeps == ASSUME DataInv, StartV6 PROVE DataInv'
<1> DEFINE rows == UNION {Copies(FormatV6(rec), rec.id) : rec \in contracts}
<1>1. Begins("v6") /\ step' = "train" /\ "v6" \in Builders
  BY DEF StartV6, Builders
<1>2. PICK held : ready' = [control |-> {}, train |-> rows \ held, val |-> rows \cap held, base |-> <<0, 0>>]
  BY DEF StartV6, SplitRows, NothingReady
<1>3. \A row \in rows : Fits("v6", "train", row) /\ Fits("v6", "val", row)
  <2> SUFFICES ASSUME NEW row \in rows PROVE Fits("v6", "train", row)
    BY DEF Fits
  <2>1. PICK rec \in contracts : row \in Copies(FormatV6(rec), rec.id)
    OBVIOUS
  <2>2. PICK r \in FormatV6(rec) : row = WithCopy(r, rec.id)
    BY <2>1 DEF Copies
  <2> QED
    BY <2>2, FormatFits
<1> HIDE DEF rows
<1>4. Apart(rows \ held, rows \cap held)
  BY DEF Apart
<1>5. <<0, 0>> \in (0 .. builds) \X (0 .. builds)
  BY DEF DataInv, StepOK
<1> QED
  BY <1>1, <1>2, <1>3, <1>4, <1>5, BeginKeeps

LEMMA StartV62Keeps == ASSUME DataInv, StartV62 PROVE DataInv'
<1> DEFINE rows == UNION {Copies(ControlRowsV62(rec), rec.id) : rec \in contracts}
<1>1. Begins("v62") /\ step' = "control" /\ "v62" \in Builders
  BY DEF StartV62, Builders
<1>2. ready' = [control |-> rows, train |-> {}, val |-> {}, base |-> <<0, 0>>]
  BY DEF StartV62, NothingReady
<1>3. \A row \in rows : Fits("v62", "control", row)
  <2> SUFFICES ASSUME NEW row \in rows PROVE Fits("v62", "control", row)
    OBVIOUS
  <2>1. PICK rec \in contracts : row \in Copies(ControlRowsV62(rec), rec.id)
    OBVIOUS
  <2>2. PICK r \in ControlRowsV62(rec) : row = WithCopy(r, rec.id)
    BY <2>1 DEF Copies
  <2> QED
    BY <2>2, ControlFits62
<1> HIDE DEF rows
<1>5. <<0, 0>> \in (0 .. builds) \X (0 .. builds)
  BY DEF DataInv, StepOK
<1> QED
  BY <1>1, <1>2, <1>3, <1>5, BeginKeeps

LEMMA StartV63Keeps == ASSUME DataInv, StartV63 PROVE DataInv'
<1>1. Begins("v63") /\ step' = "control" /\ "v63" \in Builders
  BY DEF StartV63, Builders
<1> DEFINE lessons(rec) == CitationRowsV63(rec) \cup ExtractionRowsV63(rec)
           A == UNION {Copies(lessons(rec), rec.id) : rec \in contracts}
           B == UNION {RepairRowsV63(item) : item \in Gold}
           others(items) == B \cup RefusalRowsV63(items) \cup DialogueRowsV63
           all(items) == A \cup Copies(others(items), 0)
<1>2. PICK items : ready' = [control |-> DedupeRows(all(items)), train |-> {}, val |-> {}, base |-> <<0, 0>>]
  <2>1. PICK items \in SomeHardNegatives : ready' = [NothingReady EXCEPT !.control = DedupeRows(all(items))]
    BY DEF StartV63
  <2> HIDE DEF all
  <2> QED
    BY <2>1 DEF NothingReady
<1>3. \A row \in all(items) : \E r, copy : Made63(r) /\ row = WithCopy(r, copy)
  <2>1. ASSUME NEW row \in A PROVE \E r, copy : Made63(r) /\ row = WithCopy(r, copy)
    <3>1. PICK rec \in contracts : row \in Copies(lessons(rec), rec.id)
      OBVIOUS
    <3>2. PICK r \in lessons(rec) : row = WithCopy(r, rec.id)
      BY <3>1 DEF Copies
    <3> QED
      BY <3>2, Lessons63
  <2>2. ASSUME NEW row \in Copies(others(items), 0) PROVE \E r, copy : Made63(r) /\ row = WithCopy(r, copy)
    <3>1. B = UNION {RepairRowsV63(item) : item \in Gold}
      OBVIOUS
    <3> HIDE DEF B
    <3>2. PICK r \in others(items) : row = WithCopy(r, 0)
      BY <2>2 DEF Copies
    <3>3. Made63(r)
      BY <3>1, <3>2, Rows63
    <3> QED
      BY <3>2, <3>3
  <2> HIDE DEF A, others
  <2> QED
    BY <2>1, <2>2
<1> HIDE DEF A, B, all
<1> DEFINE rows == DedupeRows(all(items))
<1>4. \A row \in rows : Fits("v63", "control", row)
  <2> SUFFICES ASSUME NEW row \in rows PROVE Fits("v63", "control", row)
    OBVIOUS
  <2>1. row \in all(items)
    BY DedupeKeeps
  <2>2. PICK r, copy : Made63(r) /\ row = WithCopy(r, copy)
    BY <1>3, <2>1
  <2> QED
    BY <2>2, ControlFits63
<1>5. <<0, 0>> \in (0 .. builds) \X (0 .. builds)
  BY DEF DataInv, StepOK
<1>6. ready' = [control |-> rows, train |-> {}, val |-> {}, base |-> <<0, 0>>]
  BY <1>2
<1> HIDE DEF rows
<1> QED
  BY <1>1, <1>6, <1>4, <1>5, BeginKeeps

LEMMA StartV64Keeps == ASSUME DataInv, StartV64 PROVE DataInv'
<1>1. /\ Begins("v64") /\ step' = "control" /\ "v64" \in Builders /\ ~Torn(Inputs("v64"))
      /\ <<"v62", "train">> \in Builders \X Parts /\ <<"v62", "val">> \in Builders \X Parts
  BY DEF StartV64, Builders, Parts
<1>2. PICK items, held, control, rows :
        /\ control = ControlRowsV64(items) /\ rows = DedupeRows(BaseRowsV64 \cup control)
        /\ ready' = [control |-> control, train |-> rows \ held, val |-> rows \cap held,
                     base |-> <<BuildOf("v62", "train"), BuildOf("v62", "val")>>]
  BY DEF StartV64, SplitRows
<1> DEFINE b == <<BuildOf("v62", "train"), BuildOf("v62", "val")>>
<1>3. b \in (0 .. builds) \X (0 .. builds)
  BY <1>1 DEF DataInv, FilesOK, AFile, BuildOf
<1>4. /\ \A row \in control : Fits("v64", "control", row)
      /\ \A row \in rows : Fits("v64", "train", row) /\ Fits("v64", "val", row)
  BY <1>2, Rows64 DEF DataInv
<1>5. /\ Apart(MessagesOf(rows \ held), MessagesOf(rows \cap held))
      /\ MessagesOf(control) \subseteq MessagesOf((rows \ held) \cup (rows \cap held))
  <2> DEFINE all == BaseRowsV64 \cup control
  <2>1. control \subseteq all /\ rows = DedupeRows(all)
    BY <1>2
  <2> HIDE DEF all
  <2> QED
    BY <2>1, HeldApart
<1>6. \A part \in {"train", "val"} : files[<<"v62", part>>].status # "torn"
  BY <1>1 DEF Torn, Inputs, BasePair
<1> DEFINE t == rows \ held
           v == rows \cap held
<1>7. /\ ready' = [control |-> control, train |-> t, val |-> v, base |-> b]
      /\ \A row \in t : Fits("v64", "train", row)
      /\ \A row \in v : Fits("v64", "val", row)
      /\ Apart(MessagesOf(t), MessagesOf(v)) /\ MessagesOf(control) \subseteq MessagesOf(t \cup v)
  BY <1>2, <1>4, <1>5
<1> HIDE DEF t, v, b
<1> QED
  BY <1>1, <1>3, <1>4, <1>6, <1>7, BeginKeeps

LEMMA StopKeepsData == ASSUME DataInv, StopAtTorn PROVE DataInv'
<1> USE DEF StopAtTorn
<1>1. builds' \in Nat /\ builds' >= builds
  BY DEF DataInv, StepOK
<1>2. FilesOK' /\ FilesApart' /\ HeldOutUnseen' /\ ControlsAreUsed'
  BY <1>1, FilesStay
<1>3. StepOK'
  BY DEF DataInv, StepOK, Writes, Parts, Builders
<1>4. ReadyOK'
  BY <1>1 DEF ReadyOK, NothingReady, Parts
<1>5. Numbers' /\ Written' /\ NotTorn' /\ ReadyApart'
  BY DEF Numbers, Written, NotTorn, ReadyApart, Writes
<1> QED
  BY <1>2, <1>3, <1>4, <1>5 DEF DataInv

(* Reading the bases adds the base rows to what is ready.                  *)
LEMMA ReadBasesKeeps == ASSUME DataInv, ReadBases PROVE DataInv'
<1>0. /\ step = "bases" /\ step' = "train" /\ ~Torn(Inputs(builder))
      /\ UNCHANGED <<contracts, files, builder, writing, builds, buildKills>>
      /\ builder \in {"v62", "v63"} /\ builds \in Nat /\ ~writing
      /\ BasePair(builder) = (IF builder = "v62" THEN "v6" ELSE "v62")
  BY DEF ReadBases, DataInv, StepOK, BasePair, Parts
<1>1. /\ \A script \in {"v6", "v62", "v63"} : script \in Builders
      /\ {"train", "val", "control"} \subseteq Parts
      /\ BasePair(builder) \in Builders /\ builder \in Builders /\ builder # "none"
  BY <1>0 DEF Builders, Parts
<1> DEFINE base == BasePair(builder)
           b == <<BuildOf(base, "train"), BuildOf(base, "val")>>
           c == ready.control
<1>2. PICK held :
        ready' = [control |-> c,
                  train |-> DedupeRows(RowsOf(base, "train") \cup (c \ held)),
                  val |-> DedupeRows(RowsOf(base, "val") \cup (c \cap held)),
                  base |-> b]
  BY DEF ReadBases, SplitRows
<1> DEFINE t == DedupeRows(RowsOf(base, "train") \cup (c \ held))
           v == DedupeRows(RowsOf(base, "val") \cup (c \cap held))
<1>3. /\ t \subseteq RowsOf(base, "train") \cup (c \ held)
      /\ v \subseteq RowsOf(base, "val") \cup (c \cap held)
      /\ MessagesOf(t) = MessagesOf(RowsOf(base, "train") \cup (c \ held))
      /\ MessagesOf(v) = MessagesOf(RowsOf(base, "val") \cup (c \cap held))
  BY DedupeKeeps
<1>4. \A row \in c : Fits(builder, "control", row)
  BY <1>1 DEF DataInv, ReadyOK
<1>5. \A part \in {"train", "val"} : \A row \in RowsOf(base, part) : Fits(base, part, row)
  BY <1>1 DEF DataInv, FilesOK, RowsOf
<1> HIDE DEF t, v, c
<1>6. /\ ready'.control = c /\ ready'.train = t /\ ready'.val = v /\ ready'.base = b
      /\ ready' = [part \in Parts \cup {"base"} |-> ready'[part]]
  BY <1>2 DEF Parts, t, v
<1>7. \A part \in {"train", "val"}, row \in t \cup v : Fits(builder, part, row)
  <2> SUFFICES ASSUME NEW part \in {"train", "val"}, NEW row \in t \cup v PROVE Fits(builder, part, row)
    OBVIOUS
  <2>1. row \in c \/ \E other \in {"train", "val"} : row \in RowsOf(base, other)
    BY <1>3
  <2>2. CASE builder = "v62"
    BY <1>0, <1>4, <1>5, <2>1, <2>2 DEF Fits
  <2>3. CASE builder = "v63"
    BY <1>0, <1>4, <1>5, <2>1, <2>3 DEF Fits
  <2> QED
    BY <1>0, <2>2, <2>3
<1>8. FilesOK' /\ FilesApart' /\ HeldOutUnseen' /\ ControlsAreUsed'
  BY <1>0, FilesStay
<1>9. StepOK'
  BY <1>0 DEF DataInv, StepOK, Writes, Parts
<1>10. ReadyOK'
  <2>1. \A part \in Parts : \A row \in ready'[part] : Fits(builder, part, row)
    BY <1>4, <1>6, <1>7 DEF Parts
  <2>2. b \in (0 .. builds) \X (0 .. builds)
    BY <1>1 DEF DataInv, FilesOK, AFile, BuildOf
  <2> HIDE DEF b
  <2> QED
    BY <1>0, <1>6, <2>1, <2>2 DEF ReadyOK
<1>11. Numbers' /\ Written'
  BY <1>0, <1>6 DEF DataInv, Numbers, Written, c
<1>12. NotTorn'
  BY <1>0 DEF NotTorn, Torn, Inputs, BasePair
<1>13. ReadyApart'
  <2>0. builder' = builder /\ builder # "v6" /\ builder # "v64" /\ Writes'
    BY <1>0 DEF Writes
  <2>1. MessagesOf(c) \subseteq MessagesOf(t \cup v)
    <3>1. c \subseteq (c \ held) \cup (c \cap held)
      OBVIOUS
    <3> QED
      BY <1>3, <3>1 DEF MessagesOf
  <2>2. ASSUME builder = "v62", b[1] = b[2] PROVE Apart(t, v)
    <3>1. base = "v6"
      BY <1>0, <2>2
    <3>2. Apart(RowsOf("v6", "train"), RowsOf("v6", "val"))
      BY <2>2, <3>1 DEF DataInv, FilesApart
    <3>3. \A row \in RowsOf("v6", "train") \cup RowsOf("v6", "val") : row.source \in V6Sources
      BY <1>5, <3>1 DEF Fits
    <3>4. \A row \in c : row.source \in V62Sources
      BY <1>4, <2>2 DEF Fits
    <3>5. V6Sources \cap V62Sources = {}
      BY DEF V6Sources, V62Sources
    <3> QED
      BY <1>3, <3>1, <3>2, <3>3, <3>4, <3>5 DEF Apart
  <2>3. ASSUME builder = "v63", Paired("v62"), OneBase PROVE Apart(t, RowsOf("v62", "val"))
    <3>1. base = "v62"
      BY <1>0, <2>3
    <3>2. Apart(RowsOf("v62", "train"), RowsOf("v62", "val"))
      BY <2>3, <3>1 DEF DataInv, FilesApart
    <3>3. \A row \in RowsOf("v62", "val") : row.source \in V6Sources \cup V62Sources
      BY <1>5, <3>1 DEF Fits
    <3>4. \A row \in c : row.source \in V63Sources
      BY <1>4, <2>3 DEF Fits
    <3>5. (V6Sources \cup V62Sources) \cap V63Sources = {}
      BY DEF V6Sources, V62Sources, V63Sources
    <3> QED
      BY <1>3, <3>1, <3>2, <3>3, <3>4, <3>5 DEF Apart
  <2>4. builder = "v63" => b = <<BuildOf("v62", "train"), BuildOf("v62", "val")>>
    BY <1>0
  <2>5. /\ Paired("v62")' = Paired("v62") /\ OneBase' = OneBase
        /\ RowsOf("v62", "val")' = RowsOf("v62", "val")
        /\ BuildOf("v62", "train")' = BuildOf("v62", "train")
        /\ BuildOf("v62", "val")' = BuildOf("v62", "val")
    BY <1>0 DEF Paired, OneBase, RowsOf, BuildOf
  <2> HIDE DEF b
  <2> QED
    BY <1>6, <2>0, <2>1, <2>2, <2>3, <2>4, <2>5 DEF ReadyApart
<1> QED
  BY <1>8, <1>9, <1>10, <1>11, <1>12, <1>13 DEF DataInv

(* A write changes one file, and keeps the shape of it.                    *)
LEMMA OneFile ==
  ASSUME DataInv, step \in Parts, NEW file, files' = [files EXCEPT ![<<builder, step>>] = file]
  PROVE  /\ builder \in Builders
         /\ files' = [name \in Builders \X Parts |-> files'[name]]
         /\ files'[<<builder, step>>] = file
         /\ \A script \in Builders, part \in Parts :
              script # builder \/ part # step => files'[<<script, part>>] = files[<<script, part>>]
<1>1. builder \in Builders
  BY DEF DataInv, StepOK, Parts
<1>2. files = [name \in Builders \X Parts |-> files[name]]
  BY DEF DataInv, FilesOK
<1>3. <<builder, step>> \in Builders \X Parts
  BY <1>1
<1>4. files' = [name \in Builders \X Parts |-> IF name = <<builder, step>> THEN file ELSE files[name]]
  BY <1>2, <1>3
<1>5. \A script \in Builders, part \in Parts :
        script # builder \/ part # step => <<script, part>> # <<builder, step>>
  OBVIOUS
<1> QED
  BY <1>1, <1>3, <1>4, <1>5

LEMMA OneFileFits ==
  ASSUME DataInv, step \in Parts, NEW file, files' = [files EXCEPT ![<<builder, step>>] = file],
         UNCHANGED builds, AFile(file), \A row \in file.rows : Fits(builder, step, row)
  PROVE  FilesOK'
<1>1. \A script \in Builders, part \in Parts : AFile(files[<<script, part>>])
  BY DEF DataInv, FilesOK
<1>0. /\ builder \in Builders /\ files'[<<builder, step>>] = file
      /\ files' = [name \in Builders \X Parts |-> files'[name]]
      /\ \A script \in Builders, part \in Parts :
              script # builder \/ part # step => files'[<<script, part>>] = files[<<script, part>>]
  BY OneFile
<1>2. \A script \in Builders, part \in Parts : AFile(files'[<<script, part>>])
  BY <1>0, <1>1
<1>3. \A script \in Builders, part \in Parts : \A row \in files'[<<script, part>>].rows : Fits(script, part, row)
  <2> SUFFICES ASSUME NEW script \in Builders, NEW part \in Parts, NEW row \in files'[<<script, part>>].rows
               PROVE  Fits(script, part, row)
    OBVIOUS
  <2>1. CASE script = builder /\ part = step
    BY <1>0, <2>1
  <2>2. CASE script # builder \/ part # step
    BY <1>0, <2>2 DEF DataInv, FilesOK
  <2> QED
    BY <2>1, <2>2
<1>4. ASSUME NEW name \in Builders \X Parts PROVE AFile(files[name])'
  <2>1. PICK script \in Builders, part \in Parts : name = <<script, part>>
    OBVIOUS
  <2> QED
    BY <1>2, <2>1 DEF AFile
<1> QED
  BY <1>0, <1>3, <1>4 DEF FilesOK

(* A file that is cut to nothing or torn holds nothing that could be wrong.*)
LEMMA EmptyFile ==
  ASSUME DataInv, step \in Parts, NEW file, files' = [files EXCEPT ![<<builder, step>>] = file],
         UNCHANGED builds, AFile(file), file.status # "whole"
  PROVE  FilesOK' /\ FilesApart' /\ HeldOutUnseen' /\ ControlsAreUsed'
<1>0. file.rows = {} /\ {"control", "train", "val"} \subseteq Parts
      /\ {"v6", "v62", "v63", "v64"} \subseteq Builders
  BY DEF AFile, Parts, Builders
<1>1. FilesOK'
  BY <1>0, OneFileFits
<1>2. \A script \in Builders, part \in Parts :
        \/ files'[<<script, part>>] = files[<<script, part>>]
        \/ files'[<<script, part>>].rows = {} /\ files'[<<script, part>>].status # "whole"
  <2>1. /\ builder \in Builders /\ files'[<<builder, step>>] = file
      /\ files' = [name \in Builders \X Parts |-> files'[name]]
      /\ \A script \in Builders, part \in Parts :
              script # builder \/ part # step => files'[<<script, part>>] = files[<<script, part>>]
    BY OneFile
  <2> QED
    BY <1>0, <2>1
<1>3. \A script \in Builders : Paired(script)' =>
        \A part \in {"train", "val"} : files'[<<script, part>>] = files[<<script, part>>]
  BY <1>0, <1>2 DEF Paired
<1>4. \A script \in Builders : Paired(script)' => Paired(script)
  BY <1>3 DEF Paired, BuildOf
<1>5. FilesApart'
  <2>1. BuildOf("v6", "train")' = BuildOf("v6", "val")'
        => Apart(RowsOf("v6", "train")', RowsOf("v6", "val")')
    BY <1>0, <1>2 DEF DataInv, FilesApart, BuildOf, RowsOf, Apart
  <2>2. Paired("v62")' /\ OneBase' => Apart(RowsOf("v62", "train")', RowsOf("v62", "val")')
    BY <1>0, <1>3, <1>4 DEF DataInv, FilesApart, RowsOf, OneBase
  <2>3. ASSUME Paired("v62")', OneBase',
               files'[<<"v63", "train">>].base = <<BuildOf("v62", "train")', BuildOf("v62", "val")'>>
        PROVE  Apart(RowsOf("v63", "train")', RowsOf("v62", "val")')
    <3>1. CASE files'[<<"v63", "train">>] = files[<<"v63", "train">>]
      BY <1>0, <1>3, <1>4, <2>3, <3>1 DEF DataInv, FilesApart, RowsOf, OneBase, BuildOf
    <3>2. CASE files'[<<"v63", "train">>].rows = {}
      BY <3>2 DEF RowsOf, Apart
    <3> QED
      BY <1>0, <1>2, <3>1, <3>2
  <2> QED
    BY <2>1, <2>2, <2>3 DEF FilesApart, Apart
<1>6. HeldOutUnseen'
  BY <1>0, <1>3, <1>4 DEF DataInv, HeldOutUnseen, RowsOf
<1>7. ControlsAreUsed'
  <2> SUFFICES ASSUME NEW script \in {"v62", "v63", "v64"}, Paired(script)',
                      files'[<<script, "control">>].status = "whole",
                      BuildOf(script, "control")' = BuildOf(script, "train")'
               PROVE  MessagesOf(RowsOf(script, "control")')
                      \subseteq MessagesOf(RowsOf(script, "train")' \cup RowsOf(script, "val")')
    BY DEF ControlsAreUsed, MessagesOf
  <2>1. script \in Builders
    BY <1>0
  <2>2. \A part \in {"control", "train", "val"} : files'[<<script, part>>] = files[<<script, part>>]
    BY <1>0, <1>2, <1>3, <2>1, ZenonT(60)
  <2> QED
    BY <1>4, <2>1, <2>2 DEF DataInv, ControlsAreUsed, RowsOf, BuildOf
<1> QED
  BY <1>1, <1>5, <1>6, <1>7

(* Opening a file empties it, and its rows come in one write after it; a   *)
(* kill may tear it.                                                       *)
LEMMA TruncateKeeps == ASSUME DataInv, Truncate PROVE DataInv'
<1> USE DEF Truncate
<1> DEFINE file == [NoFile EXCEPT !.status = "short"]
<1>0. /\ step \in Parts /\ files' = [files EXCEPT ![<<builder, step>>] = file] /\ UNCHANGED builds
      /\ builds \in Nat
  BY DEF DataInv, StepOK
<1>1. AFile(file) /\ file.status = "short" /\ file.build = 0 /\ file.rows = {}
  BY <1>0 DEF AFile, NoFile
<1> HIDE DEF file
<1>2. FilesOK' /\ FilesApart' /\ HeldOutUnseen' /\ ControlsAreUsed'
  BY <1>0, <1>1, EmptyFile
<1>3. /\ builder \in Builders /\ builder # "none" /\ files'[<<builder, step>>] = file
      /\ \A script \in Builders, part \in Parts :
              script # builder \/ part # step => files'[<<script, part>>] = files[<<script, part>>]
  BY <1>0, OneFile DEF Builders
<1>4. StepOK'
  BY <1>1, <1>3 DEF DataInv, StepOK, Writes
<1>5. ReadyOK'
  BY DEF DataInv, ReadyOK
<1>6. Numbers'
  <2>1. builds > 0
    BY <1>3 DEF DataInv, Numbers
  <2>2. \A script \in Builders, part \in Parts :
           files[<<script, part>>].build < builds => files'[<<script, part>>].build < builds
    BY <1>0, <1>1, <1>3, <2>1
  <2>3. "train" \in Parts /\ "val" \in Parts
    BY DEF Parts
  <2> QED
    BY <1>3, <2>1, <2>2, <2>3 DEF DataInv, Numbers
<1>7. Written'
  <2>1. "train" \in Parts /\ "control" \in Parts
    BY DEF Parts
  <2> QED
    BY <1>0, <1>3, <2>1 DEF DataInv, Written
<1>8. NotTorn'
  <2>1. \A part \in {"train", "val"} : files'[<<BasePair(builder), part>>].status # "torn"
           \/ files'[<<BasePair(builder), part>>] = files[<<BasePair(builder), part>>]
    BY <1>1, <1>3 DEF BasePair, Builders, Parts
  <2> QED
    BY <2>1 DEF DataInv, NotTorn, Writes
<1>9. ReadyApart'
  <2>1. \A script \in Builders : Paired(script)' =>
          \A part \in {"train", "val"} : files'[<<script, part>>] = files[<<script, part>>]
    BY <1>1, <1>3 DEF Paired, Parts
  <2>2. "v62" \in Builders /\ {"train", "val"} \subseteq Parts
    BY DEF Builders, Parts
  <2>3. Paired("v62")' /\ OneBase' => Paired("v62") /\ OneBase /\ RowsOf("v62", "val")' = RowsOf("v62", "val")
    BY <2>1, <2>2 DEF Paired, OneBase, RowsOf, BuildOf
  <2>4. builder = "v63" => \A part \in {"train", "val"} : BuildOf("v62", part)' = BuildOf("v62", part)
    BY <1>3, <2>2 DEF BuildOf
  <2> QED
    BY <2>3, <2>4 DEF DataInv, ReadyApart, Writes
<1> QED
  BY <1>2, <1>4, <1>5, <1>6, <1>7, <1>8, <1>9 DEF DataInv

LEMMA KillBuildKeeps == ASSUME DataInv, KillBuild PROVE DataInv'
<1> USE DEF KillBuild
<1>0. builds \in Nat /\ builds' = builds
  BY DEF DataInv, StepOK
<1>1. FilesOK' /\ FilesApart' /\ HeldOutUnseen' /\ ControlsAreUsed'
  <2>1. CASE UNCHANGED files
    BY <1>0, <2>1, FilesStay
  <2>2. CASE writing /\ files' = [files EXCEPT ![<<builder, step>>].status = "torn"]
    <3> DEFINE old == files[<<builder, step>>]
               file == [old EXCEPT !.status = "torn"]
    <3>1. step \in Parts /\ old.status = "short" /\ builder \in Builders
      BY <2>2 DEF DataInv, StepOK, Parts
    <3>2. AFile(old)
      BY <3>1 DEF DataInv, FilesOK
    <3>3. AFile(file) /\ file.status # "whole"
      BY <3>1, <3>2 DEF AFile
    <3>4. files' = [files EXCEPT ![<<builder, step>>] = file]
      BY <2>2
    <3> HIDE DEF file, old
    <3> QED
      BY <1>0, <3>1, <3>3, <3>4, EmptyFile
  <2> QED
    BY <2>1, <2>2
<1>2. StepOK'
  BY DEF DataInv, StepOK, Writes, Parts, Builders
<1>3. ReadyOK'
  BY <1>0 DEF ReadyOK, NothingReady, Parts
<1>4. Numbers' /\ Written' /\ NotTorn' /\ ReadyApart'
  BY DEF Numbers, Written, NotTorn, ReadyApart, Writes
<1> QED
  BY <1>1, <1>2, <1>3, <1>4 DEF DataInv

(* What Fill writes, and that it leaves the other files alone.             *)
LEMMA FillWrites ==
  ASSUME DataInv, Fill
  PROVE  /\ step \in Parts /\ builder \in Builders /\ builder # "none" /\ builds \in Nat /\ UNCHANGED builds
         /\ files'[<<builder, step>>] =
              [status |-> "whole", rows |-> ready[step], build |-> builds, base |-> ready.base]
         /\ \A script \in Builders, part \in Parts :
              script # builder \/ part # step => files'[<<script, part>>] = files[<<script, part>>]
         /\ FilesOK'
         /\ {"control", "train", "val"} \subseteq Parts /\ {"v6", "v62", "v63", "v64"} \subseteq Builders
<1> USE DEF Fill
<1> DEFINE file == [status |-> "whole", rows |-> ready[step], build |-> builds, base |-> ready.base]
<1>0. /\ step \in Parts /\ files' = [files EXCEPT ![<<builder, step>>] = file] /\ UNCHANGED builds
      /\ builds \in Nat /\ builder # "none"
  BY DEF DataInv, StepOK, Parts
<1>1. AFile(file) /\ file.rows = ready[step]
  BY <1>0 DEF AFile, DataInv, ReadyOK
<1>2. \A row \in ready[step] : Fits(builder, step, row)
  BY <1>0 DEF DataInv, ReadyOK
<1> HIDE DEF file
<1>3. FilesOK'
  BY <1>0, <1>1, <1>2, OneFileFits
<1>4. /\ builder \in Builders /\ files'[<<builder, step>>] = file
      /\ \A script \in Builders, part \in Parts :
              script # builder \/ part # step => files'[<<script, part>>] = files[<<script, part>>]
  BY <1>0, OneFile
<1> QED
  BY <1>0, <1>3, <1>4 DEF file, Parts, Builders

(* A write keeps held-out rows out of training across the files.           *)
LEMMA FillKeepsApart == ASSUME DataInv, Fill PROVE FilesApart'
<1> DEFINE new == [status |-> "whole", rows |-> ready[step], build |-> builds, base |-> ready.base]
<1>0. /\ step \in Parts /\ builder \in Builders /\ builder # "none" /\ builds \in Nat /\ UNCHANGED builds
      /\ files'[<<builder, step>>] = new
      /\ \A script \in Builders, part \in Parts :
              script # builder \/ part # step => files'[<<script, part>>] = files[<<script, part>>]
      /\ {"control", "train", "val"} \subseteq Parts /\ {"v6", "v62", "v63", "v64"} \subseteq Builders
  BY FillWrites
<1>1. /\ new.status = "whole" /\ new.rows = ready[step] /\ new.build = builds /\ new.base = ready.base
  OBVIOUS
<1> HIDE DEF new
<1>2. \A script \in Builders, part \in Parts : files[<<script, part>>].build \in Nat
  BY DEF DataInv, FilesOK, AFile
<1>3. /\ step \in {"control", "train"} => files[<<builder, "val">>].build # builds
      /\ step = "train" => files'[<<builder, "val">>].build # builds
      /\ step = "val" => /\ files[<<builder, "train">>] =
                              [status |-> "whole", rows |-> ready.train, build |-> builds, base |-> ready.base]
                         /\ files'[<<builder, "train">>] = files[<<builder, "train">>]
      /\ step = "control" => \A part \in {"train", "val"} : files'[<<builder, part>>] = files[<<builder, part>>]
  BY <1>0, <1>2 DEF DataInv, Numbers, Written
<1>4. BuildOf("v6", "train")' = BuildOf("v6", "val")' => Apart(RowsOf("v6", "train")', RowsOf("v6", "val")')
  <2>1. CASE builder # "v6"
    BY <1>0, <2>1 DEF DataInv, FilesApart, BuildOf, RowsOf
  <2>2. CASE builder = "v6"
    <3>1. step \in {"train", "val"} /\ Apart(ready.train, ready.val)
      BY <2>2 DEF DataInv, StepOK, Writes, ReadyApart
    <3>2. CASE step = "train"
      BY <1>0, <1>1, <1>3, <2>2, <3>2 DEF BuildOf
    <3>3. CASE step = "val"
      BY <1>0, <1>1, <1>3, <2>2, <3>1, <3>3 DEF RowsOf
    <3> QED
      BY <3>1, <3>2, <3>3
  <2> QED
    BY <2>1, <2>2
<1>5. Paired("v62")' /\ OneBase' => Apart(RowsOf("v62", "train")', RowsOf("v62", "val")')
  <2>1. CASE builder # "v62" \/ step = "control"
    <3>1. \A part \in {"train", "val"} : files'[<<"v62", part>>] = files[<<"v62", part>>]
      BY <1>0, <1>3, <2>1
    <3> QED
      BY <3>1 DEF DataInv, FilesApart, BuildOf, RowsOf, Paired, OneBase
  <2>2. CASE builder = "v62" /\ step = "train"
    BY <1>0, <1>1, <1>3, <2>2 DEF Paired, BuildOf
  <2>3. CASE builder = "v62" /\ step = "val"
    <3>1. OneBase' => ready.base[1] = ready.base[2]
      BY <1>3, <2>3 DEF OneBase
    <3>2. ready.base[1] = ready.base[2] => Apart(ready.train, ready.val)
      BY <2>3 DEF DataInv, ReadyApart, Writes
    <3> QED
      BY <1>0, <1>1, <1>3, <2>3, <3>1, <3>2 DEF RowsOf
  <2> QED
    BY <1>0, <2>1, <2>2, <2>3 DEF Parts
<1>6. ASSUME Paired("v62")', OneBase',
             files'[<<"v63", "train">>].base = <<BuildOf("v62", "train")', BuildOf("v62", "val")'>>
      PROVE  Apart(RowsOf("v63", "train")', RowsOf("v62", "val")')
  <2>1. CASE builder = "v62" /\ step = "control"
    BY <1>0, <1>3, <1>6, <2>1 DEF DataInv, FilesApart, BuildOf, RowsOf, Paired, OneBase
  <2>2. CASE builder = "v62" /\ step = "train"
    BY <1>0, <1>1, <1>3, <2>2, <1>6 DEF Paired, BuildOf
  <2>3. CASE builder = "v62" /\ step = "val"
    <3>1. BuildOf("v62", "train")' = builds
      BY <1>3, <2>3 DEF BuildOf
    <3>2. files'[<<"v63", "train">>] = files[<<"v63", "train">>]
      BY <1>0, <2>3
    <3>3. files[<<"v63", "train">>].build < builds
      BY <1>0, <2>3 DEF DataInv, Numbers
    <3>4. files[<<"v63", "train">>].base[1] \in 0 .. files[<<"v63", "train">>].build
      BY <1>0 DEF DataInv, FilesOK, AFile
    <3> QED
      BY <1>0, <1>2, <1>6, <3>1, <3>2, <3>3, <3>4
  <2>4. CASE builder # "v62"
    <3>1. \A part \in {"train", "val"} : files'[<<"v62", part>>] = files[<<"v62", part>>]
      BY <1>0, <2>4
    <3>2. CASE builder = "v63" /\ step = "train"
      <4>1. Apart(ready.train, RowsOf("v62", "val"))
        BY <1>6, <3>1, <3>2 DEF DataInv, ReadyApart, Writes, Paired, OneBase, BuildOf
      <4> QED
        BY <1>0, <1>1, <3>1, <3>2, <4>1 DEF RowsOf
    <3>3. CASE builder # "v63" \/ step # "train"
      <4>1. files'[<<"v63", "train">>] = files[<<"v63", "train">>]
        BY <1>0, <3>3
      <4> QED
        BY <1>6, <3>1, <4>1 DEF DataInv, FilesApart, BuildOf, RowsOf, Paired, OneBase
    <3> QED
      BY <3>2, <3>3
  <2> QED
    BY <1>0, <2>1, <2>2, <2>3, <2>4 DEF Parts
<1> QED
  BY <1>4, <1>5, <1>6 DEF FilesApart, Apart

(* And within the set, with all control rows in it.                        *)
LEMMA FillKeepsSets == ASSUME DataInv, Fill PROVE HeldOutUnseen' /\ ControlsAreUsed'
<1> DEFINE new == [status |-> "whole", rows |-> ready[step], build |-> builds, base |-> ready.base]
<1>0. /\ step \in Parts /\ builder \in Builders /\ builder # "none" /\ builds \in Nat /\ UNCHANGED builds
      /\ files'[<<builder, step>>] = new
      /\ \A script \in Builders, part \in Parts :
              script # builder \/ part # step => files'[<<script, part>>] = files[<<script, part>>]
      /\ {"control", "train", "val"} \subseteq Parts /\ {"v6", "v62", "v63", "v64"} \subseteq Builders
  BY FillWrites
<1>1. /\ new.status = "whole" /\ new.rows = ready[step] /\ new.build = builds /\ new.base = ready.base
  OBVIOUS
<1> HIDE DEF new
<1>2. \A script \in Builders, part \in Parts : files[<<script, part>>].build \in Nat
  BY DEF DataInv, FilesOK, AFile
<1>3. /\ step = "train" => files'[<<builder, "val">>].build # builds
      /\ step = "control" => files'[<<builder, "train">>].build # builds
      /\ step = "val" => files'[<<builder, "train">>] =
                              [status |-> "whole", rows |-> ready.train, build |-> builds, base |-> ready.base]
      /\ step = "val" /\ builder # "v6" => files'[<<builder, "control">>].rows = ready.control
  BY <1>0, <1>2 DEF DataInv, Numbers, Written
<1>4. ASSUME NEW script \in Builders, Paired(script)', script = builder, step # "control" PROVE step = "val"
  BY <1>0, <1>1, <1>3, <1>4 DEF Paired, BuildOf, Parts
<1>5. HeldOutUnseen'
  <2> SUFFICES ASSUME Paired("v64")'
               PROVE  MessagesOf(RowsOf("v64", "train")') \cap MessagesOf(RowsOf("v64", "val")') = {}
    BY DEF HeldOutUnseen, MessagesOf
  <2>1. CASE builder = "v64" /\ step # "control"
    <3>1. step = "val"
      BY <1>0, <1>4, <2>1
    <3>2. Apart(MessagesOf(ready.train), MessagesOf(ready.val))
      BY <2>1 DEF DataInv, ReadyApart
    <3> QED
      BY <1>0, <1>1, <1>3, <2>1, <3>1, <3>2 DEF RowsOf, Apart
  <2>2. CASE builder # "v64" \/ step = "control"
    <3>1. \A part \in {"train", "val"} : files'[<<"v64", part>>] = files[<<"v64", part>>]
      BY <1>0, <2>2
    <3> QED
      BY <3>1 DEF DataInv, HeldOutUnseen, Paired, RowsOf, BuildOf
  <2> QED
    BY <2>1, <2>2
<1>6. ControlsAreUsed'
  <2> SUFFICES ASSUME NEW script \in {"v62", "v63", "v64"}, Paired(script)',
                      files'[<<script, "control">>].status = "whole",
                      BuildOf(script, "control")' = BuildOf(script, "train")'
               PROVE  MessagesOf(RowsOf(script, "control")')
                      \subseteq MessagesOf(RowsOf(script, "train")' \cup RowsOf(script, "val")')
    BY DEF ControlsAreUsed, MessagesOf
  <2>0. script \in Builders /\ script # "v6"
    BY <1>0
  <2>1. CASE builder # script
    <3>1. \A part \in {"control", "train", "val"} : files'[<<script, part>>] = files[<<script, part>>]
      BY <1>0, <2>0, <2>1
    <3> QED
      BY <3>1 DEF DataInv, ControlsAreUsed, Paired, RowsOf, BuildOf
  <2>2. CASE builder = script /\ step = "control"
    BY <1>0, <1>1, <1>3, <2>2 DEF BuildOf
  <2>3. CASE builder = script /\ step # "control"
    <3>1. step = "val"
      BY <1>4, <2>0, <2>3
    <3>2. MessagesOf(ready.control) \subseteq MessagesOf(ready.train \cup ready.val)
      BY <2>0, <2>3, <3>1 DEF DataInv, ReadyApart, Writes
    <3>3. /\ RowsOf(script, "control")' = ready.control /\ RowsOf(script, "train")' = ready.train
          /\ RowsOf(script, "val")' = ready.val
      BY <1>0, <1>1, <1>3, <2>0, <2>3, <3>1 DEF RowsOf
    <3> QED
      BY <3>2, <3>3
  <2> QED
    BY <2>1, <2>2, <2>3
<1> QED
  BY <1>5, <1>6

LEMMA FillKeeps == ASSUME DataInv, Fill PROVE DataInv'
<1> DEFINE new == [status |-> "whole", rows |-> ready[step], build |-> builds, base |-> ready.base]
<1>0. /\ step \in Parts /\ builder \in Builders /\ builder # "none" /\ builds \in Nat /\ UNCHANGED builds
      /\ files'[<<builder, step>>] = new
      /\ \A script \in Builders, part \in Parts :
              script # builder \/ part # step => files'[<<script, part>>] = files[<<script, part>>]
      /\ {"control", "train", "val"} \subseteq Parts /\ {"v6", "v62", "v63", "v64"} \subseteq Builders
      /\ FilesOK'
  BY FillWrites
<1>1. FilesApart' /\ HeldOutUnseen' /\ ControlsAreUsed'
  BY FillKeepsApart, FillKeepsSets
<1>2. /\ writing' = FALSE /\ UNCHANGED contracts
      /\ \/ step = "val" /\ step' = "idle" /\ builder' = "none" /\ ready' = NothingReady
         \/ step = "train" /\ step' = "val" /\ UNCHANGED <<builder, ready>>
         \/ step = "control" /\ builder = "v64" /\ step' = "train" /\ UNCHANGED <<builder, ready>>
         \/ step = "control" /\ builder # "v64" /\ step' = "bases" /\ UNCHANGED <<builder, ready>>
  BY <1>0 DEF Fill, StepAfter, Parts
<1>3. builder = "v6" => step # "control"
  BY DEF DataInv, StepOK, Writes
<1>4. StepOK'
  <2>0. contracts \subseteq Curriculum
    BY DEF DataInv, StepOK
  <2>1. CASE step = "val"
    BY <1>0, <1>2, <2>0, <2>1 DEF StepOK, Writes
  <2>2. CASE step = "train"
    BY <1>0, <1>2, <2>0, <2>2 DEF StepOK, Writes
  <2>3. CASE step = "control"
    BY <1>0, <1>2, <1>3, <2>0, <2>3 DEF StepOK, Writes, Builders
  <2> QED
    BY <1>2, <2>1, <2>2, <2>3
<1>5. ReadyOK'
  <2>1. CASE builder' = "none"
    BY <1>0, <1>2, <2>1 DEF ReadyOK, NothingReady, Parts
  <2>2. CASE UNCHANGED <<builder, ready>>
    BY <1>0, <2>2 DEF DataInv, ReadyOK
  <2> QED
    BY <1>2, <2>1, <2>2
<1>6. CASE step = "val"
  <2>1. Numbers' /\ Written' /\ NotTorn' /\ ReadyApart'
    BY <1>2, <1>6 DEF Numbers, Written, NotTorn, ReadyApart, Writes
  <2> QED
    BY <1>0, <1>1, <1>4, <1>5, <2>1 DEF DataInv
<1>7. CASE step # "val"
  <2>0. step' \in {"val", "train", "bases"} /\ UNCHANGED <<builder, ready>> /\ (step' = "val" <=> step = "train")
    BY <1>2, <1>7
  <2>1. Numbers'
    <3>1. \A script \in Builders \ {builder}, part \in Parts :
             files'[<<script, part>>] = files[<<script, part>>]
      BY <1>0
    <3>2. files'[<<builder, "val">>] = files[<<builder, "val">>]
      BY <1>0, <1>7
    <3>3. step = "control" => files'[<<builder, "train">>] = files[<<builder, "train">>]
      BY <1>0
    <3> QED
      BY <1>0, <1>2, <2>0, <3>1, <3>2, <3>3 DEF DataInv, Numbers
  <2>2. Written'
    <3>1. step = "train" => files'[<<builder, "control">>] = files[<<builder, "control">>]
      BY <1>0
    <3> QED
      BY <1>0, <1>2, <2>0, <3>1 DEF DataInv, Written
  <2>3. builder # "v6" => BasePair(builder) \in Builders /\ BasePair(builder) # builder
    BY <1>0 DEF BasePair
  <2>4. builder # "v6" => \A part \in {"train", "val"} :
           files'[<<BasePair(builder), part>>] = files[<<BasePair(builder), part>>]
    BY <1>0, <2>3 DEF BasePair
  <2>5. NotTorn'
    BY <1>2, <1>3, <2>0, <2>4 DEF DataInv, NotTorn, Writes
  <2>6. ReadyApart'
    <3>1. builder = "v63" => \A part \in {"train", "val"} : files'[<<"v62", part>>] = files[<<"v62", part>>]
      BY <2>4 DEF BasePair
    <3>2. Writes' => Writes \/ builder = "v64"
      BY <1>2, <2>0 DEF Writes
    <3>3. builder = "v63" => /\ Paired("v62")' = Paired("v62") /\ OneBase' = OneBase
                             /\ RowsOf("v62", "val")' = RowsOf("v62", "val")
                             /\ BuildOf("v62", "train")' = BuildOf("v62", "train")
                             /\ BuildOf("v62", "val")' = BuildOf("v62", "val")
      BY <3>1 DEF Paired, OneBase, RowsOf, BuildOf
    <3> QED
      BY <2>0, <3>2, <3>3 DEF DataInv, ReadyApart
  <2> QED
    BY <1>0, <1>1, <1>4, <1>5, <2>1, <2>2, <2>5, <2>6 DEF DataInv
<1> QED
  BY <1>6, <1>7

(* Every step keeps the invariant, and so does every behaviour.            *)
LEMMA DataStep == DataInv /\ [DatasetsNext]_datasetVars => DataInv'
<1>1. ASSUME DataInv, UNCHANGED datasetVars PROVE DataInv'
  <2> USE <1>1 DEF datasetVars
  <2>1. builds \in Nat /\ UNCHANGED <<files, builds>>
    BY DEF DataInv, StepOK
  <2>2. FilesOK' /\ FilesApart' /\ HeldOutUnseen' /\ ControlsAreUsed'
    BY <2>1, FilesStay
  <2>3. StepOK' /\ ReadyOK' /\ Numbers' /\ Written' /\ NotTorn'
    BY DEF DataInv, StepOK, ReadyOK, Numbers, Written, NotTorn, Writes
  <2>4. ReadyApart'
    BY DEF DataInv, ReadyApart, Writes, OneBase, Paired, RowsOf, BuildOf
  <2> QED
    BY <2>2, <2>3, <2>4 DEF DataInv
<1> QED
  BY <1>1, RedistilKeeps, StartV6Keeps, StartV62Keeps, StartV63Keeps, StartV64Keeps, ReadBasesKeeps,
     StopKeepsData, TruncateKeeps, FillKeeps, KillBuildKeeps DEF DatasetsNext

LEMMA DataInvariant == DatasetsSpec => []DataInv
BY DataBegins, DataStep, PTL DEF DatasetsSpec

(* What the invariant says of the sets.                                    *)
LEMMA InvSets ==
  DataInv => DatasetsTypeOK /\ HeldOutUnseen /\ HeldOutStaysOut /\ ControlsAreUsed /\ RefusalsAreJson
<1> SUFFICES ASSUME DataInv
             PROVE  DatasetsTypeOK /\ HeldOutUnseen /\ HeldOutStaysOut /\ ControlsAreUsed /\ RefusalsAreJson
  OBVIOUS
<1>0. {"control", "train", "val"} \subseteq Parts /\ {"v6", "v62", "v63", "v64"} \subseteq Builders
  BY DEF Parts, Builders
<1>1. DatasetsTypeOK
  <2>1. DOMAIN files = Builders \X Parts /\ builds \in Nat
    BY DEF DataInv, FilesOK, StepOK
  <2>2. \A name \in DOMAIN files :
          /\ files[name].status \in {"none", "whole", "short", "torn"}
          /\ files[name].status # "whole" => files[name].rows = {}
          /\ files[name].build <= builds
    BY <2>1 DEF DataInv, FilesOK, AFile
  <2> QED
    BY <2>2 DEF DataInv, StepOK, DatasetsTypeOK
<1>2. HeldOutUnseen /\ ControlsAreUsed
  BY DEF DataInv
<1>3. HeldOutStaysOut
  BY DEF DataInv, FilesApart, HeldOutStaysOut, OneBase, Apart
<1>4. RefusalsAreJson
  <2> SUFFICES ASSUME NEW part \in Parts, NEW row \in files[<<"v64", part>>].rows
               PROVE  FreeForm(row) => row.ability \notin {"refuse", "refuse_json"}
    BY DEF RefusalsAreJson, RowsOf
  <2>1. Fits("v64", part, row)
    BY <1>0 DEF DataInv, FilesOK
  <2> QED
    BY <2>1 DEF Fits, Decides
<1> QED
  BY <1>1, <1>2, <1>3, <1>4

(* No file is written from a base that is torn.                            *)
LEMMA TornStep ==
  DataInv /\ DataInv' /\ [DatasetsNext]_datasetVars =>
    [\A script \in Builders : \A part \in {"train", "val"} :
         files'[<<script, part>>] # files[<<script, part>>]
         => \A name \in {<<BasePair(script), "train">>, <<BasePair(script), "val">>} :
               name[1] # script /\ script # "v6" => files[name].status # "torn"]_datasetVars
<1> SUFFICES ASSUME DataInv, [DatasetsNext]_datasetVars,
                    NEW script \in Builders, NEW part \in {"train", "val"},
                    files'[<<script, part>>] # files[<<script, part>>], script # "v6",
                    NEW base \in {"train", "val"}
             PROVE  files[<<BasePair(script), base>>].status # "torn"
  OBVIOUS
<1>1. CASE UNCHANGED files
  BY <1>1
<1>2. CASE step \in Parts /\ \E file : files' = [files EXCEPT ![<<builder, step>>] = file]
  <2>1. PICK file : files' = [files EXCEPT ![<<builder, step>>] = file]
    BY <1>2
  <2>2. \A other \in Builders, p \in Parts :
              other # builder \/ p # step => files'[<<other, p>>] = files[<<other, p>>]
    BY <1>2, <2>1, OneFile
  <2>3. script = builder /\ part = step
    BY <2>2 DEF Parts
  <2> QED
    BY <2>3 DEF DataInv, NotTorn, Writes
<1>3. CASE Truncate
  BY <1>2, <1>3 DEF Truncate
<1>4. CASE Fill
  BY <1>2, <1>4 DEF Fill, DataInv, StepOK
<1>5. CASE KillBuild
  BY <1>1, <1>2, <1>5 DEF KillBuild, DataInv, StepOK
<1>6. CASE Redistil \/ StartV6 \/ StartV62 \/ StartV63 \/ StartV64 \/ ReadBases \/ StopAtTorn
  BY <1>1, <1>6 DEF Redistil, StartV6, StartV62, StartV63, StartV64, Begins, ReadBases, StopAtTorn
<1> QED
  BY <1>1, <1>3, <1>4, <1>5, <1>6 DEF DatasetsNext, datasetVars

(* SetsAreSound: held-out rows stay out of training, control rows are all  *)
(* used, version 6.4 asks for no free-form refusal, and no set is written  *)
(* from a torn base, whatever is rebuilt or killed between.                *)
THEOREM SetsSound == DatasetsSpec => SetsAreSound
<1>1. DatasetsSpec => [](DatasetsTypeOK /\ HeldOutUnseen /\ HeldOutStaysOut
                         /\ ControlsAreUsed /\ RefusalsAreJson)
  BY DataInvariant, InvSets, PTL
<1>2. DatasetsSpec => NothingFromTorn
  BY DataInvariant, TornStep, PTL DEF DatasetsSpec, NothingFromTorn
<1> QED
  BY <1>1, <1>2 DEF SetsAreSound
=============================================================================
