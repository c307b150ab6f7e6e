----------------------------- MODULE JobsProofs -----------------------------
(***************************************************************************)
(* Proofs about BatchJobs, for any job, number of items, starts and kills, *)
(* about Review, for any drafts, servers, threads, starts and kills, and   *)
(* about QuotaJobs, for any --n, languages, topics, replies and failures.  *)
(***************************************************************************)
EXTENDS BatchJobs, QuotaJobs, Review, FiniteSetTheorems, SequenceTheorems, PickingProofs

(***************************************************************************)
(* The jobs that append a row per item.                                    *)
(***************************************************************************)
LineSet == [item : BatchItems, kind : {"good", "error", "torn", "split"}]

(* A file in which no item has two rows that parse.                        *)
OnePer(file) ==
  \A j, k \in DOMAIN file :
    Readable(file[j]) /\ Readable(file[k]) /\ file[j].item = file[k].item => j = k

(* What a line of the file is made of.                                     *)
LEMMA LineFields == \A l \in LineSet : l.item \in BatchItems /\ l.kind \in {"good", "error", "torn", "split"}
BY DEF LineSet

(* A part of a sequence (the slices of the batching).                      *)
LEMMA Slice ==
  ASSUME NEW S, NEW s \in Seq(S), NEW a \in Nat, NEW b \in Nat, 1 <= a, a <= b + 1, b <= Len(s)
  PROVE  /\ SubSeq(s, a, b) \in Seq(S) /\ Len(SubSeq(s, a, b)) = b - a + 1
         /\ \A k \in 1 .. b - a + 1 : SubSeq(s, a, b)[k] = s[a + k - 1]
<1>1. \A k \in a .. b : s[k] \in S
  BY ElementOfSeq
<1>2. /\ SubSeq(s, a, b) \in Seq(S)
      /\ Len(SubSeq(s, a, b)) = IF a <= b THEN b - a + 1 ELSE 0
      /\ \A k \in 1 .. b - a + 1 : SubSeq(s, a, b)[k] = s[a + k - 1]
  BY <1>1, SubSeqProperties
<1> QED
  BY <1>2

(* Two sequences, one after the other (an append).                         *)
LEMMA Joined ==
  ASSUME NEW S, NEW f \in Seq(S), NEW g \in Seq(S)
  PROVE  /\ f \o g \in Seq(S) /\ Len(f \o g) = Len(f) + Len(g)
         /\ \A k \in 1 .. Len(f) : (f \o g)[k] = f[k]
         /\ \A k \in 1 .. Len(g) : (f \o g)[Len(f) + k] = g[k]
OBVIOUS

(* Where the lines of a file are after an append: d of each file's lines   *)
(* have run into one that does not parse.                                  *)
AppendedAt(new, old, more, d) ==
  /\ d \in {0, 1} /\ d <= Len(old) /\ d <= Len(more)
  /\ Len(new) = Len(old) + Len(more) - d
  /\ \A k \in 1 .. Len(old) - d : new[k] = old[k]
  /\ d = 1 => ~Readable(new[Len(old)])
  /\ \A k \in 1 + d .. Len(more) : new[Len(old) - d + k] = more[k]

(* Where open("a") leaves the old lines and the new ones.                  *)
LEMMA AppendPlaces ==
  ASSUME NEW old \in Seq(LineSet), NEW more \in Seq(LineSet), NEW isCut \in BOOLEAN,
         isCut => old # <<>>
  PROVE  /\ AppendLines(old, isCut, more) \in Seq(LineSet)
         /\ AppendedAt(AppendLines(old, isCut, more), old, more,
                       IF isCut /\ more # <<>> THEN 1 ELSE 0)
         /\ GluedBy(old, isCut, more) =
              IF isCut /\ more # <<>> THEN {old[Len(old)].item, more[1].item} ELSE {}
         /\ GluedBy(old, isCut, more) \subseteq BatchItems
<1> DEFINE n == Len(old)
           m == Len(more)
           new == AppendLines(old, isCut, more)
<1>1. n \in Nat /\ m \in Nat /\ (n = 0 <=> old = <<>>) /\ (m = 0 <=> more = <<>>)
  OBVIOUS
<1>2. CASE ~(isCut /\ more # <<>>)
  <2>1. new = old \o more /\ GluedBy(old, isCut, more) = {}
    BY <1>2 DEF AppendLines, GluedBy
  <2>2. /\ old \o more \in Seq(LineSet) /\ Len(old \o more) = n + m
        /\ \A k \in 1 .. n : (old \o more)[k] = old[k]
        /\ \A k \in 1 .. m : (old \o more)[n + k] = more[k]
    OBVIOUS
  <2> HIDE DEF new
  <2>3. AppendedAt(new, old, more, 0)
    BY <1>1, <2>1, <2>2 DEF AppendedAt
  <2> QED
    BY <1>2, <2>1, <2>2, <2>3 DEF new
<1>3. CASE isCut /\ more # <<>>
  <2> DEFINE g == Glue(Last(old), Head(more))
             f == Front(old)
             t == Tail(more)
  <2>1. new = f \o <<g>> \o t /\ GluedBy(old, isCut, more) = {Last(old).item, Head(more).item}
    BY <1>3 DEF AppendLines, GluedBy
  <2>2. n # 0 /\ m # 0 /\ n \in 1 .. n /\ 1 \in 1 .. m
    BY <1>1, <1>3
  <2>3. Last(old) = old[n] /\ Head(more) = more[1] /\ old[n] \in LineSet /\ more[1] \in LineSet
    BY <2>2 DEF Last
  <2>4. g \in LineSet /\ ~Readable(g)
    <3>1. old[n].item \in BatchItems
      BY <2>3, LineFields
    <3> QED
      BY <2>3, <3>1 DEF Glue, Line, LineSet, Readable, Rows
  <2>5. f \in Seq(LineSet) /\ Len(f) = n - 1 /\ \A k \in 1 .. n - 1 : f[k] = old[k]
    <3>1. Front(old) = SubSeq(old, 1, n - 1) /\ n - 1 \in Nat /\ 1 <= (n - 1) + 1 /\ n - 1 <= n
      BY <1>1, <2>2 DEF Front
    <3> DEFINE p == n - 1
    <3> HIDE DEF p
    <3>2. p \in Nat /\ 1 \in Nat /\ 1 <= 1 /\ 1 <= p + 1 /\ p <= Len(old)
      BY <1>1, <2>2, <3>1 DEF p
    <3>4. /\ SubSeq(old, 1, p) \in Seq(LineSet) /\ Len(SubSeq(old, 1, p)) = p - 1 + 1
          /\ \A k \in 1 .. p - 1 + 1 : SubSeq(old, 1, p)[k] = old[1 + k - 1]
      BY <3>2, Slice
    <3>5. f = SubSeq(old, 1, p) /\ p - 1 + 1 = n - 1
      BY <1>1, <3>1 DEF p
    <3> HIDE DEF f
    <3>3. \A k \in 1 .. n - 1 : 1 + k - 1 = k
      OBVIOUS
    <3> QED
      BY <3>3, <3>4, <3>5
  <2>6. t \in Seq(LineSet) /\ Len(t) = m - 1 /\ \A k \in 1 .. m - 1 : t[k] = more[k + 1]
    BY <1>1, <2>2
  <2> HIDE DEF g, f, t, new
  <2>7. /\ new \in Seq(LineSet) /\ Len(new) = n + m - 1
        /\ \A k \in 1 .. n - 1 : new[k] = f[k]
        /\ new[n] = g
        /\ \A k \in 1 .. m - 1 : new[n + k] = t[k]
    <3> DEFINE h == f \o <<g>>
    <3>1. h \in Seq(LineSet) /\ Len(h) = n /\ h[n] = g /\ \A k \in 1 .. n - 1 : h[k] = f[k]
      BY <1>1, <2>2, <2>4, <2>5
    <3>2. new = h \o t
      BY <2>1
    <3> HIDE DEF h
    <3>4. /\ h \o t \in Seq(LineSet) /\ Len(h \o t) = Len(h) + Len(t)
          /\ \A k \in 1 .. Len(h) : (h \o t)[k] = h[k]
          /\ \A k \in 1 .. Len(t) : (h \o t)[Len(h) + k] = t[k]
      <4>1. h \in Seq(LineSet) /\ t \in Seq(LineSet)
        BY <2>6, <3>1
      <4> QED
        BY <4>1, Joined
    <3>3. /\ new \in Seq(LineSet) /\ Len(new) = n + Len(t)
          /\ \A k \in 1 .. n : new[k] = h[k]
          /\ \A k \in 1 .. Len(t) : new[n + k] = t[k]
      BY <3>1, <3>2, <3>4
    <3> QED
      BY <1>1, <2>2, <2>6, <3>1, <3>3
  <2>8. \A k \in 2 .. m : new[n - 1 + k] = more[k]
    <3> SUFFICES ASSUME NEW k \in 2 .. m PROVE new[n - 1 + k] = more[k]
      OBVIOUS
    <3>1. k - 1 \in 1 .. m - 1 /\ n + (k - 1) = n - 1 + k /\ (k - 1) + 1 = k
      BY <1>1
    <3> QED
      BY <2>6, <2>7, <3>1, ZenonT(60)
  <2>9. AppendedAt(new, old, more, 1)
    BY <1>1, <2>2, <2>4, <2>5, <2>7, <2>8 DEF AppendedAt
  <2>10. old[n].item \in BatchItems /\ more[1].item \in BatchItems
    BY <2>3, LineFields
  <2> QED
    BY <1>3, <2>1, <2>3, <2>7, <2>9, <2>10 DEF new
<1> QED
  BY <1>2, <1>3

(* What an append does to the rows: none is made, none is lost but by      *)
(* running together, and none is doubled that was not there.               *)
Appended(new, old, isCut, more) ==
  /\ new \in Seq(LineSet) /\ (old # <<>> \/ more # <<>> => new # <<>>)
  /\ GluedBy(old, isCut, more) \subseteq BatchItems
  /\ \A i : RowOf(new, i) => RowOf(old, i) \/ RowOf(more, i)
  /\ \A i : RowOf(old, i) \/ RowOf(more, i) => RowOf(new, i) \/ i \in GluedBy(old, isCut, more)
  /\ \A i : RowOf(old, i) => RowOf(new, i) \/ (isCut /\ Last(old).item = i)
  /\ OnePer(old) /\ OnePer(more) /\ (\A i : ~(RowOf(old, i) /\ RowOf(more, i))) => OnePer(new)

LEMMA AppendRows ==
  ASSUME NEW old \in Seq(LineSet), NEW more \in Seq(LineSet), NEW isCut \in BOOLEAN,
         isCut => old # <<>>, NEW new, new = AppendLines(old, isCut, more)
  PROVE  Appended(new, old, isCut, more)
<1> DEFINE n == Len(old)
           m == Len(more)
           d == IF isCut /\ more # <<>> THEN 1 ELSE 0
<1>1. /\ n \in Nat /\ m \in Nat /\ DOMAIN old = 1 .. n /\ DOMAIN more = 1 .. m
      /\ (n = 0 <=> old = <<>>) /\ (m = 0 <=> more = <<>>)
  OBVIOUS
<1>2. /\ new \in Seq(LineSet) /\ AppendedAt(new, old, more, d)
      /\ GluedBy(old, isCut, more) = IF d = 1 THEN {old[n].item, more[1].item} ELSE {}
      /\ GluedBy(old, isCut, more) \subseteq BatchItems
  BY AppendPlaces
<1> HIDE DEF d, n, m
<1>3. /\ d \in {0, 1} /\ d <= n /\ d <= m /\ Len(new) = n + m - d
      /\ \A k \in 1 .. n - d : new[k] = old[k]
      /\ d = 1 => ~Readable(new[n])
      /\ \A k \in 1 + d .. m : new[n - d + k] = more[k]
  BY <1>2 DEF AppendedAt, n, m
<1>4. DOMAIN new = 1 .. n + m - d
  BY <1>2, <1>3
<1>5. ASSUME NEW k \in DOMAIN new, Readable(new[k])
      PROVE  \/ k \in DOMAIN old /\ k <= n - d /\ new[k] = old[k]
             \/ k - n + d \in DOMAIN more /\ k > n /\ new[k] = more[k - n + d]
  <2>1. k \in 1 .. n - d \/ (d = 1 /\ k = n) \/ k > n
    BY <1>1, <1>3, <1>4
  <2>2. CASE k \in 1 .. n - d
    BY <1>1, <1>3, <2>2
  <2>3. CASE k > n
    <3>1. k \in Nat /\ k <= n + m - d /\ k >= n + 1
      BY <1>1, <1>3, <1>4, <2>3
    <3>2. ASSUME d = 0 PROVE k - n + d \in 1 + d .. m /\ n - d + (k - n + d) = k /\ k - n + d \in 1 .. m
      BY <1>1, <3>1, <3>2
    <3>3. ASSUME d = 1 PROVE k - n + d \in 1 + d .. m /\ n - d + (k - n + d) = k /\ k - n + d \in 1 .. m
      BY <1>1, <3>1, <3>3
    <3>4. k - n + d \in 1 + d .. m /\ n - d + (k - n + d) = k /\ k - n + d \in 1 .. m
      BY <1>3, <3>2, <3>3
    <3> QED
      BY <1>1, <1>3, <2>3, <3>4
  <2> QED
    BY <1>3, <1>5, <2>1, <2>2, <2>3
<1>6. \A i : RowOf(new, i) => RowOf(old, i) \/ RowOf(more, i)
  BY <1>5 DEF RowOf
<1>11. d = 1 => isCut /\ old[n] = Last(old)
  BY DEF d, n, Last
<1>7. ASSUME NEW i, RowOf(old, i)
      PROVE  /\ RowOf(new, i) \/ i \in GluedBy(old, isCut, more)
             /\ RowOf(new, i) \/ (isCut /\ Last(old).item = i)
  <2>1. PICK k \in 1 .. n : Readable(old[k]) /\ old[k].item = i
    BY <1>1, <1>7 DEF RowOf
  <2>2. CASE k <= n - d
    <3>1. k \in 1 .. n - d /\ k \in DOMAIN new
      BY <1>1, <1>3, <1>4, <2>2
    <3> QED
      BY <1>3, <2>1, <3>1 DEF RowOf
  <2>3. CASE ~(k <= n - d)
    <3>1. d = 1 /\ k = n
      BY <1>1, <1>3, <2>3
    <3> QED
      BY <1>2, <1>11, <2>1, <3>1
  <2> QED
    BY <2>2, <2>3
<1>8. ASSUME NEW i, RowOf(more, i) PROVE RowOf(new, i) \/ i \in GluedBy(old, isCut, more)
  <2>1. PICK k \in 1 .. m : Readable(more[k]) /\ more[k].item = i
    BY <1>1, <1>8 DEF RowOf
  <2>2. CASE k >= 1 + d
    <3>1. k \in 1 + d .. m /\ n - d + k \in DOMAIN new
      BY <1>1, <1>3, <1>4, <2>2
    <3> QED
      BY <1>3, <2>1, <3>1 DEF RowOf
  <2>3. CASE ~(k >= 1 + d)
    <3>1. d = 1 /\ k = 1
      BY <1>1, <1>3, <2>3
    <3> QED
      BY <1>2, <2>1, <3>1
  <2> QED
    BY <2>2, <2>3
<1>9. ASSUME OnePer(old), OnePer(more), \A i : ~(RowOf(old, i) /\ RowOf(more, i))
      PROVE  OnePer(new)
  <2> SUFFICES ASSUME NEW j \in DOMAIN new, NEW k \in DOMAIN new, Readable(new[j]), Readable(new[k]),
                      new[j].item = new[k].item
               PROVE  j = k
    BY DEF OnePer
  <2>1. CASE j <= n /\ k <= n
    <3>1. j \in DOMAIN old /\ k \in DOMAIN old /\ new[j] = old[j] /\ new[k] = old[k]
      BY <1>1, <1>5, <2>1
    <3> QED
      BY <1>9, <3>1 DEF OnePer
  <2>2. CASE j > n /\ k > n
    <3>1. /\ j - n + d \in DOMAIN more /\ new[j] = more[j - n + d]
          /\ k - n + d \in DOMAIN more /\ new[k] = more[k - n + d]
      BY <1>1, <1>3, <1>5, <2>2
    <3>2. j - n + d = k - n + d
      BY <1>9, <3>1 DEF OnePer
    <3> QED
      BY <1>1, <1>3, <1>4, <3>2
  <2>3. ASSUME NEW a \in DOMAIN new, NEW b \in DOMAIN new, Readable(new[a]), Readable(new[b]),
               new[a].item = new[b].item, a <= n, b > n
        PROVE  FALSE
    <3>1. a \in DOMAIN old /\ new[a] = old[a] /\ b - n + d \in DOMAIN more /\ new[b] = more[b - n + d]
      BY <1>1, <1>3, <1>5, <2>3
    <3> QED
      BY <1>9, <2>3, <3>1 DEF RowOf
  <2>4. (j <= n \/ j > n) /\ (k <= n \/ k > n)
    BY <1>1, <1>3, <1>4
  <2> QED
    BY <2>1, <2>2, <2>3, <2>4
<1>10. old # <<>> \/ more # <<>> => new # <<>>
  BY <1>1, <1>3
<1> QED
  BY <1>2, <1>6, <1>7, <1>8, <1>9, <1>10 DEF Appended

(* What the policies allow.                                                *)
LEMMA JobFacts ==
  ASSUME NEW j \in AllJobs
  PROVE  /\ j.unit \in {1, 2} /\ j.workers \in {1, 2}
         /\ j.asks \in BOOLEAN /\ j.strict \in BOOLEAN
         /\ j.unasked \in {"append", "unlink"} /\ j.raised \in {"aborts", "counted", "row"}
         /\ j.name = "classify" \/ j.name = "grounded_eval" \/ j.name = "grounded_sft"
            \/ (j.unit = 1 /\ j.name \in {"groundedness", "distill_grounded", "anti_template",
                  "refusal", "rag_contract", "planner", "gold", "preference", "discovery"})
<1>1. CASE j = ClassifyQuestions
  BY <1>1 DEF ClassifyQuestions, PoolJob
<1>2. CASE j = GroundedEval
  BY <1>2 DEF GroundedEval, PoolJob
<1>3. CASE j = GroundedSft
  BY <1>3 DEF GroundedSft, PoolJob
<1>4. CASE j = GroundednessDrafts
  BY <1>4 DEF GroundednessDrafts, PoolJob
<1>5. CASE j = DistillGrounded
  BY <1>5 DEF DistillGrounded, SeedJob
<1>6. CASE j = AntiTemplate
  BY <1>6 DEF AntiTemplate, SeedJob
<1>7. CASE j = RefusalQueries
  BY <1>7 DEF RefusalQueries, SeedJob
<1>8. CASE j = RagContracts
  BY <1>8 DEF RagContracts, ContractJob
<1>9. CASE j = PlannerContracts
  BY <1>9 DEF PlannerContracts, ContractJob
<1>10. CASE j = GoldContracts
  BY <1>10 DEF GoldContracts, ContractJob
<1>11. CASE j = PreferencePairs
  BY <1>11 DEF PreferencePairs, ContractJob
<1>12. CASE j = SourceDiscovery
  BY <1>12 DEF SourceDiscovery, ContractJob
<1> QED
  BY <1>1, <1>2, <1>3, <1>4, <1>5, <1>6, <1>7,
     <1>8, <1>9, <1>10, <1>11, <1>12 DEF AllJobs

Kinds == {"good", "error", "none"}

(* A reply that counts has a part for each item that was sent.             *)
LEMMA ReplyParts ==
  ASSUME NEW n \in Nat \ {0}, NEW r \in BatchReplies(n), Parsed(r, n)
  PROVE  DOMAIN r.parts = 1 .. n
<1>1. r # Refused
  BY DEF Parsed, Refused
<1>5. PICK m \in {n - 1, n} : r \in {ListOf(p) : p \in [1 .. m -> Parts]}
  BY <1>1 DEF BatchReplies
<1>2. PICK p \in [1 .. m -> Parts] : r = ListOf(p)
  BY <1>5
<1>3. r.parts = p
  BY <1>2 DEF ListOf
<1>4. m \in Nat /\ p \in Seq(Parts) /\ Len(p) = m /\ DOMAIN p = 1 .. m
  BY <1>2
<1> QED
  BY <1>3, <1>4 DEF Parsed

(* A result about one item.                                                *)
LEMMA OneRow == <<"good">> \in [1 .. 1 -> Kinds] /\ <<"error">> \in [1 .. 1 -> Kinds]
                /\ <<"none">> \in [1 .. 1 -> Kinds]
BY DEF Kinds

(* A worker raises, or has a kind of row for each item it was given.       *)
LEMMA ResultKinds ==
  ASSUME NEW j \in AllJobs, NEW n \in 1 .. j.unit, NEW r \in Results(j, n)
  PROVE  r = Raised \/ r \in [1 .. n -> Kinds]
<1>1. n \in Nat \ {0} /\ (j.unit = 1 => n = 1)
  BY JobFacts
<1>2. CASE j.name = "classify"
  <2>1. PICK q \in BatchReplies(n), s \in [1 .. n -> Single] : r = ClassifyBatch(n, q, s)
    BY <1>2 DEF Results
  <2>2. \A x : ClassifyOne(x) \in Kinds
    BY DEF ClassifyOne, Kinds
  <2>3. CASE n = 1 \/ ~Parsed(q, n)
    BY <2>1, <2>2, <2>3 DEF ClassifyBatch
  <2>4. CASE ~(n = 1 \/ ~Parsed(q, n))
    <3>1. DOMAIN q.parts = 1 .. n
      BY <1>1, <2>4, ReplyParts
    <3> QED
      BY <2>1, <2>2, <2>4, <3>1 DEF ClassifyBatch, Kinds
  <2> QED
    BY <2>3, <2>4
<1>3. CASE j.name \in {"grounded_eval", "grounded_sft"}
  <2>1. PICK q \in BatchReplies(n) : r = GenerateEvalBatch(n, q)
    BY <1>3 DEF Results, GenerateSftBatch
  <2>2. CASE ~Parsed(q, n)
    BY <2>1, <2>2 DEF GenerateEvalBatch, Kinds
  <2>3. CASE Parsed(q, n)
    <3>1. DOMAIN q.parts = 1 .. n
      BY <1>1, <2>3, ReplyParts
    <3> QED
      BY <2>1, <2>3, <3>1 DEF GenerateEvalBatch, Kinds
  <2> QED
    BY <2>2, <2>3
<1>4. CASE j.name = "groundedness" /\ n = 1
  <2>1. PICK q \in BatchReplies(n) : r = ComposeOne(q)
    BY <1>4 DEF Results
  <2> QED
    BY <1>4, <2>1, OneRow DEF ComposeOne
<1>5. \A a, b, c : Chain(<<a, b>>, c) \in {<<"none">>, <<"good">>, Raised}
  BY DEF Chain
<1>6. CASE j.name \in {"distill_grounded", "anti_template", "refusal"} /\ n = 1
  <2>1. CASE j.name = "distill_grounded"
    <3>1. PICK q \in Single, s \in BOOLEAN, a \in Single : r = ProcessGrounded(q, s, a)
      BY <2>1 DEF Results
    <3> QED
      BY <1>5, <1>6, <3>1, OneRow DEF ProcessGrounded
  <2>2. CASE j.name = "anti_template"
    <3>1. PICK t \in Single, q \in Single, s \in BOOLEAN, a \in Single :
            r = ProcessAntiTemplate(t, q, s, a)
      BY <2>2 DEF Results
    <3> QED
      BY <1>5, <1>6, <3>1, OneRow DEF ProcessAntiTemplate
  <2>3. CASE j.name = "refusal"
    <3>1. PICK q \in Single, s \in BOOLEAN, a \in Single : r = ProcessRefusal(q, s, a)
      BY <2>3 DEF Results
    <3> QED
      BY <1>5, <1>6, <3>1, OneRow DEF ProcessRefusal
  <2> QED
    BY <1>6, <2>1, <2>2, <2>3
<1>7. CASE j.name \in {"rag_contract", "planner", "gold", "preference", "discovery"} /\ n = 1
  <2>1. \A s : Attempt(s) \in {<<"error">>, <<"good">>}
    BY DEF Attempt
  <2>2. \A a, b, c : /\ DistillContract(a, b) \in {<<"error">>, <<"good">>}
                     /\ DistillPlan(a, b, c) \in {<<"error">>, <<"good">>}
                     /\ DistillGold(a, b) \in {<<"error">>, <<"good">>}
                     /\ DistillPair(a) \in {<<"error">>, <<"good">>}
                     /\ Discover(a, b) \in {<<"error">>, <<"good">>}
    BY <2>1 DEF DistillContract, DistillPlan, DistillGold, DistillPair, Discover
  <2>3. CASE j.name = "rag_contract"
    BY <1>7, <2>2, <2>3, OneRow DEF Results
  <2>4. CASE j.name = "planner"
    BY <1>7, <2>2, <2>4, OneRow DEF Results
  <2>5. CASE j.name = "gold"
    BY <1>7, <2>2, <2>5, OneRow DEF Results
  <2>6. CASE j.name = "preference"
    BY <1>7, <2>2, <2>6, OneRow DEF Results
  <2>7. CASE j.name = "discovery"
    BY <1>7, <2>2, <2>7, OneRow DEF Results
  <2> QED
    BY <1>7, <2>3, <2>4, <2>5, <2>6, <2>7
<1> QED
  BY <1>1, <1>2, <1>3, <1>4, <1>6, <1>7, JobFacts

(* A unit of work: some items, each once, no more than a call takes.       *)
IsUnit(b, size) ==
  /\ b \in Seq(BatchItems) /\ Len(b) \in 1 .. size
  /\ \A i, j \in 1 .. Len(b) : b[i] = b[j] => i = j

ItemsOf(b) == {b[k] : k \in 1 .. Len(b)}

(* A result is written as one line for each item that has a row.           *)
LEMMA LinesWritten ==
  ASSUME NEW b \in Seq(BatchItems), \A i, j \in 1 .. Len(b) : b[i] = b[j] => i = j,
         NEW rows \in [1 .. Len(b) -> Kinds], NEW more, more = LinesOf(b, rows)
  PROVE  /\ more \in Seq(LineSet) /\ OnePer(more)
         /\ \A i : RowOf(more, i) => i \in ItemsOf(b)
         /\ \A k \in 1 .. Len(b) : rows[k] \in Rows => RowOf(more, b[k])
<1> DEFINE n == Len(b)
           S == [item : BatchItems, kind : Kinds]
           text == [k \in 1 .. n |-> Line(b[k], rows[k])]
           K == {k \in 1 .. n : rows[k] \in Rows}
<1>1. n \in Nat /\ \A k \in 1 .. n : b[k] \in BatchItems /\ rows[k] \in Kinds
  OBVIOUS
<1>2. more = Picked(text, K)
  BY DEF LinesOf
<1>3. text \in Seq(S) /\ Len(text) = n /\ \A k \in 1 .. n : text[k] = Line(b[k], rows[k])
  BY <1>1 DEF Line
<1>4. K \cap (1 .. n) = K
  OBVIOUS
<1> HIDE DEF text, S, K
<1>5. more \in Seq(S) /\ \E pos : PlacesOf(pos, more, text, K)
  BY <1>2, <1>3, <1>4, PickedPlaces
<1>6. PICK pos : PlacesOf(pos, more, text, K)
  BY <1>5
<1> DEFINE m == Len(more)
<1>7. m \in Nat /\ DOMAIN more = 1 .. m /\ more \in [1 .. m -> S]
  BY <1>5
<1> HIDE DEF m
<1>8. /\ \A i \in 1 .. m : pos[i] \in K
      /\ \A i, j \in 1 .. m : pos[i] = pos[j] => i = j
      /\ \A i \in 1 .. m : more[i] = text[pos[i]]
      /\ \A k \in K : \E i \in 1 .. m : pos[i] = k
  BY <1>6 DEF PlacesOf, m
<1>9. \A k \in K : k \in 1 .. n /\ rows[k] \in Rows
  BY DEF K
<1>10. \A i \in 1 .. m : /\ pos[i] \in 1 .. n /\ more[i].item = b[pos[i]]
                         /\ more[i].kind = rows[pos[i]] /\ more[i].kind \in Rows /\ more[i] \in LineSet
  <2> SUFFICES ASSUME NEW i \in 1 .. m
               PROVE  /\ pos[i] \in 1 .. n /\ more[i].item = b[pos[i]]
                      /\ more[i].kind = rows[pos[i]] /\ more[i].kind \in Rows /\ more[i] \in LineSet
    OBVIOUS
  <2>1. pos[i] \in 1 .. n /\ rows[pos[i]] \in Rows /\ more[i] = Line(b[pos[i]], rows[pos[i]])
    BY <1>3, <1>8, <1>9
  <2> QED
    BY <1>1, <2>1 DEF Line, LineSet, Rows
<1>11. more \in Seq(LineSet)
  <2>1. more \in [1 .. m -> LineSet]
    BY <1>7, <1>10
  <2> QED
    BY <1>7, <2>1
<1>12. OnePer(more)
  <2> SUFFICES ASSUME NEW i \in DOMAIN more, NEW k \in DOMAIN more, more[i].item = more[k].item
               PROVE  i = k
    BY DEF OnePer
  <2>1. i \in 1 .. m /\ k \in 1 .. m
    BY <1>7
  <2>2. pos[i] \in 1 .. n /\ pos[k] \in 1 .. n /\ b[pos[i]] = b[pos[k]]
    BY <1>10, <2>1
  <2>3. pos[i] = pos[k]
    BY <2>2
  <2> QED
    BY <1>8, <2>1, <2>3
<1>13. \A i : RowOf(more, i) => i \in ItemsOf(b)
  BY <1>7, <1>10 DEF RowOf, ItemsOf, n
<1>14. ASSUME NEW k \in 1 .. n, rows[k] \in Rows PROVE RowOf(more, b[k])
  <2>1. PICK i \in 1 .. m : pos[i] = k
    BY <1>8, <1>14 DEF K
  <2> QED
    BY <1>7, <1>10, <2>1 DEF RowOf, Readable
<1> QED
  BY <1>11, <1>12, <1>13, <1>14

(* The items left to do, each once.                                        *)
LEMMA LeftItems ==
  ASSUME NEW done, NEW left, left = Picked([i \in BatchItems |-> i], BatchItems \ done)
  PROVE  /\ left \in Seq(BatchItems) /\ ItemsOf(left) = BatchItems \ done
         /\ \A i, j \in 1 .. Len(left) : left[i] = left[j] => i = j
<1> DEFINE text == [i \in BatchItems |-> i]
           K == BatchItems \ done
<1>1. /\ ItemCount \in Nat /\ text \in Seq(BatchItems) /\ Len(text) = ItemCount
      /\ \A k \in BatchItems : text[k] = k
  BY BatchAssumption DEF BatchItems
<1>2. K \cap (1 .. Len(text)) = K /\ K \subseteq BatchItems
  BY <1>1 DEF BatchItems
<1> HIDE DEF text, K
<1>3. left = Picked(text, K)
  BY DEF text, K
<1>4. left \in Seq(BatchItems) /\ \E pos : PlacesOf(pos, left, text, K)
  BY <1>1, <1>2, <1>3, PickedPlaces
<1>5. PICK pos : PlacesOf(pos, left, text, K)
  BY <1>4
<1>6. /\ \A i \in 1 .. Len(left) : pos[i] \in K /\ left[i] = text[pos[i]]
      /\ \A i, j \in 1 .. Len(left) : pos[i] = pos[j] => i = j
      /\ \A k \in K : \E i \in 1 .. Len(left) : pos[i] = k
  BY <1>5 DEF PlacesOf
<1>7. \A i \in 1 .. Len(left) : left[i] = pos[i]
  BY <1>1, <1>2, <1>6
<1>8. ItemsOf(left) = K
  <2>1. \A x \in ItemsOf(left) : x \in K
    <3> SUFFICES ASSUME NEW i \in 1 .. Len(left) PROVE left[i] \in K
      BY DEF ItemsOf
    <3>1. left[i] = pos[i] /\ pos[i] \in K
      BY <1>6, <1>7
    <3> QED
      BY <3>1
  <2>2. ASSUME NEW x \in K PROVE x \in ItemsOf(left)
    <3>1. PICK i \in 1 .. Len(left) : pos[i] = x
      BY <1>6
    <3> QED
      BY <1>7, <3>1 DEF ItemsOf
  <2> QED
    BY <2>1, <2>2
<1>9. \A i, j \in 1 .. Len(left) : left[i] = left[j] => i = j
  <2> SUFFICES ASSUME NEW i \in 1 .. Len(left), NEW j \in 1 .. Len(left), left[i] = left[j]
               PROVE  i = j
    OBVIOUS
  <2>1. left[i] = pos[i] /\ left[j] = pos[j]
    BY <1>7
  <2>2. pos[i] = pos[j]
    BY <2>1
  <2>3. \A p, q \in 1 .. Len(left) : pos[p] = pos[q] => p = q
    BY <1>6
  <2> QED
    BY <2>2, <2>3
<1> QED
  BY <1>4, <1>8, <1>9 DEF K

(* The first and the last place of the k-th call's items.                  *)
FirstPlace(k, size) == (k - 1) * size + 1
LastPlace(k, size, n) == IF k * size < n THEN k * size ELSE n

(* The places of the calls: none is empty or too long, they are in order   *)
(* and leave nothing out.                                                  *)
LEMMA Cuts ==
  ASSUME NEW n \in Nat, NEW size \in {1, 2}, NEW K, K = (n + size - 1) \div size
  PROVE  /\ K \in Nat
         /\ \A k \in 1 .. K : /\ FirstPlace(k, size) \in Nat /\ LastPlace(k, size, n) \in Nat
                              /\ 1 <= FirstPlace(k, size) /\ FirstPlace(k, size) <= LastPlace(k, size, n)
                              /\ LastPlace(k, size, n) <= n
                              /\ LastPlace(k, size, n) - FirstPlace(k, size) + 1 <= size
         /\ \A k, l \in 1 .. K : k < l => LastPlace(k, size, n) < FirstPlace(l, size)
         /\ \A p \in 1 .. n : \E k \in 1 .. K : FirstPlace(k, size) <= p /\ p <= LastPlace(k, size, n)
<1>1. CASE size = 1
  <2>1. K = n /\ \A k \in Nat : FirstPlace(k, size) = k /\ (k <= n => LastPlace(k, size, n) = k)
    BY <1>1 DEF FirstPlace, LastPlace
  <2> QED
    BY <1>1, <2>1
<1>2. CASE size = 2
  <2>1. K = (n + 1) \div 2
    BY <1>2
  <2>2. K \in Nat /\ 2 * K <= n + 1 /\ n <= 2 * K
    BY <2>1
  <2>3. \A k \in Nat : /\ FirstPlace(k, size) = 2 * k - 1
                       /\ LastPlace(k, size, n) = IF 2 * k < n THEN 2 * k ELSE n
    BY <1>2 DEF FirstPlace, LastPlace
  <2>4. \A k \in 1 .. K : /\ FirstPlace(k, size) \in Nat /\ LastPlace(k, size, n) \in Nat
                          /\ 1 <= FirstPlace(k, size) /\ FirstPlace(k, size) <= LastPlace(k, size, n)
                          /\ LastPlace(k, size, n) <= n
                          /\ LastPlace(k, size, n) - FirstPlace(k, size) + 1 <= size
    BY <1>2, <2>2, <2>3
  <2>5. \A k, l \in 1 .. K : k < l => LastPlace(k, size, n) < FirstPlace(l, size)
    BY <2>2, <2>3
  <2>6. ASSUME NEW p \in 1 .. n
        PROVE  \E k \in 1 .. K : FirstPlace(k, size) <= p /\ p <= LastPlace(k, size, n)
    <3> DEFINE k == (p + 1) \div 2
    <3>1. k \in Nat /\ 2 * k <= p + 1 /\ p <= 2 * k
      OBVIOUS
    <3> HIDE DEF k
    <3>2. k \in 1 .. K
      BY <2>2, <3>1
    <3>3. FirstPlace(k, size) <= p /\ p <= LastPlace(k, size, n)
      BY <2>3, <3>1
    <3> QED
      BY <3>2, <3>3
  <2> QED
    BY <2>2, <2>4, <2>5, <2>6
<1> QED
  BY <1>1, <1>2

(* A run's calls take every item that is left, each of them once.          *)
CutInto(bs, left, size) ==
  /\ bs \in Seq(Seq(BatchItems))
  /\ \A k \in 1 .. Len(bs) : IsUnit(bs[k], size) /\ ItemsOf(bs[k]) \subseteq ItemsOf(left)
  /\ \A k, l \in 1 .. Len(bs) : k # l => ItemsOf(bs[k]) \cap ItemsOf(bs[l]) = {}
  /\ \A x \in ItemsOf(left) : \E k \in 1 .. Len(bs) : x \in ItemsOf(bs[k])

LEMMA BatchesCut ==
  ASSUME NEW left \in Seq(BatchItems), \A i, j \in 1 .. Len(left) : left[i] = left[j] => i = j,
         NEW size \in {1, 2}, NEW bs, bs = Batches(left, size)
  PROVE  CutInto(bs, left, size)
<1> DEFINE n == Len(left)
           K == (n + size - 1) \div size
           lo(k) == FirstPlace(k, size)
           hi(k) == LastPlace(k, size, n)
<1>0. n \in Nat
  OBVIOUS
<1>1. /\ K \in Nat
      /\ \A k \in 1 .. K : /\ lo(k) \in Nat /\ hi(k) \in Nat /\ 1 <= lo(k) /\ lo(k) <= hi(k)
                           /\ hi(k) <= n /\ hi(k) - lo(k) + 1 <= size
      /\ \A k, l \in 1 .. K : k < l => hi(k) < lo(l)
      /\ \A p \in 1 .. n : \E k \in 1 .. K : lo(k) <= p /\ p <= hi(k)
  <2> HIDE DEF n
  <2> QED
    BY <1>0, Cuts
<1>2. bs = [k \in 1 .. K |-> SubSeq(left, lo(k), hi(k))]
  BY DEF Batches, FirstPlace, LastPlace
<1> HIDE DEF K, lo, hi
<1>3. \A k \in 1 .. K : bs[k] = SubSeq(left, lo(k), hi(k))
  BY <1>2
<1>4. ASSUME NEW k \in 1 .. K
      PROVE  /\ bs[k] \in Seq(BatchItems) /\ Len(bs[k]) = hi(k) - lo(k) + 1
             /\ \A i \in 1 .. Len(bs[k]) : /\ bs[k][i] = left[lo(k) + i - 1]
                                           /\ lo(k) + i - 1 \in 1 .. n /\ lo(k) + i - 1 <= hi(k)
  <2> DEFINE a == lo(k)
             b == hi(k)
  <2>1. a \in Nat /\ b \in Nat /\ 1 <= a /\ a <= b /\ a <= b + 1 /\ b <= n
    BY <1>0, <1>1
  <2>2. bs[k] = SubSeq(left, a, b)
    BY <1>3
  <2> HIDE DEF a, b
  <2>3. /\ SubSeq(left, a, b) \in Seq(BatchItems) /\ Len(SubSeq(left, a, b)) = b - a + 1
        /\ \A i \in 1 .. b - a + 1 : SubSeq(left, a, b)[i] = left[a + i - 1]
    BY <2>1, Slice
  <2>4. \A i \in 1 .. b - a + 1 : a + i - 1 \in 1 .. n /\ a + i - 1 <= b
    BY <1>0, <2>1
  <2>5. /\ bs[k] \in Seq(BatchItems) /\ Len(bs[k]) = b - a + 1
        /\ \A i \in 1 .. Len(bs[k]) : /\ bs[k][i] = left[a + i - 1]
                                      /\ a + i - 1 \in 1 .. n /\ a + i - 1 <= b
    BY <2>2, <2>3, <2>4
  <2> QED
    BY <2>5 DEF a, b
<1>5. DOMAIN bs = 1 .. K /\ bs \in Seq(Seq(BatchItems)) /\ Len(bs) = K
  <2>1. bs \in [1 .. K -> Seq(BatchItems)]
    BY <1>2, <1>3, <1>4
  <2> QED
    BY <1>1, <2>1
<1>6. ASSUME NEW k \in 1 .. K, NEW x \in ItemsOf(bs[k])
      PROVE  \E p \in 1 .. n : lo(k) <= p /\ p <= hi(k) /\ x = left[p]
  <2>1. PICK i \in 1 .. Len(bs[k]) : x = bs[k][i]
    BY DEF ItemsOf
  <2>2. lo(k) \in Nat /\ i \in Nat /\ 1 <= i
    BY <1>1, <1>4
  <2>3. lo(k) <= lo(k) + i - 1
    BY <2>2
  <2> QED
    BY <1>4, <2>1, <2>3
<1>7. ASSUME NEW k \in 1 .. K PROVE IsUnit(bs[k], size) /\ ItemsOf(bs[k]) \subseteq ItemsOf(left)
  <2>1. Len(bs[k]) \in 1 .. size
    BY <1>1, <1>4, SMTT(30)
  <2>2. ASSUME NEW i \in 1 .. Len(bs[k]), NEW j \in 1 .. Len(bs[k]), bs[k][i] = bs[k][j]
        PROVE  i = j
    <3>1. left[lo(k) + i - 1] = left[lo(k) + j - 1]
      BY <1>4, <2>2
    <3>2. lo(k) + i - 1 \in 1 .. n /\ lo(k) + j - 1 \in 1 .. n
      BY <1>4
    <3>3. lo(k) + i - 1 = lo(k) + j - 1
      BY <3>1, <3>2
    <3>4. lo(k) \in Nat /\ i \in Nat /\ j \in Nat
      BY <1>1, <1>4
    <3> QED
      BY <3>3, <3>4
  <2>3. ItemsOf(bs[k]) \subseteq ItemsOf(left)
    <3> SUFFICES ASSUME NEW x \in ItemsOf(bs[k]) PROVE x \in ItemsOf(left)
      OBVIOUS
    <3>1. PICK p \in 1 .. n : x = left[p]
      BY <1>6
    <3> QED
      BY <3>1 DEF ItemsOf
  <2> QED
    BY <1>4, <2>1, <2>2, <2>3 DEF IsUnit
<1>8. ASSUME NEW k \in 1 .. K, NEW l \in 1 .. K, k < l
      PROVE  ItemsOf(bs[k]) \cap ItemsOf(bs[l]) = {}
  <2> SUFFICES ASSUME NEW x \in ItemsOf(bs[k]), x \in ItemsOf(bs[l]) PROVE FALSE
    OBVIOUS
  <2>1. PICK p \in 1 .. n : lo(k) <= p /\ p <= hi(k) /\ x = left[p]
    BY <1>6
  <2>2. PICK q \in 1 .. n : lo(l) <= q /\ q <= hi(l) /\ x = left[q]
    BY <1>6
  <2>3. p = q
    BY <2>1, <2>2
  <2>4. hi(k) < lo(l) /\ hi(k) \in Nat /\ lo(l) \in Nat /\ p \in Nat
    BY <1>1, <1>8
  <2> QED
    BY <2>1, <2>2, <2>3, <2>4
<1>9. ASSUME NEW k \in 1 .. K, NEW l \in 1 .. K, k # l
      PROVE  ItemsOf(bs[k]) \cap ItemsOf(bs[l]) = {}
  <2>1. k < l \/ l < k
    BY <1>1, <1>9
  <2> QED
    BY <1>8, <2>1
<1>10. ASSUME NEW x \in ItemsOf(left) PROVE \E k \in 1 .. K : x \in ItemsOf(bs[k])
  <2>1. PICK p \in 1 .. n : x = left[p]
    BY DEF ItemsOf
  <2>2. PICK k \in 1 .. K : lo(k) <= p /\ p <= hi(k)
    BY <1>1
  <2> DEFINE i == p - lo(k) + 1
  <2>3. lo(k) \in Nat /\ hi(k) \in Nat /\ p \in Nat
    BY <1>1
  <2>4. i \in 1 .. hi(k) - lo(k) + 1 /\ lo(k) + i - 1 = p
    BY <2>2, <2>3
  <2>5. i \in 1 .. Len(bs[k]) /\ bs[k][i] = left[p]
    BY <1>4, <2>4
  <2> QED
    BY <2>1, <2>5 DEF ItemsOf
<1> QED
  BY <1>5, <1>7, <1>9, <1>10 DEF CutInto

(***************************************************************************)
(* The invariant.  Units are what waits, what the workers have and what    *)
(* main has not seen; an item is due while it is in one of them.           *)
(***************************************************************************)
Units == {todo[k] : k \in 1 .. Len(todo)} \cup busy \cup {r.batch : r \in ready}

RowTypes ==
  /\ job \in AllJobs
  /\ lines \in Seq(LineSet)
  /\ cut \in BOOLEAN /\ (cut => lines # <<>>)
  /\ phase \in {"off", "run", "failing"}
  /\ phase = "off" => todo = <<>> /\ busy = {} /\ ready = {}
  /\ phase # "off" => report = "none"
  /\ todo \in Seq(Seq(BatchItems))
  /\ IsFiniteSet(busy) /\ Cardinality(busy) <= job.workers
  /\ \A r \in ready : r.rows = Raised \/ r.rows \in [1 .. Len(r.batch) -> Kinds]
  /\ failed \subseteq BatchItems /\ glued \subseteq BatchItems
  /\ starts \in 0 .. StartLimit /\ kills \in 0 .. KillLimit
  /\ doubled \in BOOLEAN
  /\ report \in {"none", "ended", "raised", "killed", "unreadable"}

(* No item is in two units, and no unit in two places.                     *)
UnitsApart ==
  /\ \A u \in Units : IsUnit(u, job.unit)
  /\ \A u, v \in Units : u # v => ItemsOf(u) \cap ItemsOf(v) = {}

UnitsOnce ==
  /\ \A k, l \in 1 .. Len(todo) : todo[k] = todo[l] => k = l
  /\ \A k \in 1 .. Len(todo) : todo[k] \notin busy
  /\ \A r \in ready : r.batch \notin busy /\ \A k \in 1 .. Len(todo) : r.batch # todo[k]
  /\ \A r, s \in ready : r.batch = s.batch => r = s

(* What is due has no row, unless the file was appended to unread.         *)
RowsOnce == ~doubled => OnePer(lines) /\ \A u \in Units : \A i \in ItemsOf(u) : ~RowOf(lines, i)

(* What has no row is due, or has failed or run into a cut line.           *)
RowsDue ==
  phase = "run" => \A i \in BatchItems : \/ RowOf(lines, i) \/ i \in failed \cup glued
                                         \/ \E u \in Units : i \in ItemsOf(u)

RowsInv == RowTypes /\ UnitsApart /\ UnitsOnce /\ RowsOnce /\ RowsDue /\ EndedIsComplete

(* No job has run.                                                         *)
LEMMA RowsStarts == BatchInit => RowsInv
<1> SUFFICES ASSUME BatchInit PROVE RowsInv
  OBVIOUS
<1> USE DEF BatchInit
<1>1. job \in AllJobs
  BY JobsAssumption
<1>2. Units = {}
  BY DEF Units
<1>3. RowTypes
  <2>1. 0 <= job.workers
    <3>1. job.workers \in {1, 2}
      BY <1>1, JobFacts
    <3> QED
      BY <3>1
  <2>2. IsFiniteSet(busy) /\ Cardinality(busy) <= job.workers
    BY <2>1, FS_EmptySet
  <2>3. starts \in 0 .. StartLimit /\ kills \in 0 .. KillLimit
    BY BatchAssumption
  <2>4. lines \in Seq(LineSet) /\ todo \in Seq(Seq(BatchItems))
    OBVIOUS
  <2> QED
    BY <1>1, <2>2, <2>3, <2>4 DEF RowTypes
<1>4. UnitsApart /\ UnitsOnce
  BY <1>2 DEF UnitsApart, UnitsOnce
<1>5. RowsOnce
  BY <1>2 DEF RowsOnce, OnePer
<1>6. RowsDue /\ EndedIsComplete
  BY DEF RowsDue, EndedIsComplete
<1> QED
  BY <1>3, <1>4, <1>5, <1>6 DEF RowsInv

(* Where the units, the file and what is due stay, so do the last three.   *)
LEMMA RowsKept ==
  ASSUME RowsInv, RowTypes', UnitsOnce', Units' = Units, job' = job, lines' = lines,
         doubled' = doubled, failed' = failed, glued' = glued, phase' = phase,
         phase' = "off" => report' # "ended"
  PROVE  RowsInv'
<1>1. UnitsApart'
  BY DEF RowsInv, UnitsApart
<1>2. RowsOnce'
  BY DEF RowsInv, RowsOnce
<1>3. RowsDue'
  BY DEF RowsInv, RowsDue
<1>4. EndedIsComplete'
  BY DEF RowTypes, EndedIsComplete
<1> QED
  BY <1>1, <1>2, <1>3, <1>4 DEF RowsInv

(* A worker takes a unit.                                                  *)
LEMMA TakeStep == RowsInv /\ Take => RowsInv'
<1> SUFFICES ASSUME RowsInv, Take PROVE RowsInv'
  OBVIOUS
<1> DEFINE n == Len(todo)
           h == Head(todo)
<1>1. RowTypes /\ UnitsOnce
  BY DEF RowsInv
<1>2. todo \in Seq(Seq(BatchItems)) /\ todo # <<>>
  BY <1>1 DEF RowTypes, Take
<1>3. /\ n \in Nat /\ n # 0 /\ h = todo[1] /\ 1 \in 1 .. n
      /\ todo' \in Seq(Seq(BatchItems)) /\ Len(todo') = n - 1
      /\ \A k \in 1 .. n - 1 : todo'[k] = todo[k + 1] /\ k + 1 \in 1 .. n /\ k + 1 # 1
  BY <1>2 DEF Take
<1>4. busy' = busy \cup {h} /\ ready' = ready
  BY DEF Take
<1> HIDE DEF n, h
<1>5. DOMAIN todo = 1 .. n /\ Len(todo) = n
  BY <1>2 DEF n
<1>6. \A k \in 1 .. n : k = 1 \/ (k - 1 \in 1 .. n - 1 /\ (k - 1) + 1 = k)
  BY <1>3
<1>7. {todo'[k] : k \in 1 .. Len(todo')} \cup {h} = {todo[k] : k \in 1 .. Len(todo)}
  <2>1. \A x \in {todo'[k] : k \in 1 .. n - 1} : x \in {todo[k] : k \in 1 .. n}
    BY <1>3
  <2>2. ASSUME NEW k \in 1 .. n PROVE todo[k] = h \/ todo[k] \in {todo'[l] : l \in 1 .. n - 1}
    <3>1. CASE k = 1
      BY <1>3, <3>1
    <3>2. CASE k - 1 \in 1 .. n - 1 /\ (k - 1) + 1 = k
      <4>1. todo'[k - 1] = todo[k]
        BY <1>3, <3>2
      <4> QED
        BY <3>2, <4>1
    <3> QED
      BY <1>6, <3>1, <3>2
  <2> QED
    BY <1>3, <1>5, <2>1, <2>2
<1>8. Units' = Units
  BY <1>4, <1>7 DEF Units
<1>9. UnitsOnce'
  <2>1. \A k, l \in 1 .. n : todo[k] = todo[l] => k = l
    BY <1>1, <1>5 DEF UnitsOnce
  <2>2. \A k, l \in 1 .. n - 1 : todo'[k] = todo'[l] => k = l
    <3> SUFFICES ASSUME NEW k \in 1 .. n - 1, NEW l \in 1 .. n - 1, todo'[k] = todo'[l] PROVE k = l
      OBVIOUS
    <3>1. k + 1 = l + 1
      BY <1>3, <2>1
    <3> QED
      BY <1>3, <3>1
  <2>3. \A k \in 1 .. n - 1 : todo'[k] \notin busy /\ todo'[k] # h
    <3> SUFFICES ASSUME NEW k \in 1 .. n - 1 PROVE todo'[k] \notin busy /\ todo'[k] # h
      OBVIOUS
    <3>1. todo'[k] = todo[k + 1] /\ k + 1 \in 1 .. n /\ k + 1 # 1
      BY <1>3
    <3>2. todo[k + 1] # todo[1]
      BY <1>3, <2>1, <3>1
    <3> QED
      BY <1>1, <1>3, <1>5, <3>1, <3>2 DEF UnitsOnce
  <2>4. \A r \in ready : /\ r.batch \notin busy /\ r.batch # h
                         /\ \A k \in 1 .. n - 1 : r.batch # todo'[k]
    BY <1>1, <1>3, <1>5 DEF UnitsOnce
  <2> QED
    BY <1>1, <1>3, <1>4, <2>2, <2>3, <2>4 DEF UnitsOnce
<1>10. RowTypes'
  <2>1. h \notin busy
    BY <1>1, <1>3, <1>5 DEF UnitsOnce
  <2>2. IsFiniteSet(busy') /\ Cardinality(busy') = Cardinality(busy) + 1
    BY <1>1, <1>4, <2>1, FS_AddElement DEF RowTypes
  <2>3. Cardinality(busy) \in Nat /\ job.workers \in Nat
    <3>1. job.workers \in {1, 2}
      BY <1>1, JobFacts DEF RowTypes
    <3> QED
      BY <1>1, <3>1, FS_CardinalityType DEF RowTypes
  <2>4. Cardinality(busy') <= job.workers
    BY <2>2, <2>3 DEF Take
  <2> QED
    BY <1>1, <1>3, <2>2, <2>4 DEF RowTypes, Take
<1> QED
  BY <1>1, <1>8, <1>9, <1>10, RowsKept DEF Take, RowTypes

(* A worker has a result.                                                  *)
LEMMA FinishStep == RowsInv /\ Finish => RowsInv'
<1> SUFFICES ASSUME RowsInv, Finish PROVE RowsInv'
  OBVIOUS
<1>1. RowTypes /\ UnitsOnce /\ UnitsApart
  BY DEF RowsInv
<1>10. PICK b \in busy : \E x \in Results(job, Len(b)) :
        busy' = busy \ {b} /\ ready' = ready \cup {[batch |-> b, rows |-> x]}
  BY DEF Finish
<1>2. PICK x \in Results(job, Len(b)) :
        busy' = busy \ {b} /\ ready' = ready \cup {[batch |-> b, rows |-> x]}
  BY <1>10
<1> DEFINE new == [batch |-> b, rows |-> x]
<1>3. new.batch = b /\ new.rows = x /\ ready' = ready \cup {new}
  BY <1>2
<1> HIDE DEF new
<1>4. x = Raised \/ x \in [1 .. Len(b) -> Kinds]
  <2>1. IsUnit(b, job.unit)
    BY <1>1 DEF UnitsApart, Units
  <2> QED
    BY <1>1, <2>1, ResultKinds DEF IsUnit, RowTypes
<1>5. {r.batch : r \in ready'} = {r.batch : r \in ready} \cup {b}
  BY <1>3
<1>6. Units' = Units
  BY <1>2, <1>5 DEF Units, Finish
<1>7. UnitsOnce'
  <2>1. \A r \in ready : r.batch # b /\ r.batch \notin busy'
    BY <1>1, <1>2 DEF UnitsOnce
  <2>2. \A k \in 1 .. Len(todo) : todo[k] # b /\ todo[k] \notin busy'
    BY <1>1, <1>2 DEF UnitsOnce
  <2>3. b \notin busy' /\ todo' = todo
    BY <1>2 DEF Finish
  <2> QED
    BY <1>1, <1>3, <2>1, <2>2, <2>3 DEF UnitsOnce
<1>8. RowTypes'
  <2>1. IsFiniteSet(busy') /\ Cardinality(busy') <= Cardinality(busy)
    <3>1. busy' \subseteq busy
      BY <1>2
    <3> QED
      BY <1>1, <3>1, FS_Subset DEF RowTypes
  <2>2. Cardinality(busy) \in Nat /\ Cardinality(busy') \in Nat /\ job.workers \in Nat
    <3>1. job.workers \in {1, 2}
      BY <1>1, JobFacts DEF RowTypes
    <3> QED
      BY <1>1, <2>1, <3>1, FS_CardinalityType DEF RowTypes
  <2>3. Cardinality(busy') <= job.workers
    BY <1>1, <2>1, <2>2 DEF RowTypes
  <2>4. \A r \in ready' : r.rows = Raised \/ r.rows \in [1 .. Len(r.batch) -> Kinds]
    BY <1>1, <1>3, <1>4 DEF RowTypes
  <2> QED
    BY <1>1, <2>1, <2>3, <2>4 DEF RowTypes, Finish
<1> QED
  BY <1>1, <1>6, <1>7, <1>8, RowsKept DEF Finish, RowTypes

(* Main sees a result: its unit is not due any more.                       *)
LEMMA SeenUnits ==
  ASSUME RowsInv, NEW r \in ready, ready' = ready \ {r}, UNCHANGED <<job, todo, busy>>
  PROVE  /\ Units' \subseteq Units /\ r.batch \in Units /\ r.batch \notin Units'
         /\ \A u \in Units : u = r.batch \/ u \in Units'
         /\ UnitsApart' /\ UnitsOnce'
<1>1. UnitsOnce /\ UnitsApart
  BY DEF RowsInv
<1>2. {x.batch : x \in ready'} \subseteq {x.batch : x \in ready}
  OBVIOUS
<1>3. r.batch \notin {x.batch : x \in ready'}
  BY <1>1 DEF UnitsOnce
<1>4. \A u \in {x.batch : x \in ready} : u = r.batch \/ u \in {x.batch : x \in ready'}
  OBVIOUS
<1>5. r.batch \notin busy /\ r.batch \notin {todo[k] : k \in 1 .. Len(todo)}
  BY <1>1 DEF UnitsOnce
<1>6. Units' \subseteq Units /\ r.batch \in Units
  BY <1>2 DEF Units
<1>7. r.batch \notin Units' /\ \A u \in Units : u = r.batch \/ u \in Units'
  BY <1>3, <1>4, <1>5 DEF Units
<1>8. UnitsApart'
  BY <1>1, <1>6 DEF UnitsApart
<1>9. UnitsOnce'
  BY <1>1 DEF UnitsOnce
<1> QED
  BY <1>6, <1>7, <1>8, <1>9

(* A unit is of items of the input, each once.                             *)
LEMMA UnitItems ==
  ASSUME RowsInv, NEW u \in Units
  PROVE  /\ u \in Seq(BatchItems) /\ ItemsOf(u) \subseteq BatchItems /\ ToSet(u) = ItemsOf(u)
         /\ \A i, j \in 1 .. Len(u) : u[i] = u[j] => i = j
<1>1. IsUnit(u, job.unit)
  BY DEF RowsInv, UnitsApart
<1>2. u \in Seq(BatchItems) /\ DOMAIN u = 1 .. Len(u) /\ \A k \in 1 .. Len(u) : u[k] \in BatchItems
  BY <1>1 DEF IsUnit
<1> QED
  BY <1>1, <1>2 DEF IsUnit, ItemsOf, ToSet

(* Main sees that a worker raised: it counts the items, or waits for the   *)
(* pool and ends.                                                          *)
LEMMA ConsumeRaised ==
  ASSUME RowsInv, Consume, NEW r \in ready, ready' = ready \ {r},
         UNCHANGED <<lines, cut, glued>>,
         IF job.raised = "aborts"
         THEN phase' = "failing" /\ failed' = failed
         ELSE phase' = phase /\ failed' = failed \cup ToSet(r.batch)
  PROVE  RowsInv'
<1>1. RowTypes /\ RowsOnce /\ RowsDue
  BY DEF RowsInv
<1>2. phase = "run" /\ UNCHANGED <<job, todo, busy, starts, kills, doubled, report>>
  BY DEF Consume
<1>3. /\ Units' \subseteq Units /\ r.batch \in Units
      /\ \A u \in Units : u = r.batch \/ u \in Units'
      /\ UnitsApart' /\ UnitsOnce'
  BY <1>2, SeenUnits
<1>4. ToSet(r.batch) = ItemsOf(r.batch) /\ ItemsOf(r.batch) \subseteq BatchItems
  BY <1>3, UnitItems
<1>5. RowTypes'
  BY <1>1, <1>2, <1>4 DEF RowTypes
<1>6. RowsOnce'
  BY <1>1, <1>2, <1>3 DEF RowsOnce
<1>7. RowsDue'
  <2> SUFFICES ASSUME phase' = "run", NEW i \in BatchItems
               PROVE  RowOf(lines', i) \/ i \in failed' \cup glued' \/ \E u \in Units' : i \in ItemsOf(u)
    BY DEF RowsDue
  <2>1. failed' = failed \cup ItemsOf(r.batch)
    BY <1>4
  <2>2. RowOf(lines, i) \/ i \in failed \cup glued \/ \E u \in Units : i \in ItemsOf(u)
    BY <1>1, <1>2 DEF RowsDue
  <2> QED
    BY <1>3, <2>1, <2>2
<1>8. EndedIsComplete'
  BY <1>1, <1>2 DEF RowTypes, EndedIsComplete
<1> QED
  BY <1>3, <1>5, <1>6, <1>7, <1>8 DEF RowsInv

(* Main writes the rows of a result.                                       *)
LEMMA ConsumeRows ==
  ASSUME RowsInv, Consume, NEW r \in ready, ready' = ready \ {r}, r.rows # Raised,
         NEW more, more = LinesOf(r.batch, r.rows),
         lines' = AppendLines(lines, cut, more), cut' = (cut /\ more = <<>>),
         glued' = glued \cup GluedBy(lines, cut, more),
         failed' = failed \cup {r.batch[k] : k \in {j \in DOMAIN r.rows : r.rows[j] = "none"}},
         phase' = phase
  PROVE  RowsInv'
<1> DEFINE b == r.batch
<1>1. RowTypes /\ RowsOnce /\ RowsDue /\ UnitsApart
  BY DEF RowsInv
<1>2. phase = "run" /\ UNCHANGED <<job, todo, busy, starts, kills, doubled, report>>
  BY DEF Consume
<1>3. /\ Units' \subseteq Units /\ b \in Units /\ b \notin Units'
      /\ \A u \in Units : u = b \/ u \in Units'
      /\ UnitsApart' /\ UnitsOnce'
  BY <1>2, SeenUnits
<1>4. /\ b \in Seq(BatchItems) /\ ItemsOf(b) \subseteq BatchItems
      /\ \A i, j \in 1 .. Len(b) : b[i] = b[j] => i = j
  BY <1>3, UnitItems
<1>5. r.rows \in [1 .. Len(b) -> Kinds]
  BY <1>1 DEF RowTypes
<1> HIDE DEF b
<1>6. more = LinesOf(b, r.rows)
  BY DEF b
<1>7. /\ more \in Seq(LineSet) /\ OnePer(more)
      /\ \A i : RowOf(more, i) => i \in ItemsOf(b)
      /\ \A k \in 1 .. Len(b) : r.rows[k] \in Rows => RowOf(more, b[k])
  BY <1>4, <1>5, <1>6, LinesWritten
<1>8. lines \in Seq(LineSet) /\ cut \in BOOLEAN /\ (cut => lines # <<>>)
  BY <1>1 DEF RowTypes
<1>9. /\ lines' \in Seq(LineSet) /\ (lines # <<>> \/ more # <<>> => lines' # <<>>)
      /\ GluedBy(lines, cut, more) \subseteq BatchItems
      /\ \A i : RowOf(lines', i) => RowOf(lines, i) \/ RowOf(more, i)
      /\ \A i : RowOf(lines, i) \/ RowOf(more, i) => RowOf(lines', i) \/ i \in GluedBy(lines, cut, more)
      /\ OnePer(lines) /\ OnePer(more) /\ (\A i : ~(RowOf(lines, i) /\ RowOf(more, i))) => OnePer(lines')
  <2>1. Appended(AppendLines(lines, cut, more), lines, cut, more)
    BY <1>7, <1>8, AppendRows
  <2>2. Appended(lines', lines, cut, more)
    BY <2>1
  <2> QED
    BY <2>2 DEF Appended
<1>10. failed' = failed \cup {b[k] : k \in {j \in 1 .. Len(b) : r.rows[j] = "none"}}
  <2>1. DOMAIN r.rows = 1 .. Len(b)
    BY <1>5
  <2> QED
    BY <2>1 DEF b
<1>11. failed' \subseteq BatchItems
  <2>1. \A k \in 1 .. Len(b) : b[k] \in BatchItems
    BY <1>4
  <2> QED
    BY <1>1, <1>10, <2>1 DEF RowTypes
<1>12. RowTypes'
  <2>1. glued' \subseteq BatchItems
    BY <1>1, <1>9 DEF RowTypes
  <2>2. cut' \in BOOLEAN /\ (cut' => lines' # <<>>)
    BY <1>8, <1>9
  <2> QED
    BY <1>1, <1>2, <1>9, <1>11, <2>1, <2>2 DEF RowTypes
<1>13. RowsOnce'
  <2> SUFFICES ASSUME ~doubled
               PROVE  OnePer(lines') /\ \A u \in Units' : \A i \in ItemsOf(u) : ~RowOf(lines', i)
    BY <1>2 DEF RowsOnce
  <2>1. OnePer(lines) /\ \A u \in Units : \A i \in ItemsOf(u) : ~RowOf(lines, i)
    BY <1>1 DEF RowsOnce
  <2>2. \A i : ~(RowOf(lines, i) /\ RowOf(more, i))
    BY <1>3, <1>7, <2>1
  <2>3. ASSUME NEW u \in Units', NEW i \in ItemsOf(u) PROVE ~RowOf(lines', i)
    <3>1. u \in Units /\ u # b
      BY <1>3
    <3>2. i \notin ItemsOf(b)
      BY <1>1, <1>3, <3>1 DEF UnitsApart
    <3> QED
      BY <1>7, <1>9, <2>1, <3>1, <3>2
  <2> QED
    BY <1>7, <1>9, <2>1, <2>2, <2>3
<1>14. RowsDue'
  <2> SUFFICES ASSUME NEW i \in BatchItems
               PROVE  RowOf(lines', i) \/ i \in failed' \cup glued' \/ \E u \in Units' : i \in ItemsOf(u)
    BY DEF RowsDue
  <2>1. RowOf(lines, i) \/ i \in failed \cup glued \/ \E u \in Units : i \in ItemsOf(u)
    BY <1>1, <1>2 DEF RowsDue
  <2>2. CASE RowOf(lines, i) \/ RowOf(more, i)
    BY <1>9, <2>2
  <2>3. CASE i \in failed \cup glued
    BY <1>10, <2>3
  <2>4. ASSUME NEW u \in Units, i \in ItemsOf(u)
        PROVE  RowOf(lines', i) \/ i \in failed' \cup glued' \/ \E v \in Units' : i \in ItemsOf(v)
    <3>1. CASE u # b
      BY <1>3, <2>4, <3>1
    <3>2. CASE u = b
      <4>1. PICK k \in 1 .. Len(b) : i = b[k]
        BY <2>4, <3>2 DEF ItemsOf
      <4>2. CASE r.rows[k] = "none"
        BY <1>10, <4>1, <4>2
      <4>3. CASE r.rows[k] \in Rows
        BY <1>7, <2>2, <4>1, <4>3
      <4>4. r.rows[k] \in Kinds
        BY <1>5
      <4> QED
        BY <4>2, <4>3, <4>4 DEF Kinds, Rows
    <3> QED
      BY <3>1, <3>2
  <2> QED
    BY <2>1, <2>2, <2>3, <2>4
<1>15. EndedIsComplete'
  BY <1>1, <1>2 DEF RowTypes, EndedIsComplete
<1> QED
  BY <1>3, <1>12, <1>13, <1>14, <1>15 DEF RowsInv

(* Main sees a result.                                                     *)
LEMMA ConsumeStep == RowsInv /\ Consume => RowsInv'
<1> SUFFICES ASSUME RowsInv, Consume PROVE RowsInv'
  OBVIOUS
<1>1. PICK r \in ready :
        /\ ready' = ready \ {r}
        /\ IF r.rows = Raised
           THEN /\ IF job.raised = "aborts"
                   THEN phase' = "failing" /\ failed' = failed
                   ELSE phase' = phase /\ failed' = failed \cup ToSet(r.batch)
                /\ UNCHANGED <<lines, cut, glued>>
           ELSE LET more == LinesOf(r.batch, r.rows)
                IN /\ lines' = AppendLines(lines, cut, more)
                   /\ cut' = (cut /\ more = <<>>)
                   /\ glued' = glued \cup GluedBy(lines, cut, more)
                   /\ failed' = failed \cup {r.batch[k] : k \in
                                   {j \in DOMAIN r.rows : r.rows[j] = "none"}}
                   /\ UNCHANGED phase
  BY DEF Consume
<1>2. CASE r.rows = Raised
  BY <1>1, <1>2, ConsumeRaised
<1>3. CASE r.rows # Raised
  <2> DEFINE more == LinesOf(r.batch, r.rows)
  <2>1. /\ lines' = AppendLines(lines, cut, more) /\ cut' = (cut /\ more = <<>>)
        /\ glued' = glued \cup GluedBy(lines, cut, more)
        /\ failed' = failed \cup {r.batch[k] : k \in {j \in DOMAIN r.rows : r.rows[j] = "none"}}
        /\ phase' = phase
    BY <1>1, <1>3
  <2> QED
    BY <1>1, <1>3, <2>1, ConsumeRows
<1> QED
  BY <1>2, <1>3

(* The job comes to its end.                                               *)
LEMMA EndStep == RowsInv /\ EndJob => RowsInv'
<1> SUFFICES ASSUME RowsInv, EndJob PROVE RowsInv'
  OBVIOUS
<1>1. RowTypes /\ RowsOnce /\ RowsDue
  BY DEF RowsInv
<1>2. /\ phase # "off" /\ todo = <<>> /\ busy = {} /\ (phase = "run" => ready = {})
      /\ phase' = "off" /\ ready' = {} /\ UNCHANGED <<job, lines, cut, todo, busy, failed, starts, kills, doubled, glued>>
      /\ report' = IF phase = "run" THEN "ended" ELSE "raised"
  BY DEF EndJob
<1>3. Units' = {} /\ (phase = "run" => Units = {})
  BY <1>2 DEF Units
<1>4. RowTypes'
  BY <1>1, <1>2 DEF RowTypes
<1>5. UnitsApart' /\ UnitsOnce'
  BY <1>2, <1>3 DEF UnitsApart, UnitsOnce
<1>6. RowsOnce'
  BY <1>1, <1>2, <1>3 DEF RowsOnce
<1>7. RowsDue'
  BY <1>2 DEF RowsDue
<1>8. EndedIsComplete'
  BY <1>1, <1>2, <1>3 DEF EndedIsComplete, RowsDue
<1> QED
  BY <1>4, <1>5, <1>6, <1>7, <1>8 DEF RowsInv

(* What a kill within a flush leaves of the lines that were to be written. *)
CutLines(written, more) ==
  /\ written \in Seq(LineSet) /\ written # <<>> /\ OnePer(written)
  /\ \A i : RowOf(written, i) => RowOf(more, i)

LEMMA CutShort ==
  ASSUME NEW more \in Seq(LineSet), OnePer(more), NEW n \in DOMAIN more,
         NEW piece \in {"torn", "split", more[n].kind}, NEW written,
         written = SubSeq(more, 1, n - 1) \o <<Line(more[n].item, piece)>>
  PROVE  CutLines(written, more)
<1> DEFINE m == Len(more)
           f == SubSeq(more, 1, n - 1)
           l == Line(more[n].item, piece)
<1>1. m \in Nat /\ n \in 1 .. m /\ more[n] \in LineSet
  OBVIOUS
<1>2. l \in LineSet /\ (Readable(l) => l = more[n])
  <2>1. /\ more[n].item \in BatchItems /\ more[n].kind \in {"good", "error", "torn", "split"}
        /\ more[n] = [item |-> more[n].item, kind |-> more[n].kind]
    BY <1>1 DEF LineSet
  <2> QED
    BY <2>1 DEF Line, LineSet, Readable, Rows
<1>3. /\ f \in Seq(LineSet) /\ Len(f) = n - 1
      /\ \A k \in 1 .. n - 1 : f[k] = more[k]
  <2> DEFINE p == n - 1
  <2> HIDE DEF p
  <2>1. p \in Nat /\ 1 \in Nat /\ 1 <= 1 /\ 1 <= p + 1 /\ p <= Len(more)
    BY <1>1 DEF p
  <2>2. /\ SubSeq(more, 1, p) \in Seq(LineSet) /\ Len(SubSeq(more, 1, p)) = p - 1 + 1
        /\ \A k \in 1 .. p - 1 + 1 : SubSeq(more, 1, p)[k] = more[1 + k - 1]
    BY <2>1, Slice
  <2>3. f = SubSeq(more, 1, p) /\ p - 1 + 1 = n - 1
    BY <1>1 DEF p
  <2>4. \A k \in 1 .. n - 1 : 1 + k - 1 = k
    OBVIOUS
  <2> HIDE DEF f
  <2> QED
    BY <2>2, <2>3, <2>4
<1> DEFINE g == <<l>>
<1>4. written = f \o g
  OBVIOUS
<1> HIDE DEF f, l, m
<1>5. g \in Seq(LineSet) /\ Len(g) = 1 /\ g[1] = l
  BY <1>2
<1> HIDE DEF g
<1>6. /\ written \in Seq(LineSet) /\ Len(written) = (n - 1) + 1
      /\ \A k \in 1 .. n - 1 : written[k] = f[k]
      /\ written[(n - 1) + 1] = l
  <2>1. /\ f \o g \in Seq(LineSet) /\ Len(f \o g) = Len(f) + Len(g)
        /\ \A k \in 1 .. Len(f) : (f \o g)[k] = f[k]
        /\ \A k \in 1 .. Len(g) : (f \o g)[Len(f) + k] = g[k]
    <3>1. f \in Seq(LineSet) /\ g \in Seq(LineSet)
      BY <1>3, <1>5
    <3> QED
      BY ONLY <3>1, Joined
  <2>2. Len(f) = n - 1 /\ Len(g) = 1 /\ g[1] = l /\ 1 \in 1 .. 1
    BY <1>3, <1>5
  <2>3. /\ written \in Seq(LineSet) /\ Len(written) = Len(f) + Len(g)
        /\ \A k \in 1 .. Len(f) : written[k] = f[k]
        /\ \A k \in 1 .. Len(g) : written[Len(f) + k] = g[k]
    BY ONLY <1>4, <2>1
  <2> QED
    BY ONLY <2>2, <2>3
<1>7. n \in Nat /\ (n - 1) + 1 = n /\ DOMAIN more = 1 .. m
  BY <1>1 DEF m
<1>8. /\ DOMAIN written = 1 .. n /\ written # <<>>
      /\ \A k \in 1 .. n : k \in DOMAIN more /\ (Readable(written[k]) => written[k] = more[k])
  <2>1. DOMAIN written = 1 .. n /\ Len(written) = n /\ n # 0 /\ written[n] = l
    BY <1>1, <1>6, <1>7
  <2>2. ASSUME NEW k \in 1 .. n
        PROVE  k \in DOMAIN more /\ (Readable(written[k]) => written[k] = more[k])
    <3>1. k = n \/ k \in 1 .. n - 1
      BY <1>7
    <3> QED
      BY <1>1, <1>2, <1>3, <1>6, <1>7, <2>1, <3>1
  <2> QED
    BY <2>1, <2>2
<1>9. OnePer(written)
  BY <1>8, ZenonT(60) DEF OnePer
<1>10. \A i : RowOf(written, i) => RowOf(more, i)
  BY <1>8 DEF RowOf
<1> QED
  BY <1>6, <1>8, <1>9, <1>10 DEF CutLines

(* After a kill nothing is due; of the file there is more to say.          *)
LEMMA Killed ==
  ASSUME RowsInv, Kill, lines' \in Seq(LineSet), cut' \in BOOLEAN, cut' => lines' # <<>>,
         glued' \subseteq BatchItems, ~doubled => OnePer(lines')
  PROVE  RowsInv'
<1>1. RowTypes
  BY DEF RowsInv
<1>2. /\ phase' = "off" /\ todo' = <<>> /\ busy' = {} /\ ready' = {} /\ report' = "killed"
      /\ kills' = kills + 1 /\ kills < KillLimit /\ UNCHANGED <<job, failed, starts, doubled>>
  BY DEF Kill
<1>3. Units' = {}
  BY <1>2 DEF Units
<1>4. RowTypes'
  <2>1. IsFiniteSet(busy') /\ Cardinality(busy') <= job.workers
    <3>1. job.workers \in {1, 2}
      BY <1>1, JobFacts DEF RowTypes
    <3> QED
      BY <1>2, <3>1, FS_EmptySet
  <2>2. kills' \in 0 .. KillLimit
    BY <1>1, <1>2, BatchAssumption DEF RowTypes
  <2>3. todo' \in Seq(Seq(BatchItems))
    BY <1>2
  <2> QED
    BY <1>1, <1>2, <2>1, <2>2, <2>3 DEF RowTypes
<1>5. UnitsApart' /\ UnitsOnce'
  BY <1>2, <1>3 DEF UnitsApart, UnitsOnce
<1>6. RowsOnce'
  BY <1>2, <1>3 DEF RowsOnce
<1>7. RowsDue' /\ EndedIsComplete'
  BY <1>2 DEF RowsDue, EndedIsComplete
<1> QED
  BY <1>4, <1>5, <1>6, <1>7 DEF RowsInv

(* The process is killed, perhaps within a flush.                          *)
LEMMA KillStep == RowsInv /\ Kill => RowsInv'
<1> SUFFICES ASSUME RowsInv, Kill PROVE RowsInv'
  OBVIOUS
<1>1. RowTypes /\ RowsOnce
  BY DEF RowsInv
<1>2. lines \in Seq(LineSet) /\ cut \in BOOLEAN /\ (cut => lines # <<>>) /\ glued \subseteq BatchItems
  BY <1>1 DEF RowTypes
<1>3. CASE UNCHANGED <<lines, cut, glued>>
  <2>1. ~doubled => OnePer(lines')
    BY <1>1, <1>3 DEF RowsOnce
  <2> QED
    BY <1>2, <1>3, <2>1, Killed
<1>4. CASE ~UNCHANGED <<lines, cut, glued>>
  <2>1. PICK r \in {x \in ready : x.rows # Raised} :
          LET more == LinesOf(r.batch, r.rows)
          IN \E n \in DOMAIN more : \E piece \in {"torn", "split", more[n].kind} :
               LET written == SubSeq(more, 1, n - 1) \o <<Line(more[n].item, piece)>>
               IN /\ lines' = AppendLines(lines, cut, written)
                  /\ cut' = TRUE
                  /\ glued' = glued \cup GluedBy(lines, cut, written)
    BY <1>4 DEF Kill
  <2> DEFINE more == LinesOf(r.batch, r.rows)
  <2>2. PICK n \in DOMAIN more : \E piece \in {"torn", "split", more[n].kind} :
          LET written == SubSeq(more, 1, n - 1) \o <<Line(more[n].item, piece)>>
          IN /\ lines' = AppendLines(lines, cut, written)
             /\ cut' = TRUE
             /\ glued' = glued \cup GluedBy(lines, cut, written)
    BY <2>1
  <2>3. PICK piece \in {"torn", "split", more[n].kind} :
          LET written == SubSeq(more, 1, n - 1) \o <<Line(more[n].item, piece)>>
          IN /\ lines' = AppendLines(lines, cut, written)
             /\ cut' = TRUE
             /\ glued' = glued \cup GluedBy(lines, cut, written)
    BY <2>2
  <2> DEFINE written == SubSeq(more, 1, n - 1) \o <<Line(more[n].item, piece)>>
             b == r.batch
  <2>4. /\ lines' = AppendLines(lines, cut, written) /\ cut' = TRUE
        /\ glued' = glued \cup GluedBy(lines, cut, written)
    BY <2>3
  <2>5. b \in Units /\ r.rows \in [1 .. Len(b) -> Kinds]
    BY <1>1, <2>1 DEF Units, RowTypes
  <2>6. b \in Seq(BatchItems) /\ \A i, j \in 1 .. Len(b) : b[i] = b[j] => i = j
    BY <2>5, UnitItems
  <2> HIDE DEF b
  <2>7. more = LinesOf(b, r.rows)
    BY DEF b
  <2> HIDE DEF more
  <2>8. /\ more \in Seq(LineSet) /\ OnePer(more)
        /\ \A i : RowOf(more, i) => i \in ItemsOf(b)
    BY <2>5, <2>6, <2>7, LinesWritten
  <2>9. /\ written \in Seq(LineSet) /\ written # <<>> /\ OnePer(written)
        /\ \A i : RowOf(written, i) => RowOf(more, i)
    <3>1. CutLines(written, more)
      BY <2>8, CutShort
    <3> QED
      BY <3>1 DEF CutLines
  <2> HIDE DEF written
  <2>10. Appended(AppendLines(lines, cut, written), lines, cut, written)
    BY <1>2, <2>9, AppendRows
  <2>11. Appended(lines', lines, cut, written)
    BY <2>4, <2>10
  <2>12. lines' \in Seq(LineSet) /\ lines' # <<>> /\ glued' \subseteq BatchItems
    BY <1>2, <2>4, <2>9, <2>11 DEF Appended
  <2>13. ~doubled => OnePer(lines')
    <3> SUFFICES ASSUME ~doubled PROVE OnePer(lines')
      OBVIOUS
    <3>1. OnePer(lines) /\ \A i \in ItemsOf(b) : ~RowOf(lines, i)
      BY <1>1, <2>5 DEF RowsOnce
    <3>2. \A i : ~(RowOf(lines, i) /\ RowOf(written, i))
      BY <2>8, <2>9, <3>1
    <3> QED
      BY <2>9, <2>11, <3>1, <3>2 DEF Appended
  <2> QED
    BY <2>4, <2>12, <2>13, Killed
<1> QED
  BY <1>3, <1>4

(* A resumed run leaves out the items that have a row.                     *)
LEMMA DoneRows == ASSUME NEW old, NEW i PROVE i \in Done(old) <=> RowOf(old, i)
BY DEF Done, RowOf

(* An empty file.                                                          *)
LEMMA NoRows == OnePer(<<>>) /\ \A i : ~RowOf(<<>>, i)
BY DEF OnePer, RowOf

(* A start that read an old file it cannot parse has changed nothing.      *)
LEMMA UnreadStart ==
  ASSUME RowsInv, phase = "off", report' = "unreadable", starts' = starts + 1, starts < StartLimit,
         UNCHANGED <<job, busy, ready, kills, lines, cut, phase, todo, failed, doubled, glued>>
  PROVE  RowsInv'
<1>1. RowTypes /\ UnitsOnce
  BY DEF RowsInv
<1>2. starts' \in 0 .. StartLimit
  BY <1>1, BatchAssumption DEF RowTypes
<1>3. RowTypes'
  BY <1>1, <1>2 DEF RowTypes
<1>4. UnitsOnce' /\ Units' = Units
  BY <1>1 DEF UnitsOnce, Units
<1> QED
  BY <1>3, <1>4, RowsKept

(* The job is started: what the old file has no row of is due.             *)
LEMMA StartStep == ASSUME RowsInv, NEW asked \in BOOLEAN, StartJob(asked) PROVE RowsInv'
<1> DEFINE resumes == ~job.asks \/ asked
           kept == IF resumes \/ job.unasked = "append" THEN lines ELSE <<>>
           done == IF resumes THEN Done(kept) ELSE {}
           left == Picked([i \in BatchItems |-> i], BatchItems \ done)
           bs == Batches(left, job.unit)
<1>1. RowTypes /\ RowsOnce
  BY DEF RowsInv
<1>2. CASE resumes /\ Unreadable(job.strict, lines)
  BY <1>2, UnreadStart DEF StartJob
<1>3. CASE ~(resumes /\ Unreadable(job.strict, lines))
  <2>1. /\ phase = "off" /\ starts < StartLimit /\ starts' = starts + 1
        /\ UNCHANGED <<job, busy, ready, kills>>
        /\ lines' = kept /\ cut' = (cut /\ kept # <<>>) /\ phase' = "run" /\ todo' = bs
        /\ failed' = {} /\ glued' = {} /\ report' = "none"
        /\ doubled' = ((doubled \/ (~resumes /\ lines # <<>>)) /\ kept # <<>>)
    BY <1>3 DEF StartJob
  <2>2. /\ kept \in {lines, <<>>} /\ (resumes => kept = lines)
        /\ done = IF resumes THEN Done(kept) ELSE {}
    OBVIOUS
  <2>3. job.unit \in {1, 2} /\ job.workers \in {1, 2} /\ busy = {} /\ ready = {}
    BY <1>1, <2>1, JobFacts DEF RowTypes
  <2> HIDE DEF done, kept, resumes
  <2>4. /\ left \in Seq(BatchItems) /\ ItemsOf(left) = BatchItems \ done
        /\ \A i, j \in 1 .. Len(left) : left[i] = left[j] => i = j
    BY LeftItems
  <2> HIDE DEF left
  <2>14. CutInto(bs, left, job.unit)
    BY <2>3, <2>4, BatchesCut
  <2> HIDE DEF bs
  <2>5. /\ bs \in Seq(Seq(BatchItems))
        /\ \A k \in 1 .. Len(bs) : IsUnit(bs[k], job.unit) /\ ItemsOf(bs[k]) \subseteq ItemsOf(left)
        /\ \A k, l \in 1 .. Len(bs) : k # l => ItemsOf(bs[k]) \cap ItemsOf(bs[l]) = {}
        /\ \A x \in ItemsOf(left) : \E k \in 1 .. Len(bs) : x \in ItemsOf(bs[k])
    BY <2>14 DEF CutInto
  <2>6. Units' = {bs[k] : k \in 1 .. Len(bs)}
    BY <2>1, <2>3 DEF Units
  <2>7. \A k, l \in 1 .. Len(bs) : bs[k] = bs[l] => k = l
    <3>1. \A k \in 1 .. Len(bs) : ItemsOf(bs[k]) # {}
      <4> SUFFICES ASSUME NEW k \in 1 .. Len(bs) PROVE ItemsOf(bs[k]) # {}
        OBVIOUS
      <4>1. Len(bs[k]) \in 1 .. job.unit
        BY <2>5 DEF IsUnit
      <4>2. 1 \in 1 .. Len(bs[k])
        BY <2>3, <4>1
      <4> QED
        BY <4>2 DEF ItemsOf
    <3> QED
      BY <2>5, <3>1
  <2>8. UnitsApart'
    <3>1. \A u \in Units' : IsUnit(u, job.unit)
      BY <2>5, <2>6
    <3>2. \A u, v \in Units' : u # v => ItemsOf(u) \cap ItemsOf(v) = {}
      BY <2>5, <2>6
    <3> QED
      BY <2>1, <3>1, <3>2 DEF UnitsApart
  <2>9. UnitsOnce'
    BY <2>1, <2>3, <2>7 DEF UnitsOnce
  <2>10. RowTypes'
    <3>1. IsFiniteSet(busy') /\ Cardinality(busy') <= job.workers
      BY <2>1, <2>3, FS_EmptySet
    <3>2. starts' \in 0 .. StartLimit
      BY <1>1, <2>1, BatchAssumption DEF RowTypes
    <3>3. lines' \in Seq(LineSet) /\ cut' \in BOOLEAN /\ (cut' => lines' # <<>>)
      <4>1. CASE kept = lines
        BY <1>1, <2>1, <4>1 DEF RowTypes
      <4>2. CASE kept = <<>>
        <5>1. cut' = FALSE /\ lines' = <<>>
          BY <2>1, <4>2, Zenon
        <5>2. <<>> \in Seq(LineSet)
          OBVIOUS
        <5> QED
          BY <5>1, <5>2, Zenon
      <4> QED
        BY <2>2, <4>1, <4>2
    <3>4. doubled' \in BOOLEAN
      BY <2>1
    <3> QED
      BY <1>1, <2>1, <2>3, <2>5, <3>1, <3>2, <3>3, <3>4 DEF RowTypes
  <2>11. RowsOnce'
    <3> SUFFICES ASSUME ~doubled'
                 PROVE  OnePer(lines') /\ \A u \in Units' : \A i \in ItemsOf(u) : ~RowOf(lines', i)
      BY DEF RowsOnce
    <3>1. CASE kept = <<>>
      BY <2>1, <3>1, NoRows
    <3>2. CASE kept # <<>>
      <4>1. kept = lines /\ ~doubled /\ resumes
        BY <2>1, <2>2, <3>2
      <4>2. OnePer(lines)
        BY <1>1, <4>1 DEF RowsOnce
      <4>3. ASSUME NEW u \in Units', NEW i \in ItemsOf(u) PROVE ~RowOf(lines, i)
        <5>1. i \in BatchItems \ done
          BY <2>4, <2>5, <2>6
        <5>2. done = Done(lines)
          BY <2>2, <4>1
        <5> QED
          BY <5>1, <5>2, DoneRows
      <4> QED
        BY <2>1, <4>1, <4>2, <4>3
    <3> QED
      BY <3>1, <3>2
  <2>12. RowsDue'
    <3> SUFFICES ASSUME NEW i \in BatchItems
                 PROVE  RowOf(lines', i) \/ \E u \in Units' : i \in ItemsOf(u)
      BY DEF RowsDue
    <3>1. CASE i \in done
      BY <2>1, <2>2, <3>1, DoneRows
    <3>2. CASE i \notin done
      <4>1. PICK k \in 1 .. Len(bs) : i \in ItemsOf(bs[k])
        BY <2>4, <2>5, <3>2
      <4> QED
        BY <2>6, <4>1
    <3> QED
      BY <3>1, <3>2
  <2>13. EndedIsComplete'
    BY <2>1 DEF EndedIsComplete
  <2> QED
    BY <2>8, <2>9, <2>10, <2>11, <2>12, <2>13 DEF RowsInv
<1> QED
  BY <1>2, <1>3

(* Every step keeps the invariant.                                         *)
LEMMA RowsStep == RowsInv /\ [BatchNext]_batchVars => RowsInv'
<1> SUFFICES ASSUME RowsInv, [BatchNext]_batchVars PROVE RowsInv'
  OBVIOUS
<1>1. CASE \E asked \in BOOLEAN : StartJob(asked)
  BY <1>1, StartStep
<1>2. CASE Take
  BY <1>2, TakeStep
<1>3. CASE Finish
  BY <1>3, FinishStep
<1>4. CASE Consume
  BY <1>4, ConsumeStep
<1>5. CASE EndJob
  BY <1>5, EndStep
<1>6. CASE Kill
  BY <1>6, KillStep
<1>7. CASE UNCHANGED batchVars
  <2>1. RowTypes' /\ UnitsOnce' /\ Units' = Units
    BY <1>7 DEF RowsInv, RowTypes, UnitsOnce, Units, batchVars
  <2>2. RowTypes
    BY DEF RowsInv
  <2>3. EndedIsComplete' /\ UnitsApart' /\ RowsOnce' /\ RowsDue'
    BY <1>7, <2>1 DEF RowsInv, UnitsApart, RowsOnce, RowsDue, EndedIsComplete, batchVars
  <2> QED
    BY <2>1, <2>3 DEF RowsInv
<1> QED
  BY <1>1, <1>2, <1>3, <1>4, <1>5, <1>6, <1>7 DEF BatchNext, Work

(* However often a job is stopped and started again, its output file has   *)
(* no second row of an item (unless a run appended to a file it had not    *)
(* read), and a run that ended has left none out but those it counted as   *)
(* failed or that ran into a line a kill had cut.                          *)
THEOREM RowsSound == BatchSpec => []RowsAreSound
<1>1. RowsInv => RowsAreSound
  <2> SUFFICES ASSUME RowsInv PROVE RowsAreSound
    OBVIOUS
  <2>1. RowTypes /\ UnitsApart /\ RowsOnce /\ EndedIsComplete
    BY DEF RowsInv
  <2>2. \A k \in DOMAIN todo : ToSet(todo[k]) \subseteq BatchItems
    <3> SUFFICES ASSUME NEW k \in DOMAIN todo PROVE ToSet(todo[k]) \subseteq BatchItems
      OBVIOUS
    <3>1. k \in 1 .. Len(todo)
      BY <2>1 DEF RowTypes
    <3>2. todo[k] \in Units
      BY <3>1 DEF Units
    <3> QED
      BY <3>2, UnitItems
  <2>3. BatchTypeOK
    BY <2>1, <2>2 DEF RowTypes, BatchTypeOK, LineSet
  <2>4. OneRowEach
    BY <2>1 DEF RowsOnce, OnePer, OneRowEach
  <2> QED
    BY <2>1, <2>3, <2>4 DEF RowsAreSound
<1> QED
  BY <1>1, RowsStarts, RowsStep, PTL DEF BatchSpec

(* What is written, if anything, is appended.                              *)
LEMMA FileGrows ==
  ASSUME RowsInv, Consume \/ Kill
  PROVE  lines' = lines \/ \E more \in Seq(LineSet) : lines' = AppendLines(lines, cut, more)
<1>1. RowTypes
  BY DEF RowsInv
<1>2. ASSUME NEW r \in ready, r.rows # Raised
      PROVE  LinesOf(r.batch, r.rows) \in Seq(LineSet) /\ OnePer(LinesOf(r.batch, r.rows))
  <2>1. r.batch \in Units /\ r.rows \in [1 .. Len(r.batch) -> Kinds]
    BY <1>1, <1>2 DEF Units, RowTypes
  <2>2. /\ r.batch \in Seq(BatchItems)
        /\ \A i, j \in 1 .. Len(r.batch) : r.batch[i] = r.batch[j] => i = j
    BY <2>1, UnitItems
  <2> QED
    BY <2>1, <2>2, LinesWritten
<1>3. CASE Consume
  <2>1. PICK r \in ready :
          IF r.rows = Raised THEN lines' = lines
          ELSE lines' = AppendLines(lines, cut, LinesOf(r.batch, r.rows))
    BY <1>3 DEF Consume
  <2> QED
    BY <1>2, <2>1
<1>4. CASE Kill /\ lines' # lines
  <2>1. PICK r \in {x \in ready : x.rows # Raised} :
          \E n \in DOMAIN LinesOf(r.batch, r.rows) :
          \E piece \in {"torn", "split", LinesOf(r.batch, r.rows)[n].kind} :
            lines' = AppendLines(lines, cut,
                       SubSeq(LinesOf(r.batch, r.rows), 1, n - 1)
                         \o <<Line(LinesOf(r.batch, r.rows)[n].item, piece)>>)
    BY <1>4 DEF Kill
  <2> DEFINE more == LinesOf(r.batch, r.rows)
  <2>5. PICK n \in DOMAIN more : \E piece \in {"torn", "split", more[n].kind} :
          lines' = AppendLines(lines, cut, SubSeq(more, 1, n - 1) \o <<Line(more[n].item, piece)>>)
    BY <2>1
  <2>2. PICK piece \in {"torn", "split", more[n].kind} :
          lines' = AppendLines(lines, cut, SubSeq(more, 1, n - 1) \o <<Line(more[n].item, piece)>>)
    BY <2>5
  <2> DEFINE written == SubSeq(more, 1, n - 1) \o <<Line(more[n].item, piece)>>
  <2>3. more \in Seq(LineSet) /\ OnePer(more)
    BY <1>2, <2>1
  <2> HIDE DEF more
  <2>4. CutLines(written, more)
    BY <2>3, CutShort
  <2> QED
    BY <2>2, <2>4 DEF CutLines
<1> QED
  BY <1>3, <1>4

(* A row stays on disk whatever a job does, but where a strict job is      *)
(* started afresh, and but for the last row when a kill left it without a  *)
(* newline.                                                                *)
RowLost(i) == RowOf(lines, i) /\ ~RowOf(lines', i)
RowMayGo(i) == \/ job.unasked = "unlink" /\ lines' = <<>>
               \/ cut /\ Last(lines).item = i

(* The same of one step.                                                   *)
LEMMA RowsStayStep == RowsInv /\ [BatchNext]_batchVars => \A i \in BatchItems : RowLost(i) => RowMayGo(i)
<1> SUFFICES ASSUME RowsInv, [BatchNext]_batchVars, NEW i \in BatchItems, RowLost(i)
             PROVE  RowMayGo(i)
  OBVIOUS
<1>1. lines' # lines
  BY DEF RowLost
<1>2. RowTypes
  BY DEF RowsInv
<1>3. ASSUME NEW asked \in BOOLEAN, StartJob(asked) PROVE RowMayGo(i)
  <2>1. lines' = <<>> /\ job.unasked # "append"
    BY <1>1, <1>3 DEF StartJob
  <2>2. job.unasked \in {"append", "unlink"}
    BY <1>2, JobFacts DEF RowTypes
  <2> QED
    BY <2>1, <2>2 DEF RowMayGo
<1>4. CASE Consume \/ Kill
  <2>1. PICK more \in Seq(LineSet) : lines' = AppendLines(lines, cut, more)
    BY <1>1, <1>4, FileGrows
  <2>2. Appended(AppendLines(lines, cut, more), lines, cut, more)
    BY <1>2, AppendRows DEF RowTypes
  <2>3. Appended(lines', lines, cut, more)
    BY <2>1, <2>2
  <2>4. RowOf(lines', i) \/ (cut /\ Last(lines).item = i)
    BY <2>3 DEF Appended, RowLost
  <2> QED
    BY <2>4 DEF RowLost, RowMayGo
<1> QED
  BY <1>1, <1>3, <1>4 DEF BatchNext, Work, Take, Finish, EndJob, batchVars

(* No start, append or kill takes a row off the disk but those two.        *)
THEOREM RowsStayOnDisk == BatchSpec => RowsStay
<1>1. RowsInv /\ [BatchNext]_batchVars
        => [\A i \in BatchItems : RowOf(lines, i) /\ ~RowOf(lines', i)
              => \/ job.unasked = "unlink" /\ lines' = <<>>
                 \/ cut /\ Last(lines).item = i]_batchVars
  BY RowsStayStep DEF RowLost, RowMayGo
<1> QED
  BY <1>1, RowsStarts, RowsStep, PTL DEF BatchSpec, RowsStay

(***************************************************************************)
(* The review of drafts.                                                   *)
(***************************************************************************)
ReviewTypes ==
  /\ reviews \in Seq([id : ReviewIds, by : Programs])
  /\ chunks \in Seq([review : DOMAIN reviews, part : {1, 2}])
  /\ acked \subseteq DOMAIN reviews /\ up \subseteq Programs /\ mixed \in BOOLEAN
  /\ memory \in [Webs -> [ReviewIds -> Nat]]
  /\ holder \in [Webs -> Threads \cup {None}]
  /\ thread \in [Webs -> [Threads -> [pc : {"idle", "lock", "write", "answer"}, review : Nat]]]
  /\ pending \in Seq(ReviewIds) /\ (Cli \in up <=> pending # <<>>)
  /\ asking \in Nat /\ (asking # 0 => asking \in DOMAIN reviews /\ Cli \in up)
  /\ reviewStarts \in [Programs -> 0 .. ReviewStarts]

(* A thread that serves a review is a running server's, and holds its lock *)
(* while it writes.                                                        *)
ThreadServes(w, t) ==
  /\ IF thread[w][t].pc = "idle" THEN thread[w][t] = Idle
     ELSE /\ w \in up /\ thread[w][t].review \in DOMAIN reviews
          /\ reviews[thread[w][t].review].by = w
  /\ holder[w] = t <=> thread[w][t].pc = "write"
ThreadsServe == \A w \in Webs, t \in Threads : ThreadServes(w, t)

(* The file holds whole rows, each review once, and perhaps the beginning  *)
(* of one at its end.                                                      *)
Beginning == chunks # <<>> /\ chunks[Len(chunks)].part = 1
FileIsWhole ==
  /\ \A k \in DOMAIN chunks :
       IF chunks[k].part = 2
       THEN k > 1 /\ chunks[k - 1] = [review |-> chunks[k].review, part |-> 1]
       ELSE /\ k > 1 => chunks[k - 1].part = 2
            /\ k < Len(chunks) => chunks[k + 1] = [review |-> chunks[k].review, part |-> 2]
  /\ \A j, k \in DOMAIN chunks : chunks[j] = chunks[k] => j = k

(* That beginning is of whoever writes; what waits for the lock is not in  *)
(* the file, what is answered is.                                          *)
InFile(r) == \E k \in DOMAIN chunks : chunks[k].review = r
FileRows == {k \in DOMAIN chunks : chunks[k].part = 2}
IsRow(r) == \E k \in FileRows : chunks[k].review = r
Writers == {p \in Webs \X Threads : thread[p[1]][p[2]].pc = "write"}
WritersWrite ==
  /\ \A w \in Webs, t \in Threads :
       /\ thread[w][t].pc = "lock" => ~InFile(thread[w][t].review)
       /\ thread[w][t].pc = "write" => Beginning /\ chunks[Len(chunks)].review = thread[w][t].review
       /\ thread[w][t].pc = "answer" => IsRow(thread[w][t].review)
       /\ \A s \in Threads : s # t /\ thread[w][t].pc = "lock" /\ thread[w][s].pc # "idle" =>
            thread[w][s].review # thread[w][t].review
  /\ asking # 0 => Beginning /\ chunks[Len(chunks)].review = asking
  /\ Beginning => Writers # {} \/ asking # 0
  /\ \A r \in acked : IsRow(r)

(* The last row of an id, and that memory has it.                          *)
RowsOf(id) == {k \in FileRows : reviews[chunks[k].review].id = id}
IsLatest(id, r) ==
  IF RowsOf(id) = {} THEN r = 0
  ELSE \E k \in RowsOf(id) : chunks[k].review = r /\ \A j \in RowsOf(id) : j <= k
MemoryIsRead == \A w \in up \cap Webs, id \in ReviewIds : IsLatest(id, memory[w][id])

(* The terminal asks about drafts without a row, each once.                *)
CliIsFirst ==
  \A j, k \in FileRows : j < k /\ reviews[chunks[k].review].by = Cli =>
    reviews[chunks[j].review].id # reviews[chunks[k].review].id
AsksTheRest ==
  /\ \A i, j \in DOMAIN pending : pending[i] = pending[j] => i = j
  /\ \A i \in DOMAIN pending : RowsOf(pending[i]) = {}
  /\ asking # 0 => reviews[asking].id = pending[1]
  /\ CliIsFirst

OneProgram == \A p, q \in up : p = q

Alone == OneProgram /\ FileIsWhole /\ WritersWrite /\ MemoryIsRead /\ AsksTheRest
ReviewInv == ReviewTypes /\ ThreadsServe /\ (~mixed => Alone)
-----------------------------------------------------------------------------
(* The pieces are numbered from 1, and are what they are.                  *)
LEMMA Pieces ==
  ASSUME ReviewTypes
  PROVE  /\ Len(chunks) \in Nat /\ DOMAIN chunks = 1 .. Len(chunks)
         /\ DOMAIN reviews = 1 .. Len(reviews) /\ Len(reviews) \in Nat
         /\ \A k \in DOMAIN chunks : /\ chunks[k].review \in DOMAIN reviews
                                     /\ chunks[k].part \in {1, 2}
                                     /\ chunks[k] = [review |-> chunks[k].review, part |-> chunks[k].part]
         /\ \A r \in DOMAIN reviews : reviews[r].id \in ReviewIds /\ reviews[r].by \in Programs
<1> DEFINE R == [id : ReviewIds, by : Programs]
<1>1. reviews \in Seq(R)
  BY DEF ReviewTypes
<1>2. /\ Len(reviews) \in Nat /\ DOMAIN reviews = 1 .. Len(reviews)
      /\ \A r \in DOMAIN reviews : reviews[r].id \in ReviewIds /\ reviews[r].by \in Programs
  <2>1. \A x \in R : x.id \in ReviewIds /\ x.by \in Programs
    OBVIOUS
  <2> HIDE DEF R
  <2>2. Len(reviews) \in Nat /\ DOMAIN reviews = 1 .. Len(reviews) /\ \A r \in DOMAIN reviews : reviews[r] \in R
    BY <1>1
  <2> QED
    BY <2>1, <2>2
<1> DEFINE C == [review : DOMAIN reviews, part : {1, 2}]
<1>3. chunks \in Seq(C)
  BY DEF ReviewTypes
<1>4. \A c \in C : c.review \in DOMAIN reviews /\ c.part \in {1, 2} /\ c = [review |-> c.review, part |-> c.part]
  OBVIOUS
<1> HIDE DEF C, R
<1>5. Len(chunks) \in Nat /\ DOMAIN chunks = 1 .. Len(chunks) /\ \A k \in DOMAIN chunks : chunks[k] \in C
  BY <1>3
<1> QED
  BY <1>2, <1>4, <1>5

(* FileRows are the lines that parse.                                          *)
LEMMA RowsParse ==
  ASSUME ReviewTypes, FileIsWhole
  PROVE  OnDisk = {chunks[k].review : k \in FileRows}
<1>1. ASSUME NEW k \in DOMAIN chunks PROVE Parses(k) <=> k \in FileRows
  <2>1. Parses(k) => k \in FileRows
    BY DEF Parses, FileRows
  <2>2. ASSUME k \in FileRows PROVE Parses(k)
    <3>1. k > 1 /\ chunks[k].part = 2 /\ chunks[k - 1] = [review |-> chunks[k].review, part |-> 1]
      BY <2>2 DEF FileIsWhole, FileRows
    <3>2. k - 1 \in DOMAIN chunks /\ chunks[k - 1].part = 1
      BY <3>1, Pieces
    <3> DEFINE j == k - 1
    <3>3. j > 1 => chunks[j - 1].part = 2
      <4>1. j \in DOMAIN chunks /\ chunks[j].part = 1 /\ 1 # 2
        BY <3>2
      <4> HIDE DEF j
      <4> QED
        BY <4>1 DEF FileIsWhole
    <3>4. k > 2 => chunks[k - 2].part = 2
      BY <3>3, Pieces
    <3> QED
      BY <3>1, <3>4 DEF Parses
  <2> QED
    BY <2>1, <2>2
<1> QED
  BY <1>1 DEF OnDisk, FileRows

(* Each has one place.                                                     *)
LEMMA RowHasPlace ==
  ASSUME ReviewTypes, FileIsWhole, NEW k \in FileRows
  PROVE  Position(chunks[k].review) = k
<1>1. k \in DOMAIN chunks /\ chunks[k] = [review |-> chunks[k].review, part |-> 2]
  BY Pieces DEF FileRows
<1>2. \A j \in DOMAIN chunks : chunks[j] = chunks[k] => j = k
  BY <1>1 DEF FileIsWhole
<1> QED
  BY <1>1, <1>2 DEF Position

(* The last row of an id is the latest review of it.                       *)
LEMMA LatestIsLast ==
  ASSUME ReviewTypes, FileIsWhole, NEW id, NEW r, IsLatest(id, r)
  PROVE  LatestOf(id, OnDisk) = r
<1>1. ReviewsOf(id, OnDisk) = {chunks[k].review : k \in RowsOf(id)}
  BY RowsParse DEF ReviewsOf, RowsOf
<1>2. CASE RowsOf(id) = {}
  BY <1>1, <1>2 DEF LatestOf, IsLatest
<1>3. CASE RowsOf(id) # {}
  <2>1. PICK k \in RowsOf(id) : chunks[k].review = r /\ \A j \in RowsOf(id) : j <= k
    BY <1>3 DEF IsLatest
  <2>2. \A j \in RowsOf(id) : j \in FileRows /\ j \in Nat /\ Position(chunks[j].review) = j
    BY RowHasPlace, Pieces DEF RowsOf, FileRows
  <2>3. r \in ReviewsOf(id, OnDisk) /\ \A q \in ReviewsOf(id, OnDisk) : Position(q) <= Position(r)
    BY <1>1, <2>1, <2>2
  <2>4. ASSUME NEW s \in ReviewsOf(id, OnDisk),
               \A q \in ReviewsOf(id, OnDisk) : Position(q) <= Position(s)
        PROVE  s = r
    <3>1. PICK j \in RowsOf(id) : chunks[j].review = s
      BY <1>1
    <3>2. Position(r) <= Position(s) /\ Position(s) <= Position(r)
      BY <2>3, <2>4
    <3>3. Position(s) = j /\ Position(r) = k /\ j \in Nat /\ k \in Nat
      BY <2>1, <2>2, <3>1
    <3> QED
      BY <2>1, <3>1, <3>2, <3>3
  <2>5. ReviewsOf(id, OnDisk) # {}
    BY <2>3
  <2> QED
    BY <2>3, <2>4, <2>5 DEF LatestOf
<1> QED
  BY <1>2, <1>3

(* Among those of an id that are on disk one has the last place.           *)
LEMMA LatestIsIn ==
  ASSUME ReviewTypes, NEW id, ReviewsOf(id, OnDisk) # {}
  PROVE  /\ LatestOf(id, OnDisk) \in ReviewsOf(id, OnDisk)
         /\ \A q \in ReviewsOf(id, OnDisk) : Position(q) <= Position(LatestOf(id, OnDisk))
<1> DEFINE Q == ReviewsOf(id, OnDisk)
           Up == {Len(chunks) - Position(r) : r \in Q}
<1>1. ASSUME NEW r \in Q PROVE Position(r) \in 1 .. Len(chunks)
  <2>1. \E k \in DOMAIN chunks : chunks[k] = [review |-> r, part |-> 2]
    <3>1. PICK k \in DOMAIN chunks : Parses(k) /\ chunks[k].review = r
      BY DEF ReviewsOf, OnDisk
    <3> QED
      BY <3>1, Pieces DEF Parses
  <2> QED
    BY <2>1, Pieces DEF Position
<1>2. Len(chunks) \in Nat
  BY Pieces
<1>3. Up \subseteq Nat /\ Up # {}
  <2>1. Q # {} /\ \A r \in Q : Len(chunks) - Position(r) \in Nat
    BY <1>1, <1>2
  <2> HIDE DEF Q
  <2> QED
    BY <2>1
<1> HIDE DEF Q
<1>4. PICK u \in Up : \A v \in Up : u <= v
  <2> HIDE DEF Up
  <2> QED
    BY <1>3, Least
<1>5. PICK r \in Q : u = Len(chunks) - Position(r)
  OBVIOUS
<1>6. ASSUME NEW q \in Q PROVE Position(q) <= Position(r)
  <2>1. Len(chunks) - Position(r) <= Len(chunks) - Position(q)
    BY <1>4, <1>5
  <2> QED
    BY <1>1, <1>2, <2>1
<1> QED
  BY <1>6 DEF LatestOf, Q

(* The last row of a draft is the one that is read back.                   *)
LEMMA LastIsLatest ==
  ASSUME ReviewTypes, FileIsWhole, NEW id
  PROVE  IsLatest(id, LatestOf(id, OnDisk))
<1>1. ReviewsOf(id, OnDisk) = {chunks[k].review : k \in RowsOf(id)}
  BY RowsParse DEF ReviewsOf, RowsOf
<1>2. CASE RowsOf(id) = {}
  BY <1>1, <1>2 DEF LatestOf, IsLatest
<1>3. CASE RowsOf(id) # {}
  <2> DEFINE m == LatestOf(id, OnDisk)
  <2>1. m \in ReviewsOf(id, OnDisk) /\ \A q \in ReviewsOf(id, OnDisk) : Position(q) <= Position(m)
    BY <1>1, <1>3, LatestIsIn
  <2> HIDE DEF m
  <2>2. PICK k \in RowsOf(id) : chunks[k].review = m
    BY <1>1, <2>1
  <2>3. \A j \in RowsOf(id) : Position(chunks[j].review) = j
    BY RowHasPlace DEF RowsOf
  <2>4. \A j \in RowsOf(id) : j <= k
    BY <1>1, <2>1, <2>2, <2>3
  <2>5. IsLatest(id, m)
    BY <2>2, <2>4 DEF IsLatest
  <2> QED
    BY <2>5 DEF m
<1> QED
  BY <1>2, <1>3

(* The invariant says what the run checks.                                 *)
LEMMA InvIsSound == ReviewInv => ReviewsAreSound
<1> SUFFICES ASSUME ReviewInv PROVE ReviewsAreSound
  OBVIOUS
<1>1. ReviewTypes /\ ThreadsServe /\ (~mixed => Alone)
  BY DEF ReviewInv
<1>2. ReviewTypeOK
  <2>1. \A r \in DOMAIN reviews : reviews[r].id \in ReviewIds /\ reviews[r].by \in Programs
    BY <1>1, Pieces
  <2>2. {chunks[k].review : k \in DOMAIN chunks} \subseteq DOMAIN reviews
    BY <1>1, Pieces
  <2>3. ToSet(pending) \subseteq ReviewIds
    BY <1>1 DEF ReviewTypes, ToSet
  <2>4. \A w \in Webs : \A t \in Threads : holder[w] = t <=> thread[w][t].pc = "write"
    BY <1>1 DEF ThreadsServe, ThreadServes
  <2>5. /\ acked \subseteq DOMAIN reviews /\ up \subseteq Programs /\ (asking > 0 => pending # <<>>)
        /\ \A p \in Programs : reviewStarts[p] \in 0 .. ReviewStarts
    BY <1>1 DEF ReviewTypes
  <2> QED
    BY <2>1, <2>2, <2>3, <2>4, <2>5 DEF ReviewTypeOK
<1>3. AckedIsOnDisk
  BY <1>1, RowsParse DEF AckedIsOnDisk, Alone, WritersWrite, IsRow
<1>4. MemoryIsFile
  BY <1>1, LatestIsLast DEF MemoryIsFile, Alone, MemoryIsRead
<1>5. AskedOnce
  <2> SUFFICES ASSUME ~mixed, NEW r \in acked, NEW q \in acked, reviews[r].id = reviews[q].id,
                      Position(q) < Position(r), reviews[r].by = Cli
               PROVE  FALSE
    BY DEF AskedOnce
  <2>1. PICK k \in FileRows : chunks[k].review = r
    BY <1>1 DEF Alone, WritersWrite, IsRow
  <2>2. PICK j \in FileRows : chunks[j].review = q
    BY <1>1 DEF Alone, WritersWrite, IsRow
  <2>3. Position(r) = k /\ Position(q) = j
    BY <1>1, <2>1, <2>2, RowHasPlace DEF Alone
  <2> QED
    BY <1>1, <2>1, <2>2, <2>3 DEF Alone, AsksTheRest, CliIsFirst
<1> QED
  BY <1>2, <1>3, <1>4, <1>5 DEF ReviewsAreSound
-----------------------------------------------------------------------------
(* A review that is made changes no other.                                 *)
LEMMA ReviewIsNew ==
  ASSUME ReviewTypes, NEW id \in ReviewIds, NEW p \in Programs, NewReview(id, p)
  PROVE  /\ reviews' \in Seq([id : ReviewIds, by : Programs])
         /\ Len(reviews) + 1 \in DOMAIN reviews' /\ Len(reviews) + 1 \notin DOMAIN reviews
         /\ Len(reviews) + 1 \in Nat /\ Len(reviews) + 1 # 0
         /\ reviews'[Len(reviews) + 1] = [id |-> id, by |-> p]
         /\ \A r \in DOMAIN reviews : r \in DOMAIN reviews' /\ reviews'[r] = reviews[r]
<1> DEFINE R == [id : ReviewIds, by : Programs]
           new == [id |-> id, by |-> p]
<1>1. reviews \in Seq(R) /\ new \in R /\ reviews' = Append(reviews, new)
  BY DEF ReviewTypes, NewReview
<1> HIDE DEF R, new
<1>2. /\ reviews' \in Seq(R) /\ Len(reviews) \in Nat /\ DOMAIN reviews = 1 .. Len(reviews)
      /\ DOMAIN reviews' = 1 .. Len(reviews) + 1
      /\ reviews'[Len(reviews) + 1] = new
      /\ \A r \in 1 .. Len(reviews) : reviews'[r] = reviews[r]
  BY <1>1
<1> QED
  BY <1>2 DEF R, new

(* A piece is of a review that was made.                                   *)
Reviews == [review : DOMAIN reviews, part : {1, 2}]
LEMMA PieceIsAdded ==
  ASSUME ReviewTypes, DOMAIN reviews \subseteq DOMAIN reviews', NEW r \in DOMAIN reviews',
         NEW n \in {1, 2}, Piece(r, n)
  PROVE  /\ chunks' \in Seq(Reviews') /\ chunks' # <<>>
         /\ Len(chunks') = Len(chunks) + 1 /\ DOMAIN chunks' = 1 .. Len(chunks) + 1
         /\ Len(chunks) \in Nat /\ DOMAIN chunks = 1 .. Len(chunks)
         /\ chunks'[Len(chunks) + 1] = [review |-> r, part |-> n]
         /\ \A k \in 1 .. Len(chunks) : chunks'[k] = chunks[k]
<1> DEFINE new == [review |-> r, part |-> n]
<1>1. chunks \in Seq(Reviews) /\ Reviews \subseteq Reviews' /\ new \in Reviews'
      /\ chunks' = Append(chunks, new)
  BY DEF ReviewTypes, Reviews, Piece
<1> HIDE DEF new
<1> DEFINE C == Reviews
           D == Reviews'
<1>2. chunks \in Seq(C) /\ C \subseteq D /\ new \in D /\ chunks' = Append(chunks, new)
  BY <1>1
<1> HIDE DEF C, D
<1>3. chunks \in Seq(D)
  BY <1>2
<1>4. /\ chunks' \in Seq(D) /\ chunks' # <<>>
      /\ Len(chunks') = Len(chunks) + 1 /\ DOMAIN chunks' = 1 .. Len(chunks) + 1
      /\ Len(chunks) \in Nat /\ DOMAIN chunks = 1 .. Len(chunks)
      /\ chunks'[Len(chunks) + 1] = new
      /\ \A k \in 1 .. Len(chunks) : chunks'[k] = chunks[k]
  BY <1>2, <1>3
<1> QED
  BY <1>4 DEF D, new

LEMMA PiecesStay ==
  ASSUME ReviewTypes, DOMAIN reviews \subseteq DOMAIN reviews', chunks' = chunks
  PROVE  chunks' \in Seq(Reviews')
<1> DEFINE C == Reviews
           D == Reviews'
<1>1. chunks \in Seq(C) /\ C \subseteq D /\ chunks' = chunks
  BY DEF ReviewTypes, Reviews
<1> HIDE DEF C, D
<1>2. chunks' \in Seq(D)
  BY <1>1
<1> QED
  BY <1>2 DEF D

(* What the terminal still asks about, after one of them.                  *)
LEMMA NextIsAsked ==
  ASSUME ReviewTypes, Cli \in up, NextDraft
  PROVE  /\ pending' \in Seq(ReviewIds) /\ up' \subseteq up /\ (Cli \in up' <=> pending' # <<>>)
         /\ \A p \in up : p # Cli => p \in up'
         /\ Len(pending') = Len(pending) - 1 /\ Len(pending) \in Nat /\ Len(pending) # 0
         /\ DOMAIN pending' = 1 .. Len(pending) - 1 /\ DOMAIN pending = 1 .. Len(pending)
         /\ pending[1] \in ReviewIds
         /\ \A i \in DOMAIN pending' : pending'[i] = pending[i + 1]
<1>1. pending \in Seq(ReviewIds) /\ pending # <<>> /\ pending' = Tail(pending)
  BY DEF ReviewTypes, NextDraft
<1> QED
  BY <1>1 DEF NextDraft

(* What a start finds without a row.                                       *)
LEMMA RestIsPending ==
  ASSUME NEW K
  PROVE  /\ Picked(Drafts, K) \in Seq(ReviewIds)
         /\ \A i \in DOMAIN Picked(Drafts, K) :
              \E k \in K \cap DOMAIN Drafts : Picked(Drafts, K)[i] = Drafts[k]
         /\ \A i, j \in DOMAIN Picked(Drafts, K) :
              Picked(Drafts, K)[i] = Picked(Drafts, K)[j] => i = j
<1> DEFINE y == Picked(Drafts, K)
           L == K \cap (1 .. Len(Drafts))
<1>1. Drafts \in Seq(ReviewIds) /\ DOMAIN Drafts = 1 .. Len(Drafts)
      /\ \A j, k \in DOMAIN Drafts : Drafts[j] = Drafts[k] => j = k
  BY ReviewAssumption
<1>2. y \in Seq(ReviewIds) /\ \E pos : PlacesOf(pos, y, Drafts, L)
  BY <1>1, PickedPlaces
<1> HIDE DEF y
<1>3. PICK pos : PlacesOf(pos, y, Drafts, L)
  BY <1>2
<1>4. DOMAIN y = 1 .. Len(y)
  BY <1>2
<1>5. \A i \in DOMAIN y : pos[i] \in L /\ y[i] = Drafts[pos[i]]
  BY <1>3, <1>4 DEF PlacesOf
<1>6. \A i, j \in DOMAIN y : pos[i] = pos[j] => i = j
  BY <1>3, <1>4 DEF PlacesOf
<1>7. \A i, j \in DOMAIN y : y[i] = y[j] => i = j
  BY <1>1, <1>5, <1>6
<1> QED
  BY <1>1, <1>2, <1>5, <1>7 DEF y

(* Memory is of reviews that are on disk.                                  *)
LEMMA ReadsReviews == ASSUME ReviewTypes, NEW id PROVE LatestOf(id, OnDisk) \in Nat
<1>1. OnDisk \subseteq DOMAIN reviews /\ DOMAIN reviews \subseteq Nat
  BY Pieces DEF OnDisk
<1>2. CASE ReviewsOf(id, OnDisk) = {}
  BY <1>2 DEF LatestOf
<1>3. CASE ReviewsOf(id, OnDisk) # {}
  BY <1>1, <1>3, LatestIsIn DEF ReviewsOf
<1> QED
  BY <1>2, <1>3
-----------------------------------------------------------------------------
(* Each action keeps the types, and the lock with the one who writes.      *)
TypesKept == ReviewTypes' /\ ThreadsServe'
Posts == [pc : {"idle", "lock", "write", "answer"}, review : Nat]

LEMMA StartsKeep ==
  ASSUME ReviewTypes, ThreadsServe, (\E w \in Webs : StartWeb(w)) \/ StartCli
  PROVE  TypesKept
<1> USE DEF TypesKept, ThreadsServe, ThreadServes, Starting
<1>1. ASSUME NEW p \in Programs, Starting(p)
      PROVE  mixed' \in BOOLEAN /\ reviewStarts' \in [Programs -> 0 .. ReviewStarts]
  BY <1>1, ReviewAssumption DEF ReviewTypes
<1>2. ASSUME NEW w \in Webs, StartWeb(w) PROVE TypesKept
  <2>1. memory' \in [Webs -> [ReviewIds -> Nat]]
    BY <1>2, ReadsReviews DEF ReviewTypes, StartWeb
  <2>2. up' \subseteq Programs /\ (Cli \in up' <=> Cli \in up) /\ up \subseteq up'
    BY <1>2, ReviewAssumption DEF ReviewTypes, StartWeb, Programs
  <2>3. UNCHANGED <<chunks, reviews, acked, holder, thread, pending, asking>>
    BY <1>2 DEF StartWeb
  <2>4. mixed' \in BOOLEAN /\ reviewStarts' \in [Programs -> 0 .. ReviewStarts]
    BY <1>1, <1>2 DEF StartWeb, Programs
  <2>5. ReviewTypes'
    BY <2>1, <2>2, <2>3, <2>4 DEF ReviewTypes
  <2>6. ThreadsServe'
    BY <2>2, <2>3
  <2> QED
    BY <2>5, <2>6
<1>3. CASE StartCli
  <2>1. /\ pending' \in Seq(ReviewIds) /\ up' \subseteq Programs /\ up \subseteq up'
        /\ Cli \in up' <=> pending' # <<>>
    <3>1. CASE Broken
      BY <1>3, <3>1 DEF StartCli, ReviewTypes
    <3>2. CASE ~Broken
      <4>1. pending' \in Seq(ReviewIds) /\ up' = IF pending' = <<>> THEN up ELSE up \cup {Cli}
        BY <1>3, <3>2, RestIsPending DEF StartCli
      <4>2. Cli \notin up /\ Cli \in Programs /\ up \subseteq Programs
        BY <1>3 DEF StartCli, ReviewTypes, Programs
      <4> QED
        BY <4>1, <4>2
    <3> QED
      BY <3>1, <3>2
  <2>2. UNCHANGED <<chunks, reviews, acked, memory, holder, thread, asking>>
    BY <1>3 DEF StartCli
  <2>3. mixed' \in BOOLEAN /\ reviewStarts' \in [Programs -> 0 .. ReviewStarts]
    BY <1>1, <1>3 DEF StartCli, Programs
  <2>4. ReviewTypes'
    BY <2>1, <2>2, <2>3 DEF ReviewTypes
  <2>5. ThreadsServe'
    BY <2>1, <2>2
  <2> QED
    BY <2>4, <2>5
<1> QED
  BY <1>2, <1>3

LEMMA PostKeeps ==
  ASSUME ReviewTypes, ThreadsServe, NEW w \in Webs, NEW t \in Threads, NEW id \in ReviewIds,
         Post(w, t, id)
  PROVE  TypesKept
<1> DEFINE n == Len(reviews) + 1
<1>1. /\ w \in up /\ thread[w][t].pc = "idle" /\ NewReview(id, w)
      /\ thread' = [thread EXCEPT ![w][t] = [pc |-> "lock", review |-> n]]
      /\ UNCHANGED <<chunks, acked, up, memory, holder, pending, asking, mixed, reviewStarts>>
  BY DEF Post
<1>2. /\ reviews' \in Seq([id : ReviewIds, by : Programs])
      /\ n \in DOMAIN reviews' /\ n \in Nat /\ reviews'[n] = [id |-> id, by |-> w]
      /\ \A r \in DOMAIN reviews : r \in DOMAIN reviews' /\ reviews'[r] = reviews[r]
  BY <1>1, ReviewIsNew DEF Programs
<1> HIDE DEF n
<1>3. chunks' \in Seq(Reviews')
  BY <1>1, <1>2, PiecesStay
<1>4. thread \in [Webs -> [Threads -> Posts]]
  BY DEF ReviewTypes, Posts
<1>5. /\ thread' \in [Webs -> [Threads -> Posts]]
      /\ thread'[w][t] = [pc |-> "lock", review |-> n]
      /\ \A v \in Webs, s \in Threads : v # w \/ s # t => thread'[v][s] = thread[v][s]
  <2>1. [pc |-> "lock", review |-> n] \in Posts
    BY <1>2 DEF Posts
  <2> QED
    BY <1>1, <1>4, <2>1
<1>6. ReviewTypes'
  BY <1>1, <1>2, <1>3, <1>5 DEF ReviewTypes, Reviews, Posts
<1>7. ASSUME NEW v \in Webs, NEW s \in Threads PROVE ThreadServes(v, s)'
  <2>1. CASE v = w /\ s = t
    BY <1>1, <1>2, <1>5, <2>1 DEF ThreadsServe, ThreadServes
  <2>2. CASE v # w \/ s # t
    BY <1>1, <1>2, <1>5, <2>2 DEF ThreadsServe, ThreadServes
  <2> QED
    BY <2>1, <2>2
<1> QED
  BY <1>6, <1>7 DEF TypesKept, ThreadsServe

(* What a thread that serves leaves of the other threads and programs.     *)
LEMMA ServeKeeps ==
  ASSUME ReviewTypes, ThreadsServe, NEW w \in Webs, NEW t \in Threads, Serve(w, t)
  PROVE  TypesKept
<1>1. thread \in [Webs -> [Threads -> Posts]] /\ holder \in [Webs -> Threads \cup {None}]
  BY DEF ReviewTypes, Posts
<1>2. UNCHANGED <<reviews, up, pending, asking, mixed, reviewStarts>>
  BY DEF Serve, Lock, Write, AnswerReview
<1>3. /\ thread[w][t].pc # "idle" /\ thread[w][t].review \in DOMAIN reviews
      /\ reviews[thread[w][t].review].by = w /\ w \in up
  BY DEF Serve, Lock, Write, AnswerReview, ThreadsServe, ThreadServes
<1>4. chunks' \in Seq(Reviews')
  <2>1. CASE AnswerReview(w, t)
    BY <1>2, <2>1, PiecesStay DEF AnswerReview
  <2>2. CASE Lock(w, t)
    BY <1>2, <1>3, <2>2, PieceIsAdded DEF Lock
  <2>3. CASE Write(w, t)
    BY <1>2, <1>3, <2>3, PieceIsAdded DEF Write
  <2> QED
    BY <2>1, <2>2, <2>3 DEF Serve
<1>5. memory' \in [Webs -> [ReviewIds -> Nat]] /\ acked' \subseteq DOMAIN reviews
  <2>1. reviews[thread[w][t].review].id \in ReviewIds /\ thread[w][t].review \in Nat
    BY <1>3, Pieces
  <2>2. CASE Lock(w, t) \/ AnswerReview(w, t)
    BY <1>3, <2>2 DEF ReviewTypes, Lock, AnswerReview
  <2>3. CASE Write(w, t)
    BY <2>1, <2>3 DEF ReviewTypes, Write
  <2> QED
    BY <2>2, <2>3 DEF Serve
<1>6. /\ thread' \in [Webs -> [Threads -> Posts]] /\ holder' \in [Webs -> Threads \cup {None}]
      /\ \A v \in Webs, s \in Threads : v # w \/ s # t => thread'[v][s] = thread[v][s]
      /\ \A v \in Webs : v # w => holder'[v] = holder[v]
  <2>1. CASE Lock(w, t)
    BY <1>1, <2>1 DEF Lock, Posts
  <2>2. CASE Write(w, t)
    BY <1>1, <2>2 DEF Write, Posts
  <2>3. CASE AnswerReview(w, t)
    BY <1>1, <2>3 DEF AnswerReview, Posts, Idle
  <2> QED
    BY <2>1, <2>2, <2>3 DEF Serve
<1>7. ReviewTypes'
  BY <1>2, <1>4, <1>5, <1>6 DEF ReviewTypes, Reviews, Posts
<1>8. ThreadServes(w, t)' /\ \A s \in Threads : s # t => (holder'[w] = s <=> holder[w] = s)
  <2>1. CASE Lock(w, t)
    BY <1>1, <1>2, <1>3, <2>1, ReviewAssumption DEF Lock, ThreadsServe, ThreadServes
  <2>2. CASE Write(w, t)
    BY <1>1, <1>2, <1>3, <2>2, ReviewAssumption DEF Write, ThreadsServe, ThreadServes
  <2>3. CASE AnswerReview(w, t)
    BY <1>1, <1>2, <1>3, <2>3, ReviewAssumption DEF AnswerReview, ThreadsServe, ThreadServes, Idle
  <2> QED
    BY <2>1, <2>2, <2>3 DEF Serve
<1>9. ASSUME NEW v \in Webs, NEW s \in Threads, v # w \/ s # t PROVE ThreadServes(v, s)'
  <2>1. ThreadServes(v, s) /\ thread'[v][s] = thread[v][s] /\ (holder'[v] = s <=> holder[v] = s)
    BY <1>6, <1>8, <1>9 DEF ThreadsServe
  <2> QED
    BY <1>2, <2>1 DEF ThreadServes
<1> QED
  BY <1>7, <1>8, <1>9 DEF TypesKept, ThreadsServe

LEMMA VerdictKeeps ==
  ASSUME ReviewTypes, ThreadsServe, Verdict
  PROVE  TypesKept
<1> DEFINE n == Len(reviews) + 1
<1>1. /\ Cli \in up /\ asking' = n /\ NewReview(Head(pending), Cli) /\ Piece(n, 1)
      /\ UNCHANGED <<acked, up, memory, holder, thread, pending, mixed, reviewStarts>>
  BY DEF Verdict
<1>2. Head(pending) \in ReviewIds /\ Cli \in Programs
  BY <1>1 DEF ReviewTypes, Programs
<1>3. /\ reviews' \in Seq([id : ReviewIds, by : Programs])
      /\ n \in DOMAIN reviews' /\ n \in Nat
      /\ \A r \in DOMAIN reviews : r \in DOMAIN reviews' /\ reviews'[r] = reviews[r]
  BY <1>1, <1>2, ReviewIsNew
<1> HIDE DEF n
<1>4. chunks' \in Seq(Reviews')
  BY <1>1, <1>3, PieceIsAdded
<1>5. ReviewTypes'
  BY <1>1, <1>3, <1>4 DEF ReviewTypes, Reviews
<1>6. ThreadsServe'
  BY <1>1, <1>3 DEF ThreadsServe, ThreadServes
<1> QED
  BY <1>5, <1>6 DEF TypesKept

LEMMA DraftsKeep ==
  ASSUME ReviewTypes, ThreadsServe, VerdictEnds \/ SkipDraft
  PROVE  TypesKept
<1>1. /\ Cli \in up /\ NextDraft /\ asking' = 0
      /\ UNCHANGED <<reviews, memory, holder, thread, mixed, reviewStarts>>
  BY DEF VerdictEnds, SkipDraft
<1>2. /\ pending' \in Seq(ReviewIds) /\ up' \subseteq up /\ (Cli \in up' <=> pending' # <<>>)
      /\ \A p \in up : p # Cli => p \in up'
  BY <1>1, NextIsAsked
<1>3. chunks' \in Seq(Reviews') /\ acked' \subseteq DOMAIN reviews
  <2>1. CASE VerdictEnds
    <3>1. asking \in DOMAIN reviews /\ Piece(asking, 2) /\ acked' = acked \cup {asking}
      BY <2>1 DEF VerdictEnds, ReviewTypes
    <3> QED
      BY <1>1, <3>1, PieceIsAdded DEF ReviewTypes
  <2>2. CASE SkipDraft
    BY <1>1, <2>2, PiecesStay DEF SkipDraft, ReviewTypes
  <2> QED
    BY <2>1, <2>2
<1>4. ReviewTypes'
  BY <1>1, <1>2, <1>3 DEF ReviewTypes, Reviews
<1>5. ThreadsServe'
  <2>1. Cli \notin Webs
    BY ReviewAssumption
  <2> QED
    BY <1>1, <1>2, <2>1 DEF ThreadsServe, ThreadServes
<1> QED
  BY <1>4, <1>5 DEF TypesKept

LEMMA LeavingKeeps ==
  ASSUME ReviewTypes, ThreadsServe, NEW p \in Programs, Quit(p) \/ KillProgram(p)
  PROVE  TypesKept
<1>1. /\ up' = up \ {p} /\ UNCHANGED <<chunks, reviews, acked, memory, reviewStarts>>
      /\ mixed' \in BOOLEAN
  BY DEF Quit, KillProgram, ReviewTypes
<1>2. IF p = Cli THEN pending' = <<>> /\ asking' = 0 ELSE UNCHANGED <<pending, asking>>
  BY DEF Quit, KillProgram, ReviewTypes
<1>3. thread \in [Webs -> [Threads -> Posts]] /\ holder \in [Webs -> Threads \cup {None}]
  BY DEF ReviewTypes, Posts
<1>4. /\ thread' \in [Webs -> [Threads -> Posts]] /\ holder' \in [Webs -> Threads \cup {None}]
      /\ \A v \in Webs, t \in Threads : v # p => /\ thread'[v][t] = thread[v][t]
                                                /\ holder'[v] = holder[v]
      /\ p \in Webs => \A t \in Threads : thread'[p][t] = Idle /\ holder'[p] # t
  <2>1. CASE p = Cli
    BY <1>3, <2>1, ReviewAssumption DEF Quit, KillProgram
  <2>2. CASE p # Cli /\ Quit(p)
    <3>1. /\ UNCHANGED <<holder, thread>> /\ p \in Webs
          /\ \A t \in Threads : thread[p][t] = Idle
      BY <2>2 DEF Quit, Programs
    <3>2. \A t \in Threads : holder[p] # t
      BY <3>1 DEF ThreadsServe, ThreadServes, Idle
    <3> QED
      BY <1>3, <3>1, <3>2
  <2>3. CASE p # Cli /\ KillProgram(p)
    <3>1. p \in Webs
      BY <2>3 DEF Programs
    <3>2. /\ holder' = [holder EXCEPT ![p] = None]
          /\ thread' = [thread EXCEPT ![p] = [t \in Threads |-> Idle]]
      BY <2>3 DEF KillProgram
    <3>3. Idle \in Posts
      BY DEF Idle, Posts
    <3> QED
      BY <1>3, <3>1, <3>2, <3>3, ReviewAssumption
  <2> QED
    BY <2>1, <2>2, <2>3
<1>5. ReviewTypes'
  <2>1. pending' \in Seq(ReviewIds) /\ (Cli \in up' <=> pending' # <<>>)
    <3>1. CASE p = Cli
      <4>1. <<>> \in Seq(ReviewIds) /\ pending' = <<>> /\ Cli \notin up'
        BY <1>1, <1>2, <3>1
      <4> QED
        BY <4>1
    <3>2. CASE p # Cli
      <4>1. pending' = pending /\ (Cli \in up' <=> Cli \in up)
        BY <1>1, <1>2, <3>2
      <4> QED
        BY <4>1 DEF ReviewTypes
    <3> QED
      BY <3>1, <3>2
  <2>2. asking' \in Nat /\ (asking' # 0 => asking' \in DOMAIN reviews /\ Cli \in up')
    BY <1>1, <1>2 DEF ReviewTypes
  <2> QED
    BY <1>1, <1>4, <2>1, <2>2 DEF ReviewTypes, Posts
<1>6. ASSUME NEW v \in Webs, NEW t \in Threads PROVE ThreadServes(v, t)'
  <2>1. CASE v = p
    BY <1>4, <2>1 DEF ThreadServes, Idle
  <2>2. CASE v # p
    BY <1>1, <1>4, <2>2 DEF ThreadsServe, ThreadServes
  <2> QED
    BY <2>1, <2>2
<1> QED
  BY <1>5, <1>6 DEF TypesKept, ThreadsServe

LEMMA TypesAreKept ==
  ASSUME ReviewTypes, ThreadsServe, [ReviewNext]_reviewVars
  PROVE  ReviewTypes' /\ ThreadsServe'
<1>1. CASE UNCHANGED reviewVars
  BY <1>1 DEF reviewVars, ReviewTypes, ThreadsServe, ThreadServes
<1> QED
  BY <1>1, StartsKeep, PostKeeps, ServeKeeps, VerdictKeeps, DraftsKeep, LeavingKeeps
     DEF ReviewNext, TypesKept
-----------------------------------------------------------------------------
(* A row begins, and ends, at the end of the file.                         *)
LEMMA RowBegins ==
  ASSUME ReviewTypes, FileIsWhole, ~Beginning, DOMAIN reviews \subseteq DOMAIN reviews',
         NEW r \in DOMAIN reviews', ~InFile(r), Piece(r, 1)
  PROVE  /\ FileIsWhole' /\ Beginning' /\ chunks'[Len(chunks')].review = r
         /\ FileRows' = FileRows /\ \A k \in FileRows : chunks'[k] = chunks[k]
         /\ \A s : InFile(s)' => InFile(s) \/ s = r
<1> DEFINE n == Len(chunks)
<1>1. /\ chunks' # <<>> /\ Len(chunks') = n + 1 /\ DOMAIN chunks' = 1 .. n + 1
      /\ n \in Nat /\ DOMAIN chunks = 1 .. n
      /\ chunks'[n + 1] = [review |-> r, part |-> 1]
      /\ \A k \in 1 .. n : chunks'[k] = chunks[k]
  BY PieceIsAdded
<1>2. n # 0 => chunks[n].part = 2
  <2>1. n # 0 => chunks # <<>> /\ n \in DOMAIN chunks
    BY <1>1
  <2> QED
    BY <2>1, Pieces DEF Beginning
<1>3. \A k \in 1 .. n : chunks[k].review # r
  BY <1>1 DEF InFile
<1> HIDE DEF n
<1>4. Beginning' /\ chunks'[Len(chunks')].review = r
  BY <1>1 DEF Beginning
<1>5. \A k \in 1 .. n + 1 : k = n + 1 \/ (k \in 1 .. n /\ k # n + 1)
  BY <1>1
<1>6. FileRows' = FileRows /\ \A k \in FileRows : chunks'[k] = chunks[k]
  BY <1>1, <1>5 DEF FileRows
<1>7. \A s : InFile(s)' => InFile(s) \/ s = r
  BY <1>1, <1>5 DEF InFile
<1>8. \A j, k \in 1 .. n + 1 : chunks'[j] = chunks'[k] => j = k
  BY <1>1, <1>3, <1>5 DEF FileIsWhole
<1>9. ASSUME NEW k \in 1 .. n + 1
      PROVE  IF chunks'[k].part = 2
             THEN k > 1 /\ chunks'[k - 1] = [review |-> chunks'[k].review, part |-> 1]
             ELSE /\ k > 1 => chunks'[k - 1].part = 2
                  /\ k < n + 1 => chunks'[k + 1] = [review |-> chunks'[k].review, part |-> 2]
  <2>1. CASE k = n + 1
    <3>1. k > 1 => k - 1 = n /\ n \in 1 .. n
      BY <1>1, <2>1
    <3> QED
      BY <1>1, <1>2, <2>1, <3>1
  <2>2. CASE k \in 1 .. n
    <3>1. k < n \/ k = n
      BY <1>1, <2>2
    <3>2. k > 1 => k - 1 \in 1 .. n
      BY <1>1, <2>2
    <3>3. k < n => k + 1 \in 1 .. n
      BY <1>1, <2>2
    <3>4. chunks'[k] = chunks[k] /\ k \in DOMAIN chunks
      BY <1>1, <2>2
    <3>5. CASE chunks[k].part = 2
      BY <1>1, <3>2, <3>4, <3>5 DEF FileIsWhole
    <3>6. CASE chunks[k].part # 2
      <4>1. k > 1 => chunks'[k - 1].part = 2
        BY <1>1, <3>2, <3>4, <3>6 DEF FileIsWhole
      <4>2. k # n
        BY <1>1, <1>2, <3>4, <3>6
      <4>3. k < n /\ chunks'[k + 1] = [review |-> chunks'[k].review, part |-> 2]
        BY <1>1, <3>1, <3>3, <3>4, <3>6, <4>2 DEF FileIsWhole, n
      <4> QED
        BY <3>4, <3>6, <4>1, <4>3
    <3> QED
      BY <3>5, <3>6
  <2> QED
    BY <1>5, <2>1, <2>2
<1>10. FileIsWhole'
  BY <1>1, <1>8, <1>9 DEF FileIsWhole
<1> QED
  BY <1>4, <1>6, <1>7, <1>10

LEMMA RowEnds ==
  ASSUME ReviewTypes, FileIsWhole, Beginning, reviews' = reviews,
         NEW r \in DOMAIN reviews, chunks[Len(chunks)].review = r, Piece(r, 2)
  PROVE  /\ FileIsWhole' /\ ~Beginning'
         /\ FileRows' = FileRows \cup {Len(chunks) + 1} /\ chunks'[Len(chunks) + 1].review = r
         /\ \A k \in FileRows : chunks'[k] = chunks[k] /\ k \in Nat /\ k < Len(chunks) + 1
         /\ Len(chunks) + 1 \in Nat
         /\ \A s : InFile(s)' => InFile(s)
<1> DEFINE n == Len(chunks)
<1>1. /\ chunks' # <<>> /\ Len(chunks') = n + 1 /\ DOMAIN chunks' = 1 .. n + 1
      /\ n \in Nat /\ DOMAIN chunks = 1 .. n
      /\ chunks'[n + 1] = [review |-> r, part |-> 2]
      /\ \A k \in 1 .. n : chunks'[k] = chunks[k]
  BY PieceIsAdded
<1>2. n \in 1 .. n /\ chunks[n] = [review |-> r, part |-> 1]
  <2>1. n # 0
    BY <1>1 DEF Beginning, ReviewTypes
  <2>2. n \in DOMAIN chunks
    BY <1>1, <2>1
  <2> QED
    BY <1>1, <2>2, Pieces DEF Beginning
<1> HIDE DEF n
<1>3. ~Beginning'
  BY <1>1 DEF Beginning
<1>4. \A k \in 1 .. n + 1 : k = n + 1 \/ (k \in 1 .. n /\ k # n + 1)
  BY <1>1
<1>5. FileRows' = FileRows \cup {n + 1} /\ \A k \in FileRows : chunks'[k] = chunks[k] /\ k \in 1 .. n
  <2>1. n + 1 \in 1 .. n + 1 /\ \A k \in 1 .. n : k \in 1 .. n + 1
    BY <1>1
  <2> QED
    BY <1>1, <1>4, <2>1 DEF FileRows
<1>6. \A s : InFile(s)' => InFile(s)
  BY <1>1, <1>2, <1>4 DEF InFile
<1>7. ASSUME NEW j \in 1 .. n, chunks[j] = [review |-> r, part |-> 2] PROVE FALSE
  <2>1. j > 1 /\ chunks[j - 1] = [review |-> r, part |-> 1]
    <3>1. j \in DOMAIN chunks /\ chunks[j].part = 2 /\ chunks[j].review = r
      BY <1>1, <1>7
    <3> QED
      BY <3>1 DEF FileIsWhole
  <2>2. j - 1 \in 1 .. n /\ j - 1 # n
    BY <1>1, <2>1
  <2> QED
    BY <1>1, <1>2, <2>1, <2>2 DEF FileIsWhole
<1>8. \A j, k \in 1 .. n + 1 : chunks'[j] = chunks'[k] => j = k
  BY <1>1, <1>4, <1>7 DEF FileIsWhole
<1>9. ASSUME NEW k \in 1 .. n + 1
      PROVE  IF chunks'[k].part = 2
             THEN k > 1 /\ chunks'[k - 1] = [review |-> chunks'[k].review, part |-> 1]
             ELSE /\ k > 1 => chunks'[k - 1].part = 2
                  /\ k < n + 1 => chunks'[k + 1] = [review |-> chunks'[k].review, part |-> 2]
  <2>1. CASE k = n + 1
    <3>1. k > 1 /\ k - 1 = n
      BY <1>1, <1>2, <2>1
    <3> QED
      BY <1>1, <1>2, <2>1, <3>1
  <2>2. CASE k \in 1 .. n
    <3>1. k < n \/ k = n
      BY <1>1, <2>2
    <3>2. k > 1 => k - 1 \in 1 .. n
      BY <1>1, <2>2
    <3>3. k < n => k + 1 \in 1 .. n
      BY <1>1, <2>2
    <3>4. chunks'[k] = chunks[k] /\ k \in DOMAIN chunks
      BY <1>1, <2>2
    <3>5. CASE chunks[k].part = 2
      BY <1>1, <3>2, <3>4, <3>5 DEF FileIsWhole
    <3>6. CASE chunks[k].part # 2
      <4>1. k > 1 => chunks'[k - 1].part = 2
        BY <1>1, <3>2, <3>4, <3>6 DEF FileIsWhole
      <4>2. CASE k = n
        BY <1>1, <1>2, <3>4, <3>6, <4>1, <4>2
      <4>3. CASE k < n
        BY <1>1, <3>3, <3>4, <3>6, <4>1, <4>3 DEF FileIsWhole, n
      <4> QED
        BY <3>1, <4>2, <4>3
    <3> QED
      BY <3>5, <3>6
  <2> QED
    BY <1>4, <2>1, <2>2
<1>10. FileIsWhole'
  BY <1>1, <1>8, <1>9 DEF FileIsWhole
<1>11. \A k \in FileRows : k \in Nat /\ k < n + 1
  BY <1>1, <1>5
<1>12. chunks'[n + 1].review = r /\ n + 1 \in Nat
  BY <1>1
<1> QED
  BY <1>3, <1>5, <1>6, <1>10, <1>11, <1>12 DEF n

(* The rows as their readers see them.                                     *)
SameRows ==
  /\ FileRows' = FileRows
  /\ \A k \in FileRows : /\ chunks'[k].review = chunks[k].review
                     /\ reviews'[chunks[k].review] = reviews[chunks[k].review]

LEMMA ReadersSeeTheSame ==
  ASSUME SameRows
  PROVE  /\ \A id : RowsOf(id)' = RowsOf(id)
         /\ \A id, r : IsLatest(id, r) => IsLatest(id, r)'
         /\ \A r : IsRow(r)' <=> IsRow(r)
         /\ CliIsFirst => CliIsFirst'
<1>1. \A id : RowsOf(id)' = RowsOf(id)
  BY DEF SameRows, RowsOf
<1>2. \A id : \A k \in RowsOf(id) : k \in FileRows
  BY DEF RowsOf
<1>3. \A id, r : IsLatest(id, r) => IsLatest(id, r)'
  BY <1>1, <1>2 DEF SameRows, IsLatest
<1>4. \A r : IsRow(r)' <=> IsRow(r)
  BY DEF SameRows, IsRow
<1>5. CliIsFirst => CliIsFirst'
  BY DEF SameRows, CliIsFirst
<1> QED
  BY <1>1, <1>3, <1>4, <1>5

NewRow(n, r) ==
  /\ FileRows' = FileRows \cup {n} /\ chunks'[n].review = r /\ n \in Nat
  /\ \A k \in FileRows : chunks'[k] = chunks[k] /\ k \in Nat /\ k < n
  /\ reviews' = reviews

LEMMA ReadersSeeOneMore ==
  ASSUME NEW n, NEW r, NewRow(n, r)
  PROVE  /\ \A id : RowsOf(id)' = IF id = reviews[r].id THEN RowsOf(id) \cup {n} ELSE RowsOf(id)
         /\ IsLatest(reviews[r].id, r)'
         /\ \A id, m : id # reviews[r].id /\ IsLatest(id, m) => IsLatest(id, m)'
         /\ IsRow(r)' /\ \A s : IsRow(s) => IsRow(s)'
<1>1. n \notin FileRows /\ \A k \in FileRows : k # n
  BY DEF NewRow
<1>2. \A id : RowsOf(id)' = IF id = reviews[r].id THEN RowsOf(id) \cup {n} ELSE RowsOf(id)
  BY <1>1 DEF NewRow, RowsOf
<1>3. \A id : \A k \in RowsOf(id) : k \in FileRows
  BY DEF RowsOf
<1>4. IsLatest(reviews[r].id, r)'
  BY <1>2, <1>3 DEF NewRow, IsLatest
<1>5. \A id, m : id # reviews[r].id /\ IsLatest(id, m) => IsLatest(id, m)'
  BY <1>2, <1>3 DEF NewRow, IsLatest
<1>6. IsRow(r)' /\ \A s : IsRow(s) => IsRow(s)'
  BY <1>1 DEF NewRow, IsRow
<1> QED
  BY <1>2, <1>4, <1>5, <1>6
-----------------------------------------------------------------------------
(* As long as one program at a time uses the file.                         *)
Starts == (\E w \in Webs : StartWeb(w)) \/ StartCli

LEMMA NobodyWrites ==
  ASSUME ReviewTypes, ThreadsServe, up = {}
  PROVE  asking = 0 /\ pending = <<>> /\ \A w \in Webs, t \in Threads : thread[w][t] = Idle
BY DEF ReviewTypes, ThreadsServe, ThreadServes

LEMMA OneServer ==
  ASSUME ReviewTypes, ThreadsServe, OneProgram, NEW w \in Webs, w \in up
  PROVE  /\ asking = 0 /\ pending = <<>> /\ Cli \notin up
         /\ \A v \in up : v = w
         /\ \A v \in Webs, t \in Threads : v # w => thread[v][t] = Idle
BY ReviewAssumption DEF ReviewTypes, ThreadsServe, ThreadServes, OneProgram

LEMMA TerminalAlone ==
  ASSUME ReviewTypes, ThreadsServe, OneProgram, Cli \in up
  PROVE  /\ \A v \in up : v = Cli /\ v \notin Webs
         /\ \A w \in Webs, t \in Threads : thread[w][t] = Idle
BY ReviewAssumption DEF ReviewTypes, ThreadsServe, ThreadServes, OneProgram

LEMMA StartsAlone ==
  ASSUME ReviewInv, Starts, ~mixed'
  PROVE  Alone'
<1>1. /\ ReviewTypes /\ ThreadsServe /\ Alone /\ up = {}
      /\ UNCHANGED <<chunks, reviews, acked, thread, asking>>
  BY DEF ReviewInv, Starts, StartWeb, StartCli, Starting
<1>2. asking = 0 /\ pending = <<>> /\ \A w \in Webs, t \in Threads : thread[w][t] = Idle
  BY <1>1, NobodyWrites
<1>3. FileIsWhole'
  BY <1>1 DEF Alone, FileIsWhole
<1>4. WritersWrite'
  BY <1>1 DEF Alone, WritersWrite, InFile, Beginning, FileRows, IsRow, Writers
<1>5. SameRows
  BY <1>1 DEF SameRows, FileRows
<1>6. /\ \A id : RowsOf(id)' = RowsOf(id)
      /\ \A id, r : IsLatest(id, r) => IsLatest(id, r)'
      /\ CliIsFirst'
  BY <1>1, <1>5, ReadersSeeTheSame DEF Alone, AsksTheRest
<1>7. ASSUME NEW w \in Webs, StartWeb(w) PROVE Alone'
  <2>1. up' = {w} /\ pending' = pending /\ \A id \in ReviewIds : memory'[w][id] = LatestOf(id, OnDisk)
    BY <1>1, <1>7 DEF StartWeb, ReviewTypes
  <2>2. MemoryIsRead'
    BY <1>1, <1>6, <2>1, LastIsLatest DEF MemoryIsRead, Alone
  <2>3. AsksTheRest'
    BY <1>1, <1>2, <1>6, <2>1 DEF AsksTheRest
  <2>4. OneProgram'
    BY <2>1 DEF OneProgram
  <2> QED
    BY <1>3, <1>4, <2>2, <2>3, <2>4 DEF Alone
<1>8. CASE StartCli
  <2>1. up' \subseteq {Cli} /\ Cli \notin Webs
    BY <1>1, <1>8, ReviewAssumption DEF StartCli
  <2>2. MemoryIsRead' /\ OneProgram'
    BY <2>1 DEF MemoryIsRead, OneProgram
  <2>3. /\ \A i, j \in DOMAIN pending' : pending'[i] = pending'[j] => i = j
        /\ \A i \in DOMAIN pending' : RowsOf(pending'[i]) = {}
    <3>1. CASE Broken
      BY <1>1, <1>2, <1>8, <3>1 DEF StartCli
    <3>2. CASE ~Broken
      <4> DEFINE K == {k \in DOMAIN Drafts : ReviewsOf(Drafts[k], OnDisk) = {}}
      <4>1. pending' = Picked(Drafts, K)
        BY <1>8, <3>2 DEF StartCli
      <4>2. ASSUME NEW k \in K PROVE RowsOf(Drafts[k]) = {}
        <5>1. OnDisk = {chunks[j].review : j \in FileRows}
          BY <1>1, RowsParse DEF Alone
        <5>2. ReviewsOf(Drafts[k], OnDisk) = {}
          OBVIOUS
        <5> QED
          BY <5>1, <5>2 DEF ReviewsOf, RowsOf
      <4> HIDE DEF K
      <4>3. \A i, j \in DOMAIN pending' : pending'[i] = pending'[j] => i = j
        BY <4>1, RestIsPending
      <4>4. \A i \in DOMAIN pending' : \E k \in K : pending'[i] = Drafts[k]
        BY <4>1, RestIsPending
      <4> QED
        BY <4>2, <4>3, <4>4
    <3> QED
      BY <3>1, <3>2
  <2>4. AsksTheRest'
    BY <1>1, <1>2, <1>6, <2>3 DEF AsksTheRest
  <2> QED
    BY <1>3, <1>4, <2>2, <2>4 DEF Alone
<1> QED
  BY <1>7, <1>8 DEF Starts

LEMMA PostsAlone ==
  ASSUME ReviewInv, NEW w \in Webs, NEW t \in Threads, NEW id \in ReviewIds, Post(w, t, id), ~mixed'
  PROVE  Alone'
<1> DEFINE n == Len(reviews) + 1
<1>1. /\ ReviewTypes /\ ThreadsServe /\ Alone
      /\ w \in up /\ thread[w][t].pc = "idle" /\ NewReview(id, w)
      /\ thread' = [thread EXCEPT ![w][t] = [pc |-> "lock", review |-> n]]
      /\ UNCHANGED <<chunks, acked, up, memory, pending, asking>>
  BY DEF ReviewInv, Post
<1>2. /\ n \notin DOMAIN reviews /\ \A r \in DOMAIN reviews : reviews'[r] = reviews[r]
  BY <1>1, ReviewIsNew DEF Programs
<1> HIDE DEF n
<1>3. asking = 0 /\ pending = <<>> /\ \A v \in Webs, s \in Threads : v # w => thread[v][s] = Idle
  BY <1>1, OneServer DEF Alone
<1>4. /\ thread'[w][t] = [pc |-> "lock", review |-> n]
      /\ \A v \in Webs, s \in Threads : v # w \/ s # t => thread'[v][s] = thread[v][s]
  BY <1>1 DEF ReviewTypes
<1>5. \A k \in DOMAIN chunks : chunks[k].review \in DOMAIN reviews
  BY <1>1, Pieces
<1>6. SameRows
  BY <1>1, <1>2, <1>5 DEF SameRows, FileRows
<1>7. /\ \A x : RowsOf(x)' = RowsOf(x)
      /\ \A x, r : IsLatest(x, r) => IsLatest(x, r)'
      /\ CliIsFirst' /\ \A r : IsRow(r)' <=> IsRow(r)
  BY <1>1, <1>6, ReadersSeeTheSame DEF Alone, AsksTheRest
<1>8. FileIsWhole' /\ OneProgram'
  BY <1>1 DEF Alone, FileIsWhole, OneProgram
<1>9. MemoryIsRead'
  BY <1>1, <1>7 DEF Alone, MemoryIsRead
<1>10. AsksTheRest'
  BY <1>1, <1>3, <1>7 DEF AsksTheRest
<1>11. WritersWrite'
  <2>1. ~InFile(n) /\ (\A r : InFile(r)' <=> InFile(r)) /\ (Beginning' <=> Beginning)
    BY <1>1, <1>2, <1>5 DEF InFile, Beginning
  <2>2. \A s \in Threads : thread[w][s].pc # "idle" => thread[w][s].review # n
    BY <1>1, <1>2 DEF ThreadsServe, ThreadServes
  <2>3. Writers' = Writers
    BY <1>1, <1>4 DEF Writers
  <2> QED
    BY <1>1, <1>3, <1>4, <1>7, <2>1, <2>2, <2>3 DEF Alone, WritersWrite, Idle
<1> QED
  BY <1>8, <1>9, <1>10, <1>11 DEF Alone
LEMMA LocksAlone ==
  ASSUME ReviewInv, NEW w \in Webs, NEW t \in Threads, Lock(w, t), ~mixed'
  PROVE  Alone'
<1> DEFINE r == thread[w][t].review
<1>1. /\ ReviewTypes /\ ThreadsServe /\ Alone
      /\ thread[w][t].pc = "lock" /\ holder[w] = None /\ Piece(r, 1)
      /\ thread' = [thread EXCEPT ![w][t].pc = "write"]
      /\ UNCHANGED <<reviews, acked, up, memory, pending, asking>>
  BY DEF ReviewInv, Lock
<1>2. w \in up /\ r \in DOMAIN reviews /\ ~InFile(r)
  BY <1>1 DEF ThreadsServe, ThreadServes, Alone, WritersWrite
<1>3. asking = 0 /\ pending = <<>> /\ \A v \in Webs, s \in Threads : v # w => thread[v][s] = Idle
  BY <1>1, <1>2, OneServer DEF Alone
<1>4. \A s \in Threads : thread[w][s].pc # "write"
  BY <1>1, ReviewAssumption DEF ThreadsServe, ThreadServes
<1>5. ~Beginning
  BY <1>1, <1>3, <1>4 DEF Alone, WritersWrite, Writers, Idle
<1> HIDE DEF r
<1>6. /\ FileIsWhole' /\ Beginning' /\ chunks'[Len(chunks')].review = r
      /\ FileRows' = FileRows /\ \A k \in FileRows : chunks'[k] = chunks[k]
      /\ \A s : InFile(s)' => InFile(s) \/ s = r
  BY <1>1, <1>2, <1>5, RowBegins DEF Alone
<1>7. SameRows
  BY <1>1, <1>6 DEF SameRows
<1>8. /\ \A x : RowsOf(x)' = RowsOf(x)
      /\ \A x, q : IsLatest(x, q) => IsLatest(x, q)'
      /\ CliIsFirst' /\ \A q : IsRow(q)' <=> IsRow(q)
  BY <1>1, <1>7, ReadersSeeTheSame DEF Alone, AsksTheRest
<1>9. /\ thread'[w][t] = [pc |-> "write", review |-> r]
      /\ \A v \in Webs, s \in Threads : v # w \/ s # t => thread'[v][s] = thread[v][s]
  BY <1>1 DEF ReviewTypes, r
<1>10. OneProgram' /\ MemoryIsRead' /\ AsksTheRest'
  BY <1>1, <1>3, <1>8 DEF Alone, OneProgram, MemoryIsRead, AsksTheRest
<1>11. <<w, t>> \in Writers'
  BY <1>9 DEF Writers
<1>12. ASSUME NEW s \in Threads, s # t
       PROVE  /\ thread[w][s].pc = "lock" => ~InFile(thread[w][s].review)'
              /\ thread[w][s].pc = "lock" => thread[w][s].review # r
              /\ thread[w][s].pc = "answer" => IsRow(thread[w][s].review)'
  <2>1. thread[w][s].pc = "lock" => thread[w][s].review # r /\ ~InFile(thread[w][s].review)
    BY <1>1, <1>12 DEF Alone, WritersWrite, r
  <2> QED
    BY <1>1, <1>6, <1>8, <1>9, <1>12, <2>1 DEF Alone, WritersWrite
<1>13. WritersWrite'
  BY <1>1, <1>3, <1>4, <1>6, <1>8, <1>9, <1>11, <1>12 DEF Alone, WritersWrite, Idle
<1> QED
  BY <1>6, <1>10, <1>13 DEF Alone

LEMMA WritesAlone ==
  ASSUME ReviewInv, NEW w \in Webs, NEW t \in Threads, Write(w, t), ~mixed'
  PROVE  Alone'
<1> SUFFICES ASSUME NEW r, r = thread[w][t].review, NEW n, n = Len(chunks) + 1 PROVE Alone'
  OBVIOUS
<1>1. /\ ReviewTypes /\ ThreadsServe /\ Alone
      /\ thread[w][t].pc = "write" /\ Piece(r, 2)
      /\ memory' = [memory EXCEPT ![w][reviews[r].id] = r]
      /\ thread' = [thread EXCEPT ![w][t].pc = "answer"]
      /\ UNCHANGED <<reviews, acked, up, pending, asking>>
  BY DEF ReviewInv, Write
<1>2. w \in up /\ r \in DOMAIN reviews /\ reviews[r].by = w /\ holder[w] = t
      /\ Beginning /\ chunks[Len(chunks)].review = r
  BY <1>1 DEF ThreadsServe, ThreadServes, Alone, WritersWrite
<1>3. /\ asking = 0 /\ pending = <<>> /\ Cli \notin up /\ \A v \in up : v = w
      /\ \A v \in Webs, s \in Threads : v # w => thread[v][s] = Idle
  BY <1>1, <1>2, OneServer DEF Alone
<1>4. \A s \in Threads : s # t => thread[w][s].pc # "write"
  BY <1>1, <1>2 DEF ThreadsServe, ThreadServes
<1>5. reviews[r].id \in ReviewIds /\ w # Cli
  BY <1>1, <1>2, <1>3, Pieces
<1>6. /\ FileIsWhole' /\ ~Beginning' /\ NewRow(n, r)
      /\ \A s : InFile(s)' => InFile(s)
  BY <1>1, <1>2, RowEnds DEF Alone, NewRow
<1>7. /\ IsLatest(reviews[r].id, r)'
      /\ \A x, q : x # reviews[r].id /\ IsLatest(x, q) => IsLatest(x, q)'
      /\ IsRow(r)' /\ \A q : IsRow(q) => IsRow(q)'
  BY <1>6, ReadersSeeOneMore
<1>8. /\ thread'[w][t] = [pc |-> "answer", review |-> r]
      /\ \A v \in Webs, s \in Threads : v # w \/ s # t => thread'[v][s] = thread[v][s]
  BY <1>1, SMTT(30) DEF ReviewTypes
<1>9. MemoryIsRead'
  <2>1. memory'[w] = [memory[w] EXCEPT ![reviews[r].id] = r] /\ memory[w] \in [ReviewIds -> Nat]
    BY <1>1 DEF ReviewTypes
  <2>2. /\ memory'[w][reviews[r].id] = r
        /\ \A x \in ReviewIds : x # reviews[r].id => memory'[w][x] = memory[w][x]
    BY <1>5, <2>1
  <2>3. ASSUME NEW x \in ReviewIds PROVE IsLatest(x, memory[w][x])'
    <3>1. CASE x = reviews[r].id
      BY <1>1, <1>7, <2>2, <3>1
    <3>2. CASE x # reviews[r].id
      <4>1. PICK m : m = memory[w][x]
        OBVIOUS
      <4>2. IsLatest(x, m)
        BY <1>1, <1>2, <4>1 DEF Alone, MemoryIsRead
      <4> QED
        BY <1>7, <2>2, <3>2, <4>1, <4>2
    <3> QED
      BY <3>1, <3>2, SMTT(30)
  <2> QED
    BY <1>1, <1>3, <2>3 DEF MemoryIsRead
<1>10. CliIsFirst'
  BY <1>1, <1>2, <1>5, <1>6 DEF Alone, AsksTheRest, CliIsFirst, NewRow
<1>11. OneProgram' /\ AsksTheRest'
  BY <1>1, <1>3, <1>10 DEF Alone, OneProgram, AsksTheRest
<1>12. WritersWrite'
  BY <1>1, <1>3, <1>4, <1>6, <1>7, <1>8, SMTT(60) DEF Alone, WritersWrite, Idle
<1> QED
  BY <1>6, <1>9, <1>11, <1>12 DEF Alone

LEMMA AnswersAlone ==
  ASSUME ReviewInv, NEW w \in Webs, NEW t \in Threads, AnswerReview(w, t), ~mixed'
  PROVE  Alone'
<1>1. /\ ReviewTypes /\ ThreadsServe /\ Alone
      /\ thread[w][t].pc = "answer" /\ acked' = acked \cup {thread[w][t].review}
      /\ thread' = [thread EXCEPT ![w][t] = Idle]
      /\ UNCHANGED <<chunks, reviews, up, memory, pending, asking>>
  BY DEF ReviewInv, AnswerReview
<1>2. IsRow(thread[w][t].review)
  BY <1>1 DEF Alone, WritersWrite
<1>3. /\ thread'[w][t] = Idle
      /\ \A v \in Webs, s \in Threads : v # w \/ s # t => thread'[v][s] = thread[v][s]
  BY <1>1 DEF ReviewTypes
<1>4. FileIsWhole' /\ OneProgram'
  BY <1>1 DEF Alone, FileIsWhole, OneProgram
<1>5. SameRows
  BY <1>1 DEF SameRows, FileRows
<1>6. /\ \A x : RowsOf(x)' = RowsOf(x)
      /\ \A x, q : IsLatest(x, q) => IsLatest(x, q)'
      /\ CliIsFirst' /\ \A q : IsRow(q)' <=> IsRow(q)
  BY <1>1, <1>5, ReadersSeeTheSame DEF Alone, AsksTheRest
<1>7. MemoryIsRead' /\ AsksTheRest'
  BY <1>1, <1>6 DEF Alone, MemoryIsRead, AsksTheRest
<1>8. WritersWrite'
  <2>1. (\A r : InFile(r)' <=> InFile(r)) /\ (Beginning' <=> Beginning)
    BY <1>1 DEF InFile, Beginning
  <2>2. Writers' = Writers
    BY <1>1, <1>3 DEF Writers, Idle
  <2> QED
    BY <1>1, <1>2, <1>3, <1>6, <2>1, <2>2 DEF Alone, WritersWrite, Idle
<1> QED
  BY <1>4, <1>7, <1>8 DEF Alone

LEMMA VerdictsAlone ==
  ASSUME ReviewInv, Verdict, ~mixed'
  PROVE  Alone'
<1> DEFINE n == Len(reviews) + 1
<1>1. /\ ReviewTypes /\ ThreadsServe /\ Alone
      /\ Cli \in up /\ asking = 0 /\ asking' = n /\ NewReview(Head(pending), Cli) /\ Piece(n, 1)
      /\ UNCHANGED <<acked, up, memory, thread, pending>>
  BY DEF ReviewInv, Verdict
<1>2. pending \in Seq(ReviewIds) /\ pending # <<>> /\ Head(pending) = pending[1]
      /\ Head(pending) \in ReviewIds /\ Cli \in Programs
  BY <1>1 DEF ReviewTypes, Programs
<1>3. /\ n \in DOMAIN reviews' /\ n \notin DOMAIN reviews /\ n \in Nat /\ n # 0
      /\ reviews'[n] = [id |-> pending[1], by |-> Cli]
      /\ \A r \in DOMAIN reviews : r \in DOMAIN reviews' /\ reviews'[r] = reviews[r]
  BY <1>1, <1>2, ReviewIsNew
<1> HIDE DEF n
<1>4. /\ \A v \in up : v = Cli /\ v \notin Webs
      /\ \A w \in Webs, t \in Threads : thread[w][t] = Idle
  BY <1>1, TerminalAlone DEF Alone
<1>5. ~Beginning
  BY <1>1, <1>4 DEF Alone, WritersWrite, Writers, Idle
<1>6. \A k \in DOMAIN chunks : chunks[k].review \in DOMAIN reviews
  BY <1>1, Pieces
<1>7. ~InFile(n)
  BY <1>3, <1>6 DEF InFile
<1>8. /\ FileIsWhole' /\ Beginning' /\ chunks'[Len(chunks')].review = n
      /\ FileRows' = FileRows /\ \A k \in FileRows : chunks'[k] = chunks[k]
  BY <1>1, <1>3, <1>5, <1>7, RowBegins DEF Alone
<1>9. SameRows
  BY <1>3, <1>6, <1>8 DEF SameRows, FileRows
<1>10. /\ \A x : RowsOf(x)' = RowsOf(x)
       /\ CliIsFirst' /\ \A q : IsRow(q)' <=> IsRow(q)
  BY <1>1, <1>9, ReadersSeeTheSame DEF Alone, AsksTheRest
<1>11. OneProgram' /\ MemoryIsRead'
  BY <1>1, <1>4 DEF Alone, OneProgram, MemoryIsRead
<1>12. AsksTheRest'
  BY <1>1, <1>3, <1>10 DEF Alone, AsksTheRest
<1>13. WritersWrite'
  BY <1>1, <1>3, <1>4, <1>8, <1>10 DEF Alone, WritersWrite, Idle
<1> QED
  BY <1>8, <1>11, <1>12, <1>13 DEF Alone

LEMMA DraftsAlone ==
  ASSUME ReviewInv, VerdictEnds \/ SkipDraft, ~mixed'
  PROVE  Alone'
<1>1. /\ ReviewTypes /\ ThreadsServe /\ Alone /\ Cli \in up /\ NextDraft /\ asking' = 0
      /\ UNCHANGED <<reviews, memory, thread>>
  BY DEF ReviewInv, VerdictEnds, SkipDraft
<1>2. /\ up' \subseteq up
      /\ Len(pending) \in Nat /\ Len(pending) # 0
      /\ DOMAIN pending' = 1 .. Len(pending) - 1 /\ DOMAIN pending = 1 .. Len(pending)
      /\ \A i \in DOMAIN pending' : pending'[i] = pending[i + 1]
  BY <1>1, NextIsAsked
<1>3. /\ \A v \in up : v = Cli /\ v \notin Webs
      /\ \A w \in Webs, t \in Threads : thread[w][t] = Idle
  BY <1>1, TerminalAlone DEF Alone
<1>4. OneProgram' /\ MemoryIsRead'
  BY <1>2, <1>3 DEF OneProgram, MemoryIsRead
<1>5. /\ 1 \in DOMAIN pending
      /\ \A i \in DOMAIN pending' : i + 1 \in DOMAIN pending /\ i + 1 # 1
      /\ \A i, j \in DOMAIN pending' : i + 1 = j + 1 => i = j
  BY <1>2
<1>6. /\ \A i, j \in DOMAIN pending' : pending'[i] = pending'[j] => i = j
      /\ \A i \in DOMAIN pending' : RowsOf(pending'[i]) = {} /\ pending'[i] # pending[1]
  BY <1>1, <1>2, <1>5 DEF Alone, AsksTheRest
<1>7. CASE SkipDraft
  <2>1. asking = 0 /\ UNCHANGED <<chunks, acked>>
    BY <1>7 DEF SkipDraft
  <2>2. SameRows
    BY <1>1, <2>1 DEF SameRows, FileRows
  <2>3. /\ \A x : RowsOf(x)' = RowsOf(x)
        /\ CliIsFirst' /\ \A q : IsRow(q)' <=> IsRow(q)
    BY <1>1, <2>2, ReadersSeeTheSame DEF Alone, AsksTheRest
  <2>4. FileIsWhole' /\ ~Beginning'
    BY <1>1, <1>3, <2>1 DEF Alone, FileIsWhole, WritersWrite, Writers, Beginning, Idle
  <2>5. WritersWrite'
    BY <1>1, <1>3, <2>1, <2>3, <2>4 DEF Alone, WritersWrite, Idle
  <2>6. AsksTheRest'
    BY <1>1, <1>6, <2>3 DEF AsksTheRest
  <2> QED
    BY <1>4, <2>4, <2>5, <2>6 DEF Alone
<1>8. CASE VerdictEnds
  <2> SUFFICES ASSUME NEW r, r = asking, NEW n, n = Len(chunks) + 1 PROVE Alone'
    OBVIOUS
  <2>1. r # 0 /\ Piece(r, 2) /\ acked' = acked \cup {r}
    BY <1>1, <1>8 DEF VerdictEnds, ReviewTypes
  <2>2. r \in DOMAIN reviews /\ Beginning /\ chunks[Len(chunks)].review = r /\ reviews[r].id = pending[1]
    BY <1>1, <2>1 DEF ReviewTypes, Alone, WritersWrite, AsksTheRest
  <2>3. FileIsWhole' /\ ~Beginning' /\ NewRow(n, r)
    BY <1>1, <2>1, <2>2, RowEnds DEF Alone, NewRow
  <2>4. /\ \A x : RowsOf(x)' = IF x = reviews[r].id THEN RowsOf(x) \cup {n} ELSE RowsOf(x)
        /\ IsRow(r)' /\ \A q : IsRow(q) => IsRow(q)'
    BY <2>3, ReadersSeeOneMore
  <2>5. \A k \in FileRows : reviews[chunks[k].review].id # reviews[r].id
    BY <1>1, <1>5, <2>2 DEF Alone, AsksTheRest, RowsOf
  <2>6. CliIsFirst'
    BY <1>1, <2>3, <2>5 DEF Alone, AsksTheRest, CliIsFirst, NewRow
  <2>7. AsksTheRest'
    BY <1>1, <1>6, <2>2, <2>4, <2>6 DEF AsksTheRest
  <2>8. WritersWrite'
    BY <1>1, <1>3, <2>1, <2>3, <2>4 DEF Alone, WritersWrite, Idle
  <2> QED
    BY <1>4, <2>3, <2>7, <2>8 DEF Alone
<1> QED
  BY <1>7, <1>8

LEMMA QuitsAlone ==
  ASSUME ReviewInv, NEW p \in Programs, Quit(p), ~mixed'
  PROVE  Alone'
<1>1. /\ ReviewTypes /\ ThreadsServe /\ Alone /\ up' = up \ {p} /\ p \in up
      /\ pending' = IF p = Cli THEN <<>> ELSE pending
      /\ UNCHANGED <<chunks, reviews, acked, memory, thread, asking>>
  BY DEF ReviewInv, Quit
<1>2. asking = 0
  BY <1>1 DEF Quit, Alone, OneProgram, ReviewTypes
<1>3. SameRows
  BY <1>1 DEF SameRows, FileRows
<1>4. /\ \A x : RowsOf(x)' = RowsOf(x) /\ CliIsFirst'
  BY <1>1, <1>3, ReadersSeeTheSame DEF Alone, AsksTheRest
<1>5. OneProgram' /\ MemoryIsRead' /\ FileIsWhole'
  BY <1>1 DEF Alone, OneProgram, MemoryIsRead, FileIsWhole
<1>6. AsksTheRest'
  BY <1>1, <1>2, <1>4 DEF Alone, AsksTheRest
<1>7. WritersWrite'
  BY <1>1 DEF Alone, WritersWrite, InFile, Beginning, FileRows, IsRow, Writers
<1> QED
  BY <1>5, <1>6, <1>7 DEF Alone

LEMMA ReviewInvStep ==
  ASSUME ReviewInv, [ReviewNext]_reviewVars
  PROVE  ReviewInv'
<1>1. ReviewTypes' /\ ThreadsServe'
  BY TypesAreKept DEF ReviewInv
<1>2. ASSUME ~mixed' PROVE Alone'
  <2>1. CASE UNCHANGED reviewVars
    <3>1. Alone /\ UNCHANGED reviewVars
      BY <1>2, <2>1 DEF reviewVars, ReviewInv
    <3> QED
      BY <3>1 DEF reviewVars, Alone, OneProgram, FileIsWhole, WritersWrite, MemoryIsRead,
                  AsksTheRest, CliIsFirst, IsLatest, RowsOf, IsRow, FileRows, InFile, Beginning, Writers
  <2>2. ASSUME NEW p \in Programs, KillProgram(p) PROVE FALSE
    BY <1>2, <2>2 DEF KillProgram
  <2> QED
    BY <1>2, <2>1, <2>2, StartsAlone, PostsAlone, LocksAlone, WritesAlone, AnswersAlone,
       VerdictsAlone, DraftsAlone, QuitsAlone DEF ReviewNext, Serve, Starts
<1> QED
  BY <1>1, <1>2 DEF ReviewInv

(* The first file is empty.                                                *)
LEMMA ReviewBegins == ReviewInit => ReviewInv
<1> SUFFICES ASSUME ReviewInit PROVE ReviewInv
  OBVIOUS
<1>1. ReviewTypes
  <2>1. <<>> \in Seq([id : ReviewIds, by : Programs]) /\ <<>> \in Seq(ReviewIds)
    OBVIOUS
  <2>2. <<>> \in Seq([review : DOMAIN reviews, part : {1, 2}])
    OBVIOUS
  <2>3. /\ memory \in [Webs -> [ReviewIds -> Nat]] /\ holder \in [Webs -> Threads \cup {None}]
        /\ thread \in [Webs -> [Threads -> [pc : {"idle", "lock", "write", "answer"}, review : Nat]]]
    BY DEF ReviewInit, Idle
  <2>4. reviewStarts \in [Programs -> 0 .. ReviewStarts]
    BY ReviewAssumption DEF ReviewInit
  <2> QED
    BY <2>1, <2>2, <2>3, <2>4 DEF ReviewInit, ReviewTypes
<1>2. ThreadsServe
  BY ReviewAssumption DEF ReviewInit, ThreadsServe, ThreadServes, Idle
<1>3. Alone
  BY DEF ReviewInit, Alone, OneProgram, FileIsWhole, WritersWrite, MemoryIsRead,
         AsksTheRest, CliIsFirst, FileRows, InFile, Beginning, Idle, Writers, RowsOf
<1> QED
  BY <1>1, <1>2, <1>3 DEF ReviewInv

(* Reviews that were acknowledged are on disk, memory is the file, and the *)
(* terminal asks once, however requests overlap, unless two programs have  *)
(* had the file at a time or one was killed.                               *)
THEOREM ReviewsSound == ReviewSpec => []ReviewsAreSound
<1>1. ReviewInv /\ [ReviewNext]_reviewVars => ReviewInv'
  BY ReviewInvStep
<1> QED
  BY <1>1, ReviewBegins, InvIsSound, PTL DEF ReviewSpec

(***************************************************************************)
(* The generators that fill buckets: their plans.                          *)
(***************************************************************************)

(* The categories of a generator, and the buckets it may have.             *)
Categories(name) ==
  CASE name = "refusals" -> {"empty", "partial", "off_domain"}
    [] name = "anti_template" -> ToSet(TopicPairs)
    [] name = "brief_qa" -> {"brief_qa"}
    [] name = "mc" -> {"mc_short"}
    [] name = "terse" -> {"open", "grounded_terse"}
BucketsOf(name) == Categories(name) \X Languages

(* A plan has each bucket once, a target for it and at least one call.     *)
IsPlan(plan, B) ==
  /\ plan \in Seq([bucket : B, target : Nat, wave : Nat \ {0}])
  /\ \A j, k \in DOMAIN plan : plan[j].bucket = plan[k].bucket => j = k

LEMMA Divided ==
  ASSUME NEW a \in Nat, NEW d \in Nat \ {0}
  PROVE  a \div d \in Nat
OBVIOUS

LEMMA Multiplied ==
  ASSUME NEW a \in Nat, NEW b \in Nat
  PROVE  a * b \in Nat
OBVIOUS

(* A place of Of() is a category and a language, and the other way round.  *)
LEMMA PlaceSplit ==
  ASSUME NEW M \in Nat, NEW L \in 1 .. 3, NEW k \in 1 .. M * L
  PROVE  /\ ((k - 1) \div L) + 1 \in 1 .. M
         /\ ((k - 1) % L) + 1 \in 1 .. L
         /\ k = ((k - 1) \div L) * L + ((k - 1) % L) + 1
<1>1. CASE L = 1
  BY <1>1
<1>2. CASE L = 2
  BY <1>2
<1>3. CASE L = 3
  BY <1>3
<1> QED
  BY <1>1, <1>2, <1>3

LEMMA OfIsInjective ==
  ASSUME NEW C, NEW cats \in Seq(C), IsInjective(cats),
         NEW langs \in Seq(Languages), Len(langs) \in 1 .. 3, IsInjective(langs)
  PROVE  Of(cats, langs) \in Seq(C \X Languages) /\ IsInjective(Of(cats, langs))
<1> DEFINE M == Len(cats)
           L == Len(langs)
           cat(k) == ((k - 1) \div L) + 1
           lang(k) == ((k - 1) % L) + 1
           of == Of(cats, langs)
<1>1. M \in Nat /\ L \in 1 .. 3 /\ M * L \in Nat
  BY Multiplied
<1>2. ASSUME NEW k \in 1 .. M * L
      PROVE  cat(k) \in DOMAIN cats /\ lang(k) \in DOMAIN langs /\ k = (cat(k) - 1) * L + lang(k)
  <2>1. cat(k) \in 1 .. M /\ lang(k) \in 1 .. L /\ k = ((k - 1) \div L) * L + ((k - 1) % L) + 1
    BY <1>1, PlaceSplit
  <2> HIDE DEF L, M
  <2>2. (k - 1) \div L \in Int /\ (k - 1) % L \in Int
    BY <1>1
  <2>3. (k - 1) \div L = cat(k) - 1 /\ ((k - 1) % L) + 1 = lang(k)
    BY <2>2
  <2>4. k = (cat(k) - 1) * L + lang(k)
    <3> DEFINE q == (k - 1) \div L
               r == (k - 1) % L
    <3>1. k = q * L + r + 1 /\ q * L \in Int /\ q = cat(k) - 1 /\ r + 1 = lang(k)
      BY <1>1, <2>1, <2>2, <2>3
    <3> HIDE DEF q, r
    <3> QED
      BY <2>2, <3>1 DEF r
  <2> QED
    BY <2>1, <2>4 DEF L, M
<1>3. of = [k \in 1 .. M * L |-> <<cats[cat(k)], langs[lang(k)]>>]
  BY DEF Of
<1> HIDE DEF M, L, cat, lang, of
<1>4. \A k \in 1 .. M * L : cats[cat(k)] \in C /\ langs[lang(k)] \in Languages
  BY <1>2
<1>5. of \in Seq(C \X Languages)
  BY <1>1, <1>3, <1>4
<1>6. DOMAIN of = 1 .. M * L
  BY <1>3
<1>7. ASSUME NEW j \in 1 .. M * L, NEW k \in 1 .. M * L, of[j] = of[k]
      PROVE  j = k
  <2>1. cats[cat(j)] = cats[cat(k)] /\ langs[lang(j)] = langs[lang(k)]
    BY <1>3, <1>7
  <2>2. cat(j) = cat(k) /\ lang(j) = lang(k)
    BY <1>2, <2>1 DEF IsInjective
  <2> QED
    BY <1>2, <2>2
<1> QED
  BY <1>5, <1>6, <1>7 DEF IsInjective, of

LEMMA PlannedIsPlan ==
  ASSUME NEW B, NEW buckets \in Seq(B), IsInjective(buckets), NEW t \in [DOMAIN buckets -> Nat],
         NEW passing \in {7, 8},
         NEW plan, plan = [k \in DOMAIN buckets |->
                             [bucket |-> buckets[k], target |-> t[k],
                              wave |-> ((t[k] * 10) \div (PerCall * passing)) + 1]]
  PROVE  IsPlan(plan, B)
<1>1. PerCall * passing \in Nat \ {0}
  <2>1. PerCall \in Nat \ {0}
    BY QuotaAssumption
  <2> QED
    BY <2>1
<1> DEFINE d == PerCall * passing
<1>2. \A k \in DOMAIN buckets : ((t[k] * 10) \div d) + 1 \in Nat \ {0}
  <2> HIDE DEF d
  <2> QED
    BY <1>1, Divided DEF d
<1>3. DOMAIN plan = DOMAIN buckets /\ DOMAIN buckets = 1 .. Len(buckets) /\ Len(buckets) \in Nat
  OBVIOUS
<1>4. ASSUME NEW k \in DOMAIN buckets
      PROVE  plan[k] \in [bucket : B, target : Nat, wave : Nat \ {0}] /\ plan[k].bucket = buckets[k]
  <2> DEFINE w == ((t[k] * 10) \div d) + 1
  <2>1. plan[k] = [bucket |-> buckets[k], target |-> t[k], wave |-> w]
    OBVIOUS
  <2>2. w \in Nat \ {0} /\ buckets[k] \in B /\ t[k] \in Nat
    <3> HIDE DEF d
    <3> QED
      BY <1>2
  <2> HIDE DEF w
  <2> QED
    BY <2>1, <2>2
<1>5. plan \in Seq([bucket : B, target : Nat, wave : Nat \ {0}])
  BY <1>3, <1>4
<1> QED
  BY <1>3, <1>4, <1>5 DEF IsPlan, IsInjective

(* The targets are numbers.                                                *)
LEMMA TargetsAreNumbers ==
  ASSUME NEW n \in Nat
  PROVE  /\ \A b \in BucketsOf("refusals") : RefusalTarget(n, b) \in Nat
         /\ \A b \in BucketsOf("anti_template") : AntiTemplateTarget(n, b) \in Nat
         /\ \A b \in BucketsOf("mc") : McTarget(n, b[2]) \in Nat
         /\ \A b \in BucketsOf("terse") : TerseTarget(n, b) \in Nat
<1>1. \A x \in Nat : Rounded(x, 10000) \in Nat /\ AtLeast1(x) \in Nat
  BY DEF Rounded, AtLeast1
<1>2. ASSUME NEW b \in BucketsOf("refusals") PROVE RefusalTarget(n, b) \in Nat
  <2>1. b[1] \in {"empty", "partial", "off_domain"} /\ b[2] \in Languages
    BY <1>2 DEF BucketsOf, Categories
  <2>2. CatShare[b[1]] \in Nat /\ LangShare[b[2]] \in Nat
    BY <2>1 DEF CatShare, LangShare, Languages
  <2>3. (CatShare[b[1]] * LangShare[b[2]]) * n \in Nat
    BY <2>2, Multiplied
  <2> QED
    BY <1>1, <2>3 DEF RefusalTarget
<1>3. ASSUME NEW b \in BucketsOf("anti_template") PROVE AntiTemplateTarget(n, b) \in Nat
  <2>1. Len(TopicPairs) \in Nat \ {0}
    <3>1. TopicPairs \in Seq(ToSet(TopicPairs)) /\ TopicPairs # <<>>
      BY GeneratorsAssumption
    <3> QED
      BY <3>1
  <2>2. n \div (Len(TopicPairs) * 3) \in Nat
    <3>1. Len(TopicPairs) * 3 \in Nat \ {0}
      BY <2>1
    <3> QED
      BY <3>1, Divided
  <2> DEFINE x == n \div (Len(TopicPairs) * 3)
  <2>3. AntiTemplateTarget(n, b) = AtLeast1(x)
    BY DEF AntiTemplateTarget
  <2> HIDE DEF x
  <2>4. x \in Nat
    BY <2>2 DEF x
  <2> QED
    BY <1>1, <2>3, <2>4
<1>4. \A m \in Nat, l \in Languages : McShare[l] * m \in Nat /\ (McShare[l] * m) \div 100 \in Nat
  BY DEF McShare, Languages
<1>5. ASSUME NEW b \in BucketsOf("mc") PROVE McTarget(n, b[2]) \in Nat
  <2>1. b[2] \in Languages
    BY <1>5 DEF BucketsOf
  <2>2. n * McShare[b[2]] = McShare[b[2]] * n
    BY <2>1 DEF McShare, Languages
  <2> QED
    BY <1>4, <2>1, <2>2 DEF McTarget
<1>6. ASSUME NEW b \in BucketsOf("terse") PROVE TerseTarget(n, b) \in Nat
  <2>1. b[2] \in Languages
    BY <1>6 DEF BucketsOf
  <2>2. (n * 70) \div 100 \in Nat /\ n - ((n * 70) \div 100) \in Nat
    OBVIOUS
  <2> QED
    BY <1>4, <2>1, <2>2 DEF TerseTarget
<1> QED
  BY <1>2, <1>3, <1>5, <1>6

(* The order of the languages.                                             *)
LEMMA Places ==
  Place("roman_nepali") = 1 /\ Place("devanagari") = 2 /\ Place("english") = 3
<1>1. DOMAIN MixOrder = 1 .. 3 /\ MixOrder[1] = "roman_nepali" /\ MixOrder[2] = "devanagari"
      /\ MixOrder[3] = "english"
  BY DEF MixOrder
<1>2. \A k \in 1 .. 3 : k = 1 \/ k = 2 \/ k = 3
  OBVIOUS
<1>3. Place("roman_nepali") = 1
  <2>1. \A k \in DOMAIN MixOrder : MixOrder[k] = "roman_nepali" <=> k = 1
    BY <1>1, <1>2
  <2> QED
    BY <1>1, <2>1 DEF Place
<1>4. Place("devanagari") = 2
  <2>1. \A k \in DOMAIN MixOrder : MixOrder[k] = "devanagari" <=> k = 2
    BY <1>1, <1>2
  <2> QED
    BY <1>1, <2>1 DEF Place
<1>5. Place("english") = 3
  <2>1. \A k \in DOMAIN MixOrder : MixOrder[k] = "english" <=> k = 3
    BY <1>1, <1>2
  <2> QED
    BY <1>1, <2>1 DEF Place
<1> QED
  BY <1>3, <1>4, <1>5

(* The shares of --lang-mix as numbers: w is the weight of each language.  *)
Weight(langs, l) == IF l \in ToSet(langs) THEN MixWeight[l] ELSE 0
WeightOfAll(langs) ==
  Weight(langs, "roman_nepali") + Weight(langs, "devanagari") + Weight(langs, "english")
FloorOf(n, langs, l) == (Weight(langs, l) * n) \div WeightOfAll(langs)
FractionOf(n, langs, l) == (Weight(langs, l) * n) % WeightOfAll(langs)
LeftOf(n, langs) ==
  n - (FloorOf(n, langs, "roman_nepali") + FloorOf(n, langs, "devanagari")
       + FloorOf(n, langs, "english"))
IsBefore(n, langs, m, l) ==
  /\ m \in ToSet(langs)
  /\ \/ FractionOf(n, langs, m) > FractionOf(n, langs, l)
     \/ FractionOf(n, langs, m) = FractionOf(n, langs, l) /\ Place(m) < Place(l)
RankOf(n, langs, l) ==
  (IF IsBefore(n, langs, "roman_nepali", l) THEN 1 ELSE 0)
  + (IF IsBefore(n, langs, "devanagari", l) THEN 1 ELSE 0)
  + (IF IsBefore(n, langs, "english", l) THEN 1 ELSE 0)

LEMMA BriefTargetIs ==
  ASSUME NEW n \in Nat, NEW langs, NEW l \in Languages
  PROVE  BriefTarget(n, langs, l)
         = FloorOf(n, langs, l) + (IF RankOf(n, langs, l) < LeftOf(n, langs) THEN 1 ELSE 0)
<1> DEFINE weight == [m \in Languages |-> IF m \in ToSet(langs) THEN MixWeight[m] ELSE 0]
           total == OverLanguages(weight)
           floor == [m \in Languages |-> (weight[m] * n) \div total]
           fraction == [m \in Languages |-> (weight[m] * n) % total]
           before(m) == /\ m \in ToSet(langs)
                        /\ \/ fraction[m] > fraction[l]
                           \/ fraction[m] = fraction[l] /\ Place(m) < Place(l)
           rank == OverLanguages([m \in Languages |-> IF before(m) THEN 1 ELSE 0])
<1>1. BriefTarget(n, langs, l) = floor[l] + (IF rank < n - OverLanguages(floor) THEN 1 ELSE 0)
  BY DEF BriefTarget
<1>2. "roman_nepali" \in Languages /\ "devanagari" \in Languages /\ "english" \in Languages
  BY DEF Languages
<1>3. \A m \in Languages : weight[m] = Weight(langs, m)
  BY DEF Weight
<1>4. total = WeightOfAll(langs)
  <2> HIDE DEF weight
  <2> QED
    BY <1>2, <1>3 DEF WeightOfAll, OverLanguages
<1>5. \A m \in Languages : floor[m] = FloorOf(n, langs, m)
                           /\ fraction[m] = FractionOf(n, langs, m)
  <2> HIDE DEF weight, total
  <2> QED
    BY <1>3, <1>4 DEF FloorOf, FractionOf
<1>6. OverLanguages(floor) = FloorOf(n, langs, "roman_nepali") + FloorOf(n, langs, "devanagari")
                             + FloorOf(n, langs, "english")
  <2> HIDE DEF floor
  <2> QED
    BY <1>2, <1>5 DEF OverLanguages
<1>7. \A m \in Languages : before(m) <=> IsBefore(n, langs, m, l)
  <2> HIDE DEF fraction
  <2> QED
    BY <1>5 DEF IsBefore
<1>8. rank = RankOf(n, langs, l)
  <2> HIDE DEF before
  <2> QED
    BY <1>2, <1>7 DEF RankOf, OverLanguages
<1> HIDE DEF rank, floor
<1> QED
  BY <1>1, <1>5, <1>6, <1>8 DEF LeftOf

(* The share of a language of weight w: x, and the fraction p is left; i   *)
(* says whether the language counts.                                       *)
ShareIs(n, W, w, x, p, i) ==
  /\ w \in {0, 1, 2} /\ x \in Nat /\ p \in Nat /\ i \in {0, 1}
  /\ w * n = W * x + p /\ p < W
  /\ i = 0 => w = 0

(* What is left is at most one for each that counts.                       *)
LEMMA LeftFits ==
  ASSUME NEW n \in Nat, NEW W \in 1 .. 4,
         NEW u, NEW x, NEW p, NEW i, ShareIs(n, W, u, x, p, i),
         NEW v, NEW y, NEW q, NEW j, ShareIs(n, W, v, y, q, j),
         NEW w, NEW z, NEW r, NEW k, ShareIs(n, W, w, z, r, k),
         W = u + v + w
  PROVE  /\ n - (x + y + z) \in 0 .. i + j + k
         /\ (i = 0 => x = 0) /\ (j = 0 => y = 0) /\ (k = 0 => z = 0)
<1> USE DEF ShareIs
<1> DEFINE left == n - (x + y + z)
<1>1. u * n + v * n + w * n = W * n
  OBVIOUS
<1>2. /\ i = 0 => x = 0 /\ p = 0
      /\ j = 0 => y = 0 /\ q = 0
      /\ k = 0 => z = 0 /\ r = 0
  <2>1. ASSUME NEW a \in Nat, NEW b \in Nat, 0 = W * a + b PROVE a = 0 /\ b = 0
    BY <2>1
  <2>2. 0 * n = 0
    OBVIOUS
  <2> QED
    BY <2>1, <2>2
<1>3. W * left = p + q + r
  <2>1. CASE W = 1
    BY <1>1, <2>1
  <2>2. CASE W = 2
    BY <1>1, <2>2
  <2>3. CASE W = 3
    BY <1>1, <2>3
  <2>4. CASE W = 4
    BY <1>1, <2>4
  <2> QED
    BY <2>1, <2>2, <2>3, <2>4
<1>4. left \in 0 .. i + j + k
  <2>1. p + q + r >= 0 /\ (p + q + r < W * (i + j + k) \/ p + q + r = 0)
    BY <1>2
  <2> QED
    BY <1>3, <2>1
<1> QED
  BY <1>2, <1>4

(* Of up to three that are ordered, as many come before the place m as m.  *)
LEMMA FirstOnes ==
  ASSUME NEW i \in {0, 1}, NEW j \in {0, 1}, NEW k \in {0, 1},
         NEW ij \in {0, 1}, NEW ji \in {0, 1}, NEW ik \in {0, 1}, NEW ki \in {0, 1},
         NEW jk \in {0, 1}, NEW kj \in {0, 1},
         i = 0 => ij = 0 /\ ik = 0, j = 0 => ji = 0 /\ jk = 0, k = 0 => ki = 0 /\ kj = 0,
         i = 1 /\ j = 1 => ij + ji = 1, i = 1 /\ k = 1 => ik + ki = 1, j = 1 /\ k = 1 => jk + kj = 1,
         ij = 1 /\ jk = 1 => ik = 1, kj = 1 /\ ji = 1 => ki = 1,
         NEW m \in 0 .. i + j + k, NEW a \in {0, 1}, NEW b \in {0, 1}, NEW c \in {0, 1},
         a = 1 <=> ji + ki < m, b = 1 <=> ij + kj < m, c = 1 <=> ik + jk < m
  PROVE  (IF i = 1 THEN a ELSE 0) + (IF j = 1 THEN b ELSE 0) + (IF k = 1 THEN c ELSE 0) = m
OBVIOUS

(* What is rounded down is given back, one to each language at most.       *)
LEMMA MixAdds ==
  ASSUME NEW n \in Nat, NEW langs \in Seq(Languages), langs # <<>>
  PROVE  /\ \A l \in Languages : BriefTarget(n, langs, l) \in Nat
         /\ n = (IF "roman_nepali" \in ToSet(langs) THEN BriefTarget(n, langs, "roman_nepali") ELSE 0)
              + (IF "devanagari" \in ToSet(langs) THEN BriefTarget(n, langs, "devanagari") ELSE 0)
              + (IF "english" \in ToSet(langs) THEN BriefTarget(n, langs, "english") ELSE 0)
<1> DEFINE R == "roman_nepali"
           D == "devanagari"
           E == "english"
           S == ToSet(langs)
<1>1. S \subseteq {R, D, E} /\ S # {}
  <2>1. 1 \in DOMAIN langs /\ \A k \in DOMAIN langs : langs[k] \in {R, D, E}
    BY DEF Languages
  <2> QED
    BY <2>1 DEF ToSet
<1>2. MixWeight[R] = 2 /\ MixWeight[D] = 1 /\ MixWeight[E] = 1
  BY DEF MixWeight
<1>3. \A l \in Languages : l = R \/ l = D \/ l = E
  BY DEF Languages
<1>4. R \in Languages /\ D \in Languages /\ E \in Languages
  BY DEF Languages
<1> HIDE DEF S
<1>5. R # D /\ R # E /\ D # E
  OBVIOUS
<1> HIDE DEF R, D, E
<1>6. Place(R) = 1 /\ Place(D) = 2 /\ Place(E) = 3
  BY Places DEF R, D, E
<1> DEFINE W == WeightOfAll(langs)
           f(l) == FloorOf(n, langs, l)
           g(l) == FractionOf(n, langs, l)
           left == LeftOf(n, langs)
           rank(l) == RankOf(n, langs, l)
           before(m, l) == IsBefore(n, langs, m, l)
<1>7. W = Weight(langs, R) + Weight(langs, D) + Weight(langs, E)
  BY DEF WeightOfAll, R, D, E
<1>8. \A l \in Languages : Weight(langs, l) = IF l \in S THEN MixWeight[l] ELSE 0
  BY DEF Weight, S
<1>9. W \in 1 .. 4 /\ \A l \in Languages : Weight(langs, l) \in {0, 1, 2}
  BY <1>1, <1>2, <1>3, <1>4, <1>5, <1>7, <1>8
<1>10. \A l \in Languages : /\ f(l) \in Nat /\ g(l) \in 0 .. W - 1
                             /\ Weight(langs, l) * n = W * f(l) + g(l)
  <2>1. ASSUME NEW w \in {0, 1, 2}, NEW v \in 1 .. 4
        PROVE  (w * n) \div v \in Nat /\ (w * n) % v \in 0 .. v - 1
               /\ w * n = v * ((w * n) \div v) + ((w * n) % v)
    <3>1. w * n \in Nat
      OBVIOUS
    <3> DEFINE x == w * n
    <3> HIDE DEF x
    <3>2. x \in Nat
      BY <3>1 DEF x
    <3>3. x \div v \in Nat /\ x % v \in 0 .. v - 1 /\ x = v * (x \div v) + (x % v)
      <4>1. v = 1 \/ v = 2 \/ v = 3 \/ v = 4
        OBVIOUS
      <4> QED
        BY <3>2, <4>1
    <3> QED
      BY <3>3 DEF x
  <2>2. ASSUME NEW l \in Languages
        PROVE  f(l) \in Nat /\ g(l) \in 0 .. W - 1 /\ Weight(langs, l) * n = W * f(l) + g(l)
    <3> DEFINE w == Weight(langs, l)
               v == WeightOfAll(langs)
    <3>1. w \in {0, 1, 2} /\ v \in 1 .. 4
      BY <1>9
    <3>2. f(l) = (w * n) \div v /\ g(l) = (w * n) % v
      BY DEF FloorOf, FractionOf
    <3> HIDE DEF w, v
    <3>3. (w * n) \div v \in Nat /\ (w * n) % v \in 0 .. v - 1
          /\ w * n = v * ((w * n) \div v) + ((w * n) % v)
      BY <2>1, <3>1
    <3> HIDE DEF f, g
    <3>4. f(l) \in Nat /\ g(l) \in 0 .. v - 1 /\ w * n = v * f(l) + g(l)
      BY <3>2, <3>3
    <3> QED
      BY <3>4 DEF w, v
  <2> QED
    BY <2>2
<1>11. left = n - (f(R) + f(D) + f(E))
  BY DEF LeftOf, R, D, E
<1>12. \A l \in Languages : rank(l) = (IF before(R, l) THEN 1 ELSE 0) + (IF before(D, l) THEN 1 ELSE 0)
                                     + (IF before(E, l) THEN 1 ELSE 0)
  BY DEF RankOf, R, D, E
<1>13. \A l, m \in Languages : before(m, l) <=> /\ m \in S
                                                 /\ \/ g(m) > g(l)
                                                    \/ g(m) = g(l) /\ Place(m) < Place(l)
  BY DEF IsBefore, S
<1>14. \A l \in Languages : BriefTarget(n, langs, l) = f(l) + (IF rank(l) < left THEN 1 ELSE 0)
  BY BriefTargetIs
<1> HIDE DEF W, f, g, left, rank, before
<1>15. f(R) \in Nat /\ f(D) \in Nat /\ f(E) \in Nat
  BY <1>4, <1>10
<1>16. g(R) \in Nat /\ g(D) \in Nat /\ g(E) \in Nat /\ g(R) < W /\ g(D) < W /\ g(E) < W
  <2>1. \A l \in Languages : g(l) \in Nat /\ g(l) < W
    BY <1>9, <1>10
  <2> QED
    BY <1>4, <2>1
<1> DEFINE c(m, l) == IF before(m, l) THEN 1 ELSE 0
<1>17. \A l, m \in Languages : c(m, l) \in {0, 1} /\ (c(m, l) = 1 <=> before(m, l))
  OBVIOUS
<1>18. \A l \in Languages : rank(l) = c(R, l) + c(D, l) + c(E, l)
  BY <1>12
<1> HIDE DEF c
<1>19. \A l, m \in Languages : m \notin S => c(m, l) = 0
  BY <1>13, <1>17
<1>20. c(R, R) = 0 /\ c(D, D) = 0 /\ c(E, E) = 0
  BY <1>4, <1>6, <1>13, <1>16, <1>17
<1>21. /\ R \in S /\ D \in S => c(R, D) + c(D, R) = 1
       /\ R \in S /\ E \in S => c(R, E) + c(E, R) = 1
       /\ D \in S /\ E \in S => c(D, E) + c(E, D) = 1
  <2>1. ASSUME NEW l \in Languages, NEW m \in Languages, l \in S, m \in S, Place(l) < Place(m),
               Place(l) \in Nat, Place(m) \in Nat, g(l) \in Nat, g(m) \in Nat
        PROVE  c(l, m) + c(m, l) = 1
    <3>1. before(l, m) <=> ~before(m, l)
      BY <1>13, <2>1
    <3> QED
      BY <1>17, <3>1
  <2>2. Place(R) < Place(D) /\ Place(R) < Place(E) /\ Place(D) < Place(E)
        /\ Place(R) \in Nat /\ Place(D) \in Nat /\ Place(E) \in Nat
    BY <1>6
  <2> QED
    BY <1>4, <1>16, <2>1, <2>2
<1>22. /\ R \in S /\ D \in S /\ c(R, D) = 1 /\ c(D, E) = 1 => c(R, E) = 1
       /\ E \in S /\ D \in S /\ c(E, D) = 1 /\ c(D, R) = 1 => c(E, R) = 1
  <2>1. before(R, D) /\ before(D, E) => before(R, E)
    BY <1>4, <1>6, <1>13, <1>16
  <2>2. before(E, D) /\ before(D, R) => before(E, R)
    BY <1>4, <1>6, <1>13, <1>16
  <2> QED
    BY <1>4, <1>17, <2>1, <2>2
<1> DEFINE add(l) == IF rank(l) < left THEN 1 ELSE 0
<1>23. \A l \in Languages : BriefTarget(n, langs, l) = f(l) + add(l)
  BY <1>14
<1>24. left \in Int
  BY <1>11, <1>15
<1>25. /\ c(R, D) \in {0, 1} /\ c(R, E) \in {0, 1} /\ c(D, R) \in {0, 1}
       /\ c(D, E) \in {0, 1} /\ c(E, R) \in {0, 1} /\ c(E, D) \in {0, 1}
  BY <1>4, <1>17
<1>26. /\ rank(R) = c(D, R) + c(E, R) /\ rank(D) = c(R, D) + c(E, D) /\ rank(E) = c(R, E) + c(D, E)
  BY <1>4, <1>18, <1>20, <1>25
<1>27. /\ \A l \in Languages : add(l) \in {0, 1} /\ (add(l) = 1 <=> rank(l) < left)
       /\ add(R) \in {0, 1} /\ add(D) \in {0, 1} /\ add(E) \in {0, 1}
       /\ (add(R) = 1 <=> rank(R) < left) /\ (add(D) = 1 <=> rank(D) < left)
       /\ (add(E) = 1 <=> rank(E) < left)
  OBVIOUS
<1> HIDE DEF add
<1> DEFINE t(l) == IF l \in S THEN BriefTarget(n, langs, l) ELSE 0
           G == n = t(R) + t(D) + t(E)
<1> DEFINE i(l) == IF l \in S THEN 1 ELSE 0
<1>28. \A l \in Languages : i(l) \in {0, 1} /\ (i(l) = 1 <=> l \in S)
  OBVIOUS
<1> HIDE DEF i
<1>29. /\ i(R) \in {0, 1} /\ i(D) \in {0, 1} /\ i(E) \in {0, 1}
       /\ (i(R) = 1 <=> R \in S) /\ (i(D) = 1 <=> D \in S) /\ (i(E) = 1 <=> E \in S)
  BY <1>4, <1>28
<1>30. /\ left \in 0 .. i(R) + i(D) + i(E)
       /\ (i(R) = 0 => f(R) = 0) /\ (i(D) = 0 => f(D) = 0) /\ (i(E) = 0 => f(E) = 0)
  <2>1. /\ i(R) = 0 => Weight(langs, R) = 0
        /\ i(D) = 0 => Weight(langs, D) = 0
        /\ i(E) = 0 => Weight(langs, E) = 0
    BY <1>4, <1>8, <1>29
  <2>2. /\ ShareIs(n, W, Weight(langs, R), f(R), g(R), i(R))
        /\ ShareIs(n, W, Weight(langs, D), f(D), g(D), i(D))
        /\ ShareIs(n, W, Weight(langs, E), f(E), g(E), i(E))
    BY <1>4, <1>9, <1>10, <1>15, <1>16, <1>29, <2>1 DEF ShareIs
  <2> QED
    BY <1>7, <1>9, <1>11, <2>2, LeftFits
<1>31. (IF i(R) = 1 THEN add(R) ELSE 0) + (IF i(D) = 1 THEN add(D) ELSE 0)
       + (IF i(E) = 1 THEN add(E) ELSE 0) = left
  <2>1. /\ i(R) = 0 => c(R, D) = 0 /\ c(R, E) = 0
        /\ i(D) = 0 => c(D, R) = 0 /\ c(D, E) = 0
        /\ i(E) = 0 => c(E, R) = 0 /\ c(E, D) = 0
    BY <1>4, <1>19, <1>29
  <2>2. /\ i(R) = 1 /\ i(D) = 1 => c(R, D) + c(D, R) = 1
        /\ i(R) = 1 /\ i(E) = 1 => c(R, E) + c(E, R) = 1
        /\ i(D) = 1 /\ i(E) = 1 => c(D, E) + c(E, D) = 1
    BY <1>21, <1>29
  <2>3. /\ add(R) = 1 <=> c(D, R) + c(E, R) < left
        /\ add(D) = 1 <=> c(R, D) + c(E, D) < left
        /\ add(E) = 1 <=> c(R, E) + c(D, E) < left
    BY <1>26, <1>27
  <2> QED
    BY <1>22, <1>25, <1>27, <1>29, <1>30, <2>1, <2>2, <2>3, FirstOnes
<1>32. /\ (IF R \in S THEN BriefTarget(n, langs, R) ELSE 0) = f(R) + (IF i(R) = 1 THEN add(R) ELSE 0)
       /\ (IF D \in S THEN BriefTarget(n, langs, D) ELSE 0) = f(D) + (IF i(D) = 1 THEN add(D) ELSE 0)
       /\ (IF E \in S THEN BriefTarget(n, langs, E) ELSE 0) = f(E) + (IF i(E) = 1 THEN add(E) ELSE 0)
  BY <1>4, <1>23, <1>29, <1>30
<1>33. G
  <2> DEFINE d(l) == IF i(l) = 1 THEN add(l) ELSE 0
  <2>1. d(R) \in Nat /\ d(D) \in Nat /\ d(E) \in Nat
    BY <1>27
  <2>2. d(R) + d(D) + d(E) = left
    BY <1>31
  <2>3. t(R) = f(R) + d(R) /\ t(D) = f(D) + d(D) /\ t(E) = f(E) + d(E)
    BY <1>32
  <2> HIDE DEF t, d
  <2>4. t(R) \in Nat /\ t(D) \in Nat /\ t(E) \in Nat
    BY <1>15, <2>1, <2>3
  <2>5. PICK x \in Nat, y \in Nat, z \in Nat : x = f(R) /\ y = f(D) /\ z = f(E)
    BY <1>15
  <2>6. PICK u \in Nat, v \in Nat, w \in Nat : u = d(R) /\ v = d(D) /\ w = d(E)
    BY <2>1
  <2>7. u + v + w = n - (x + y + z)
    BY <1>11, <2>2, <2>5, <2>6
  <2>8. n = (x + u) + (y + v) + (z + w)
    BY <2>7
  <2> QED
    BY <2>3, <2>5, <2>6, <2>8
<1>34. \A l \in Languages : BriefTarget(n, langs, l) \in Nat
  BY <1>3, <1>15, <1>23, <1>27
<1> QED
  BY <1>33, <1>34 DEF R, D, E, S, t

(* The lists of categories name each once.                                 *)
LEMMA ListsAreInjective ==
  /\ <<"empty", "partial", "off_domain">> \in Seq(Categories("refusals"))
  /\ IsInjective(<<"empty", "partial", "off_domain">>)
  /\ TopicPairs \in Seq(Categories("anti_template")) /\ IsInjective(TopicPairs)
  /\ <<"brief_qa">> \in Seq(Categories("brief_qa")) /\ IsInjective(<<"brief_qa">>)
  /\ <<"mc_short">> \in Seq(Categories("mc")) /\ IsInjective(<<"mc_short">>)
  /\ <<"open", "grounded_terse">> \in Seq(Categories("terse"))
  /\ IsInjective(<<"open", "grounded_terse">>)
<1>1. <<"empty", "partial", "off_domain">> \in Seq(Categories("refusals"))
  BY DEF Categories
<1>2. IsInjective(<<"empty", "partial", "off_domain">>)
  BY DEF IsInjective
<1>3. TopicPairs \in Seq(Categories("anti_template")) /\ IsInjective(TopicPairs)
  BY GeneratorsAssumption DEF Categories
<1>4. <<"brief_qa">> \in Seq(Categories("brief_qa")) /\ IsInjective(<<"brief_qa">>)
  BY DEF Categories, IsInjective
<1>5. <<"mc_short">> \in Seq(Categories("mc")) /\ IsInjective(<<"mc_short">>)
  BY DEF Categories, IsInjective
<1>6. <<"open", "grounded_terse">> \in Seq(Categories("terse"))
  BY DEF Categories
<1>7. IsInjective(<<"open", "grounded_terse">>)
  BY DEF IsInjective
<1> QED
  BY <1>1, <1>2, <1>3, <1>4, <1>5, <1>6, <1>7

(* The buckets of a plan, in order.                                        *)
LEMMA BucketsInOrder ==
  ASSUME NEW name \in QuotaJobNames, NEW cats \in Seq(Categories(name)), IsInjective(cats),
         NEW langs \in Seq(Languages), Len(langs) \in 1 .. 3, IsInjective(langs)
  PROVE  Of(cats, langs) \in Seq(BucketsOf(name)) /\ IsInjective(Of(cats, langs))
BY OfIsInjective DEF BucketsOf

LEMMA RefusalPlanIsSound ==
  ASSUME NEW n \in Nat, NEW langs \in Seq(Languages), Len(langs) \in 1 .. 3, IsInjective(langs)
  PROVE  IsPlan(RefusalPlan(n, langs), BucketsOf("refusals"))
<1> DEFINE B == BucketsOf("refusals")
           buckets == Of(<<"empty", "partial", "off_domain">>, langs)
           t == [k \in DOMAIN buckets |-> RefusalTarget(n, buckets[k])]
<1>1. buckets \in Seq(B) /\ IsInjective(buckets)
  BY ListsAreInjective, BucketsInOrder DEF QuotaJobNames
<1>2. RefusalPlan(n, langs)
      = [k \in DOMAIN buckets |->
           [bucket |-> buckets[k], target |-> t[k], wave |-> ((t[k] * 10) \div (PerCall * 8)) + 1]]
  BY DEF RefusalPlan, Planned
<1> HIDE DEF buckets
<1>3. t \in [DOMAIN buckets -> Nat]
  <2>1. \A b \in B : RefusalTarget(n, b) \in Nat
    BY TargetsAreNumbers
  <2>2. \A k \in DOMAIN buckets : buckets[k] \in B
    BY <1>1
  <2> QED
    BY <2>1, <2>2
<1> HIDE DEF t, B
<1>4. IsPlan(RefusalPlan(n, langs), B)
  BY <1>1, <1>2, <1>3, PlannedIsPlan
<1> QED
  BY <1>4 DEF B

LEMMA AntiTemplatePlanIsSound ==
  ASSUME NEW n \in Nat, NEW langs \in Seq(Languages), Len(langs) \in 1 .. 3, IsInjective(langs)
  PROVE  IsPlan(AntiTemplatePlan(n, langs), BucketsOf("anti_template"))
<1> DEFINE B == BucketsOf("anti_template")
           buckets == Of(TopicPairs, langs)
           t == [k \in DOMAIN buckets |-> AntiTemplateTarget(n, buckets[k])]
<1>1. buckets \in Seq(B) /\ IsInjective(buckets)
  BY ListsAreInjective, BucketsInOrder DEF QuotaJobNames
<1>2. AntiTemplatePlan(n, langs)
      = [k \in DOMAIN buckets |->
           [bucket |-> buckets[k], target |-> t[k], wave |-> ((t[k] * 10) \div (PerCall * 7)) + 1]]
  BY DEF AntiTemplatePlan, Planned
<1> HIDE DEF buckets
<1>3. t \in [DOMAIN buckets -> Nat]
  <2>1. \A b \in B : AntiTemplateTarget(n, b) \in Nat
    BY TargetsAreNumbers
  <2>2. \A k \in DOMAIN buckets : buckets[k] \in B
    BY <1>1
  <2> QED
    BY <2>1, <2>2
<1> HIDE DEF t, B
<1>4. IsPlan(AntiTemplatePlan(n, langs), B)
  BY <1>1, <1>2, <1>3, PlannedIsPlan
<1> QED
  BY <1>4 DEF B

LEMMA McPlanIsSound ==
  ASSUME NEW n \in Nat, NEW langs \in Seq(Languages), Len(langs) \in 1 .. 3, IsInjective(langs)
  PROVE  IsPlan(McPlan(n, langs), BucketsOf("mc"))
<1> DEFINE B == BucketsOf("mc")
           buckets == Of(<<"mc_short">>, langs)
           t == [k \in DOMAIN buckets |-> McTarget(n, buckets[k][2])]
<1>1. buckets \in Seq(B) /\ IsInjective(buckets)
  BY ListsAreInjective, BucketsInOrder DEF QuotaJobNames
<1>2. McPlan(n, langs)
      = [k \in DOMAIN buckets |->
           [bucket |-> buckets[k], target |-> t[k], wave |-> ((t[k] * 10) \div (PerCall * 8)) + 1]]
  BY DEF McPlan, Planned
<1> HIDE DEF buckets
<1>3. t \in [DOMAIN buckets -> Nat]
  <2>1. \A b \in B : McTarget(n, b[2]) \in Nat
    BY TargetsAreNumbers
  <2>2. \A k \in DOMAIN buckets : buckets[k] \in B
    BY <1>1
  <2> QED
    BY <2>1, <2>2
<1> HIDE DEF t, B
<1>4. IsPlan(McPlan(n, langs), B)
  BY <1>1, <1>2, <1>3, PlannedIsPlan
<1> QED
  BY <1>4 DEF B

LEMMA TersePlanIsSound ==
  ASSUME NEW n \in Nat, NEW langs \in Seq(Languages), Len(langs) \in 1 .. 3, IsInjective(langs)
  PROVE  IsPlan(TersePlan(n, langs), BucketsOf("terse"))
<1> DEFINE B == BucketsOf("terse")
           buckets == Of(<<"open", "grounded_terse">>, langs)
           t == [k \in DOMAIN buckets |-> TerseTarget(n, buckets[k])]
<1>1. buckets \in Seq(B) /\ IsInjective(buckets)
  BY ListsAreInjective, BucketsInOrder DEF QuotaJobNames
<1>2. TersePlan(n, langs)
      = [k \in DOMAIN buckets |->
           [bucket |-> buckets[k], target |-> t[k], wave |-> ((t[k] * 10) \div (PerCall * 8)) + 1]]
  BY DEF TersePlan, Planned
<1> HIDE DEF buckets
<1>3. t \in [DOMAIN buckets -> Nat]
  <2>1. \A b \in B : TerseTarget(n, b) \in Nat
    BY TargetsAreNumbers
  <2>2. \A k \in DOMAIN buckets : buckets[k] \in B
    BY <1>1
  <2> QED
    BY <2>1, <2>2
<1> HIDE DEF t, B
<1>4. IsPlan(TersePlan(n, langs), B)
  BY <1>1, <1>2, <1>3, PlannedIsPlan
<1> QED
  BY <1>4 DEF B

(* brief_qa leaves out the languages that are to get nothing.              *)
LEMMA BriefPlanIsSound ==
  ASSUME NEW n \in Nat, NEW langs \in Seq(Languages), Len(langs) \in 1 .. 3, IsInjective(langs)
  PROVE  LET plan == BriefPlan(n, langs) IN
         /\ IsPlan(plan, BucketsOf("brief_qa"))
         /\ \A k \in DOMAIN plan : /\ plan[k].bucket[2] \in ToSet(langs)
                                   /\ plan[k].target = BriefTarget(n, langs, plan[k].bucket[2])
         /\ \A l \in ToSet(langs) : BriefTarget(n, langs, l) > 0
                                    => \E k \in DOMAIN plan : plan[k].bucket = <<"brief_qa", l>>
<1> DEFINE B == BucketsOf("brief_qa")
           buckets == Of(<<"brief_qa">>, langs)
           t == [k \in DOMAIN buckets |-> BriefTarget(n, langs, buckets[k][2])]
           all == [k \in DOMAIN buckets |->
                     [bucket |-> buckets[k], target |-> t[k],
                      wave |-> ((t[k] * 10) \div (PerCall * 8)) + 1]]
           K == {k \in DOMAIN all : all[k].target > 0}
           plan == BriefPlan(n, langs)
           Entry == [bucket : B, target : Nat, wave : Nat \ {0}]
<1>1. buckets \in Seq(B) /\ IsInjective(buckets)
  BY ListsAreInjective, BucketsInOrder DEF QuotaJobNames
<1>2. plan = Picked(all, K)
  BY DEF BriefPlan, Planned
<1>3. /\ \A k \in DOMAIN buckets : buckets[k] \in {"brief_qa"} \X ToSet(langs)
      /\ \A l \in ToSet(langs) : \E k \in DOMAIN buckets : buckets[k] = <<"brief_qa", l>>
  <2> DEFINE L == Len(langs)
  <2>1. L \in 1 .. 3 /\ DOMAIN langs = 1 .. L /\ Len(<<"brief_qa">>) * L = L
    OBVIOUS
  <2>2. buckets = [k \in 1 .. L |-> <<(<<"brief_qa">>)[((k - 1) \div L) + 1], langs[((k - 1) % L) + 1]>>]
    BY <2>1 DEF Of
  <2>3. ASSUME NEW k \in 1 .. L
        PROVE  (k - 1) \div L = 0 /\ ((k - 1) % L) + 1 = k
    <3>1. CASE L = 1
      BY <3>1
    <3>2. CASE L = 2
      BY <3>2
    <3>3. CASE L = 3
      BY <3>3
    <3> QED
      BY <2>1, <3>1, <3>2, <3>3
  <2> HIDE DEF L
  <2>4. \A k \in 1 .. L : buckets[k] = <<"brief_qa", langs[k]>>
    <3>1. \A k \in 1 .. L : ((k - 1) \div L) + 1 = 1
      BY <2>1, <2>3
    <3>2. (<<"brief_qa">>)[1] = "brief_qa"
      OBVIOUS
    <3> HIDE DEF buckets
    <3> QED
      BY <2>2, <2>3, <3>1, <3>2
  <2>5. DOMAIN buckets = 1 .. L
    <3> HIDE DEF buckets
    <3> QED
      BY <2>2
  <2> HIDE DEF buckets
  <2>6. ASSUME NEW k \in DOMAIN buckets PROVE buckets[k] \in {"brief_qa"} \X ToSet(langs)
    <3>1. langs[k] \in ToSet(langs) /\ buckets[k] = <<"brief_qa", langs[k]>>
      BY <2>1, <2>4, <2>5 DEF ToSet
    <3> QED
      BY <3>1
  <2>7. ASSUME NEW l \in ToSet(langs) PROVE \E k \in DOMAIN buckets : buckets[k] = <<"brief_qa", l>>
    <3>1. PICK k \in DOMAIN langs : langs[k] = l
      BY DEF ToSet
    <3> QED
      BY <2>1, <2>4, <2>5, <3>1
  <2> QED
    BY <2>6, <2>7
<1> HIDE DEF buckets
<1>4. t \in [DOMAIN buckets -> Nat]
  <2>1. \A l \in Languages : BriefTarget(n, langs, l) \in Nat
    <3>1. langs # <<>>
      OBVIOUS
    <3> QED
      BY <3>1, MixAdds
  <2>2. \A k \in DOMAIN buckets : buckets[k][2] \in Languages
    BY <1>1 DEF BucketsOf
  <2> QED
    BY <2>1, <2>2
<1>5. IsPlan(all, B)
  <2> HIDE DEF t, B
  <2> QED
    BY <1>1, <1>4, PlannedIsPlan
<1>6. /\ DOMAIN all = DOMAIN buckets /\ DOMAIN all = 1 .. Len(all)
      /\ \A k \in DOMAIN all : all[k].bucket = buckets[k]
                               /\ all[k].target = BriefTarget(n, langs, buckets[k][2])
  <2> HIDE DEF B
  <2>1. all \in Seq(Entry)
    BY <1>5 DEF IsPlan
  <2>2. DOMAIN all = 1 .. Len(all)
    <3> HIDE DEF all, Entry
    <3> QED
      BY <2>1
  <2> QED
    BY <2>2
<1> HIDE DEF all, plan, t, B
<1>7. all \in Seq(Entry) /\ \A j, k \in DOMAIN all : all[j].bucket = all[k].bucket => j = k
  BY <1>5 DEF IsPlan
<1>8. PICK pos : plan \in Seq(Entry) /\ PlacesOf(pos, plan, all, K \cap (1 .. Len(all)))
  <2> HIDE DEF K, Entry
  <2> QED
    BY <1>2, <1>7, PickedPlaces
<1>9. K \cap (1 .. Len(all)) = K
  BY <1>6
<1>10. /\ DOMAIN plan = 1 .. Len(plan) /\ \A i \in DOMAIN plan : pos[i] \in K /\ plan[i] = all[pos[i]]
       /\ \A i, j \in DOMAIN plan : pos[i] = pos[j] => i = j
       /\ \A k \in K : \E i \in DOMAIN plan : pos[i] = k
  <2>1. DOMAIN plan = 1 .. Len(plan)
    <3> HIDE DEF Entry
    <3> QED
      BY <1>8
  <2> HIDE DEF K
  <2> QED
    BY <1>8, <1>9, <2>1 DEF PlacesOf
<1>11. IsPlan(plan, B)
  <2>1. \A i, j \in DOMAIN plan : plan[i].bucket = plan[j].bucket => i = j
    BY <1>7, <1>10
  <2> QED
    BY <1>8, <2>1 DEF IsPlan
<1>12. \A i \in DOMAIN plan : /\ plan[i].bucket[2] \in ToSet(langs)
                              /\ plan[i].target = BriefTarget(n, langs, plan[i].bucket[2])
  BY <1>3, <1>6, <1>10
<1>13. \A l \in ToSet(langs) : BriefTarget(n, langs, l) > 0
                               => \E i \in DOMAIN plan : plan[i].bucket = <<"brief_qa", l>>
  <2>1. ASSUME NEW l \in ToSet(langs), BriefTarget(n, langs, l) > 0
        PROVE  \E i \in DOMAIN plan : plan[i].bucket = <<"brief_qa", l>>
    <3>1. PICK k \in DOMAIN buckets : buckets[k] = <<"brief_qa", l>>
      BY <1>3
    <3>2. k \in K
      BY <1>6, <2>1, <3>1
    <3> QED
      BY <1>6, <1>10, <3>1, <3>2
  <2> QED
    BY <2>1
<1> QED
  BY <1>11, <1>12, <1>13 DEF plan, B

(***************************************************************************)
(* Every plan is sound, and the targets of brief_qa add up.                *)
(***************************************************************************)
PlanAddsUp(plan, n) ==
  OverLanguages([l \in Languages |->
      IF <<"brief_qa", l>> \in {p.bucket : p \in ToSet(plan)}
      THEN PlanOf(plan, <<"brief_qa", l>>).target ELSE 0]) = n

LEMMA PlaceInPlan ==
  ASSUME NEW B, NEW plan, IsPlan(plan, B), NEW k \in DOMAIN plan
  PROVE  PlanOf(plan, plan[k].bucket) = plan[k]
<1>1. \A j \in DOMAIN plan : plan[j].bucket = plan[k].bucket <=> j = k
  BY DEF IsPlan
<1> QED
  BY <1>1 DEF PlanOf

LEMMA BucketsInPlan ==
  ASSUME NEW B, NEW plan, IsPlan(plan, B)
  PROVE  /\ {p.bucket : p \in ToSet(plan)} = {plan[k].bucket : k \in DOMAIN plan}
         /\ {p.bucket : p \in ToSet(plan)} \subseteq B
<1> DEFINE Entry == [bucket : B, target : Nat, wave : Nat \ {0}]
<1>1. {p.bucket : p \in ToSet(plan)} = {plan[k].bucket : k \in DOMAIN plan}
  BY DEF ToSet
<1>2. plan \in Seq(Entry)
  BY DEF IsPlan
<1>3. \A k \in DOMAIN plan : plan[k] \in Entry
  <2> HIDE DEF Entry
  <2> QED
    BY <1>2
<1>4. \A k \in DOMAIN plan : plan[k].bucket \in B
  BY <1>3
<1> QED
  BY <1>1, <1>4

LEMMA BriefPlanAddsUp ==
  ASSUME NEW n \in Nat, NEW langs \in Seq(Languages), Len(langs) \in 1 .. 3, IsInjective(langs)
  PROVE  PlanAddsUp(BriefPlan(n, langs), n)
<1> DEFINE plan == BriefPlan(n, langs)
           planned == {p.bucket : p \in ToSet(plan)}
           f == [l \in Languages |-> IF <<"brief_qa", l>> \in planned
                                     THEN PlanOf(plan, <<"brief_qa", l>>).target ELSE 0]
           share(l) == IF l \in ToSet(langs) THEN BriefTarget(n, langs, l) ELSE 0
<1>1. /\ IsPlan(plan, BucketsOf("brief_qa"))
      /\ \A k \in DOMAIN plan : /\ plan[k].bucket[2] \in ToSet(langs)
                                /\ plan[k].target = BriefTarget(n, langs, plan[k].bucket[2])
      /\ \A l \in ToSet(langs) : BriefTarget(n, langs, l) > 0
                                 => \E k \in DOMAIN plan : plan[k].bucket = <<"brief_qa", l>>
  BY BriefPlanIsSound
<1>2. /\ \A l \in Languages : BriefTarget(n, langs, l) \in Nat
      /\ n = share("roman_nepali") + share("devanagari") + share("english")
  <2>1. langs # <<>>
    OBVIOUS
  <2> QED
    BY <2>1, MixAdds
<1> HIDE DEF plan
<1>3. planned = {plan[k].bucket : k \in DOMAIN plan}
  BY <1>1, BucketsInPlan
<1>4. ASSUME NEW l \in Languages PROVE f[l] = share(l)
  <2>1. CASE <<"brief_qa", l>> \in planned
    <3>1. PICK k \in DOMAIN plan : plan[k].bucket = <<"brief_qa", l>>
      BY <1>3, <2>1
    <3>2. PlanOf(plan, <<"brief_qa", l>>) = plan[k]
      BY <1>1, <3>1, PlaceInPlan
    <3>3. (<<"brief_qa", l>>)[2] = l
      OBVIOUS
    <3>4. l \in ToSet(langs) /\ plan[k].target = BriefTarget(n, langs, l)
      BY <1>1, <3>1, <3>3
    <3> QED
      BY <2>1, <3>2, <3>4
  <2>2. CASE <<"brief_qa", l>> \notin planned
    <3>1. l \in ToSet(langs) => ~ BriefTarget(n, langs, l) > 0
      BY <1>1, <1>3, <2>2
    <3>2. share(l) = 0
      BY <1>2, <3>1
    <3> QED
      BY <2>2, <3>2
  <2> QED
    BY <2>1, <2>2
<1>5. "roman_nepali" \in Languages /\ "devanagari" \in Languages /\ "english" \in Languages
  BY DEF Languages
<1>6. OverLanguages(f) = n
  <2> HIDE DEF f, share
  <2> QED
    BY <1>2, <1>4, <1>5 DEF OverLanguages
<1> QED
  BY <1>6 DEF PlanAddsUp, plan

LEMMA PlansAreSound ==
  ASSUME NEW n \in Nat, NEW g \in Generators
  PROVE  /\ IsPlan(Plan(g.job, n, g.langs), BucketsOf(g.job))
         /\ g.job = "brief_qa" => PlanAddsUp(Plan(g.job, n, g.langs), n)
<1>1. /\ g.job \in QuotaJobNames /\ g.langs \in Seq(Languages) /\ Len(g.langs) \in 1 .. 3
      /\ IsInjective(g.langs)
  BY GeneratorsAssumption
<1> DEFINE plan == Plan(g.job, n, g.langs)
<1>2. CASE g.job = "refusals"
  <2>1. plan = RefusalPlan(n, g.langs)
    BY <1>2 DEF Plan
  <2> QED
    BY <1>1, <1>2, <2>1, RefusalPlanIsSound
<1>3. CASE g.job = "anti_template"
  <2>1. plan = AntiTemplatePlan(n, g.langs)
    BY <1>3 DEF Plan
  <2> QED
    BY <1>1, <1>3, <2>1, AntiTemplatePlanIsSound
<1>4. CASE g.job = "brief_qa"
  <2>1. plan = BriefPlan(n, g.langs)
    BY <1>4 DEF Plan
  <2> QED
    BY <1>1, <1>4, <2>1, BriefPlanIsSound, BriefPlanAddsUp
<1>5. CASE g.job = "mc"
  <2>1. plan = McPlan(n, g.langs)
    BY <1>5 DEF Plan
  <2> QED
    BY <1>1, <1>5, <2>1, McPlanIsSound
<1>6. CASE g.job = "terse"
  <2>1. plan = TersePlan(n, g.langs)
    BY <1>6 DEF Plan
  <2> QED
    BY <1>1, <1>6, <2>1, TersePlanIsSound
<1> QED
  BY <1>1, <1>2, <1>3, <1>4, <1>5, <1>6 DEF QuotaJobNames

(***************************************************************************)
(* The invariant of the generators.  A bucket without calls has enough     *)
(* pairs or one of its calls raised; what a bucket asks has passed the     *)
(* validation; the rest is about the file.                                 *)
(***************************************************************************)
Questions == {p.question : p \in Pairs}

PlanIsKept ==
  /\ gen.job \in QuotaJobNames /\ gen.n \in Asked
  /\ IsPlan(gen.plan, BucketsOf(gen.job))
  /\ gen.job = "brief_qa" => PlanAddsUp(gen.plan, gen.n)
  /\ targets = [b \in {p.bucket : p \in ToSet(gen.plan)} |-> PlanOf(gen.plan, b).target]

BucketsAreFilled ==
  /\ bucket \in [Bs -> [size : Nat, asked : SUBSET Questions]]
  /\ \A b \in Bs : /\ IsFiniteSet(bucket[b].asked)
                   /\ Cardinality(bucket[b].asked) <= bucket[b].size
                   /\ \A q \in bucket[b].asked :
                        \E p \in Pairs : p.question = q /\ Valid(gen.job, p, b)

CallsFollow ==
  /\ calls \in [Bs -> Nat]
  /\ \A b \in Bs : /\ calls[b] <= PlanOf(gen.plan, b).wave
                   /\ calls[b] = 0 => b \in threw \/ ~ShortOf(bucket[b].size, b)
  /\ threw \subseteq Bs /\ failures \in 0 .. FailureLimit /\ stage \in {"calls", "done"}

FileIsSound ==
  /\ stage = "calls" => final = {}
  /\ NoQuestionTwice /\ NoBucketOverfull /\ ShortForAReason /\ FiledByScript

QuotaInv == PlanIsKept /\ BucketsAreFilled /\ CallsFollow /\ FileIsSound

(* The targets and calls of the plan are numbers.                          *)
LEMMA PlanNumbers ==
  ASSUME PlanIsKept
  PROVE  /\ Bs = {gen.plan[k].bucket : k \in DOMAIN gen.plan} /\ Bs \subseteq BucketsOf(gen.job)
         /\ \A b \in Bs : targets[b] \in Nat /\ PlanOf(gen.plan, b).wave \in Nat \ {0}
                          /\ targets[b] = PlanOf(gen.plan, b).target
<1> DEFINE plan == gen.plan
           B == BucketsOf(gen.job)
           Entry == [bucket : B, target : Nat, wave : Nat \ {0}]
<1>1. IsPlan(plan, B)
  BY DEF PlanIsKept
<1>2. Bs = {p.bucket : p \in ToSet(plan)} /\ \A b \in Bs : targets[b] = PlanOf(plan, b).target
  BY DEF PlanIsKept, Bs
<1> HIDE DEF plan, B
<1>3. Bs = {plan[k].bucket : k \in DOMAIN plan} /\ Bs \subseteq B
  BY <1>1, <1>2, BucketsInPlan
<1>4. ASSUME NEW b \in Bs
      PROVE  PlanOf(plan, b).target \in Nat /\ PlanOf(plan, b).wave \in Nat \ {0}
  <2>1. PICK k \in DOMAIN plan : plan[k].bucket = b
    BY <1>3
  <2>2. PlanOf(plan, b) = plan[k]
    BY <1>1, <2>1, PlaceInPlan
  <2>3. plan \in Seq(Entry)
    BY <1>1 DEF IsPlan
  <2>4. plan[k] \in Entry
    <3> HIDE DEF Entry
    <3> QED
      BY <2>3
  <2> QED
    BY <2>2, <2>4
<1> QED
  BY <1>2, <1>3, <1>4 DEF plan, B

LEMMA QuotaStarts == QuotaInit => QuotaInv
<1> SUFFICES ASSUME QuotaInit PROVE QuotaInv
  OBVIOUS
<1>1. PICK g \in Generators, n \in Asked : gen = [job |-> g.job, n |-> n, plan |-> Plan(g.job, n, g.langs)]
  BY DEF QuotaInit
<1>2. gen.job = g.job /\ gen.n = n /\ gen.plan = Plan(g.job, n, g.langs) /\ n \in Nat
  BY <1>1, QuotaAssumption
<1>3. PlanIsKept
  <2>1. g.job \in QuotaJobNames
    BY GeneratorsAssumption
  <2>2. targets = [b \in {p.bucket : p \in ToSet(gen.plan)} |-> PlanOf(gen.plan, b).target]
    BY DEF QuotaInit
  <2> QED
    BY <1>2, <2>1, <2>2, PlansAreSound DEF PlanIsKept
<1>4. \A b \in Bs : targets[b] \in Nat /\ PlanOf(gen.plan, b).wave \in Nat \ {0}
  BY <1>3, PlanNumbers
<1>5. bucket = [b \in Bs |-> [size |-> 0, asked |-> {}]]
  <2>1. Gain(<<>>, {}) = [size |-> 0, asked |-> {}]
    <3>1. Cardinality({}) = 0 /\ {(<<>>)[k].question : k \in {}} = {}
      BY FS_EmptySet
    <3> QED
      BY <3>1 DEF Gain
  <2> QED
    BY <2>1 DEF QuotaInit
<1>6. BucketsAreFilled
  <2>1. IsFiniteSet({}) /\ Cardinality({}) = 0
    BY FS_EmptySet
  <2> QED
    BY <1>5, <2>1 DEF BucketsAreFilled
<1>7. CallsFollow
  <2>1. calls = [b \in Bs |-> PlanOf(gen.plan, b).wave] /\ threw = {} /\ failures = 0 /\ stage = "calls"
    BY DEF QuotaInit
  <2>2. failures \in 0 .. FailureLimit
    BY <2>1, QuotaAssumption
  <2> QED
    BY <1>4, <2>1, <2>2 DEF CallsFollow
<1>8. FileIsSound
  <2>1. stage = "calls" /\ final = {}
    BY DEF QuotaInit
  <2>2. NoBucketOverfull
    <3>1. \A b \in Bs : {r \in final : r.bucket = b} = {}
      BY <2>1
    <3> QED
      BY <1>4, <3>1, FS_EmptySet DEF NoBucketOverfull
  <2> QED
    BY <2>1, <2>2 DEF FileIsSound, NoQuestionTwice, ShortForAReason, FiledByScript
<1> QED
  BY <1>3, <1>6, <1>7, <1>8 DEF QuotaInv

(***************************************************************************)
(* The calls.                                                              *)
(***************************************************************************)
(* What a reply brings: valid pairs, of which some may ask the same.       *)
LEMMA GainsAreValid ==
  ASSUME NEW name, NEW b, NEW gain \in Gains(name, b)
  PROVE  /\ gain \in [size : Nat, asked : SUBSET Questions]
         /\ IsFiniteSet(gain.asked) /\ Cardinality(gain.asked) <= gain.size
         /\ \A q \in gain.asked : \E p \in Pairs : p.question = q /\ Valid(name, p, b)
<1>1. PICK reply \in Replies : gain = Gain(reply, Kept(name, reply, b))
  BY DEF Gains
<1> DEFINE kept == Kept(name, reply, b)
           asked == {reply[k].question : k \in kept}
<1>2. PICK n \in 0 .. PerCall : reply \in [1 .. n -> Pairs]
  BY DEF Replies
<1>3. n \in Nat /\ DOMAIN reply = 1 .. n
  BY <1>2, QuotaAssumption
<1>4. kept \subseteq 1 .. n /\ \A k \in kept : reply[k] \in Pairs /\ Valid(name, reply[k], b)
  BY <1>2, <1>3 DEF Kept
<1>5. gain = [size |-> Cardinality(kept), asked |-> asked]
  BY <1>1 DEF Gain
<1> HIDE DEF kept
<1>6. IsFiniteSet(kept) /\ Cardinality(kept) \in Nat
  <2>1. IsFiniteSet(1 .. n)
    BY <1>3, FS_Interval
  <2> QED
    BY <1>4, <2>1, FS_Subset, FS_CardinalityType
<1>7. IsFiniteSet(asked) /\ Cardinality(asked) <= Cardinality(kept)
  <2> DEFINE f == [k \in kept |-> reply[k].question]
  <2>1. f \in Surjection(kept, asked)
    BY DEF Surjection
  <2> HIDE DEF f, asked
  <2> QED
    BY <1>6, <2>1, FS_Surjection
<1>8. \A q \in asked : \E p \in Pairs : p.question = q /\ Valid(name, p, b)
  BY <1>4
<1>9. asked \subseteq Questions
  BY <1>8 DEF Questions
<1> HIDE DEF asked
<1> QED
  BY <1>5, <1>6, <1>7, <1>8, <1>9

LEMMA UnionSize ==
  ASSUME NEW S, IsFiniteSet(S), NEW T, IsFiniteSet(T), NEW m \in Nat, NEW n \in Nat,
         Cardinality(S) <= m, Cardinality(T) <= n
  PROVE  IsFiniteSet(S \cup T) /\ Cardinality(S \cup T) <= m + n
<1>1. /\ IsFiniteSet(S \cup T)
      /\ Cardinality(S \cup T) = Cardinality(S) + Cardinality(T) - Cardinality(S \cap T)
  BY FS_Union
<1>2. Cardinality(S) \in Nat /\ Cardinality(T) \in Nat /\ Cardinality(S \cap T) \in Nat
  <2>1. IsFiniteSet(S \cap T)
    BY FS_Subset
  <2> QED
    BY <2>1, FS_CardinalityType
<1> QED
  BY <1>1, <1>2

LEMMA ReturnStep ==
  ASSUME QuotaInv, NEW b \in Bs, CallReturns(b)
  PROVE  QuotaInv'
<1>1. stage = "calls" /\ calls[b] > 0 /\ UNCHANGED <<gen, targets, threw, stage, final>>
  BY DEF CallReturns
<1>2. PICK gain \in Gains(gen.job, b) :
        LET size == bucket[b].size + gain.size
            nothing == gain.size = 0 /\ ShortOf(size, b)
        IN /\ nothing => failures < FailureLimit
           /\ failures' = IF nothing THEN failures + 1 ELSE failures
           /\ bucket' = [bucket EXCEPT ![b] = [size |-> size, asked |-> @.asked \cup gain.asked]]
           /\ calls' = [calls EXCEPT ![b] = IF ShortOf(size, b) THEN @ ELSE @ - 1]
  BY DEF CallReturns
<1> DEFINE size == bucket[b].size + gain.size
<1>3. PlanIsKept /\ BucketsAreFilled /\ CallsFollow /\ FileIsSound
  BY DEF QuotaInv
<1>4. /\ gain.size \in Nat /\ gain.asked \subseteq Questions
      /\ IsFiniteSet(gain.asked) /\ Cardinality(gain.asked) <= gain.size
      /\ \A q \in gain.asked : \E p \in Pairs : p.question = q /\ Valid(gen.job, p, b)
  BY GainsAreValid
<1>5. PlanIsKept'
  BY <1>1, <1>3 DEF PlanIsKept
<1>6. Bs' = Bs /\ \A c \in Bs : targets[c] \in Nat
  BY <1>1, <1>3, PlanNumbers DEF Bs
<1> DEFINE all == bucket[b].asked \cup gain.asked
<1>7. bucket' = [bucket EXCEPT ![b] = [size |-> size, asked |-> all]]
  BY <1>2
<1>8. /\ bucket \in [Bs -> [size : Nat, asked : SUBSET Questions]]
      /\ \A c \in Bs : /\ IsFiniteSet(bucket[c].asked)
                       /\ Cardinality(bucket[c].asked) <= bucket[c].size
                       /\ \A q \in bucket[c].asked :
                            \E p \in Pairs : p.question = q /\ Valid(gen.job, p, c)
  BY <1>3 DEF BucketsAreFilled
<1>9. size \in Nat /\ all \subseteq Questions /\ IsFiniteSet(all) /\ Cardinality(all) <= size
  <2>1. bucket[b].size \in Nat /\ bucket[b].asked \subseteq Questions
    BY <1>8
  <2> QED
    BY <1>4, <1>8, <2>1, UnionSize
<1>10. \A q \in all : \E p \in Pairs : p.question = q /\ Valid(gen.job, p, b)
  BY <1>4, <1>8
<1>11. calls' = [calls EXCEPT ![b] = IF ShortOf(size, b) THEN @ ELSE @ - 1]
  BY <1>2
<1>12. failures' \in 0 .. FailureLimit
  <2>1. failures \in 0 .. FailureLimit /\ FailureLimit \in Nat
    BY <1>3, QuotaAssumption DEF CallsFollow
  <2> QED
    BY <1>2, <2>1
<1> HIDE DEF size, all
<1>13. BucketsAreFilled'
  <2>1. bucket' \in [Bs -> [size : Nat, asked : SUBSET Questions]]
    BY <1>7, <1>8, <1>9
  <2>2. ASSUME NEW c \in Bs
        PROVE  /\ IsFiniteSet(bucket'[c].asked)
               /\ Cardinality(bucket'[c].asked) <= bucket'[c].size
               /\ \A q \in bucket'[c].asked : \E p \in Pairs : p.question = q /\ Valid(gen.job, p, c)
    <3>1. CASE c = b
      <4>1. bucket'[c].asked = all /\ bucket'[c].size = size
        BY <1>7, <1>8, <3>1
      <4> QED
        BY <1>9, <1>10, <3>1, <4>1
    <3>2. CASE c # b
      <4>1. bucket'[c] = bucket[c]
        BY <1>7, <1>8, <3>2
      <4> QED
        BY <1>8, <4>1
    <3> QED
      BY <3>1, <3>2
  <2> QED
    BY <1>1, <1>6, <2>1, <2>2 DEF BucketsAreFilled
<1>14. CallsFollow'
  <2>1. /\ calls \in [Bs -> Nat] /\ threw \subseteq Bs /\ stage \in {"calls", "done"}
        /\ \A c \in Bs : /\ calls[c] <= PlanOf(gen.plan, c).wave
                         /\ calls[c] = 0 => c \in threw \/ ~ShortOf(bucket[c].size, c)
    BY <1>3 DEF CallsFollow
  <2>2. calls' \in [Bs -> Nat]
    BY <1>1, <1>11, <2>1
  <2>3. ASSUME NEW c \in Bs
        PROVE  /\ calls'[c] <= PlanOf(gen.plan, c).wave
               /\ calls'[c] = 0 => c \in threw \/ ~ShortOf(bucket'[c].size, c)
    <3>1. PlanOf(gen.plan, c).wave \in Nat
      BY <1>3, PlanNumbers
    <3>2. CASE c = b
      <4>1. bucket'[c].size = size
        BY <1>7, <1>8, <3>2
      <4>2. CASE ShortOf(size, b)
        <5>1. calls'[c] = calls[c] /\ calls[c] # 0
          BY <1>1, <1>11, <2>1, <3>2, <4>2
        <5> QED
          BY <2>1, <5>1
      <4>3. CASE ~ShortOf(size, b)
        <5>1. calls'[c] = calls[c] - 1 /\ calls[c] \in Nat
          BY <1>1, <1>11, <2>1, <3>2, <4>3
        <5> QED
          BY <2>1, <3>1, <3>2, <4>1, <4>3, <5>1
      <4> QED
        BY <4>2, <4>3
    <3>3. CASE c # b
      <4>1. bucket'[c] = bucket[c] /\ calls'[c] = calls[c]
        BY <1>7, <1>8, <1>11, <2>1, <3>3
      <4> QED
        BY <2>1, <4>1
    <3> QED
      BY <3>2, <3>3
  <2>4. \A c \in Bs : ShortOf(bucket[c].size, c)' <=> ShortOf(bucket'[c].size, c)
    BY <1>1 DEF ShortOf
  <2> QED
    BY <1>1, <1>6, <1>12, <2>1, <2>2, <2>3, <2>4 DEF CallsFollow
<1>15. FileIsSound'
  BY <1>1, <1>3, <1>6 DEF FileIsSound, NoQuestionTwice, NoBucketOverfull, ShortForAReason, FiledByScript
<1> QED
  BY <1>5, <1>13, <1>14, <1>15 DEF QuotaInv

LEMMA RaiseStep ==
  ASSUME QuotaInv, NEW b \in Bs, CallRaises(b)
  PROVE  QuotaInv'
<1>1. /\ stage = "calls" /\ calls[b] > 0
      /\ calls' = [calls EXCEPT ![b] = @ - 1] /\ threw' = threw \cup {b}
      /\ UNCHANGED <<gen, targets, bucket, failures, stage, final>>
  BY DEF CallRaises
<1>2. PlanIsKept /\ BucketsAreFilled /\ CallsFollow /\ FileIsSound
  BY DEF QuotaInv
<1>3. Bs' = Bs
  BY <1>1 DEF Bs
<1>4. PlanIsKept'
  BY <1>1, <1>2 DEF PlanIsKept
<1>5. BucketsAreFilled'
  BY <1>1, <1>2, <1>3 DEF BucketsAreFilled
<1>6. CallsFollow'
  <2>1. /\ calls \in [Bs -> Nat] /\ threw \subseteq Bs /\ stage \in {"calls", "done"}
        /\ failures \in 0 .. FailureLimit
        /\ \A c \in Bs : /\ calls[c] <= PlanOf(gen.plan, c).wave
                         /\ calls[c] = 0 => c \in threw \/ ~ShortOf(bucket[c].size, c)
    BY <1>2 DEF CallsFollow
  <2>2. calls' \in [Bs -> Nat]
    BY <1>1, <2>1
  <2>3. ASSUME NEW c \in Bs
        PROVE  /\ calls'[c] <= PlanOf(gen.plan, c).wave
               /\ calls'[c] = 0 => c \in threw' \/ ~ShortOf(bucket[c].size, c)
    <3>1. PlanOf(gen.plan, c).wave \in Nat /\ calls[c] \in Nat
      BY <1>2, <2>1, PlanNumbers
    <3>2. CASE c = b
      BY <1>1, <2>1, <3>1, <3>2
    <3>3. CASE c # b
      BY <1>1, <2>1, <3>1, <3>3
    <3> QED
      BY <3>2, <3>3
  <2>4. \A c \in Bs : ShortOf(bucket[c].size, c)' <=> ShortOf(bucket[c].size, c)
    BY <1>1 DEF ShortOf
  <2> QED
    BY <1>1, <1>3, <2>1, <2>2, <2>3, <2>4 DEF CallsFollow
<1>7. FileIsSound'
  BY <1>1, <1>2, <1>3 DEF FileIsSound, NoQuestionTwice, NoBucketOverfull, ShortForAReason, FiledByScript
<1> QED
  BY <1>4, <1>5, <1>6, <1>7 DEF QuotaInv

(***************************************************************************)
(* The file: what the loop over the buckets has taken after n of them.     *)
(***************************************************************************)
Records == [question : Questions, bucket : Bs]
Mine(f, b) == {r \in f : r.bucket = b}

TakenSoFar(f, n) ==
  /\ f \subseteq Records
  /\ \A r \in f : /\ r.question \in bucket[r.bucket].asked
                  /\ \E k \in 1 .. n : gen.plan[k].bucket = r.bucket
  /\ \A r, s \in f : r.question = s.question => r = s
  /\ \A k \in 1 .. n :
       LET b == gen.plan[k].bucket
       IN /\ IsFiniteSet(Mine(f, b)) /\ Cardinality(Mine(f, b)) <= targets[b]
          /\ \/ Cardinality(Mine(f, b)) = targets[b]
             \/ \A q \in bucket[b].asked : \E r \in f : r.question = q

(* The recursive definition of Finals means what it says.                  *)
LEMMA FinalsSteps ==
  ASSUME PlanIsKept, BucketsAreFilled
  PROVE  \E upto : /\ Finals = upto[Len(gen.plan)] /\ upto[0] = {{}}
                   /\ \A n \in 1 .. Len(gen.plan) :
                        upto[n] = AddTaken(upto[n - 1], gen.plan[n].bucket)
<1> DEFINE N == Len(gen.plan)
           T == SUBSET SUBSET Records
           step == [p \in T \X (1 .. N) |-> AddTaken(p[1], gen.plan[p[2]].bucket)]
           chosen == CHOOSE f : f = [n \in 0 .. Len(gen.plan) |->
                       IF n = 0 THEN {{}} ELSE AddTaken(f[n - 1], gen.plan[n].bucket)]
<1>1. N \in Nat /\ \A n \in 1 .. N : gen.plan[n].bucket \in Bs
  <2>1. gen.plan \in Seq([bucket : BucketsOf(gen.job), target : Nat, wave : Nat \ {0}])
    BY DEF PlanIsKept, IsPlan
  <2>2. N \in Nat /\ DOMAIN gen.plan = 1 .. N
    BY <2>1
  <2> QED
    BY <2>2, PlanNumbers
<1>2. ASSUME NEW t \in T, NEW b \in Bs PROVE AddTaken(t, b) \in T
  <2>1. ASSUME NEW f \in t, NEW s \in Taken({r.question : r \in f}, b)
        PROVE  f \cup {[question |-> q, bucket |-> b] : q \in s} \subseteq Records
    <3>1. s \subseteq Questions
      BY <2>1 DEF Taken, BucketsAreFilled
    <3>2. f \subseteq Records
      BY <1>2
    <3> QED
      BY <3>1, <3>2 DEF Records
  <2>2. ASSUME NEW g \in AddTaken(t, b) PROVE g \subseteq Records
    <3>1. PICK f \in t : g \in {f \cup {[question |-> q, bucket |-> b] : q \in s} :
                                   s \in Taken({r.question : r \in f}, b)}
      BY <2>2 DEF AddTaken
    <3>2. PICK s \in Taken({r.question : r \in f}, b) :
            g = f \cup {[question |-> q, bucket |-> b] : q \in s}
      BY <3>1
    <3> QED
      BY <2>1, <3>2
  <2> QED
    BY <2>2
<1>3. {{}} \in T
  OBVIOUS
<1> HIDE DEF T
<1>4. step \in [T \X (1 .. N) -> T]
  BY <1>1, <1>2
<1>5. PICK f \in [0 .. N -> T] : f[0] = {{}} /\ \A n \in 1 .. N : f[n] = step[<<f[n - 1], n>>]
  <2> DEFINE base == {{}}
  <2>1. N \in Nat /\ base \in T
    BY <1>1, <1>3
  <2> HIDE DEF step, N, chosen, base
  <2>2. \E f \in [0 .. N -> T] : Follows(f, N, base, step)
    BY <1>4, <2>1, Defined
  <2> QED
    BY <2>2 DEF base, Follows
<1>6. \A n \in 1 .. N : f[n - 1] \in T
  BY <1>1
<1>7. \A n \in 1 .. N : f[n] = AddTaken(f[n - 1], gen.plan[n].bucket)
  BY <1>5, <1>6
<1>8. f = [n \in 0 .. N |-> IF n = 0 THEN {{}} ELSE AddTaken(f[n - 1], gen.plan[n].bucket)]
  <2>1. \A n \in 0 .. N : f[n] = IF n = 0 THEN {{}} ELSE AddTaken(f[n - 1], gen.plan[n].bucket)
    <3> HIDE DEF step
    <3>1. \A n \in 0 .. N : n = 0 \/ n \in 1 .. N
      BY <1>1
    <3> HIDE DEF N
    <3> QED
      BY <1>5, <1>7, <3>1
  <2> HIDE DEF N
  <2> QED
    BY <2>1
<1>9. chosen = [n \in 0 .. N |-> IF n = 0 THEN {{}} ELSE AddTaken(chosen[n - 1], gen.plan[n].bucket)]
  BY <1>8, Zenon
<1>10. Finals = chosen[N]
  BY Zenon DEF Finals
<1> HIDE DEF chosen, N, step
<1>11. chosen[0] = {{}} /\ \A n \in 1 .. N : chosen[n] = AddTaken(chosen[n - 1], gen.plan[n].bucket)
  <2> DEFINE h == [n \in 0 .. N |-> IF n = 0 THEN {{}} ELSE AddTaken(chosen[n - 1], gen.plan[n].bucket)]
  <2>1. h[0] = {{}} /\ \A n \in 1 .. N : h[n] = AddTaken(chosen[n - 1], gen.plan[n].bucket)
    BY <1>1
  <2>2. chosen = h
    BY <1>9
  <2> HIDE DEF h
  <2> QED
    BY <2>1, <2>2
<1> QED
  BY <1>10, <1>11 DEF N

(* A bucket adds new questions, as many as it can or may.                  *)
LEMMA BucketAdds ==
  ASSUME PlanIsKept, BucketsAreFilled, NEW n \in 1 .. Len(gen.plan), NEW f, TakenSoFar(f, n - 1),
         NEW t \in Taken({r.question : r \in f}, gen.plan[n].bucket)
  PROVE  TakenSoFar(f \cup {[question |-> q, bucket |-> gen.plan[n].bucket] : q \in t}, n)
<1> DEFINE b == gen.plan[n].bucket
           seen == {r.question : r \in f}
           new == bucket[b].asked \ seen
           records == {[question |-> q, bucket |-> b] : q \in t}
           g == f \cup records
<1>1. /\ Len(gen.plan) \in Nat /\ DOMAIN gen.plan = 1 .. Len(gen.plan)
      /\ \A j, k \in 1 .. Len(gen.plan) : gen.plan[j].bucket = gen.plan[k].bucket => j = k
  <2>1. gen.plan \in Seq([bucket : BucketsOf(gen.job), target : Nat, wave : Nat \ {0}])
    BY DEF PlanIsKept, IsPlan
  <2>2. Len(gen.plan) \in Nat /\ DOMAIN gen.plan = 1 .. Len(gen.plan)
    BY <2>1
  <2> QED
    BY <2>2 DEF PlanIsKept, IsPlan
<1>2. b \in Bs /\ targets[b] \in Nat
  BY <1>1, PlanNumbers
<1>3. IsFiniteSet(new) /\ Cardinality(new) \in Nat /\ new \subseteq Questions
  <2>1. IsFiniteSet(bucket[b].asked) /\ bucket[b].asked \subseteq Questions
    BY <1>2 DEF BucketsAreFilled
  <2>2. IsFiniteSet(new)
    BY <2>1, FS_Subset
  <2> QED
    BY <2>1, <2>2, FS_CardinalityType
<1>4. /\ t \subseteq new
      /\ Cardinality(t) = IF targets[b] < Cardinality(new) THEN targets[b] ELSE Cardinality(new)
  BY DEF Taken
<1> HIDE DEF b, new, seen
<1>5. IsFiniteSet(t) /\ Cardinality(t) <= targets[b] /\ (Cardinality(t) = targets[b] \/ t = new)
  BY <1>2, <1>3, <1>4, FS_Subset
<1>6. IsFiniteSet(records) /\ Cardinality(records) = Cardinality(t)
  <2> DEFINE h == [q \in t |-> [question |-> q, bucket |-> b]]
  <2>1. \A q \in t : h[q] = [question |-> q, bucket |-> b] /\ h[q].question = q
    OBVIOUS
  <2>2. h \in Bijection(t, records)
    <3>1. h \in [t -> records] /\ \A r \in records : \E q \in t : h[q] = r
      OBVIOUS
    <3>2. \A p, q \in t : h[p] = h[q] => p = q
      BY <2>1
    <3> HIDE DEF h, records
    <3> QED
      BY <3>1, <3>2 DEF Bijection, Injection, Surjection, IsInjective
  <2>3. ExistsBijection(t, records)
    BY <2>2 DEF ExistsBijection
  <2> HIDE DEF records
  <2> QED
    BY <1>5, <2>3, FS_Bijection
<1>7. \A r \in f : \E k \in 1 .. n - 1 : gen.plan[k].bucket = r.bucket
  BY DEF TakenSoFar
<1>8. \A k \in 1 .. n - 1 : gen.plan[k].bucket # b /\ k \in 1 .. n
  BY <1>1 DEF b
<1>9. \A r \in f : r.bucket # b
  BY <1>7, <1>8
<1>10. \A r \in records : r.bucket = b /\ r.question \in t
  OBVIOUS
<1>11. Mine(g, b) = records /\ \A c : c # b => Mine(g, c) = Mine(f, c)
  <2> HIDE DEF records
  <2> QED
    BY <1>9, <1>10 DEF Mine
<1>12. f \subseteq Records /\ g \subseteq Records
  <2>1. f \subseteq Records
    BY DEF TakenSoFar
  <2> QED
    BY <1>2, <1>3, <1>4, <2>1 DEF Records
<1>13. ASSUME NEW r \in g
       PROVE  r.question \in bucket[r.bucket].asked /\ \E k \in 1 .. n : gen.plan[k].bucket = r.bucket
  <2>1. CASE r \in f
    BY <1>7, <1>8, <2>1 DEF TakenSoFar
  <2>2. CASE r \in records
    <3>1. r.bucket = b /\ r.question \in t
      BY <1>10, <2>2
    <3>2. n \in 1 .. n
      BY <1>1
    <3> QED
      BY <1>4, <3>1, <3>2 DEF new, b
  <2> QED
    BY <2>1, <2>2
<1>14. ASSUME NEW r \in g, NEW s \in g, r.question = s.question PROVE r = s
  <2>1. \A x \in f : x.question \in seen
    BY DEF seen
  <2>2. \A x \in records : x.question \notin seen
    <3> HIDE DEF records
    <3> QED
      BY <1>4, <1>10 DEF new
  <2>3. CASE r \in f /\ s \in f
    BY <1>14, <2>3 DEF TakenSoFar
  <2>4. CASE r \in records /\ s \in records
    BY <1>14, <2>4
  <2> HIDE DEF records
  <2> QED
    BY <1>14, <2>1, <2>2, <2>3, <2>4
<1>15. ASSUME NEW k \in 1 .. n
       PROVE  LET c == gen.plan[k].bucket
              IN /\ IsFiniteSet(Mine(g, c)) /\ Cardinality(Mine(g, c)) <= targets[c]
                 /\ \/ Cardinality(Mine(g, c)) = targets[c]
                    \/ \A q \in bucket[c].asked : \E r \in g : r.question = q
  <2>1. CASE k = n
    <3>1. gen.plan[k].bucket = b
      BY <2>1 DEF b
    <3>2. IsFiniteSet(Mine(g, b)) /\ Cardinality(Mine(g, b)) <= targets[b]
          /\ (Cardinality(Mine(g, b)) = targets[b] \/ t = new)
      BY <1>5, <1>6, <1>11
    <3>3. ASSUME t = new, NEW q \in bucket[b].asked PROVE \E r \in g : r.question = q
      <4>1. CASE q \in seen
        BY <4>1 DEF seen
      <4>2. CASE q \notin seen
        <5>1. q \in t
          BY <3>3, <4>2 DEF new
        <5>2. [question |-> q, bucket |-> b] \in g /\ [question |-> q, bucket |-> b].question = q
          BY <5>1
        <5> HIDE DEF g
        <5> QED
          BY <5>2
      <4> QED
        BY <4>1, <4>2
    <3> HIDE DEF g
    <3> QED
      BY <3>1, <3>2, <3>3
  <2>2. CASE k # n
    <3>1. k \in 1 .. n - 1
      BY <1>1, <2>2
    <3> DEFINE c == gen.plan[k].bucket
    <3>2. /\ IsFiniteSet(Mine(f, c)) /\ Cardinality(Mine(f, c)) <= targets[c]
          /\ \/ Cardinality(Mine(f, c)) = targets[c]
             \/ \A q \in bucket[c].asked : \E r \in f : r.question = q
      BY <3>1 DEF TakenSoFar
    <3>3. Mine(g, c) = Mine(f, c) /\ f \subseteq g
      BY <1>8, <1>11, <3>1
    <3> HIDE DEF g, c
    <3>4. /\ IsFiniteSet(Mine(g, c)) /\ Cardinality(Mine(g, c)) <= targets[c]
          /\ \/ Cardinality(Mine(g, c)) = targets[c]
             \/ \A q \in bucket[c].asked : \E r \in g : r.question = q
      BY <3>2, <3>3
    <3> QED
      BY <3>4 DEF c
  <2> QED
    BY <2>1, <2>2
<1>16. TakenSoFar(g, n)
  <2> HIDE DEF g
  <2> QED
    BY <1>12, <1>13, <1>14, <1>15 DEF TakenSoFar
<1> QED
  BY <1>16 DEF b

LEMMA FilesAreTaken ==
  ASSUME PlanIsKept, BucketsAreFilled, NEW f \in Finals
  PROVE  TakenSoFar(f, Len(gen.plan))
<1> DEFINE N == Len(gen.plan)
<1>1. PICK upto : /\ Finals = upto[N] /\ upto[0] = {{}}
                  /\ \A n \in 1 .. N : upto[n] = AddTaken(upto[n - 1], gen.plan[n].bucket)
  BY FinalsSteps
<1>2. N \in Nat
  <2>1. gen.plan \in Seq([bucket : BucketsOf(gen.job), target : Nat, wave : Nat \ {0}])
    BY DEF PlanIsKept, IsPlan
  <2> QED
    BY <2>1
<1> DEFINE G == {n \in 0 .. N : \A g \in upto[n] : TakenSoFar(g, n)}
<1>3. 0 \in G
  <2>1. TakenSoFar({}, 0)
    BY DEF TakenSoFar
  <2>2. \A g \in upto[0] : TakenSoFar(g, 0)
    BY <1>1, <2>1
  <2>3. 0 \in 0 .. N
    BY <1>2
  <2> QED
    BY <2>2, <2>3
<1>4. ASSUME NEW n \in 1 .. N, n - 1 \in G PROVE n \in G
  <2>1. \A g \in upto[n - 1] : TakenSoFar(g, n - 1)
    BY <1>4
  <2>2. ASSUME NEW h \in upto[n] PROVE TakenSoFar(h, n)
    <3>1. h \in AddTaken(upto[n - 1], gen.plan[n].bucket)
      BY <1>1, <2>2
    <3>2. PICK g \in upto[n - 1] : \E t \in Taken({r.question : r \in g}, gen.plan[n].bucket) :
            h = g \cup {[question |-> q, bucket |-> gen.plan[n].bucket] : q \in t}
      BY <3>1 DEF AddTaken
    <3>3. TakenSoFar(g, n - 1)
      BY <2>1
    <3>4. PICK t \in Taken({r.question : r \in g}, gen.plan[n].bucket) :
            h = g \cup {[question |-> q, bucket |-> gen.plan[n].bucket] : q \in t}
      BY <3>2
    <3> QED
      BY <3>3, <3>4, BucketAdds
  <2> QED
    BY <1>2, <2>2
<1>5. N \in G
  <2> HIDE DEF G, N
  <2>1. 0 .. N \subseteq G
    BY <1>2, <1>3, <1>4, UpTo
  <2> QED
    BY <1>2, <2>1
<1> QED
  BY <1>1, <1>5

(* A pair that passes is in the script of its bucket, but for the pairs    *)
(* with a source of the terse answers.                                     *)
LEMMA ValidIsInScript ==
  ASSUME NEW name \in QuotaJobNames, NEW b \in BucketsOf(name), NEW p \in Pairs, Valid(name, p, b),
         b[1] # "grounded_terse"
  PROVE  p.script = Script(b[2])
<1>1. CASE name = "terse"
  <2>1. b[1] = "open"
    BY <1>1 DEF BucketsOf, Categories
  <2> QED
    BY <1>1, <2>1 DEF Valid, ValidOpen, InScript
<1>2. CASE name = "refusals"
  BY <1>2 DEF Valid, ValidRefusal, InScript
<1>3. CASE name = "anti_template"
  BY <1>3 DEF Valid, ValidAnti, InScript
<1>4. CASE name = "brief_qa"
  BY <1>4 DEF Valid, ValidBrief, InScript
<1>5. CASE name = "mc"
  BY <1>5 DEF Valid, ValidMc, InScript
<1> QED
  BY <1>1, <1>2, <1>3, <1>4, <1>5 DEF QuotaJobNames

LEMMA WriteStep == QuotaInv /\ WriteAll => QuotaInv'
<1> SUFFICES ASSUME QuotaInv, WriteAll PROVE QuotaInv'
  OBVIOUS
<1>1. /\ stage = "calls" /\ \A b \in Bs : calls[b] = 0
      /\ stage' = "done" /\ final' \in Finals
      /\ UNCHANGED <<gen, targets, calls, bucket, threw, failures>>
  BY DEF WriteAll
<1>2. PlanIsKept /\ BucketsAreFilled /\ CallsFollow /\ FileIsSound
  BY DEF QuotaInv
<1>3. Bs' = Bs
  BY <1>1 DEF Bs
<1>4. PlanIsKept'
  BY <1>1, <1>2 DEF PlanIsKept
<1>5. BucketsAreFilled'
  BY <1>1, <1>2, <1>3 DEF BucketsAreFilled
<1>6. CallsFollow'
  <2>1. \A c \in Bs : ShortOf(bucket[c].size, c)' <=> ShortOf(bucket[c].size, c)
    BY <1>1 DEF ShortOf
  <2> QED
    BY <1>1, <1>2, <1>3, <2>1 DEF CallsFollow
<1> DEFINE N == Len(gen.plan)
<1>7. TakenSoFar(final', N)
  BY <1>1, <1>2, FilesAreTaken
<1>8. \A b \in Bs : \E k \in 1 .. N : gen.plan[k].bucket = b
  <2>1. gen.plan \in Seq([bucket : BucketsOf(gen.job), target : Nat, wave : Nat \ {0}])
    BY <1>2 DEF PlanIsKept, IsPlan
  <2>2. DOMAIN gen.plan = 1 .. N
    BY <2>1
  <2> QED
    BY <1>2, <2>2, PlanNumbers
<1>9. \A b \in Bs : /\ IsFiniteSet(Mine(final', b)) /\ Cardinality(Mine(final', b)) <= targets[b]
                    /\ \/ Cardinality(Mine(final', b)) = targets[b]
                       \/ \A q \in bucket[b].asked : \E r \in final' : r.question = q
  <2> DEFINE Fits(b) == /\ IsFiniteSet(Mine(final', b)) /\ Cardinality(Mine(final', b)) <= targets[b]
                        /\ \/ Cardinality(Mine(final', b)) = targets[b]
                           \/ \A q \in bucket[b].asked : \E r \in final' : r.question = q
  <2>1. \A k \in 1 .. N : Fits(gen.plan[k].bucket)
    BY <1>7 DEF TakenSoFar
  <2> HIDE DEF Fits
  <2>2. \A b \in Bs : Fits(b)
    BY <1>8, <2>1
  <2> QED
    BY <2>2 DEF Fits
<1>10. NoQuestionTwice'
  BY <1>7 DEF NoQuestionTwice, TakenSoFar
<1>11. NoBucketOverfull'
  BY <1>1, <1>3, <1>9 DEF NoBucketOverfull, Mine
<1>12. ASSUME NEW b \in Bs, Cardinality(Mine(final', b)) < targets[b], b \notin threw,
              bucket[b].asked \cap {r.question : r \in final' \ Mine(final', b)} = {}
       PROVE  Cardinality(bucket[b].asked) < bucket[b].size
  <2> DEFINE mine == Mine(final', b)
             asked == bucket[b].asked
             theirs == {r.question : r \in mine}
  <2>1. targets[b] \in Nat /\ bucket[b].size \in Nat /\ ~ bucket[b].size < targets[b]
    BY <1>1, <1>2, <1>12, PlanNumbers DEF CallsFollow, ShortOf, BucketsAreFilled
  <2>2. IsFiniteSet(mine) /\ Cardinality(mine) \in Nat
    BY <1>9, FS_CardinalityType
  <2>3. \A q \in asked : \E r \in final' : r.question = q
    BY <1>9, <1>12, <2>1, <2>2
  <2>4. asked \subseteq theirs
    BY <1>12, <2>3
  <2>5. IsFiniteSet(theirs) /\ Cardinality(theirs) <= Cardinality(mine)
    <3> DEFINE h == [r \in mine |-> r.question]
    <3>1. h \in Surjection(mine, theirs)
      BY DEF Surjection
    <3> HIDE DEF h, mine, theirs
    <3> QED
      BY <2>2, <3>1, FS_Surjection
  <2>6. Cardinality(asked) <= Cardinality(theirs) /\ Cardinality(asked) \in Nat
        /\ Cardinality(theirs) \in Nat
    <3> HIDE DEF theirs, asked
    <3> QED
      BY <2>4, <2>5, FS_Subset, FS_CardinalityType
  <2> HIDE DEF mine, asked, theirs
  <2>7. Cardinality(asked) < bucket[b].size
    <3>1. Cardinality(mine) < targets[b]
      BY <1>12 DEF mine
    <3> QED
      BY <2>1, <2>2, <2>5, <2>6, <3>1
  <2> QED
    BY <2>7 DEF asked
<1>13. ShortForAReason'
  BY <1>1, <1>3, <1>12 DEF ShortForAReason, Mine
<1>14. FiledByScript'
  <2>1. ASSUME NEW r \in final', r.bucket[1] # "grounded_terse"
        PROVE  \E p \in Pairs : p.question = r.question /\ p.script = Script(r.bucket[2])
    <3>1. r.bucket \in Bs /\ r.question \in bucket[r.bucket].asked
      BY <1>7 DEF TakenSoFar, Records
    <3>2. PICK p \in Pairs : p.question = r.question /\ Valid(gen.job, p, r.bucket)
      BY <1>2, <3>1 DEF BucketsAreFilled
    <3>3. r.bucket \in BucketsOf(gen.job) /\ gen.job \in QuotaJobNames
      BY <1>2, <3>1, PlanNumbers DEF PlanIsKept
    <3>4. p.script = Script(r.bucket[2])
      BY <2>1, <3>2, <3>3, ValidIsInScript
    <3> QED
      BY <3>2, <3>4
  <2> QED
    BY <2>1 DEF FiledByScript
<1>15. FileIsSound'
  BY <1>1, <1>10, <1>11, <1>13, <1>14 DEF FileIsSound
<1> QED
  BY <1>4, <1>5, <1>6, <1>15 DEF QuotaInv

LEMMA QuotaStep == QuotaInv /\ [QuotaNext]_quotaVars => QuotaInv'
<1> SUFFICES ASSUME QuotaInv, [QuotaNext]_quotaVars PROVE QuotaInv'
  OBVIOUS
<1>1. ASSUME NEW b \in Bs, CallReturns(b) PROVE QuotaInv'
  BY <1>1, ReturnStep
<1>2. ASSUME NEW b \in Bs, CallRaises(b) PROVE QuotaInv'
  BY <1>2, RaiseStep
<1>3. CASE WriteAll
  BY <1>3, WriteStep
<1>4. CASE UNCHANGED quotaVars
  <2>1. UNCHANGED <<gen, targets, calls, bucket, threw, failures, stage, final>>
    BY <1>4 DEF quotaVars
  <2>2. Bs' = Bs /\ \A c \in Bs : ShortOf(bucket[c].size, c)' <=> ShortOf(bucket[c].size, c)
    BY <2>1 DEF Bs, ShortOf
  <2>3. PlanIsKept'
    BY <2>1 DEF PlanIsKept, QuotaInv
  <2>4. BucketsAreFilled'
    BY <2>1, <2>2 DEF BucketsAreFilled, QuotaInv
  <2>5. CallsFollow'
    BY <2>1, <2>2 DEF CallsFollow, QuotaInv
  <2>6. FileIsSound'
    BY <2>1, <2>2 DEF FileIsSound, QuotaInv, NoQuestionTwice, NoBucketOverfull, ShortForAReason,
       FiledByScript
  <2> QED
    BY <2>3, <2>4, <2>5, <2>6 DEF QuotaInv
<1> QED
  BY <1>1, <1>2, <1>3, <1>4 DEF QuotaNext

LEMMA QuotaInvIsSound == QuotaInv => BucketsAreSound
<1> SUFFICES ASSUME QuotaInv PROVE BucketsAreSound
  OBVIOUS
<1>1. PlanIsKept /\ BucketsAreFilled /\ CallsFollow /\ FileIsSound
  BY DEF QuotaInv
<1>2. \A b \in Bs : targets[b] = PlanOf(gen.plan, b).target
                    /\ PlanOf(gen.plan, b).wave \in Nat \ {0} /\ calls[b] \in Nat
  BY <1>1, PlanNumbers DEF CallsFollow
<1>3. QuotaTypeOK
  BY <1>1, <1>2 DEF QuotaTypeOK, PlanIsKept, BucketsAreFilled, CallsFollow, Questions
<1>4. MixAddsUp
  <2>1. ASSUME gen.job = "brief_qa"
        PROVE  OverLanguages([l \in Languages |-> LET b == <<"brief_qa", l>>
                                           IN IF b \in Bs THEN targets[b] ELSE 0]) = gen.n
    <3> DEFINE f == [l \in Languages |-> LET b == <<"brief_qa", l>>
                                           IN IF b \in Bs THEN targets[b] ELSE 0]
               g == [l \in Languages |->
                      IF <<"brief_qa", l>> \in {p.bucket : p \in ToSet(gen.plan)}
                      THEN PlanOf(gen.plan, <<"brief_qa", l>>).target ELSE 0]
    <3>1. Bs = {p.bucket : p \in ToSet(gen.plan)}
      BY <1>1 DEF PlanIsKept, Bs
    <3>2. f = g
      BY <1>2, <3>1
    <3>3. OverLanguages(g) = gen.n
      BY <1>1, <2>1 DEF PlanIsKept, PlanAddsUp
    <3> HIDE DEF f, g
    <3>4. OverLanguages(f) = gen.n
      BY <3>2, <3>3
    <3> QED
      BY <3>4 DEF f
  <2> QED
    BY <2>1 DEF MixAddsUp
<1> QED
  BY <1>1, <1>3, <1>4 DEF BucketsAreSound, FileIsSound

(* What a generator writes: no question twice, no bucket above its target, *)
(* a bucket short only because a call raised or a question was used        *)
(* already, the targets of brief_qa adding up to --n, and every record     *)
(* under a language of its script, for any --n, languages, replies and     *)
(* order in which the calls return (main() of the five generators).        *)
THEOREM BucketsSound == QuotaSpec => []BucketsAreSound
<1>1. QuotaInit => QuotaInv
  BY QuotaStarts
<1>2. QuotaInv /\ [QuotaNext]_quotaVars => QuotaInv'
  BY QuotaStep
<1>3. QuotaInv => BucketsAreSound
  BY QuotaInvIsSound
<1> QED
  BY <1>1, <1>2, <1>3, PTL DEF QuotaSpec
=============================================================================
