------------------------- MODULE GenerationProofs -------------------------
(***************************************************************************)
(* Proofs about Generation, for any requests, drafts of any length, any    *)
(* resemblance of sentences and a model that may fail; and, from the       *)
(* section on conversations on, about Conversation with the answer rules   *)
(* and the navigator, for any messages, search results and completions.    *)
(***************************************************************************)
EXTENDS Generation, Conversation, PickingProofs, FiniteSetTheorems

(***************************************************************************)
(* Texts.  What the recursive operators compute is proved by a smallest    *)
(* counterexample.                                                         *)
(***************************************************************************)
(* What is known after a number of sentences: those kept, and how many in  *)
(* a row were dropped.                                                     *)
Readings == [kept : SUBSET Nat, dups : 0 .. 2]
(* The three cases of ReadOn.                                              *)
LEMMA ReadType ==
  ASSUME NEW text, NEW before \in Readings, NEW n \in Nat
  PROVE  ReadOn(before, text, n) \in Readings /\ before.dups \in {0, 1, 2}
<1>1. before.dups \in {0, 1, 2} /\ before.kept \in SUBSET Nat
      /\ [before EXCEPT !.dups = @ + 1] = [kept |-> before.kept, dups |-> before.dups + 1]
  BY DEF Readings
<1>2. CASE before.dups = 2
  BY <1>1, <1>2 DEF ReadOn
<1>3. CASE before.dups < 2 /\ SaidAlready(before, text, n)
  <2>1. ReadOn(before, text, n) = [before EXCEPT !.dups = @ + 1]
    BY <1>1, <1>3 DEF ReadOn
  <2> QED
    BY <1>1, <1>3, <2>1 DEF Readings
<1>4. CASE before.dups < 2 /\ ~SaidAlready(before, text, n)
  <2>1. ReadOn(before, text, n) = [kept |-> before.kept \cup {n}, dups |-> 0]
    BY <1>1, <1>4 DEF ReadOn
  <2> QED
    BY <1>1, <1>4, <2>1 DEF Readings
<1> QED
  BY <1>1, <1>2, <1>3, <1>4

LEMMA ReadLoop ==
  ASSUME NEW text, NEW before \in Readings, NEW n \in Nat, before.dups = 2
  PROVE  ReadOn(before, text, n) = before
BY DEF ReadOn

LEMMA ReadSaid ==
  ASSUME NEW text, NEW before \in Readings, NEW n \in Nat, before.dups < 2, SaidAlready(before, text, n)
  PROVE  ReadOn(before, text, n) = [kept |-> before.kept, dups |-> before.dups + 1]
<1>1. ReadOn(before, text, n) = [before EXCEPT !.dups = @ + 1]
  BY ReadType DEF ReadOn
<1> QED
  BY <1>1 DEF Readings

LEMMA ReadNew ==
  ASSUME NEW text, NEW before \in Readings, NEW n \in Nat, before.dups < 2, ~SaidAlready(before, text, n)
  PROVE  ReadOn(before, text, n) = [kept |-> before.kept \cup {n}, dups |-> 0]
<1>1. ~(before.dups >= 2) /\ ~(before.dups < 2 /\ SaidAlready(before, text, n))
  BY ReadType
<1> QED
  BY <1>1 DEF ReadOn

(* And the recursive definition of ReadThrough.                            *)
NothingRead == [kept |-> {}, dups |-> 0]
Reads(read, text) ==
  /\ ReadThrough(text) = read
  /\ read[0] = NothingRead
  /\ \A n \in 1 .. Len(text) : read[n] = ReadOn(read[n - 1], text, n)

LEMMA ReadingSteps ==
  ASSUME NEW S, NEW text \in Seq(S)
  PROVE  \E read \in [0 .. Len(text) -> Readings] : Reads(read, text)
<1> DEFINE N == Len(text)
           step == [p \in Readings \X (1 .. N) |-> ReadOn(p[1], text, p[2])]
           chosen == CHOOSE f : f = [n \in 0 .. Len(text) |->
                        IF n = 0 THEN [kept |-> {}, dups |-> 0] ELSE ReadOn(f[n - 1], text, n)]
<1>1. N \in Nat /\ NothingRead \in Readings
  BY DEF NothingRead, Readings
<1>2. \A d \in Readings, n \in 1 .. N : ReadOn(d, text, n) \in Readings
  <2>1. \A n \in 1 .. N : n \in Nat
    BY <1>1
  <2> HIDE DEF N
  <2> QED
    BY <2>1, ReadType
<1>3. step \in [Readings \X (1 .. N) -> Readings]
  BY <1>2
<1>4. PICK f \in [0 .. N -> Readings] : Follows(f, N, NothingRead, step)
  <2> HIDE DEF step, N, chosen
  <2> QED
    BY <1>1, <1>3, Defined
<1>5. \A n \in 1 .. N : f[n - 1] \in Readings
  BY <1>1
<1>6. \A n \in 1 .. N : f[n] = ReadOn(f[n - 1], text, n)
  BY <1>4, <1>5 DEF Follows
<1>7. f = [n \in 0 .. N |-> IF n = 0 THEN [kept |-> {}, dups |-> 0] ELSE ReadOn(f[n - 1], text, n)]
  <2>1. \A n \in 0 .. N : f[n] = IF n = 0 THEN [kept |-> {}, dups |-> 0] ELSE ReadOn(f[n - 1], text, n)
    <3>1. \A n \in 0 .. N : n = 0 \/ n \in 1 .. N
      BY <1>1
    <3> HIDE DEF N
    <3> QED
      BY <1>4, <1>6, <3>1 DEF NothingRead, Follows
  <2> HIDE DEF N
  <2> QED
    BY <2>1
<1>8. chosen = [n \in 0 .. N |->
                  IF n = 0 THEN [kept |-> {}, dups |-> 0] ELSE ReadOn(chosen[n - 1], text, n)]
  BY <1>7, Zenon
<1>9. ReadThrough(text) = chosen
  BY Zenon DEF ReadThrough
<1> HIDE DEF chosen, N, step
<1>10. /\ chosen = [n \in 0 .. N |-> chosen[n]] /\ chosen[0] = NothingRead
       /\ \A n \in 1 .. N : chosen[n] = ReadOn(chosen[n - 1], text, n)
  <2> DEFINE h == [n \in 0 .. N |-> IF n = 0 THEN [kept |-> {}, dups |-> 0] ELSE ReadOn(chosen[n - 1], text, n)]
  <2>1. /\ h = [n \in 0 .. N |-> h[n]] /\ h[0] = NothingRead
        /\ \A n \in 1 .. N : h[n] = ReadOn(chosen[n - 1], text, n)
    BY <1>1 DEF NothingRead
  <2>2. chosen = h
    BY <1>8
  <2> HIDE DEF h
  <2> QED
    BY <2>1, <2>2
<1> DEFINE G == {n \in 0 .. N : chosen[n] \in Readings}
<1>11. 0 .. N \subseteq G
  <2>1. 0 \in G
    BY <1>1, <1>10
  <2>2. ASSUME NEW n \in 1 .. N, n - 1 \in G PROVE n \in G
    <3>1. chosen[n - 1] \in Readings /\ n \in 0 .. N
      BY <1>1, <2>2
    <3> QED
      BY <1>2, <1>10, <3>1
  <2> HIDE DEF G
  <2> QED
    BY <1>1, <2>1, <2>2, UpTo
<1>12. chosen \in [0 .. N -> Readings]
  BY <1>10, <1>11
<1> QED
  BY <1>9, <1>10, <1>12 DEF N, Reads

(* Whether a refusal was there already is seen in the beginning.           *)
LEMMA ClipPrefix ==
  ASSUME NEW S, NEW a \in Seq(S), NEW b \in Seq(S), IsStart(a, b)
  PROVE  IsStart(ClipRefusalRepetition(a), ClipRefusalRepetition(b))
<1> DEFINE K == {i \in DOMAIN a : ~RefusedAlready(a, i)}
           L == {i \in DOMAIN b : ~RefusedAlready(b, i)}
<1>1. /\ DOMAIN a = 1 .. Len(a) /\ DOMAIN b = 1 .. Len(b) /\ Len(a) \in Nat /\ Len(b) \in Nat
      /\ Len(a) <= Len(b) /\ \A i \in 1 .. Len(a) : a[i] = b[i]
  BY DEF IsStart
<1>2. ASSUME NEW i \in 1 .. Len(a) PROVE i \in K <=> i \in L
  <2>1. \A j \in 1 .. i - 1 : a[j] = b[j]
    BY <1>1
  <2>2. a[i] = b[i] /\ i \in DOMAIN a /\ i \in DOMAIN b
    BY <1>1
  <2> QED
    BY <2>1, <2>2 DEF RefusedAlready
<1> HIDE DEF K, L
<1>3. IsStart(Picked(a, K), Picked(b, L))
  BY <1>2, PickedPrefix
<1> QED
  BY <1>3 DEF K, L, ClipRefusalRepetition

(* No two sentences are alike: so are those that a reading keeps.          *)
Apart(text) == \A i, j \in DOMAIN text : i # j => ~Similar(text[i], text[j])
LEMMA ReadingKeeps ==
  ASSUME NEW S, NEW text \in Seq(S), NEW n \in 0 .. Len(text)
  PROVE  /\ ReadThrough(text)[n] \in Readings
         /\ ReadThrough(text)[n].kept \subseteq 1 .. n
         /\ \A k, l \in ReadThrough(text)[n].kept : k # l => ~Similar(text[k], text[l])
<1> DEFINE N == Len(text)
<1>1. N \in Nat
  OBVIOUS
<1>2. PICK read \in [0 .. N -> Readings] : Reads(read, text)
  BY ReadingSteps
<1> HIDE DEF N
<1> DEFINE G == {m \in 0 .. N : /\ read[m].kept \subseteq 1 .. m
                                /\ \A k, l \in read[m].kept : k # l => ~Similar(text[k], text[l])}
<1>3. 0 \in G
  BY <1>1, <1>2 DEF Reads, NothingRead
<1>4. ASSUME NEW m \in 1 .. N, m - 1 \in G PROVE m \in G
  <2> DEFINE before == read[m - 1]
  <2>1. /\ before \in Readings /\ m \in Nat /\ m \in 0 .. N /\ read[m] = ReadOn(before, text, m)
        /\ before.dups \in 0 .. 2
    <3>1. m \in Nat /\ m \in 0 .. N /\ m - 1 \in 0 .. N
      BY <1>1
    <3>2. before \in Readings
      BY <3>1
    <3>3. read[m] = ReadOn(before, text, m)
      BY <1>2 DEF Reads, N
    <3> QED
      BY <3>1, <3>2, <3>3 DEF Readings
  <2>2. /\ before.kept \subseteq 1 .. m - 1
        /\ \A k, l \in before.kept : k # l => ~Similar(text[k], text[l])
    BY <1>4
  <2> HIDE DEF before
  <2>3. CASE before.dups = 2
    BY <1>1, <2>1, <2>2, <2>3, ReadLoop
  <2>4. CASE before.dups < 2 /\ SaidAlready(before, text, m)
    <3>1. read[m].kept = before.kept
      BY <2>1, <2>4, ReadSaid
    <3> QED
      BY <1>1, <2>1, <2>2, <3>1
  <2>5. CASE before.dups < 2 /\ ~SaidAlready(before, text, m)
    <3>1. read[m].kept = before.kept \cup {m}
      <4>1. before \in Readings /\ m \in Nat
        BY <2>1
      <4>2. ReadOn(before, text, m) = [kept |-> before.kept \cup {m}, dups |-> 0]
        BY <2>5, <4>1, ReadNew
      <4> QED
        BY <2>1, <4>2
    <3>2. \A k \in before.kept : ~Similar(text[m], text[k]) /\ ~Similar(text[k], text[m])
      BY <2>5 DEF SaidAlready, Similar
    <3>3. before.kept \cup {m} \subseteq 1 .. m
      BY <2>1, <2>2
    <3> QED
      BY <2>1, <2>2, <3>1, <3>2, <3>3
  <2> QED
    BY <2>1, <2>3, <2>4, <2>5
<1>5. 0 .. N \subseteq G
  <2> HIDE DEF G
  <2> QED
    BY <1>1, <1>3, <1>4, UpTo
<1>6. n \in G /\ ReadThrough(text) = read
  BY <1>2, <1>5 DEF Reads, N
<1> QED
  BY <1>2, <1>6

(* The beginning of a text is read as it is read alone.                    *)
LEMMA ReadingPrefix ==
  ASSUME NEW S, NEW a \in Seq(S), NEW b \in Seq(S), IsStart(a, b)
  PROVE  \A i \in 1 .. Len(a) :
           i \in ReadThrough(a)[Len(a)].kept <=> i \in ReadThrough(b)[Len(b)].kept
<1> DEFINE M == Len(a)
           N == Len(b)
<1>1. M \in Nat /\ N \in Nat /\ M <= N /\ \A i \in 1 .. M : a[i] = b[i]
  BY DEF IsStart
<1>2. PICK s \in [0 .. M -> Readings] : Reads(s, a)
  BY ReadingSteps
<1>3. PICK t \in [0 .. N -> Readings] : Reads(t, b)
  BY ReadingSteps
<1>4. /\ ReadThrough(a) = s /\ ReadThrough(b) = t /\ s[0] = t[0]
      /\ \A n \in 1 .. M : s[n] = ReadOn(s[n - 1], a, n)
      /\ \A n \in 1 .. N : t[n] = ReadOn(t[n - 1], b, n)
  BY <1>2, <1>3 DEF Reads
<1>5. \A n \in 0 .. M : s[n].kept \subseteq 1 .. n
  BY <1>4, ReadingKeeps
<1> HIDE DEF M, N
<1> DEFINE G == {n \in 0 .. M : s[n] = t[n]}
<1>6. M \in G
  <2>1. 0 \in G
    BY <1>1, <1>4
  <2>2. ASSUME NEW n \in 1 .. M, n - 1 \in G PROVE n \in G
    <3>1. n \in 1 .. N /\ n \in 0 .. M /\ n - 1 \in 0 .. M /\ s[n - 1] = t[n - 1]
      BY <1>1, <2>2
    <3>2. a[n] = b[n] /\ \A k \in s[n - 1].kept : a[k] = b[k]
      BY <1>1, <1>5, <3>1
    <3>3. ReadOn(s[n - 1], a, n) = ReadOn(s[n - 1], b, n)
      <4>1. ASSUME NEW before \in Readings, before = s[n - 1]
            PROVE  ReadOn(before, a, n) = ReadOn(before, b, n)
        <5>1. \A k \in before.kept : Similar(a[n], a[k]) <=> Similar(b[n], b[k])
          BY <3>2, <4>1
        <5>2. SaidAlready(before, a, n) <=> SaidAlready(before, b, n)
          BY <5>1 DEF SaidAlready
        <5>3. n \in Nat /\ before.dups \in {0, 1, 2}
          BY <1>1, <3>1, <4>1 DEF Readings
        <5>4. CASE before.dups = 2
          BY <5>3, <5>4, ReadLoop
        <5>5. CASE before.dups < 2 /\ SaidAlready(before, a, n)
          BY <5>2, <5>3, <5>5, ReadSaid
        <5>6. CASE before.dups < 2 /\ ~SaidAlready(before, a, n)
          <6>1. ReadOn(before, a, n) = [kept |-> before.kept \cup {n}, dups |-> 0]
            BY <5>3, <5>6, ReadNew
          <6>2. ~SaidAlready(before, b, n)
            BY <5>2, <5>6
          <6>3. ReadOn(before, b, n) = [kept |-> before.kept \cup {n}, dups |-> 0]
            BY <5>3, <5>6, <6>2, ReadNew
          <6> QED
            BY <6>1, <6>3
        <5> QED
          BY <5>3, <5>4, <5>5, <5>6
      <4> QED
        BY <3>1, <4>1
    <3> QED
      BY <1>4, <3>1, <3>3
  <2> HIDE DEF G
  <2>3. 0 .. M \subseteq G
    BY <1>1, <2>1, <2>2, UpTo
  <2> QED
    BY <1>1, <2>3
<1> DEFINE H == {n \in 0 .. N : n >= M => \A i \in 1 .. M : i \in t[M].kept <=> i \in t[n].kept}
<1>7. N \in H
  <2>1. 0 \in H
    BY <1>1
  <2>2. ASSUME NEW n \in 1 .. N, n - 1 \in H PROVE n \in H
    <3>1. n \in 0 .. N /\ n \in Nat /\ t[n - 1] \in Readings /\ t[n - 1].dups \in {0, 1, 2}
      <4>1. n \in 0 .. N /\ n \in Nat /\ n - 1 \in 0 .. N
        BY <1>1
      <4>2. t[n - 1] \in Readings
        BY <4>1
      <4> QED
        BY <4>1, <4>2 DEF Readings
    <3>2. t[n].kept = t[n - 1].kept \/ t[n].kept = t[n - 1].kept \cup {n}
      <4> DEFINE before == t[n - 1]
      <4>1. t[n] = ReadOn(before, b, n)
        BY <1>4
      <4>2. before \in Readings /\ before.dups \in {0, 1, 2} /\ n \in Nat
        BY <3>1
      <4> HIDE DEF before
      <4>3. t[n].kept = before.kept \/ t[n].kept = before.kept \cup {n}
        <5>1. CASE before.dups = 2
          BY <4>1, <4>2, <5>1, ReadLoop
        <5>2. CASE before.dups < 2 /\ SaidAlready(before, b, n)
          BY <4>1, <4>2, <5>2, ReadSaid
        <5>3. CASE before.dups < 2 /\ ~SaidAlready(before, b, n)
          <6>1. ReadOn(before, b, n) = [kept |-> before.kept \cup {n}, dups |-> 0]
            BY <4>2, <5>3, ReadNew
          <6> QED
            BY <4>1, <6>1
        <5> QED
          BY <4>2, <5>1, <5>2, <5>3
      <4> QED
        BY <4>3 DEF before
    <3>3. CASE n > M
      <4>1. \A i \in 1 .. M : i \in t[M].kept <=> i \in t[n - 1].kept
        BY <1>1, <2>2, <3>3
      <4>2. \A i \in 1 .. M : i # n
        BY <1>1, <3>3
      <4> QED
        BY <3>1, <3>2, <4>1, <4>2
    <3>4. CASE n = M
      BY <3>1, <3>4
    <3>5. CASE n < M
      BY <1>1, <3>1, <3>5
    <3> QED
      BY <1>1, <3>1, <3>3, <3>4, <3>5
  <2> HIDE DEF H
  <2>3. 0 .. N \subseteq H
    BY <1>1, <2>1, <2>2, UpTo
  <2> QED
    BY <1>1, <2>3
<1>8. \A i \in 1 .. M : i \in s[M].kept <=> i \in t[N].kept
  BY <1>1, <1>6, <1>7
<1> QED
  BY <1>4, <1>8 DEF M, N

LEMMA ClipType ==
  ASSUME NEW S, NEW text \in Seq(S) PROVE ClipRefusalRepetition(text) \in Seq(S)
BY PickedPlaces DEF ClipRefusalRepetition

(* So cleaning the beginning of a text gives the beginning of it, cleaned. *)
LEMMA CleanPrefix ==
  ASSUME NEW S, NEW a \in Seq(S), NEW b \in Seq(S), IsStart(a, b)
  PROVE  Clean(a) \in Seq(S) /\ IsStart(Clean(a), Clean(b))
<1> DEFINE x == ClipRefusalRepetition(a)
           y == ClipRefusalRepetition(b)
<1>1. x \in Seq(S) /\ y \in Seq(S)
  BY ClipType
<1>2. IsStart(x, y)
  BY ClipPrefix
<1> HIDE DEF x, y
<1>3. DedupSentences(x) \in Seq(S)
  BY <1>1, PickedPlaces DEF DedupSentences
<1>4. IsStart(DedupSentences(x), DedupSentences(y))
  <2> DEFINE K == ReadThrough(x)[Len(x)].kept
             L == ReadThrough(y)[Len(y)].kept
  <2>1. \A i \in 1 .. Len(x) : i \in K <=> i \in L
    BY <1>1, <1>2, ReadingPrefix
  <2> HIDE DEF K, L
  <2>2. IsStart(Picked(x, K), Picked(y, L))
    BY <1>1, <1>2, <2>1, PickedPrefix
  <2> QED
    BY <2>2 DEF K, L, DedupSentences
<1> QED
  BY <1>3, <1>4 DEF Clean, x, y

(* Sentences picked from places that are not alike are not.                *)
LEMMA PickedApart ==
  ASSUME NEW S, NEW text \in Seq(S), NEW K,
         \A k, l \in K \cap (1 .. Len(text)) : k # l => ~Similar(text[k], text[l])
  PROVE  Apart(Picked(text, K))
<1> DEFINE y == Picked(text, K)
           L == K \cap (1 .. Len(text))
<1>1. y \in Seq(S) /\ \E pos : PlacesOf(pos, y, text, L)
  BY PickedPlaces
<1>2. \A k, l \in L : k # l => ~Similar(text[k], text[l])
  OBVIOUS
<1> HIDE DEF y, L
<1>3. PICK pos : PlacesOf(pos, y, text, L)
  BY <1>1
<1>4. ASSUME NEW i \in DOMAIN y, NEW j \in DOMAIN y, i # j PROVE ~Similar(y[i], y[j])
  <2>1. i \in 1 .. Len(y) /\ j \in 1 .. Len(y)
    BY <1>1
  <2>2. pos[i] \in L /\ pos[j] \in L /\ pos[i] # pos[j] /\ y[i] = text[pos[i]] /\ y[j] = text[pos[j]]
    BY <1>3, <1>4, <2>1 DEF PlacesOf
  <2> QED
    BY <1>2, <2>2
<1> QED
  BY <1>4 DEF y, Apart

(* No two sentences of a cleaned text are alike.                           *)
LEMMA CleanApart ==
  ASSUME NEW S, NEW text \in Seq(S)
  PROVE  Clean(text) \in Seq(S) /\ Apart(Clean(text))
<1> DEFINE x == ClipRefusalRepetition(text)
           K == ReadThrough(x)[Len(x)].kept
<1>1. x \in Seq(S) /\ Len(x) \in 0 .. Len(x)
  <2>1. x \in Seq(S)
    BY ClipType
  <2> QED
    BY <2>1
<1> HIDE DEF x
<1>2. \A k, l \in K : k # l => ~Similar(x[k], x[l])
  BY <1>1, ReadingKeeps
<1> HIDE DEF K
<1>3. Apart(Picked(x, K)) /\ Picked(x, K) \in Seq(S)
  BY <1>1, <1>2, PickedApart, PickedPlaces
<1> QED
  BY <1>3 DEF Clean, DedupSentences, x, K

(* Where no two are alike a reading keeps all,                             *)
LEMMA ReadingApart ==
  ASSUME NEW S, NEW text \in Seq(S), Apart(text)
  PROVE  ReadThrough(text)[Len(text)].kept = 1 .. Len(text)
<1> DEFINE N == Len(text)
<1>1. N \in Nat /\ DOMAIN text = 1 .. N
  OBVIOUS
<1>2. PICK read \in [0 .. N -> Readings] : Reads(read, text)
  BY ReadingSteps
<1> HIDE DEF N
<1> DEFINE G == {n \in 0 .. N : read[n] = [kept |-> 1 .. n, dups |-> 0]}
<1>3. 0 \in G
  BY <1>1, <1>2 DEF Reads, NothingRead
<1>4. ASSUME NEW n \in 1 .. N, n - 1 \in G PROVE n \in G
  <2> DEFINE before == read[n - 1]
  <2>1. n \in Nat /\ n \in 0 .. N /\ n - 1 \in 0 .. N
    BY <1>1
  <2>2. before \in Readings /\ read[n] = ReadOn(before, text, n) /\ before.kept = 1 .. n - 1 /\ before.dups = 0
    BY <1>2, <1>4, <2>1 DEF Reads, N
  <2> HIDE DEF before
  <2>3. \A k \in 1 .. n - 1 : k # n /\ k \in 1 .. N
    BY <1>1
  <2>4. ~SaidAlready(before, text, n)
    BY <1>1, <2>2, <2>3 DEF Apart, SaidAlready
  <2>5. read[n] = [kept |-> before.kept \cup {n}, dups |-> 0]
    <3>1. before \in Readings /\ n \in Nat /\ before.dups < 2
      BY <2>1, <2>2
    <3>2. ReadOn(before, text, n) = [kept |-> before.kept \cup {n}, dups |-> 0]
      BY <2>4, <3>1, ReadNew
    <3> QED
      BY <2>2, <3>2
  <2>6. (1 .. n - 1) \cup {n} = 1 .. n
    BY <2>1
  <2> QED
    BY <2>1, <2>2, <2>5, <2>6
<1>5. N \in G
  <2> HIDE DEF G
  <2>1. 0 .. N \subseteq G
    BY <1>1, <1>3, <1>4, UpTo
  <2> QED
    BY <1>1, <2>1
<1>6. ReadThrough(text)[N].kept = 1 .. N
  BY <1>2, <1>5 DEF Reads
<1> QED
  BY <1>6 DEF N

(* and cleaning does nothing: cleaning twice is cleaning once.             *)
LEMMA CleanNothing ==
  ASSUME NEW S, NEW text \in Seq(S), Apart(text)
  PROVE  Clean(text) = text
<1> DEFINE K == {i \in DOMAIN text : ~RefusedAlready(text, i)}
<1>1. DOMAIN text = 1 .. Len(text) /\ Len(text) \in Nat
  OBVIOUS
<1>2. \A i \in 1 .. Len(text) : \A j \in 1 .. i - 1 : j \in 1 .. Len(text) /\ i # j
  BY <1>1
<1>3. \A i \in 1 .. Len(text) : \A j \in 1 .. i - 1 : text[j] # text[i]
  BY <1>1, <1>2 DEF Apart, Similar
<1>4. 1 .. Len(text) \subseteq K
  BY <1>1, <1>3 DEF RefusedAlready
<1> HIDE DEF K
<1>5. ClipRefusalRepetition(text) = text
  BY <1>4, PickedAll DEF ClipRefusalRepetition, K
<1>6. DedupSentences(text) = text
  <2> DEFINE L == ReadThrough(text)[Len(text)].kept
  <2>1. 1 .. Len(text) \subseteq L
    BY ReadingApart
  <2> HIDE DEF L
  <2>2. Picked(text, L) = text
    BY <2>1, PickedAll
  <2> QED
    BY <2>2 DEF L, DedupSentences
<1> QED
  BY <1>5, <1>6 DEF Clean

(* A sentence was kept, or one like it, or a loop of two came before.      *)
Told(text, read, i) == \E k \in read.kept : Similar(text[i], text[k])

LEMMA ReadingTells ==
  ASSUME NEW S, NEW text \in Seq(S)
  PROVE  \A i \in 1 .. Len(text) :
           Told(text, ReadThrough(text)[Len(text)], i) \/ LoopUpTo(text, i - 1)
<1> DEFINE N == Len(text)
<1>1. N \in Nat
  OBVIOUS
<1>2. PICK read \in [0 .. N -> Readings] : Reads(read, text)
  BY ReadingSteps
<1>3. ReadThrough(text) = read /\ \A n \in 1 .. N : read[n] = ReadOn(read[n - 1], text, n)
  BY <1>2 DEF Reads
<1>4. \A n \in 0 .. N : read[n].kept \subseteq 1 .. n
  BY <1>3, ReadingKeeps
<1> HIDE DEF N
<1> DEFINE G == {n \in 0 .. N : /\ \A i \in 1 .. n : Told(text, read[n], i) \/ LoopUpTo(text, i - 1)
                                /\ read[n].dups = 1 => n # 0 /\ Repeats(text, n)
                                /\ read[n].dups = 2 => LoopUpTo(text, n)}
<1>5. 0 \in G
  BY <1>1, <1>2 DEF Reads, NothingRead
<1>6. ASSUME NEW n \in 1 .. N, n - 1 \in G PROVE n \in G
  <2>1. /\ n \in Nat /\ n \in 0 .. N /\ n - 1 \in 0 .. N
        /\ \A i \in 1 .. n : i = n \/ i \in 1 .. n - 1
    BY <1>1
  <2>2. ASSUME NEW before \in Readings, before = read[n - 1] PROVE n \in G
    <3>1. /\ \A i \in 1 .. n - 1 : Told(text, before, i) \/ LoopUpTo(text, i - 1)
          /\ before.dups = 1 => n - 1 # 0 /\ Repeats(text, n - 1)
          /\ before.dups = 2 => LoopUpTo(text, n - 1)
      BY <1>6, <2>2
    <3>2. read[n] = ReadOn(before, text, n) /\ before.kept \subseteq 1 .. n - 1 /\ before.dups \in {0, 1, 2}
      BY <1>3, <1>4, <2>1, <2>2, ReadType
    <3>3. CASE before.dups = 2
      <4>1. read[n] = before
        BY <2>1, <3>2, <3>3, ReadLoop
      <4>2. LoopUpTo(text, n)
        BY <2>1, <3>1, <3>3 DEF LoopUpTo
      <4> QED
        BY <2>1, <3>1, <3>3, <4>1, <4>2
    <3>4. CASE before.dups < 2 /\ SaidAlready(before, text, n)
      <4>1. read[n] = [kept |-> before.kept, dups |-> before.dups + 1]
        BY <2>1, <3>2, <3>4, ReadSaid
      <4>2. Told(text, read[n], n) /\ Repeats(text, n)
        BY <3>2, <3>4, <4>1 DEF Told, SaidAlready, Repeats
      <4>3. before.dups = 1 => LoopUpTo(text, n)
        <5>1. before.dups = 1 => n \in 2 .. n /\ Repeats(text, n - 1)
          BY <2>1, <3>1
        <5> QED
          BY <4>2, <5>1 DEF LoopUpTo
      <4>4. \A i \in 1 .. n - 1 : Told(text, read[n], i) \/ LoopUpTo(text, i - 1)
        BY <3>1, <4>1 DEF Told
      <4>5. read[n].dups = 1 => n # 0 /\ Repeats(text, n)
        BY <2>1, <4>2
      <4>6. read[n].dups = 2 => LoopUpTo(text, n)
        BY <3>2, <4>1, <4>3
      <4> QED
        BY <2>1, <4>2, <4>4, <4>5, <4>6
    <3>5. CASE before.dups < 2 /\ ~SaidAlready(before, text, n)
      <4>1. read[n] = [kept |-> before.kept \cup {n}, dups |-> 0]
        <5>1. ReadOn(before, text, n) = [kept |-> before.kept \cup {n}, dups |-> 0]
          BY <2>1, <3>5, ReadNew
        <5> QED
          BY <3>2, <5>1
      <4>2. Told(text, read[n], n)
        BY <4>1 DEF Told, Similar
      <4>3. \A i \in 1 .. n - 1 : Told(text, read[n], i) \/ LoopUpTo(text, i - 1)
        BY <3>1, <4>1 DEF Told
      <4>4. read[n].dups = 0
        BY <4>1
      <4>5. \A i \in 1 .. n : Told(text, read[n], i) \/ LoopUpTo(text, i - 1)
        BY <2>1, <4>2, <4>3
      <4> QED
        BY <2>1, <4>4, <4>5
    <3> QED
      BY <3>2, <3>3, <3>4, <3>5
  <2> HIDE DEF G
  <2> QED
    BY <2>1, <2>2
<1>7. N \in G
  <2> HIDE DEF G
  <2>1. 0 .. N \subseteq G
    BY <1>1, <1>5, <1>6, UpTo
  <2> QED
    BY <1>1, <2>1
<1>8. \A i \in 1 .. N : Told(text, read[N], i) \/ LoopUpTo(text, i - 1)
  BY <1>7
<1> QED
  BY <1>3, <1>8 DEF N

(* What is missing in a text without repetitions was told or is a loop.    *)
LEMMA CleanCuts ==
  ASSUME NEW S, NEW text \in Seq(S)
  PROVE  \A i \in DOMAIN text : \/ \E s \in Range(DedupSentences(text)) : Similar(text[i], s)
                                \/ LoopUpTo(text, i - 1)
<1> DEFINE K == ReadThrough(text)[Len(text)].kept
<1>1. DOMAIN text = 1 .. Len(text) /\ Len(text) \in Nat
  OBVIOUS
<1>2. K \subseteq 1 .. Len(text)
  BY <1>1, ReadingKeeps
<1>3. \A i \in 1 .. Len(text) : (\E k \in K : Similar(text[i], text[k])) \/ LoopUpTo(text, i - 1)
  BY ReadingTells DEF Told
<1> HIDE DEF K
<1> DEFINE y == Picked(text, K)
           L == K \cap (1 .. Len(text))
<1>4. L = K
  BY <1>2
<1>5. y \in Seq(S) /\ \E pos : PlacesOf(pos, y, text, L)
  BY PickedPlaces
<1> HIDE DEF y, L
<1>6. PICK pos : PlacesOf(pos, y, text, L)
  BY <1>5
<1>7. ASSUME NEW k \in K PROVE text[k] \in Range(y)
  <2>1. PICK i \in 1 .. Len(y) : pos[i] = k
    BY <1>4, <1>6 DEF PlacesOf
  <2>2. y[i] = text[k] /\ i \in DOMAIN y
    BY <1>5, <1>6, <2>1 DEF PlacesOf
  <2> QED
    BY <2>2 DEF Range
<1>8. DedupSentences(text) = y
  BY DEF DedupSentences, y, K
<1> QED
  BY <1>1, <1>3, <1>7, <1>8

(***************************************************************************)
(* The model and its lock.                                                 *)
(***************************************************************************)
ByHandler(r) == at[r] \in {"generate", "rewrite"}
ByWorker(r)  == worker[r] = "writing"

(* Whoever uses the model holds the lock, by one of his two threads.       *)
LockIsKept ==
  /\ lock \in Requests \cup {Free}
  /\ \A r \in Requests : /\ r = lock => ByHandler(r) \/ ByWorker(r)
                         /\ ~(ByHandler(r) /\ ByWorker(r))
                         /\ ByHandler(r) \/ ByWorker(r) => r = lock

GenTypes ==
  /\ at \in [Requests -> Places] /\ raw \in [Requests -> AllDrafts \cup {<<>>}]
  /\ worker \in [Requests -> {"none", "waiting", "writing", "failing", "ended"}]
  /\ put \in [Requests -> Nat] /\ got \in [Requests -> Nat]
  /\ ended \in [Requests -> BOOLEAN] /\ errors \in [Requests -> BOOLEAN]
  /\ left \in [Requests -> {"no", "end", "dead", "repeats"}]
  /\ answer = [r \in Requests |-> answer[r]]

Counts(r) == got[r] <= put[r] /\ put[r] <= 2 * Len(raw[r])

(* What the worker has done: an end without an error is an end of the text.*)
WorkerTells(r) ==
  /\ ended[r] <=> worker[r] = "ended"
  /\ errors[r] => worker[r] \in {"failing", "ended"}
  /\ worker[r] = "failing" => errors[r]
  /\ worker[r] = "ended" => errors[r] \/ put[r] = 2 * Len(raw[r])
  /\ r \in Queries \/ at[r] \in {"absent", "begin"} => worker[r] = "none"

(* What the consumer has seen of it when it leaves the loop.               *)
Answering == {"check", "repair", "rewrite", "final"}
ConsumerKnows(r) ==
  /\ r \in Queries => left[r] = "no" /\ at[r] \notin {"poll", "alive", "join", "clean"}
  /\ r \in Streams =>
       /\ at[r] \notin {"acquire", "generate"}
       /\ at[r] \in {"absent", "begin", "poll", "alive"} => left[r] = "no"
       /\ at[r] = "join" => left[r] \in {"end", "dead"}
       /\ at[r] \in {"clean"} \cup Answering =>
            left[r] # "no" /\ (errors[r] => left[r] = "repeats")
       /\ left[r] \in {"end", "dead"} => worker[r] = "ended"
       /\ left[r] = "end" => got[r] = put[r]

(* What it has read is the beginning of the text, and what it makes of the *)
(* whole is what generate makes of it.                                     *)
AnswerIsDraft(r) ==
  /\ at[r] \in {"begin", "poll", "alive", "join", "clean"} /\ left[r] # "repeats" =>
       answer[r] = TextOf(raw[r], got[r])
  /\ at[r] \in Answering /\ left[r] \in {"no", "end"} /\ ~WrongScript(Clean(raw[r])) =>
       answer[r] = Clean(raw[r]) /\ at[r] \notin {"repair", "rewrite"}

(* What is read has no refusal twice, or else is left at once for the      *)
(* beginning of what the whole draft would give.                           *)
Written == Sentences \cup {Half}
AnswerIsClean(r) ==
  /\ answer[r] \in Seq(Written)
  /\ at[r] \in {"begin", "poll", "alive"} => ~HasRefusalRepetition(TextOf(raw[r], got[r]))
  /\ at[r] \in Answering => Apart(answer[r])
  /\ at[r] \in {"clean"} \cup Answering /\ left[r] = "repeats" =>
       /\ Apart(answer[r]) /\ (at[r] = "clean" => IsStart(answer[r], Clean(raw[r])))
       /\ ~WrongScript(Clean(raw[r])) =>
            IsStart(answer[r], Clean(raw[r])) /\ at[r] \notin {"repair", "rewrite"}

GenInv ==
  /\ GenTypes /\ LockIsKept
  /\ \A r \in Requests : /\ Counts(r) /\ WorkerTells(r) /\ ConsumerKnows(r)
                         /\ AnswerIsDraft(r) /\ AnswerIsClean(r)
-----------------------------------------------------------------------------
(* A text is all of its chunks.                                            *)
LEMMA WholeText ==
  ASSUME NEW S, NEW text \in Seq(S)
  PROVE  TextOf(text, 2 * Len(text)) = text /\ TextOf(text, 0) = <<>>
<1>1. Len(text) \in Nat
  OBVIOUS
<1> DEFINE n == Len(text)
<1>2. (2 * n) \div 2 = n /\ (2 * n) % 2 = 0 /\ 0 \div 2 = 0 /\ 0 % 2 = 0
  BY <1>1
<1>3. SubSeq(text, 1, n) = text /\ SubSeq(text, 1, 0) = <<>>
  OBVIOUS
<1>4. ASSUME NEW k \in Nat, k % 2 = 0 PROVE TextOf(text, k) = SubSeq(text, 1, k \div 2) \o <<>>
  BY <1>4 DEF TextOf
<1>5. /\ TextOf(text, 2 * n) = SubSeq(text, 1, (2 * n) \div 2) \o <<>>
      /\ TextOf(text, 0) = SubSeq(text, 1, 0 \div 2) \o <<>>
  BY <1>1, <1>2, <1>4
<1>6. TextOf(text, 2 * n) = text \o <<>> /\ TextOf(text, 0) = <<>> \o <<>>
  BY <1>2, <1>3, <1>5
<1> QED
  BY <1>6

(* The drafts are texts.                                                   *)
LEMMA DraftsAreTexts ==
  ASSUME GenTypes, NEW r \in Requests
  PROVE  raw[r] \in Seq(Sentences) /\ raw[r] \in Seq(Written)
<1>1. AllDrafts \subseteq Seq(Sentences)
  BY GenerationAssumption
<1>2. <<>> \in Seq(Sentences)
  OBVIOUS
<1>3. raw[r] \in AllDrafts \cup {<<>>}
  BY DEF GenTypes
<1>4. raw[r] \in Seq(Sentences)
  BY <1>1, <1>2, <1>3, Zenon
<1>5. \A i \in 1 .. Len(raw[r]) : raw[r][i] \in Written
  BY <1>4 DEF Written
<1> QED
  BY <1>4, <1>5

(* What is read is a text of sentences and perhaps a half,                 *)
LEMMA CandidateIsText ==
  ASSUME NEW text \in Seq(Sentences), NEW k \in Nat, k <= 2 * Len(text)
  PROVE  TextOf(text, k) \in Seq(Written)
<1>1. Len(text) \in Nat /\ k \div 2 \in 0 .. Len(text)
  <2>1. Len(text) \in Nat
    OBVIOUS
  <2> QED
    BY <2>1
<1>2. \A i \in 1 .. Len(text) : text[i] \in Written
  BY DEF Written
<1>3. SubSeq(text, 1, k \div 2) \in Seq(Written)
  BY <1>1, <1>2
<1>4. <<Half>> \in Seq(Written) /\ <<>> \in Seq(Written)
  BY DEF Written
<1> DEFINE s == SubSeq(text, 1, k \div 2)
<1>5. TextOf(text, k) = s \o IF k % 2 = 1 THEN <<Half>> ELSE <<>>
  BY DEF TextOf
<1> HIDE DEF s
<1>6. s \in Seq(Written)
  BY <1>3 DEF s
<1> QED
  BY <1>4, <1>5, <1>6

LEMMA OneMore ==
  ASSUME NEW S, NEW s \in Seq(S), NEW x
  PROVE  /\ Len(s \o <<x>>) = Len(s) + 1 /\ DOMAIN (s \o <<x>>) = 1 .. Len(s) + 1
         /\ (s \o <<x>>)[Len(s) + 1] = x
         /\ \A i \in 1 .. Len(s) : (s \o <<x>>)[i] = s[i]
<1>1. s \in Seq(S \cup {x}) /\ <<x>> \in Seq(S \cup {x}) /\ Len(<<x>>) = 1 /\ <<x>>[1] = x
  OBVIOUS
<1> QED
  BY <1>1

(* and a refusal repeats in it when a sentence ends.                       *)
LEMMA RepeatsAtTheEnd ==
  ASSUME NEW text \in Seq(Sentences), NEW k \in Nat, k + 1 <= 2 * Len(text),
         ~HasRefusalRepetition(TextOf(text, k)), HasRefusalRepetition(TextOf(text, k + 1))
  PROVE  IsStart(TextOf(text, k + 1), text)
<1>1. Len(text) \in Nat
  OBVIOUS
<1> DEFINE m == (k + 1) \div 2
<1>2. m \in 0 .. Len(text) /\ (k + 1) % 2 \in {0, 1}
  BY <1>1
<1>3. SubSeq(text, 1, m) \in Seq(Sentences) /\ Len(SubSeq(text, 1, m)) = m
      /\ \A i \in 1 .. m : SubSeq(text, 1, m)[i] = text[i]
  BY <1>1, <1>2
<1>4. CASE (k + 1) % 2 = 0
  <2>1. TextOf(text, k + 1) = SubSeq(text, 1, m) \o <<>>
    BY <1>4 DEF TextOf
  <2>2. TextOf(text, k + 1) = SubSeq(text, 1, m)
    BY <1>3, <2>1
  <2> QED
    BY <1>1, <1>2, <1>3, <2>2 DEF IsStart
<1>5. CASE (k + 1) % 2 = 1
  <2>1. k % 2 = 0 /\ k \div 2 = m
    BY <1>5
  <2>2. TextOf(text, k + 1) = SubSeq(text, 1, m) \o <<Half>> /\ TextOf(text, k) = SubSeq(text, 1, m) \o <<>>
    BY <1>5, <2>1 DEF TextOf
  <2> DEFINE s == SubSeq(text, 1, m)
             t == s \o <<Half>>
  <2>3. s \in Seq(Sentences) /\ Len(s) = m /\ TextOf(text, k) = s /\ TextOf(text, k + 1) = t
    BY <1>3, <2>2
  <2> HIDE DEF s, m
  <2>4. Len(t) = m + 1 /\ DOMAIN t = 1 .. m + 1 /\ t[m + 1] = Half /\ \A i \in 1 .. m : t[i] = s[i]
    BY <2>3, OneMore
  <2> HIDE DEF t
  <2>5. PICK i \in DOMAIN t, j \in DOMAIN t : i < j /\ t[i] = t[j] /\ t[i] \in Refusals
    BY <2>3 DEF HasRefusalRepetition
  <2>6. Half \notin Refusals
    BY GenerationAssumption DEF Half
  <2>7. j # m + 1 /\ i \in 1 .. m /\ j \in 1 .. m
    BY <1>2, <2>4, <2>5, <2>6
  <2>8. s[i] = s[j] /\ s[i] \in Refusals /\ i \in DOMAIN s /\ j \in DOMAIN s
    BY <2>3, <2>4, <2>5, <2>7
  <2>9. HasRefusalRepetition(s)
    BY <2>5, <2>8 DEF HasRefusalRepetition
  <2> QED
    BY <2>3, <2>9
<1> QED
  BY <1>2, <1>4, <1>5

LEMMA GenBegins == GenInit => GenInv
<1> SUFFICES ASSUME GenInit PROVE GenInv
  OBVIOUS
<1>1. PICK present \in SUBSET Requests :
        /\ at = [r \in Requests |-> IF r \in present THEN "begin" ELSE "absent"]
        /\ \E drafts \in [present -> IF Cardinality(present) = 1 THEN AllDrafts ELSE Drafts] :
             raw = [r \in Requests |-> IF r \in present THEN drafts[r] ELSE <<>>]
  BY DEF GenInit
<1>2. PICK drafts \in [present -> IF Cardinality(present) = 1 THEN AllDrafts ELSE Drafts] :
        raw = [r \in Requests |-> IF r \in present THEN drafts[r] ELSE <<>>]
  BY <1>1
<1>3. raw \in [Requests -> AllDrafts \cup {<<>>}]
  BY <1>2, GenerationAssumption
<1>4. \A r \in Requests : raw[r] \in Seq(Sentences)
  <2>1. AllDrafts \cup {<<>>} \subseteq Seq(Sentences)
    <3>1. AllDrafts \subseteq Seq(Sentences)
      BY GenerationAssumption
    <3>2. <<>> \in Seq(Sentences)
      OBVIOUS
    <3> QED
      BY <3>1, <3>2, Zenon
  <2> QED
    BY <1>3, <2>1
<1>5. GenTypes
  BY <1>1, <1>3 DEF GenInit, GenTypes, Places
<1>6. LockIsKept
  BY <1>1, GenerationAssumption
     DEF GenInit, LockIsKept, ByHandler, ByWorker, Requests, Free
<1>7. ASSUME NEW r \in Requests PROVE Counts(r) /\ AnswerIsDraft(r)
  <2>1. Len(raw[r]) \in Nat /\ got[r] = 0 /\ put[r] = 0
    BY <1>4 DEF GenInit
  <2>2. at[r] \in {"begin", "absent"} /\ answer[r] = <<>>
    BY <1>1 DEF GenInit
  <2>3. Counts(r)
    BY <2>1 DEF Counts
  <2> QED
    BY <1>4, <2>1, <2>2, <2>3, WholeText DEF AnswerIsDraft, Answering
<1>8. ASSUME NEW r \in Requests PROVE WorkerTells(r) /\ ConsumerKnows(r)
  BY <1>1 DEF GenInit, WorkerTells, ConsumerKnows, Answering
<1>9. ASSUME NEW r \in Requests PROVE AnswerIsClean(r)
  <2>1. answer[r] = <<>> /\ got[r] = 0 /\ at[r] \notin {"clean"} \cup Answering
    BY <1>1 DEF GenInit, Answering
  <2>2. TextOf(raw[r], 0) = <<>>
    BY <1>4, WholeText
  <2>3. ~HasRefusalRepetition(<<>>) /\ <<>> \in Seq(Written)
    BY DEF HasRefusalRepetition
  <2> QED
    BY <2>1, <2>2, <2>3 DEF AnswerIsClean
<1> QED
  BY <1>5, <1>6, <1>7, <1>8, <1>9 DEF GenInv

LEMMA GenTypesStep ==
  ASSUME GenTypes, GenNext PROVE GenTypes'
<1> SUFFICES ASSUME NEW r \in Requests, Handle(r) \/ Work(r) PROVE GenTypes'
  BY DEF GenNext
<1> USE DEF GenTypes, Places
<1>1. CASE Begin(r)
  BY <1>1 DEF Begin, Goto
<1>2. CASE Acquire(r)
  BY <1>2 DEF Acquire, Goto
<1>3. CASE Generate(r)
  BY <1>3 DEF Generate, Goto
<1>4. CASE Rewrite(r)
  BY <1>4 DEF Rewrite, Goto
<1>5. CASE CheckScript(r)
  BY <1>5 DEF CheckScript, Goto
<1>6. CASE Poll(r)
  <2>1. got' \in [Requests -> Nat] /\ UNCHANGED <<raw, worker, put, ended, errors>>
    BY <1>6 DEF Poll
  <2>2. /\ at' \in [Requests -> Places] /\ left' \in [Requests -> {"no", "end", "dead", "repeats"}]
        /\ answer' = [x \in Requests |-> answer'[x]]
    BY <1>6 DEF Poll, Leave, Goto
  <2> QED
    BY <2>1, <2>2
<1>7. CASE PollEnd(r) \/ PollTimeout(r) \/ CheckAlive(r)
  BY <1>7 DEF PollEnd, PollTimeout, CheckAlive, Leave, Goto
<1>8. CASE Join(r) \/ CleanUp(r)
  BY <1>8 DEF Join, CleanUp, Goto
<1>9. CASE WorkerAcquires(r) \/ WorkerEnds(r) \/ WorkerFails(r) \/ WorkerGivesUp(r)
  BY <1>9 DEF WorkerAcquires, WorkerEnds, WorkerFails, WorkerGivesUp
<1>10. CASE WorkerWrites(r)
  BY <1>10 DEF WorkerWrites
<1> QED
  BY <1>1, <1>2, <1>3, <1>4, <1>5, <1>6, <1>7, <1>8, <1>9, <1>10 DEF Handle, Work, Consume

(* A lock is taken when it is free and given back by whoever holds it: the *)
(* worker before it joins the errors, and also when nobody reads from it.  *)
LEMMA LockStep ==
  ASSUME GenTypes, LockIsKept, GenNext, \A r \in Requests : WorkerTells(r)
  PROVE  LockIsKept'
<1> SUFFICES ASSUME NEW r \in Requests, Handle(r) \/ Work(r) PROVE LockIsKept'
  BY DEF GenNext
<1> USE GenerationAssumption DEF GenTypes, LockIsKept, ByHandler, ByWorker, Requests, Free
<1>1. CASE Begin(r)
  <2>1. /\ lock' = lock /\ at[r] = "begin"
        /\ at' = [at EXCEPT ![r] = IF r \in Queries THEN "acquire" ELSE "poll"]
        /\ worker' = worker \/ worker' = [worker EXCEPT ![r] = "waiting"]
    BY <1>1 DEF Begin, Goto
  <2>2. ~ByHandler(r) /\ ~ByHandler(r)' /\ ~ByWorker(r) /\ ~ByWorker(r)'
    BY <2>1 DEF WorkerTells
  <2> QED
    BY <2>1, <2>2
<1>2. CASE Acquire(r)
  BY <1>2 DEF Acquire, Goto
<1>3. CASE Generate(r)
  BY <1>3 DEF Generate, Goto
<1>4. CASE Rewrite(r)
  BY <1>4 DEF Rewrite, Goto
<1>5. CASE CheckScript(r)
  BY <1>5 DEF CheckScript, Goto
<1>6. CASE Poll(r)
  BY <1>6 DEF Poll, Leave, Goto
<1>7. CASE PollEnd(r) \/ PollTimeout(r) \/ CheckAlive(r)
  <2>1. \E place \in {"join", "error", "alive", "poll"} : at' = [at EXCEPT ![r] = place]
    BY <1>7 DEF PollEnd, PollTimeout, CheckAlive, Leave, Goto
  <2>2. UNCHANGED <<lock, worker>> /\ at[r] \in {"poll", "alive"}
    BY <1>7 DEF PollEnd, PollTimeout, CheckAlive
  <2> QED
    BY <2>1, <2>2
<1>8. CASE Join(r) \/ CleanUp(r)
  BY <1>8 DEF Join, CleanUp, Goto
<1>9. CASE WorkerAcquires(r)
  BY <1>9 DEF WorkerAcquires
<1>10. CASE WorkerEnds(r) \/ WorkerFails(r)
  <2>1. CASE WorkerEnds(r)
    BY <2>1 DEF WorkerEnds
  <2>2. CASE WorkerFails(r)
    BY <2>2 DEF WorkerFails
  <2> QED
    BY <1>10, <2>1, <2>2
<1>11. CASE WorkerGivesUp(r) \/ WorkerWrites(r)
  BY <1>11 DEF WorkerGivesUp, WorkerWrites
<1> QED
  BY <1>1, <1>2, <1>3, <1>4, <1>5, <1>6, <1>7, <1>8, <1>9, <1>10, <1>11
     DEF Handle, Work, Consume

LEMMA CountsStep ==
  ASSUME GenTypes, GenNext, \A r \in Requests : Counts(r)
  PROVE  \A r \in Requests : Counts(r)'
<1> SUFFICES ASSUME NEW r \in Requests, Handle(r) \/ Work(r), NEW x \in Requests
             PROVE  got'[x] <= put'[x] /\ put'[x] <= 2 * Len(raw'[x])
  BY DEF GenNext, Counts
<1>1. /\ got[x] <= put[x] /\ put[x] <= 2 * Len(raw[x]) /\ got[x] \in Nat /\ put[x] \in Nat
      /\ got \in [Requests -> Nat] /\ put \in [Requests -> Nat]
  BY DEF Counts, GenTypes
<1>2. raw[x] \in Seq(Sentences) /\ Len(raw[x]) \in Nat
  <2>1. AllDrafts \subseteq Seq(Sentences)
    BY GenerationAssumption
  <2>2. <<>> \in Seq(Sentences)
    OBVIOUS
  <2>3. raw[x] \in AllDrafts \cup {<<>>}
    BY DEF GenTypes
  <2>4. raw[x] \in Seq(Sentences)
    BY <2>1, <2>2, <2>3, Zenon
  <2> QED
    BY <2>4
<1>3. ASSUME UNCHANGED <<raw, put, got>> PROVE got'[x] <= put'[x] /\ put'[x] <= 2 * Len(raw'[x])
  BY <1>1, <1>3
<1>4. CASE Poll(r)
  <2>1. /\ raw' = raw /\ put' = put /\ got[r] < put[r] /\ got' = [got EXCEPT ![r] = @ + 1]
    BY <1>4 DEF Poll
  <2>2. got'[x] <= put[x]
    BY <1>1, <2>1
  <2> QED
    BY <1>1, <2>1, <2>2
<1>5. CASE WorkerWrites(r)
  <2>1. /\ raw' = raw /\ got' = got /\ put[r] < 2 * Len(raw[r])
        /\ put' = [put EXCEPT ![r] = @ + 1]
    BY <1>5 DEF WorkerWrites
  <2>2. CASE x = r
    <3>1. put'[x] = put[x] + 1 /\ put[x] < 2 * Len(raw[x])
      BY <1>1, <2>1, <2>2
    <3> QED
      BY <1>1, <1>2, <2>1, <3>1
  <2>3. CASE x # r
    BY <1>1, <2>1, <2>3
  <2> QED
    BY <2>2, <2>3
<1>6. UNCHANGED <<raw, put, got>> \/ Poll(r) \/ WorkerWrites(r)
  BY DEF Handle, Work, Consume, Begin, Acquire, Generate, Rewrite, CheckScript, PollEnd,
         PollTimeout, CheckAlive, Join, CleanUp, WorkerAcquires, WorkerEnds, WorkerFails,
         WorkerGivesUp
<1> QED
  BY <1>3, <1>4, <1>5, <1>6

LEMMA TellsStep ==
  ASSUME GenTypes, GenNext, \A r \in Requests : WorkerTells(r)
  PROVE  \A r \in Requests : WorkerTells(r)'
<1> SUFFICES ASSUME NEW r \in Requests, Handle(r) \/ Work(r), NEW x \in Requests
             PROVE  WorkerTells(x)'
  BY DEF GenNext
<1>1. WorkerTells(x) /\ WorkerTells(r)
  OBVIOUS
<1> USE GenerationAssumption DEF GenTypes, WorkerTells
<1>2. ASSUME UNCHANGED <<raw, worker, put, ended, errors>>,
             at'[x] \in {"absent", "begin"} => at[x] = at'[x]
      PROVE  WorkerTells(x)'
  BY <1>1, <1>2
<1>3. CASE Begin(r)
  <2>1. UNCHANGED <<raw, put, ended, errors>>
    BY <1>3 DEF Begin
  <2>2. /\ at[r] = "begin"
        /\ at' = [at EXCEPT ![r] = IF r \in Queries THEN "acquire" ELSE "poll"]
        /\ worker' = IF r \in Queries THEN worker ELSE [worker EXCEPT ![r] = "waiting"]
    BY <1>3 DEF Begin, Goto
  <2>3. CASE x = r
    BY <1>1, <2>1, <2>2, <2>3
  <2>4. CASE x # r
    BY <1>1, <2>1, <2>2, <2>4
  <2> QED
    BY <2>3, <2>4
<1>4. CASE WorkerAcquires(r)
  BY <1>1, <1>4 DEF WorkerAcquires
<1>5. CASE WorkerWrites(r)
  BY <1>1, <1>5 DEF WorkerWrites
<1>6. CASE WorkerEnds(r)
  BY <1>1, <1>6 DEF WorkerEnds
<1>7. CASE WorkerFails(r)
  BY <1>1, <1>7 DEF WorkerFails
<1>8. CASE WorkerGivesUp(r)
  BY <1>1, <1>8 DEF WorkerGivesUp
<1>9. CASE Handle(r) /\ ~Begin(r)
  <2>1. UNCHANGED <<raw, worker, put, ended, errors>>
    BY <1>9 DEF Handle, Consume, Acquire, Generate, Rewrite, CheckScript, Poll, PollEnd,
                PollTimeout, CheckAlive, Join, CleanUp
  <2>2. at'[x] \in {"absent", "begin"} => at[x] = at'[x]
    BY <1>9 DEF Handle, Consume, Acquire, Generate, Rewrite, CheckScript, Poll, PollEnd,
                PollTimeout, CheckAlive, Join, CleanUp, Leave, Goto
  <2> QED
    BY <1>2, <2>1, <2>2
<1> QED
  BY <1>3, <1>4, <1>5, <1>6, <1>7, <1>8, <1>9 DEF Work

LEMMA ConsumerStep ==
  ASSUME GenTypes, GenNext, \A r \in Requests : WorkerTells(r) /\ ConsumerKnows(r)
  PROVE  \A r \in Requests : ConsumerKnows(r)'
<1> SUFFICES ASSUME NEW r \in Requests, Handle(r) \/ Work(r), NEW x \in Requests
             PROVE  ConsumerKnows(x)'
  BY DEF GenNext
<1>1. ConsumerKnows(x) /\ ConsumerKnows(r) /\ WorkerTells(r) /\ (r \in Queries <=> r \notin Streams)
  BY GenerationAssumption DEF Requests
<1> USE DEF GenTypes, ConsumerKnows, Answering
<1>2. ASSUME NEW place, at' = [at EXCEPT ![r] = place], UNCHANGED <<worker, put, got, errors, left>>,
             r \in Queries => place \notin {"poll", "alive", "join", "clean"},
             r \in Streams =>
               /\ place \notin {"acquire", "generate"}
               /\ place \in {"absent", "begin", "poll", "alive"} => left[r] = "no"
               /\ place = "join" => left[r] \in {"end", "dead"}
               /\ place \in {"clean"} \cup Answering =>
                    left[r] # "no" /\ (errors[r] => left[r] = "repeats")
      PROVE  ConsumerKnows(x)'
  BY <1>1, <1>2
<1>3. CASE Begin(r)
  <2>1. /\ at[r] = "begin" /\ UNCHANGED <<put, got, errors, left>>
        /\ at' = [at EXCEPT ![r] = IF r \in Queries THEN "acquire" ELSE "poll"]
        /\ worker' = IF r \in Queries THEN worker ELSE [worker EXCEPT ![r] = "waiting"]
    BY <1>3 DEF Begin, Goto
  <2>2. CASE x = r
    BY <1>1, <2>1, <2>2
  <2>3. CASE x # r
    BY <1>1, <2>1, <2>3
  <2> QED
    BY <2>2, <2>3
<1>4. CASE Acquire(r)
  BY <1>1, <1>2, <1>4 DEF Acquire, Goto
<1>5. CASE Generate(r)
  BY <1>1, <1>2, <1>5 DEF Generate, Goto
<1>6. CASE Rewrite(r)
  BY <1>1, <1>2, <1>6 DEF Rewrite, Goto
<1>7. CASE CheckScript(r)
  BY <1>1, <1>2, <1>7 DEF CheckScript, Goto
<1>8. CASE PollTimeout(r)
  BY <1>1, <1>2, <1>8 DEF PollTimeout, Goto
<1>9. CASE Join(r)
  <2>1. at' = [at EXCEPT ![r] = IF errors[r] THEN "error" ELSE "clean"] /\ at[r] = "join"
    BY <1>9 DEF Join, Goto
  <2> QED
    BY <1>1, <1>2, <1>9, <2>1 DEF Join
<1>10. CASE CleanUp(r)
  BY <1>1, <1>2, <1>10 DEF CleanUp, Goto
<1>11. CASE Poll(r)
  <2>1. /\ at[r] = "poll" /\ UNCHANGED <<worker, put, errors>>
        /\ got' = [got EXCEPT ![r] = @ + 1]
        /\ \/ /\ left' = [left EXCEPT ![r] = "repeats"]
              /\ at' = [at EXCEPT ![r] = "clean"]
           \/ UNCHANGED <<at, left>>
    BY <1>11 DEF Poll, Leave, Goto
  <2>2. CASE x = r
    BY <1>1, <2>1, <2>2
  <2>3. CASE x # r
    BY <1>1, <2>1, <2>3
  <2> QED
    BY <2>2, <2>3
<1>12. CASE PollEnd(r)
  <2>1. /\ at[r] = "poll" /\ UNCHANGED <<worker, put, got, errors>> /\ got[r] = put[r] /\ ended[r]
        /\ left' = [left EXCEPT ![r] = "end"] /\ at' = [at EXCEPT ![r] = "join"]
    BY <1>12 DEF PollEnd, Leave, Goto
  <2>2. worker[r] = "ended"
    BY <1>1, <2>1 DEF WorkerTells
  <2>3. CASE x = r
    BY <1>1, <2>1, <2>2, <2>3
  <2>4. CASE x # r
    BY <1>1, <2>1, <2>4
  <2> QED
    BY <2>3, <2>4
<1>13. CASE CheckAlive(r)
  <2>1. /\ at[r] = "alive" /\ UNCHANGED <<worker, put, got, errors>>
        /\ \/ /\ left' = [left EXCEPT ![r] = "dead"] /\ worker[r] = "ended"
              /\ at' = [at EXCEPT ![r] = "join"]
           \/ at' = [at EXCEPT ![r] = "poll"] /\ UNCHANGED left
    BY <1>13 DEF CheckAlive, Leave, Goto
  <2>2. CASE x = r
    BY <1>1, <2>1, <2>2
  <2>3. CASE x # r
    BY <1>1, <2>1, <2>3
  <2> QED
    BY <2>2, <2>3
\* Whoever has left at the end has read from a worker that does not go on.
<1>14. CASE Work(r)
  <2>1. /\ UNCHANGED <<at, got, left>> /\ worker[r] \in {"waiting", "writing", "failing"}
        /\ \A y \in Requests : y # r => /\ worker'[y] = worker[y] /\ put'[y] = put[y]
                                       /\ errors'[y] = errors[y]
    BY <1>14 DEF Work, WorkerAcquires, WorkerWrites, WorkerEnds, WorkerFails, WorkerGivesUp
  <2>2. CASE x = r
    BY <1>1, <2>1, <2>2
  <2>3. CASE x # r
    BY <1>1, <2>1, <2>3
  <2> QED
    BY <2>2, <2>3
<1> QED
  BY <1>3, <1>4, <1>5, <1>6, <1>7, <1>8, <1>9, <1>10, <1>11, <1>12, <1>13, <1>14
     DEF Handle, Consume

(* What is read is added to; the end of the worker's text is the end of    *)
(* what is read of it.                                                     *)
LEMMA AnswerStep ==
  ASSUME GenTypes, GenNext,
         \A r \in Requests : Counts(r) /\ WorkerTells(r) /\ ConsumerKnows(r) /\ AnswerIsDraft(r)
  PROVE  \A r \in Requests : AnswerIsDraft(r)'
<1> SUFFICES ASSUME NEW r \in Requests, Handle(r) \/ Work(r), NEW x \in Requests
             PROVE  AnswerIsDraft(x)'
  BY DEF GenNext
<1>1. AnswerIsDraft(x) /\ AnswerIsDraft(r) /\ ConsumerKnows(r) /\ WorkerTells(r) /\ Counts(r)
  OBVIOUS
<1>2. raw' = raw
  BY DEF Handle, Work, Consume, Begin, Acquire, Generate, Rewrite, CheckScript, Poll, PollEnd,
         PollTimeout, CheckAlive, Join, CleanUp, WorkerAcquires, WorkerWrites, WorkerEnds,
         WorkerFails, WorkerGivesUp
<1>3. ASSUME UNCHANGED <<at, got, left, answer>> PROVE AnswerIsDraft(x)'
  BY <1>1, <1>2, <1>3 DEF AnswerIsDraft
<1>4. CASE x # r
  <2>1. at'[x] = at[x] /\ got'[x] = got[x] /\ left'[x] = left[x]
    BY <1>4 DEF GenTypes, Handle, Work, Consume, Begin, Acquire, Generate, Rewrite, CheckScript,
         Poll, PollEnd, PollTimeout, CheckAlive, Join, CleanUp, WorkerAcquires, WorkerWrites,
         WorkerEnds, WorkerFails, WorkerGivesUp, Goto, Leave
  <2>2. answer'[x] = answer[x]
    <3>1. answer' = answer \/ \E text : answer' = [answer EXCEPT ![r] = text]
      BY DEF Handle, Work, Consume, Begin, Acquire, Generate, Rewrite, CheckScript, Poll, PollEnd,
         PollTimeout, CheckAlive, Join, CleanUp, WorkerAcquires, WorkerWrites, WorkerEnds,
         WorkerFails, WorkerGivesUp
    <3> QED
      BY <1>4, <3>1 DEF GenTypes
  <2> QED
    BY <1>1, <1>2, <2>1, <2>2 DEF AnswerIsDraft
<1> SUFFICES ASSUME x = r PROVE AnswerIsDraft(r)'
  BY <1>4
<1> USE DEF AnswerIsDraft, Answering, GenTypes
<1>5. CASE Begin(r)
  BY <1>1, <1>2, <1>5 DEF Begin, Goto
<1>6. CASE Acquire(r)
  BY <1>1, <1>2, <1>6 DEF Acquire, Goto
<1>7. CASE Generate(r)
  <2>1. /\ UNCHANGED <<got, left>>
        /\ \/ at' = [at EXCEPT ![r] = "check"] /\ answer' = [answer EXCEPT ![r] = Clean(raw[r])]
           \/ at' = [at EXCEPT ![r] = "error"]
    BY <1>7 DEF Generate, Goto
  <2> QED
    BY <1>2, <2>1
<1>8. CASE Rewrite(r)
  BY <1>1, <1>2, <1>8 DEF Rewrite, Goto
<1>9. CASE CheckScript(r)
  <2>1. /\ at' = [at EXCEPT ![r] = IF WrongScript(answer[r]) THEN "repair" ELSE "final"]
        /\ UNCHANGED <<got, left, answer>> /\ at[r] = "check"
    BY <1>9 DEF CheckScript, Goto
  <2> QED
    BY <1>1, <1>2, <2>1
<1>10. CASE Poll(r)
  <2> DEFINE candidate == TextOf(raw[r], got[r] + 1)
  <2>1. at[r] = "poll" /\ got'[r] = got[r] + 1
    BY <1>10 DEF Poll
  <2>2. CASE left' = [left EXCEPT ![r] = "repeats"] /\ at' = [at EXCEPT ![r] = "clean"]
    BY <1>2, <2>2
  <2>3. CASE answer' = [answer EXCEPT ![r] = candidate] /\ UNCHANGED <<at, left>>
    BY <1>2, <2>1, <2>3
  <2> QED
    BY <1>10, <2>2, <2>3 DEF Poll, Leave, Goto
<1>11. CASE PollEnd(r) \/ PollTimeout(r) \/ CheckAlive(r)
  <2>1. /\ at[r] \in {"poll", "alive"} /\ UNCHANGED <<got, answer>>
        /\ \E place \in {"join", "error", "alive", "poll"} : at' = [at EXCEPT ![r] = place]
        /\ left[r] = "no"
    BY <1>1, <1>11, GenerationAssumption
       DEF PollEnd, PollTimeout, CheckAlive, Leave, Goto, ConsumerKnows, Requests
  <2> QED
    BY <1>1, <1>2, <2>1
<1>12. CASE Join(r)
  BY <1>1, <1>2, <1>12 DEF Join, Goto
<1>13. CASE CleanUp(r)
  <2>1. /\ at[r] = "clean" /\ at' = [at EXCEPT ![r] = "check"] /\ UNCHANGED <<got, left>>
        /\ answer' = [answer EXCEPT ![r] = Clean(@)]
    BY <1>13 DEF CleanUp, Goto
  <2>2. ASSUME left[r] \in {"no", "end"} PROVE answer[r] = raw[r]
    <3>1. /\ left[r] = "end" /\ got[r] = put[r] /\ worker[r] = "ended" /\ ~errors[r]
      BY <1>1, <2>1, <2>2 DEF ConsumerKnows, Requests
    <3>2. got[r] = 2 * Len(raw[r])
      BY <1>1, <3>1 DEF WorkerTells
    <3>3. AllDrafts \cup {<<>>} \subseteq Seq(Sentences)
      <4>1. AllDrafts \subseteq Seq(Sentences)
        BY GenerationAssumption
      <4>2. <<>> \in Seq(Sentences)
        OBVIOUS
      <4> QED
        BY <4>1, <4>2, Zenon
    <3>4. raw[r] \in Seq(Sentences)
      <4>1. raw[r] \in AllDrafts \cup {<<>>}
        OBVIOUS
      <4> QED
        BY <3>3, <4>1, Zenon
    <3>5. TextOf(raw[r], 2 * Len(raw[r])) = raw[r]
      BY <3>4, WholeText
    <3>6. answer[r] = TextOf(raw[r], got[r])
      BY <1>1, <2>1, <3>1
    <3> QED
      BY <3>2, <3>5, <3>6
  <2>3. at'[r] = "check" /\ left'[r] = left[r] /\ answer'[r] = Clean(answer[r])
    BY <2>1
  <2> QED
    BY <1>2, <2>2, <2>3
<1>14. CASE Work(r)
  BY <1>3, <1>14 DEF Work, WorkerAcquires, WorkerWrites, WorkerEnds, WorkerFails, WorkerGivesUp
<1> QED
  BY <1>5, <1>6, <1>7, <1>8, <1>9, <1>10, <1>11, <1>12, <1>13, <1>14 DEF Handle, Consume

(* A text whose beginning is in the wrong script is.                       *)
LEMMA RightScript ==
  ASSUME NEW a \in Seq(Written), NEW b \in Seq(Written), IsStart(a, b), ~WrongScript(b)
  PROVE  ~WrongScript(a)
<1>1. DOMAIN a = 1 .. Len(a) /\ DOMAIN b = 1 .. Len(b) /\ Len(a) \in Nat /\ Len(b) \in Nat
  OBVIOUS
<1>2. Range(a) \subseteq Range(b)
  BY <1>1 DEF IsStart, Range
<1> QED
  BY <1>2 DEF WrongScript

(* Cleaning leaves what is apart; a refusal that repeats cuts the draft at *)
(* the end of a sentence.                                                  *)
LEMMA CleanStep ==
  ASSUME GenTypes, GenNext,
         \A r \in Requests : /\ Counts(r) /\ WorkerTells(r) /\ ConsumerKnows(r)
                             /\ AnswerIsDraft(r) /\ AnswerIsClean(r)
  PROVE  \A r \in Requests : AnswerIsClean(r)'
<1> SUFFICES ASSUME NEW r \in Requests, Handle(r) \/ Work(r), NEW x \in Requests
             PROVE  AnswerIsClean(x)'
  BY DEF GenNext
<1>1. /\ AnswerIsClean(x) /\ AnswerIsClean(r) /\ AnswerIsDraft(r) /\ ConsumerKnows(r)
      /\ WorkerTells(r) /\ Counts(r)
  OBVIOUS
<1>2. raw' = raw
  BY DEF Handle, Work, Consume, Begin, Acquire, Generate, Rewrite, CheckScript, Poll, PollEnd,
         PollTimeout, CheckAlive, Join, CleanUp, WorkerAcquires, WorkerWrites, WorkerEnds,
         WorkerFails, WorkerGivesUp
<1>3. ASSUME UNCHANGED <<at, got, left, answer>> PROVE AnswerIsClean(x)'
  BY <1>1, <1>2, <1>3 DEF AnswerIsClean
<1>4. CASE x # r
  <2>1. at'[x] = at[x] /\ got'[x] = got[x] /\ left'[x] = left[x]
    BY <1>4 DEF GenTypes, Handle, Work, Consume, Begin, Acquire, Generate, Rewrite, CheckScript,
         Poll, PollEnd, PollTimeout, CheckAlive, Join, CleanUp, WorkerAcquires, WorkerWrites,
         WorkerEnds, WorkerFails, WorkerGivesUp, Goto, Leave
  <2>2. answer'[x] = answer[x]
    <3>1. answer' = answer \/ \E text : answer' = [answer EXCEPT ![r] = text]
      BY DEF Handle, Work, Consume, Begin, Acquire, Generate, Rewrite, CheckScript, Poll, PollEnd,
         PollTimeout, CheckAlive, Join, CleanUp, WorkerAcquires, WorkerWrites, WorkerEnds,
         WorkerFails, WorkerGivesUp
    <3> QED
      BY <1>4, <3>1 DEF GenTypes
  <2> QED
    BY <1>1, <1>2, <2>1, <2>2 DEF AnswerIsClean
<1> SUFFICES ASSUME x = r PROVE AnswerIsClean(r)'
  BY <1>4
<1>5. raw[r] \in Seq(Sentences) /\ raw[r] \in Seq(Written) /\ answer[r] \in Seq(Written)
  BY <1>1, DraftsAreTexts DEF AnswerIsClean
<1>6. Clean(raw[r]) \in Seq(Written)
  BY <1>5, CleanApart
<1> USE DEF AnswerIsClean, Answering, GenTypes
<1>7. CASE Begin(r)
  <2>1. at[r] = "begin" /\ UNCHANGED <<got, left, answer>> /\ at'[r] \in {"acquire", "poll"}
    BY <1>7 DEF Begin, Goto
  <2> QED
    BY <1>1, <1>2, <2>1
<1>8. CASE Acquire(r)
  <2>1. /\ UNCHANGED <<got, left, answer>>
        /\ \/ at[r] = "acquire" /\ at'[r] = "generate"
           \/ at[r] = "repair" /\ at'[r] = "rewrite"
    BY <1>8 DEF Acquire, Goto
  <2> QED
    BY <1>1, <1>2, <2>1
<1>9. CASE Generate(r)
  <2>1. left' = left /\ got' = got /\ at[r] = "generate" /\ left[r] = "no"
    BY <1>1, <1>9 DEF Generate, ConsumerKnows, Requests
  <2>2. CASE at'[r] = "check" /\ answer'[r] = Clean(raw[r])
    BY <1>2, <1>5, <2>1, <2>2, CleanApart
  <2>3. CASE at'[r] = "error" /\ answer' = answer
    BY <1>1, <1>2, <2>1, <2>3
  <2> QED
    BY <1>9, <2>2, <2>3 DEF Generate, Goto
<1>10. CASE Rewrite(r)
  <2> DEFINE K == {i \in DOMAIN answer[r] : answer[r][i] \notin Foreign}
             t == Picked(answer[r], K)
  <2>1. /\ at[r] = "rewrite" /\ at'[r] = "final" /\ left' = left /\ got' = got
        /\ answer'[r] = t
    BY <1>10 DEF Rewrite, Goto
  <2>2. Apart(answer[r])
    BY <1>1, <2>1
  <2>3. t \in Seq(Written)
    <3> HIDE DEF K
    <3> QED
      BY <1>5, PickedPlaces
  <2>4. Apart(t)
    <3>1. DOMAIN answer[r] = 1 .. Len(answer[r])
      BY <1>5
    <3>2. \A k, l \in K \cap (1 .. Len(answer[r])) : k # l => ~Similar(answer[r][k], answer[r][l])
      BY <2>2, <3>1 DEF Apart
    <3> HIDE DEF K
    <3> QED
      BY <1>5, <3>2, PickedApart
  <2> HIDE DEF t
  <2>5. left[r] = "repeats" => WrongScript(Clean(raw[r]))
    BY <1>1, <2>1
  <2> QED
    BY <1>2, <2>1, <2>3, <2>4, <2>5
<1>11. CASE CheckScript(r)
  <2>1. /\ at[r] = "check" /\ UNCHANGED <<got, left, answer>>
        /\ at'[r] = IF WrongScript(answer[r]) THEN "repair" ELSE "final"
    BY <1>11 DEF CheckScript, Goto
  <2>2. left[r] = "repeats" /\ ~WrongScript(Clean(raw[r])) => ~WrongScript(answer[r])
    BY <1>1, <1>5, <1>6, <2>1, RightScript
  <2> QED
    BY <1>1, <1>2, <2>1, <2>2
<1>12. CASE Poll(r)
  <2> DEFINE candidate == TextOf(raw[r], got[r] + 1)
  <2>1. /\ at[r] = "poll" /\ got'[r] = got[r] + 1 /\ got[r] \in Nat /\ got[r] + 1 <= 2 * Len(raw[r])
        /\ left[r] = "no"
    <3>1. got[r] \in Nat /\ put[r] \in Nat /\ Len(raw[r]) \in Nat /\ got[r] < put[r]
          /\ put[r] <= 2 * Len(raw[r])
      BY <1>1, <1>5, <1>12 DEF Counts, Poll
    <3>2. at[r] = "poll" /\ got' = [got EXCEPT ![r] = @ + 1]
      BY <1>12 DEF Poll
    <3> QED
      BY <1>1, <3>1, <3>2 DEF ConsumerKnows, Requests
  <2>2. candidate \in Seq(Written)
    <3>1. got[r] + 1 \in Nat /\ got[r] + 1 <= 2 * Len(raw[r])
      BY <2>1
    <3>2. raw[r] \in Seq(Sentences)
      BY <1>5
    <3> QED
      BY <3>1, <3>2, CandidateIsText
  <2>3. CASE HasRefusalRepetition(candidate)
    <3>1. at'[r] = "clean" /\ left'[r] = "repeats" /\ answer'[r] = Clean(candidate)
      BY <1>12, <2>3 DEF Poll, Leave, Goto
    <3>2. IsStart(candidate, raw[r])
      BY <1>1, <1>5, <2>1, <2>3, RepeatsAtTheEnd
    <3> HIDE DEF candidate
    <3>3. Clean(candidate) \in Seq(Written) /\ Apart(Clean(candidate))
      BY <2>2, CleanApart
    <3>4. IsStart(Clean(candidate), Clean(raw[r]))
      BY <1>5, <2>2, <3>2, CleanPrefix
    <3> QED
      BY <1>2, <3>1, <3>3, <3>4
  <2>4. CASE ~HasRefusalRepetition(candidate)
    <3>1. at'[r] = "poll" /\ left'[r] = "no" /\ answer'[r] = candidate
      BY <1>12, <2>1, <2>4 DEF Poll
    <3> QED
      BY <1>2, <2>1, <2>2, <2>4, <3>1
  <2> QED
    BY <2>3, <2>4
<1>13. CASE PollEnd(r) \/ PollTimeout(r) \/ CheckAlive(r)
  <2>1. /\ at[r] \in {"poll", "alive"} /\ UNCHANGED <<got, answer>>
        /\ at'[r] \in {"join", "error", "alive", "poll"} /\ left[r] = "no"
    BY <1>1, <1>13, GenerationAssumption
       DEF PollEnd, PollTimeout, CheckAlive, Leave, Goto, ConsumerKnows, Requests
  <2> QED
    BY <1>1, <1>2, <2>1
<1>14. CASE Join(r)
  <2>1. /\ at[r] = "join" /\ UNCHANGED <<got, answer, left>> /\ at'[r] \in {"error", "clean"}
        /\ left[r] \in {"end", "dead"}
    BY <1>1, <1>14, GenerationAssumption DEF Join, Goto, ConsumerKnows, Requests
  <2> QED
    BY <1>1, <1>2, <2>1
<1>15. CASE CleanUp(r)
  <2>1. at[r] = "clean" /\ at'[r] = "check" /\ UNCHANGED <<got, left>> /\ answer'[r] = Clean(answer[r])
    BY <1>15 DEF CleanUp, Goto
  <2>2. Clean(answer[r]) \in Seq(Written) /\ Apart(Clean(answer[r]))
    BY <1>5, CleanApart
  <2>3. left[r] = "repeats" => Clean(answer[r]) = answer[r] /\ IsStart(answer[r], Clean(raw[r]))
    BY <1>1, <1>5, <2>1, CleanNothing
  <2> QED
    BY <1>2, <2>1, <2>2, <2>3
<1>16. CASE Work(r)
  BY <1>3, <1>16 DEF Work, WorkerAcquires, WorkerWrites, WorkerEnds, WorkerFails, WorkerGivesUp
<1> QED
  BY <1>7, <1>8, <1>9, <1>10, <1>11, <1>12, <1>13, <1>14, <1>15, <1>16 DEF Handle, Consume

LEMMA GenStutters ==
  ASSUME GenInv, UNCHANGED genVars PROVE GenInv'
BY DEF GenInv, genVars, GenTypes, LockIsKept, ByHandler, ByWorker, Counts, WorkerTells,
       ConsumerKnows, AnswerIsDraft, AnswerIsClean

(* The inductive invariant of the two endpoints.                           *)
THEOREM GenInvariant == GenSpec => []GenInv
<1>1. ASSUME GenInv, [GenNext]_genVars PROVE GenInv'
  <2>1. CASE GenNext
    <3>1. /\ GenTypes /\ LockIsKept /\ \A r \in Requests : WorkerTells(r)
          /\ \A r \in Requests : Counts(r)
          /\ \A r \in Requests : WorkerTells(r) /\ ConsumerKnows(r)
          /\ \A r \in Requests : Counts(r) /\ WorkerTells(r) /\ ConsumerKnows(r) /\ AnswerIsDraft(r)
          /\ \A r \in Requests : /\ Counts(r) /\ WorkerTells(r) /\ ConsumerKnows(r)
                                 /\ AnswerIsDraft(r) /\ AnswerIsClean(r)
      BY <1>1 DEF GenInv
    <3>2. GenTypes' /\ LockIsKept'
      BY <2>1, <3>1, GenTypesStep, LockStep
    <3>3. \A r \in Requests : Counts(r)' /\ WorkerTells(r)' /\ ConsumerKnows(r)' /\ AnswerIsDraft(r)'
      BY <2>1, <3>1, CountsStep, TellsStep, ConsumerStep, AnswerStep
    <3>4. \A r \in Requests : AnswerIsClean(r)'
      BY <2>1, <3>1, CleanStep
    <3> QED
      BY <3>2, <3>3, <3>4 DEF GenInv
  <2>2. CASE UNCHANGED genVars
    BY <1>1, <2>2, GenStutters
  <2> QED
    BY <1>1, <2>1, <2>2
<1> QED
  BY <1>1, GenBegins, PTL DEF GenSpec

(* What generate and generate_stream promise the two endpoints, for any    *)
(* number of requests, drafts of any length and a model that may raise at  *)
(* any moment: one generation at a time, the error of a worker reported    *)
(* although it joins the errors between two looks at them; a stream that   *)
(* was read to its end answered as /query answers the same draft, and one  *)
(* that was cut off with the beginning of that; no two sentences alike,    *)
(* and nothing cut but what was said or follows a loop.                    *)
THEOREM AnswersWhole == GenSpec => []AnswersAreWhole
<1>1. ASSUME GenInv PROVE GenTypeOK
  BY <1>1 DEF GenInv, GenTypes, LockIsKept, Counts, GenTypeOK
<1>2. ASSUME GenInv PROVE OneAtATime
  <2> DEFINE handlers == {<<r, "handler">> : r \in {x \in Requests : at[x] \in {"generate", "rewrite"}}}
  <2> DEFINE workers == {<<r, "worker">> : r \in {x \in Requests : worker[x] = "writing"}}
  <2>1. CASE lock = Free
    <3>1. handlers \cup workers = {}
      BY <1>2, <2>1, GenerationAssumption DEF GenInv, LockIsKept, ByHandler, ByWorker, Requests, Free
    <3> QED
      BY <2>1, <3>1, FS_EmptySet DEF OneAtATime
  <2>2. CASE lock # Free
    <3>1. lock \in Requests /\ (ByHandler(lock) \/ ByWorker(lock)) /\ ~(ByHandler(lock) /\ ByWorker(lock))
      BY <1>2, <2>2 DEF GenInv, LockIsKept
    <3>2. \A r \in Requests : ByHandler(r) \/ ByWorker(r) => r = lock
      BY <1>2 DEF GenInv, LockIsKept
    <3>3. handlers \cup workers = {<<lock, "handler">>} \/ handlers \cup workers = {<<lock, "worker">>}
      BY <3>1, <3>2 DEF ByHandler, ByWorker
    <3>4. Cardinality(handlers \cup workers) = 1
      BY <3>3, FS_Singleton
    <3> QED
      BY <2>2, <3>4 DEF OneAtATime
  <2> QED
    BY <2>1, <2>2
<1>3. ASSUME GenInv PROVE ErrorsSurface
  BY <1>3 DEF GenInv, ConsumerKnows, ErrorsSurface, Answering, Requests
<1>4. ASSUME GenInv PROVE SameAnswer
  <2> SUFFICES ASSUME NEW r \in Requests, at[r] = "final", Whole(r), left[r] # "repeats"
               PROVE  answer[r] = Clean(raw[r])
    BY DEF SameAnswer
  <2>1. left[r] \in {"no", "end"} /\ ~WrongScript(Clean(raw[r]))
    BY <1>4 DEF GenInv, GenTypes, Whole
  <2> QED
    BY <1>4, <2>1 DEF GenInv, AnswerIsDraft, Answering
<1>5. ASSUME GenInv PROVE CutIsPrefix
  <2> SUFFICES ASSUME NEW r \in Streams, at[r] = "final", Whole(r), left[r] = "repeats"
               PROVE  IsPrefix(answer[r], Clean(raw[r]))
    BY DEF CutIsPrefix
  <2>1. r \in Requests /\ GenTypes /\ AnswerIsClean(r)
    BY <1>5 DEF GenInv, Requests
  <2>2. answer[r] \in Seq(Written) /\ Clean(raw[r]) \in Seq(Written)
    BY <2>1, DraftsAreTexts, CleanApart DEF AnswerIsClean
  <2>3. IsStart(answer[r], Clean(raw[r]))
    BY <2>1 DEF AnswerIsClean, Answering, Whole
  <2> DEFINE s == answer[r]
             t == Clean(raw[r])
  <2>4. /\ s \in Seq(Written) /\ t \in Seq(Written) /\ Len(s) \in Nat /\ Len(t) \in Nat
        /\ Len(s) <= Len(t) /\ \A i \in 1 .. Len(s) : s[i] = t[i]
    BY <2>2, <2>3 DEF IsStart
  <2> HIDE DEF s, t
  <2>5. SubSeq(s, 1, Len(s)) = SubSeq(t, 1, Len(s))
    BY <2>4
  <2>6. IsPrefix(s, t)
    BY <2>4, <2>5 DEF IsPrefix
  <2> QED
    BY <2>6 DEF s, t
<1>6. ASSUME GenInv PROVE NoTwoAlike
  BY <1>6 DEF GenInv, AnswerIsClean, Answering, Apart, NoTwoAlike
<1>7. ASSUME GenInv PROVE OnlyLoopsAreCut
  <2> DEFINE text(r) == ClipRefusalRepetition(raw[r])
  <2>1. ASSUME NEW r \in Requests, at[r] = "final", Whole(r), left[r] # "repeats"
        PROVE  \A i \in DOMAIN text(r) :
                 (\E s \in Range(answer[r]) : Similar(text(r)[i], s)) \/ LoopUpTo(text(r), i - 1)
    <3>1. answer[r] = DedupSentences(text(r))
      BY <1>4, <1>7, <2>1 DEF SameAnswer, Clean
    <3>2. text(r) \in Seq(Sentences)
      BY <1>7, DraftsAreTexts, ClipType DEF GenInv
    <3> HIDE DEF text
    <3> QED
      BY <3>1, <3>2, CleanCuts
  <2> QED
    BY <2>1 DEF OnlyLoopsAreCut
<1> QED
  BY <1>1, <1>2, <1>3, <1>4, <1>5, <1>6, <1>7, GenInvariant, PTL DEF AnswersAreWhole
-----------------------------------------------------------------------------
(***************************************************************************)
(* Conversations.  A reply is followed from the rules, which quote pages   *)
(* and claims, through the resolution of its citations and the order of    *)
(* the answers to the turn that is served; the filters and the frame say   *)
(* of which places it may speak.                                           *)
(***************************************************************************)
(* The least of some places.                                               *)
LEMMA LeastPlace ==
  ASSUME NEW I, I \subseteq Nat, I # {}
  PROVE  Min(I) \in I /\ \A i \in I : Min(I) <= i
<1>1. \E n \in I : \A m \in I : n <= m
  BY Least
<1> QED
  BY <1>1 DEF Min

(* A list, known by its members.                                           *)
Listing(s) == s \in Seq(Range(s))

(* Its length, its places and its members.                                 *)
LEMMA ListingHas ==
  ASSUME NEW s, Listing(s)
  PROVE  /\ Len(s) \in Nat /\ DOMAIN s = 1 .. Len(s)
         /\ \A i \in 1 .. Len(s) : s[i] \in Range(s)
         /\ \A x \in Range(s) : \E i \in 1 .. Len(s) : s[i] = x
  BY DEF Listing, Range

(* The pages a rule quotes are of the list.                                *)
LEMMA FirstRowIs ==
  ASSUME NEW rows, Listing(rows), NEW domains, NEW marks
  PROVE  /\ FirstRow(rows, domains, marks) \in Range(rows) \cup {NoRow}
         /\ FirstRowOf(rows, domains) \in Range(rows) \cup {NoRow}
<1> DEFINE I == {i \in 1 .. Len(rows) : HostMatches(rows[i].host, domains) /\ rows[i].marks \cap marks # {}}
           J == {i \in 1 .. Len(rows) : HostMatches(rows[i].host, domains)}
<1>1. /\ Len(rows) \in Nat /\ \A i \in 1 .. Len(rows) : rows[i] \in Range(rows) /\ i # 0
      /\ I \subseteq Nat /\ J \subseteq Nat
  BY ListingHas
<1>2. FirstRow(rows, domains, marks) = LET i == IF I # {} THEN Min(I) ELSE 0
                                       IN  IF i = 0 THEN NoRow ELSE rows[i]
  BY DEF FirstRow, SelectInSeq
<1>3. FirstRowOf(rows, domains) = LET i == IF J # {} THEN Min(J) ELSE 0
                                  IN  IF i = 0 THEN NoRow ELSE rows[i]
  BY DEF FirstRowOf, SelectInSeq
<1>4. I # {} => Min(I) \in 1 .. Len(rows)
  <2>1. I # {} => Min(I) \in I
    <3> HIDE DEF I
    <3> QED
      BY <1>1, LeastPlace
  <2> QED
    BY <2>1
<1>5. J # {} => Min(J) \in 1 .. Len(rows)
  <2>1. J # {} => Min(J) \in J
    <3> HIDE DEF J
    <3> QED
      BY <1>1, LeastPlace
  <2> QED
    BY <2>1
<1> HIDE DEF I, J
<1> QED
  BY <1>1, <1>2, <1>3, <1>4, <1>5

(* What an answer cites: pages by their urls.                              *)
Quoting(a, rows) == \A d \in a.cites : \E r \in Range(rows) : d = CiteUrl(r)

RuleKinds == {"service", "police", "passport_fee", "passport_renewal", "passport_apply",
              "pan", "driving_license", "company", "national_id", "citizenship_duplicate",
              "citizenship_certificate", "local_event", "foreign_employment",
              "municipality_contact", "generic_contact", None}

PageAnswer(a, rows) == a.kind \in RuleKinds /\ Quoting(a, rows)

(* An answer made of found rows quotes them; no answer quotes nothing.     *)
LEMMA AnswersQuote ==
  ASSUME NEW rows, NEW kind \in RuleKinds, NEW S, S \subseteq Range(rows) \cup {NoRow}, NEW c
  PROVE  PageAnswer(Answer(kind, S), rows) /\ PageAnswer(AnswerIf(c, kind, S), rows)
<1>1. PageAnswer(Answer(kind, S), rows)
  BY DEF Answer, PageAnswer, Quoting
<1>2. PageAnswer(NoAnswer, rows)
  BY DEF NoAnswer, PageAnswer, Quoting, RuleKinds
<1> QED
  BY <1>1, <1>2 DEF AnswerIf

(* The first of two rows, or the second.                                   *)
LEMMA OrRowIs ==
  ASSUME NEW T, NEW r \in T, NEW s \in T
  PROVE  OrRow(r, s) \in T
  BY DEF OrRow

(* The office that is listed best is one of the pages.                     *)
LEMMA BestOfficialsIs ==
  ASSUME NEW rows, Listing(rows), NEW here, NEW role
  PROVE  BestOfficials(rows, here, role) \in Range(rows) \cup {NoRow}
<1>1. DOMAIN rows = 1 .. Len(rows) /\ \A i \in DOMAIN rows : rows[i] \in Range(rows)
  BY ListingHas
<1> DEFINE listing == {i \in DOMAIN rows : HostMatches(rows[i].host, here) /\ Roles(rows[i]) # {}}
           best == {i \in listing : \A j \in listing :
                 \/ OfficialsBefore(rows[i], rows[j], role)
                 \/ ~OfficialsBefore(rows[j], rows[i], role) /\ i <= j}
<1>2. BestOfficials(rows, here, role) = IF best = {} THEN NoRow ELSE rows[CHOOSE i \in best : TRUE]
  BY DEF BestOfficials
<1>3. best # {} => (CHOOSE i \in best : TRUE) \in best
  <2> HIDE DEF best
  <2> QED
    BY Zenon
<1>4. best \subseteq DOMAIN rows
  OBVIOUS
<1> HIDE DEF best
<1> QED
  BY <1>1, <1>2, <1>3, <1>4

(* The rules that quote pages (main.py 4309 to 5558).                      *)
LEMMA RulesQuote ==
  ASSUME NEW rows, Listing(rows), NEW q, NEW t
  PROVE  /\ PageAnswer(ServiceRule(q, t, rows), rows)
         /\ PageAnswer(PassportFeeRule(q, t, rows), rows)
         /\ PageAnswer(PassportRenewalRule(q, t, rows), rows)
         /\ PageAnswer(PassportApplyRule(q, t, rows), rows)
         /\ PageAnswer(PanRegistrationRule(q, t, rows), rows)
         /\ PageAnswer(DrivingLicenseRule(q, t, rows), rows)
         /\ PageAnswer(CompanyRegistrationRule(q, t, rows), rows)
         /\ PageAnswer(NationalIdRule(q, t, rows), rows)
         /\ PageAnswer(PoliceClearanceRule(q, t, rows), rows)
         /\ PageAnswer(CitizenshipDuplicateRule(q, t, rows), rows)
         /\ PageAnswer(CitizenshipCertificateRule(q, t, rows), rows)
         /\ PageAnswer(LocalEventServiceRule(q, t, rows), rows)
         /\ PageAnswer(MunicipalityContactRule(q, t, rows), rows)
         /\ PageAnswer(GenericContactRule(q, t, rows), rows)
<1> DEFINE T == Range(rows) \cup {NoRow}
<1>1. /\ NoRow \in T
      /\ \A domains, marks : FirstRow(rows, domains, marks) \in T /\ FirstRowOf(rows, domains) \in T
      /\ \A r, s \in T : OrRow(r, s) \in T
      /\ \A here, role : BestOfficials(rows, here, role) \in T
  BY FirstRowIs, OrRowIs, BestOfficialsIs
<1>2. \A c : \A kind \in RuleKinds, S \in SUBSET T :
         PageAnswer(Answer(kind, S), rows) /\ PageAnswer(AnswerIf(c, kind, S), rows)
  BY AnswersQuote
<1>3. PageAnswer(NoAnswer, rows)
  BY DEF NoAnswer, PageAnswer, Quoting, RuleKinds
<1>4. {"service", "police", "passport_fee", "passport_renewal", "passport_apply",
              "pan", "driving_license", "company", "national_id", "citizenship_duplicate",
              "citizenship_certificate", "local_event", "foreign_employment",
              "municipality_contact", "generic_contact"} \subseteq RuleKinds
  BY DEF RuleKinds
<1> HIDE DEF T
<1>5. \A a, b, c, d \in T : {a} \in SUBSET T /\ {a, b} \in SUBSET T /\ {a, b, c} \in SUBSET T
                            /\ {a, b, c, d} \in SUBSET T
  OBVIOUS
<1>6. PageAnswer(ServiceRule(q, t, rows), rows)
  <2>1. \A here : \A n, l \in T : PageAnswer(ServiceAnswer(q, t, here, n, l), rows)
    <3>1. SUFFICES ASSUME NEW here, NEW n \in T, NEW l \in T
                   PROVE  PageAnswer(ServiceAnswer(q, t, here, n, l), rows)
      OBVIOUS
    <3>2. {n, IF "ward services" \in l.marks THEN l ELSE NoRow} \in SUBSET T
      BY <1>1, <1>5
    <3> QED
      BY <1>2, <1>4, <3>2 DEF ServiceAnswer
  <2> QED
    BY <1>1, <2>1 DEF ServiceRule
<1>7. PageAnswer(PassportFeeRule(q, t, rows), rows)
  BY <1>1, <1>2, <1>4, <1>5 DEF PassportFeeRule
<1>8. PageAnswer(PassportRenewalRule(q, t, rows), rows)
  BY <1>1, <1>2, <1>4, <1>5 DEF PassportRenewalRule
<1>9. PageAnswer(PassportApplyRule(q, t, rows), rows)
  BY <1>1, <1>2, <1>4, <1>5 DEF PassportApplyRule
<1>10. PageAnswer(PanRegistrationRule(q, t, rows), rows)
  BY <1>1, <1>2, <1>4, <1>5 DEF PanRegistrationRule
<1>11. PageAnswer(DrivingLicenseRule(q, t, rows), rows)
  <2>1. \A source, a, b, c \in T : {source, OrRow(a, source), OrRow(b, source), OrRow(c, source)} \in SUBSET T
    BY <1>1, <1>5
  <2> QED
    BY <1>1, <1>2, <1>4, <2>1 DEF DrivingLicenseRule
<1>12. PageAnswer(CompanyRegistrationRule(q, t, rows), rows)
  BY <1>1, <1>2, <1>4, <1>5 DEF CompanyRegistrationRule
<1>13. PageAnswer(NationalIdRule(q, t, rows), rows)
  BY <1>1, <1>2, <1>4, <1>5 DEF NationalIdRule
<1>14. PageAnswer(PoliceClearanceRule(q, t, rows), rows)
  BY <1>1, <1>2, <1>4, <1>5 DEF PoliceClearanceRule
<1>15. PageAnswer(CitizenshipDuplicateRule(q, t, rows), rows)
  BY <1>1, <1>2, <1>4, <1>5 DEF CitizenshipDuplicateRule
<1>16. PageAnswer(CitizenshipCertificateRule(q, t, rows), rows)
  BY <1>1, <1>2, <1>4, <1>5 DEF CitizenshipCertificateRule
<1>17. PageAnswer(LocalEventServiceRule(q, t, rows), rows)
  BY <1>1, <1>2, <1>4, <1>5 DEF LocalEventServiceRule
<1>18. PageAnswer(MunicipalityContactRule(q, t, rows), rows)
  BY <1>1, <1>2, <1>3, <1>4, <1>5 DEF MunicipalityContactRule, ContactAnswer
<1>19. PageAnswer(GenericContactRule(q, t, rows), rows)
  BY <1>1, <1>2, <1>4, <1>5, ZenonT(60) DEF GenericContactRule, GenericContactAt
<1> QED
  BY <1>6, <1>7, <1>8, <1>9, <1>10, <1>11, <1>12, <1>13, <1>14, <1>15, <1>16, <1>17, <1>18, <1>19

(* The complaint rule quotes pages: one of an office, two helplines.       *)
LEMMA ComplaintQuotes ==
  ASSUME NEW rows, Listing(rows), NEW q, NEW t, NEW lang
  PROVE  PageAnswer(ForeignEmploymentComplaintRule(q, t, rows, lang), rows)
<1> DEFINE all == {r.host : r \in Range(rows)}
           complaint == FirstRow(rows, all, {"complaint office"})
           helplines == {i \in DOMAIN rows : "1141" \in rows[i].marks}
           firstTwo == {i \in helplines : Cardinality({j \in helplines : j < i}) < 2}
           dao == FirstRow(rows, all, {"district complaint"})
           S == {complaint, dao} \cup {rows[i] : i \in firstTwo}
           c == /\ lang = "english" /\ t = "foreign_employment" /\ WantsComplaint(q)
                /\ \/ {complaint, dao} # {NoRow}
                   \/ helplines # {}
<1>1. ForeignEmploymentComplaintRule(q, t, rows, lang) = AnswerIf(c, "foreign_employment", S)
  BY DEF ForeignEmploymentComplaintRule
<1>2. complaint \in Range(rows) \cup {NoRow} /\ dao \in Range(rows) \cup {NoRow}
  BY FirstRowIs
<1>3. \A i \in firstTwo : rows[i] \in Range(rows)
  BY ListingHas
<1> HIDE DEF complaint, dao, firstTwo, c
<1>4. S \subseteq Range(rows) \cup {NoRow}
  BY <1>2, <1>3
<1> HIDE DEF S
<1> QED
  BY <1>1, <1>4, AnswersQuote DEF RuleKinds

(* What an answer cites by number: claims, by their place in the list or by*)
(* the number the search gave them.                                        *)
Practical(a, claims) ==
  /\ a.kind = "citizenship_practical"
  /\ \A d \in a.cites : \E i \in DOMAIN claims : d = CiteRank(i, claims[i])

Tacit(a, claims) ==
  /\ a.kind = "tacit_municipality" /\ a.cites # {}
  /\ \A d \in a.cites : \E i \in DOMAIN claims : d = CiteRank(claims[i].rank, claims[i])

(* The rule that quotes an interview quotes one claim, by its url.         *)
LEMMA PracticalQuotes ==
  ASSUME NEW claims, Listing(claims), NEW rows, NEW q, NEW t
  PROVE  \/ CitizenshipPracticalRule(q, t, claims, rows) = NoAnswer
         \/ Practical(CitizenshipPracticalRule(q, t, claims, rows), claims)
<1> DEFINE rule == CitizenshipPracticalRule(q, t, claims, rows)
           about == {i \in DOMAIN claims :
                  claims[i].marks \cap {"citizenship", "sifarish", "nagarikta sifarish"} # {}}
           best == {i \in about : \A j \in about :
                 \/ PracticalPriority(claims[i]) < PracticalPriority(claims[j])
                 \/ /\ PracticalPriority(claims[i]) = PracticalPriority(claims[j])
                    /\ i <= j}
           prio == {PracticalPriority(claims[i]) : i \in about}
<1>1. DOMAIN claims = 1 .. Len(claims) /\ Len(claims) \in Nat
  BY ListingHas
<1>2. \A i \in about : PracticalPriority(claims[i]) \in Nat
  <2>1. SUFFICES ASSUME NEW claim PROVE PracticalPriority(claim) \in Nat
    OBVIOUS
  <2> DEFINE order == <<"nagarikta sifarish", "ward counter", "sifarish", "citizenship">>
             I == {i \in 1 .. Len(order) : order[i] \in claim.marks}
             p == IF I # {} THEN Min(I) ELSE 0
  <2>2. PracticalPriority(claim) = IF p = 0 THEN 5 ELSE p - 1
    BY DEF PracticalPriority, SelectInSeq
  <2>3. Len(order) = 4
    OBVIOUS
  <2>4. I \subseteq 1 .. 4 /\ I \subseteq Nat
    <3> HIDE DEF order
    <3> QED
      BY <2>3
  <2>5. I # {} => Min(I) \in I
    <3> HIDE DEF I
    <3> QED
      BY <2>4, LeastPlace
  <2>6. p = 0 \/ p \in 1 .. 4
    BY <2>4, <2>5
  <2> HIDE DEF p
  <2> QED
    BY <2>2, <2>6
<1>3. about # {} => best # {}
  <2>1. SUFFICES ASSUME about # {} PROVE best # {}
    OBVIOUS
  <2>2. prio \subseteq Nat /\ prio # {}
    BY <1>2, <2>1
  <2>3. PICK m \in prio : \A n \in prio : m <= n
    <3> HIDE DEF prio
    <3> QED
      BY <2>2, Least
  <2> DEFINE I == {i \in about : PracticalPriority(claims[i]) = m}
  <2>4. I \subseteq Nat /\ I # {}
    <3>1. about \subseteq Nat
      <4>1. about \subseteq DOMAIN claims
        OBVIOUS
      <4> HIDE DEF about
      <4> QED
        BY <1>1, <4>1
    <3>2. PICK i \in about : PracticalPriority(claims[i]) = m
      OBVIOUS
    <3> QED
      BY <3>1, <3>2
  <2>5. PICK i \in I : \A j \in I : i <= j
    <3> HIDE DEF I
    <3> QED
      BY <2>4, Least
  <2>6. ASSUME NEW j \in about
        PROVE  \/ PracticalPriority(claims[i]) < PracticalPriority(claims[j])
               \/ /\ PracticalPriority(claims[i]) = PracticalPriority(claims[j])
                  /\ i <= j
    <3> DEFINE pj == PracticalPriority(claims[j])
    <3>1. m <= pj /\ PracticalPriority(claims[i]) = m /\ m \in Nat /\ pj \in Nat
      <4>1. pj \in prio
        OBVIOUS
      <4> QED
        BY <1>2, <2>2, <2>3, <4>1
    <3>2. pj = m => i <= j
      BY <2>5
    <3> HIDE DEF pj
    <3>3. m < pj \/ m = pj
      <4> HIDE DEF prio, about, I
      <4> QED
        BY <3>1
    <3> QED
      BY <3>1, <3>2, <3>3 DEF pj
  <2>7. i \in about
    OBVIOUS
  <2> QED
    BY <2>6, <2>7
<1>4. best # {} => (CHOOSE i \in best : TRUE) \in best
  <2> HIDE DEF best
  <2> QED
    BY Zenon
<1>5. best \subseteq DOMAIN claims
  OBVIOUS
<1>6. rule = IF /\ t = "citizenship" /\ "lost" \in q /\ about # {}
                /\ CitizenshipDuplicateRule(q, t, rows) = NoAnswer
             THEN LET i == CHOOSE i \in best : TRUE
                  IN  [kind |-> "citizenship_practical", cites |-> {CiteRank(i, claims[i])}]
             ELSE NoAnswer
  BY DEF CitizenshipPracticalRule
<1> HIDE DEF best, about, rule
<1> QED
  BY <1>3, <1>4, <1>5, <1>6 DEF Practical, rule

(* The municipality rule quotes claims by number, and at least one.        *)
LEMMA TacitQuotes ==
  ASSUME NEW claims, Listing(claims), NEW q, NEW t
  PROVE  \/ TacitMunicipalityRule(q, t, claims) = NoAnswer
         \/ Tacit(TacitMunicipalityRule(q, t, claims), claims)
<1>0. 0 < (IF t = "municipality_hours" THEN 2 ELSE 1)
  OBVIOUS
<1> DEFINE rule == TacitMunicipalityRule(q, t, claims)
           selected == {i \in DOMAIN claims : t \in claims[i].marks}
           choice == {i \in selected : "first choice" \in claims[i].marks}
           before(i) == {j \in selected : IF i \in choice THEN j \in choice /\ j < i
                                          ELSE j \in choice \/ j < i}
           room == IF t = "municipality_hours" THEN 2 ELSE 1
           quoted == {k \in selected : Cardinality(before(k)) < room}
<1>1. DOMAIN claims = 1 .. Len(claims) /\ Len(claims) \in Nat
  BY ListingHas
<1>2. selected # {} => quoted # {}
  <2>1. SUFFICES ASSUME selected # {} PROVE \E k \in selected : before(k) = {}
    <3>1. Cardinality({}) = 0 /\ 0 < room
      BY FS_EmptySet, <1>0
    <3> HIDE DEF selected, room
    <3> QED
      BY <3>1
  <2> DEFINE I == IF choice # {} THEN choice ELSE selected
  <2>2. I # {} /\ I \subseteq Nat /\ I \subseteq selected
    <3>1. selected \subseteq Nat /\ choice \subseteq selected
      <4>1. selected \subseteq DOMAIN claims /\ choice \subseteq selected
        OBVIOUS
      <4> HIDE DEF selected, choice
      <4> QED
        BY <1>1, <4>1
    <3> HIDE DEF selected, choice
    <3> QED
      BY <2>1, <3>1
  <2>3. PICK k \in I : \A j \in I : k <= j
    <3> HIDE DEF I
    <3> QED
      BY <2>2, Least
  <2>4. \A j \in I : j \in Nat /\ k \in Nat /\ ~ j < k
    <3>1. k \in Nat /\ \A j \in I : j \in Nat
      BY <2>2
    <3> HIDE DEF I
    <3> QED
      BY <2>3, <3>1
  <2>5. before(k) = {}
    BY <2>4
  <2> QED
    BY <2>2, <2>5
<1>3. rule = IF /\ t \in LOCAL_TACIT_STRICT_TOPICS /\ DetectLocalDomains(q) # {}
                /\ selected # {}
             THEN [kind |-> "tacit_municipality",
                   cites |-> {CiteRank(claims[i].rank, claims[i]) : i \in quoted}]
             ELSE NoAnswer
  BY DEF TacitMunicipalityRule
<1>4. quoted \subseteq DOMAIN claims
  OBVIOUS
<1> HIDE DEF quoted, selected, rule
<1> QED
  BY <1>2, <1>3, <1>4 DEF Tacit, rule

(* Whatever a rule says stands on the pages and claims it was given.       *)
Stands(a, claims, rows) == PageAnswer(a, rows) \/ Practical(a, claims) \/ Tacit(a, claims)

(* The first rule that answers is one of the rules.                        *)
LEMMA FirstAnswerIs ==
  ASSUME NEW answers, NEW n \in Nat, Len(answers) = n, NEW S, NoAnswer \in S,
         \A i \in 1 .. n : answers[i] \in S
  PROVE  FirstAnswer(answers) \in S
<1> DEFINE I == {i \in 1 .. n : answers[i] # NoAnswer}
<1>1. FirstAnswer(answers) = LET i == IF I # {} THEN Min(I) ELSE 0
                             IN  IF i = 0 THEN NoAnswer ELSE answers[i]
  BY DEF FirstAnswer, SelectInSeq
<1>2. I # {} => Min(I) \in I
  <2>1. I \subseteq Nat
    OBVIOUS
  <2> HIDE DEF I
  <2> QED
    BY <2>1, LeastPlace
<1>3. I # {} => Min(I) \in 1 .. n
  BY <1>2
<1> HIDE DEF I
<1> QED
  BY <1>1, <1>3

(* What the chain of rules answers, in both endpoints.                     *)
LEMMA ChainStands ==
  ASSUME NEW claims, Listing(claims), NEW rows, Listing(rows), NEW q, NEW t, NEW lang
  PROVE  /\ Stands(QueryRules(q, t, claims, rows, lang), claims, rows)
         /\ StreamRules(q, t, claims, rows, lang) = QueryRules(q, t, claims, rows, lang)
         /\ Stands(CitizenshipPracticalRule(q, t, claims, rows), claims, rows)
<1> DEFINE chain == <<
    ForeignEmploymentComplaintRule(q, t, rows, lang), ServiceRule(q, t, rows),
    PassportFeeRule(q, t, rows), PassportRenewalRule(q, t, rows),
    PassportApplyRule(q, t, rows), PanRegistrationRule(q, t, rows),
    DrivingLicenseRule(q, t, rows), CompanyRegistrationRule(q, t, rows),
    NationalIdRule(q, t, rows), PoliceClearanceRule(q, t, rows),
    CitizenshipDuplicateRule(q, t, rows), CitizenshipPracticalRule(q, t, claims, rows),
    CitizenshipCertificateRule(q, t, rows), LocalEventServiceRule(q, t, rows),
    MunicipalityContactRule(q, t, rows), GenericContactRule(q, t, rows),
    TacitMunicipalityRule(q, t, claims)>>
           S == {a \in {chain[i] : i \in 1 .. 17} \cup {NoAnswer} : Stands(a, claims, rows)}
<1>1. Stands(NoAnswer, claims, rows)
  BY DEF NoAnswer, PageAnswer, Quoting, RuleKinds, Stands
<1>2. /\ Stands(CitizenshipPracticalRule(q, t, claims, rows), claims, rows)
      /\ Stands(TacitMunicipalityRule(q, t, claims), claims, rows)
  BY <1>1, PracticalQuotes, TacitQuotes DEF Stands
<1>3. \A i \in 1 .. 17 : Stands(chain[i], claims, rows)
  <2>1. /\ Stands(ForeignEmploymentComplaintRule(q, t, rows, lang), claims, rows)
        /\ Stands(ServiceRule(q, t, rows), claims, rows)
        /\ Stands(PassportFeeRule(q, t, rows), claims, rows)
        /\ Stands(PassportRenewalRule(q, t, rows), claims, rows)
        /\ Stands(PassportApplyRule(q, t, rows), claims, rows)
        /\ Stands(PanRegistrationRule(q, t, rows), claims, rows)
        /\ Stands(DrivingLicenseRule(q, t, rows), claims, rows)
        /\ Stands(CompanyRegistrationRule(q, t, rows), claims, rows)
        /\ Stands(NationalIdRule(q, t, rows), claims, rows)
        /\ Stands(PoliceClearanceRule(q, t, rows), claims, rows)
        /\ Stands(CitizenshipDuplicateRule(q, t, rows), claims, rows)
        /\ Stands(CitizenshipCertificateRule(q, t, rows), claims, rows)
        /\ Stands(LocalEventServiceRule(q, t, rows), claims, rows)
        /\ Stands(MunicipalityContactRule(q, t, rows), claims, rows)
        /\ Stands(GenericContactRule(q, t, rows), claims, rows)
    BY RulesQuote, ComplaintQuotes DEF Stands
  <2> QED
    BY <1>2, <2>1
<1>4. Len(chain) = 17
  OBVIOUS
<1>5. QueryRules(q, t, claims, rows, lang) = FirstAnswer(chain)
  BY DEF QueryRules
<1>6. StreamRules(q, t, claims, rows, lang) = FirstAnswer(chain)
  BY DEF StreamRules
<1>7. NoAnswer \in S /\ \A i \in 1 .. 17 : chain[i] \in S
  <2> HIDE DEF chain
  <2> QED
    BY <1>1, <1>3
<1> HIDE DEF chain
<1>8. FirstAnswer(chain) \in S
  <2> HIDE DEF S
  <2> QED
    BY <1>4, <1>7, FirstAnswerIs
<1> QED
  BY <1>2, <1>5, <1>6, <1>8

(* One list after another.                                                 *)
LEMMA Joined ==
  ASSUME NEW S, NEW a \in Seq(S), NEW b \in Seq(S)
  PROVE  /\ a \o b \in Seq(S) /\ Len(a \o b) = Len(a) + Len(b)
         /\ DOMAIN (a \o b) = 1 .. Len(a) + Len(b)
         /\ \A i \in 1 .. Len(a) : (a \o b)[i] = a[i]
         /\ \A i \in Len(a) + 1 .. Len(a) + Len(b) : (a \o b)[i] = b[i - Len(a)]
<1>1. a \o b \in Seq(S) /\ Len(a \o b) = Len(a) + Len(b)
  OBVIOUS
<1>2. DOMAIN (a \o b) = 1 .. Len(a) + Len(b)
  BY <1>1
<1>3. \A i \in 1 .. Len(a) : (a \o b)[i] = a[i]
  OBVIOUS
<1>4. ASSUME NEW i \in Len(a) + 1 .. Len(a) + Len(b) PROVE (a \o b)[i] = b[i - Len(a)]
  OBVIOUS
<1> QED
  BY <1>1, <1>2, <1>3, <1>4

(* The sources of a response: the claims, then the pages.                  *)
LEMMA SourcesAre ==
  ASSUME NEW claims, Listing(claims), NEW rows, Listing(rows)
  PROVE  LET s == Sources(claims, rows)
         IN  /\ Len(s) = Len(claims) + Len(rows) /\ DOMAIN s = 1 .. Len(s) /\ Len(s) \in Nat
             /\ \A i \in 1 .. Len(claims) : s[i].id = claims[i].id /\ s[i].url = claims[i].url
             /\ \A i \in Len(claims) + 1 .. Len(s) :
                  /\ i - Len(claims) \in 1 .. Len(rows)
                  /\ s[i].id = rows[i - Len(claims)].id /\ s[i].url = rows[i - Len(claims)].url
<1> DEFINE T == {[id |-> x.id, url |-> x.url, host |-> x.host] : x \in Range(claims) \cup Range(rows)}
           a == [i \in DOMAIN claims |-> [id |-> claims[i].id, url |-> claims[i].url, host |-> claims[i].host]]
           b == [i \in DOMAIN rows |-> [id |-> rows[i].id, url |-> rows[i].url, host |-> rows[i].host]]
<1>1. a \in Seq(T) /\ Len(a) = Len(claims) /\ \A i \in 1 .. Len(claims) : a[i].id = claims[i].id /\ a[i].url = claims[i].url
  <2>1. DOMAIN claims = 1 .. Len(claims) /\ Len(claims) \in Nat /\ \A i \in 1 .. Len(claims) : a[i] \in T
    BY ListingHas
  <2> HIDE DEF T
  <2> QED
    BY <2>1
<1>2. b \in Seq(T) /\ Len(b) = Len(rows) /\ \A i \in 1 .. Len(rows) : b[i].id = rows[i].id /\ b[i].url = rows[i].url
  <2>1. DOMAIN rows = 1 .. Len(rows) /\ Len(rows) \in Nat /\ \A i \in 1 .. Len(rows) : b[i] \in T
    BY ListingHas
  <2> HIDE DEF T
  <2> QED
    BY <2>1
<1>3. Sources(claims, rows) = a \o b
  BY DEF Sources
<1>4. Len(claims) \in Nat /\ Len(rows) \in Nat
  BY ListingHas
<1> HIDE DEF a, b, T
<1>5. /\ Len(a \o b) = Len(claims) + Len(rows) /\ DOMAIN (a \o b) = 1 .. Len(claims) + Len(rows)
      /\ \A i \in 1 .. Len(claims) : (a \o b)[i] = a[i]
      /\ \A i \in Len(claims) + 1 .. Len(claims) + Len(rows) : (a \o b)[i] = b[i - Len(claims)]
  <2>1. /\ Len(a \o b) = Len(a) + Len(b) /\ DOMAIN (a \o b) = 1 .. Len(a) + Len(b)
        /\ \A i \in 1 .. Len(a) : (a \o b)[i] = a[i]
        /\ \A i \in Len(a) + 1 .. Len(a) + Len(b) : (a \o b)[i] = b[i - Len(a)]
    <3>1. a \in Seq(T) /\ b \in Seq(T)
      BY <1>1, <1>2
    <3> QED
      BY <3>1, Joined
  <2>2. Len(a) = Len(claims) /\ Len(b) = Len(rows)
    BY <1>1, <1>2
  <2> QED
    BY <2>1, <2>2
<1>6. \A i \in Len(claims) + 1 .. Len(claims) + Len(rows) : i - Len(claims) \in 1 .. Len(rows)
  BY <1>4
<1>7. Len(claims) + Len(rows) \in Nat
  BY <1>4
<1> DEFINE s == a \o b
<1>8. \A i \in 1 .. Len(claims) : s[i].id = claims[i].id /\ s[i].url = claims[i].url
  BY <1>1, <1>5
<1>9. \A i \in Len(claims) + 1 .. Len(claims) + Len(rows) :
         /\ i - Len(claims) \in 1 .. Len(rows)
         /\ s[i].id = rows[i - Len(claims)].id /\ s[i].url = rows[i - Len(claims)].url
  BY <1>2, <1>5, <1>6
<1> QED
  BY <1>3, <1>5, <1>7, <1>8, <1>9

(* The place a url is found at, 0 if nowhere.                              *)
LEMMA RankIs ==
  ASSUME NEW url, NEW s, Len(s) \in Nat
  PROVE  /\ RankOfUrl(url, s) \in 0 .. Len(s)
         /\ RankOfUrl(url, s) # 0 => s[RankOfUrl(url, s)].url = url
         /\ \A i \in 1 .. Len(s) : s[i].url = url => RankOfUrl(url, s) \in 1 .. Len(s)
<1> DEFINE I == {i \in 1 .. Len(s) : s[i].url = url}
<1>1. RankOfUrl(url, s) = IF I # {} THEN Min(I) ELSE 0
  BY DEF RankOfUrl, SelectInSeq
<1>2. I # {} => Min(I) \in I
  <2>1. I \subseteq Nat
    OBVIOUS
  <2> HIDE DEF I
  <2> QED
    BY <2>1, LeastPlace
<1>3. \A i \in I : i \in 1 .. Len(s) /\ s[i].url = url
  OBVIOUS
<1>4. \A i \in 1 .. Len(s) : s[i].url = url => I # {}
  OBVIOUS
<1> HIDE DEF I
<1> QED
  BY <1>1, <1>2, <1>3, <1>4

(* A url that some page has is not repaired.                               *)
LEMMA KnownUrl ==
  ASSUME NEW claims, Listing(claims), NEW rows, Listing(rows), NEW r \in Range(rows)
  PROVE  RepairUrl(r.url, rows \o claims) = r.url
<1>1. PICK i \in 1 .. Len(rows) : rows[i] = r
  BY ListingHas
<1>2. /\ rows \in Seq(Range(rows) \cup Range(claims)) /\ claims \in Seq(Range(rows) \cup Range(claims))
  BY DEF Listing
<1>3. i \in DOMAIN (rows \o claims) /\ (rows \o claims)[i] = r
  BY <1>1, <1>2
<1>4. r \in Range(rows \o claims)
  BY <1>3 DEF Range
<1> QED
  BY <1>4 DEF RepairUrl

(* Pages as the search gives them.                                         *)
ApartRows(rows) ==
  /\ \A a \in Range(rows) : a.id # None /\ a.url # None
  /\ \A a, b \in Range(rows) : a.id = b.id \/ a.url = b.url => a = b

Resolves(c, d, claims, rows) ==
  LET s == Sources(claims, rows)
  IN  c = Resolve(d, rows \o claims, s) /\ Listed(d, c)

(* A citation that is listed has the number of a source, or none.          *)
LEMMA CitationRank ==
  ASSUME NEW claims, Listing(claims), NEW rows, Listing(rows), NEW c, NEW d, Resolves(c, d, claims, rows)
  PROVE  c.rank \in 0 .. Len(Sources(claims, rows)) /\ c.quotes = d.quotes
<1> DEFINE s == Sources(claims, rows)
           n == IF d.url = None THEN d.rank ELSE RankOfUrl(RepairUrl(d.url, rows \o claims), s)
<1>1. Len(s) \in Nat /\ DOMAIN s = 1 .. Len(s)
  BY SourcesAre
<1>2. /\ c = [rank |-> n, quotes |-> d.quotes, source |-> IF n \in DOMAIN s THEN s[n].id ELSE None]
      /\ c.source # None \/ d.url # None
  BY DEF Resolves, Resolve, Resolved, Listed
<1> HIDE DEF s
<1>3. d.url # None => n \in 0 .. Len(s)
  BY <1>1, RankIs
<1> HIDE DEF n
<1>4. n \in 0 .. Len(s)
  <2>1. CASE n \in DOMAIN s
    BY <1>1, <2>1
  <2>2. CASE n \notin DOMAIN s
    BY <1>2, <1>3, <2>2
  <2> QED
    BY <2>1, <2>2
<1> QED
  BY <1>2, <1>4 DEF s

(* A page that is cited is the one the citation leads to, or shares its url*)
(* with a claim.                                                           *)
LEMMA PageCited ==
  ASSUME NEW claims, Listing(claims), NEW rows, Listing(rows), ApartRows(rows),
         NEW r \in Range(rows), NEW c, Resolves(c, CiteUrl(r), claims, rows)
  PROVE  c.quotes = r.id /\ (c.source = r.id \/ \E k \in Range(claims) : k.url = r.url)
<1> DEFINE s == Sources(claims, rows)
           n == RankOfUrl(r.url, s)
<1>1. /\ Len(s) = Len(claims) + Len(rows) /\ DOMAIN s = 1 .. Len(s) /\ Len(s) \in Nat
      /\ \A i \in 1 .. Len(claims) : s[i].id = claims[i].id /\ s[i].url = claims[i].url
      /\ \A i \in Len(claims) + 1 .. Len(s) :
            /\ i - Len(claims) \in 1 .. Len(rows)
            /\ s[i].id = rows[i - Len(claims)].id /\ s[i].url = rows[i - Len(claims)].url
  BY SourcesAre
<1>2. CiteUrl(r) = [url |-> r.url, rank |-> 0, quotes |-> r.id] /\ r.url # None
  BY DEF CiteUrl, ApartRows
<1>3. RepairUrl(r.url, rows \o claims) = r.url
  BY KnownUrl
<1>4. c = [rank |-> n, quotes |-> r.id, source |-> IF n \in DOMAIN s THEN s[n].id ELSE None]
  BY <1>2, <1>3 DEF Resolves, Resolve, Resolved
<1>5. /\ Len(claims) \in Nat /\ Len(rows) \in Nat
      /\ \A i \in 1 .. Len(claims) : claims[i] \in Range(claims)
      /\ \A i \in 1 .. Len(rows) : rows[i] \in Range(rows)
  BY ListingHas
<1>6. PICK j \in 1 .. Len(rows) : rows[j] = r
  BY ListingHas
<1> HIDE DEF s
<1>7. n \in 1 .. Len(s) /\ s[n].url = r.url
  <2>1. j + Len(claims) \in Len(claims) + 1 .. Len(s) /\ j + Len(claims) \in 1 .. Len(s)
        /\ (j + Len(claims)) - Len(claims) = j
    BY <1>1, <1>5
  <2>2. s[j + Len(claims)].url = r.url
    BY <1>1, <1>6, <2>1
  <2>3. n \in 1 .. Len(s)
    BY <1>1, <2>1, <2>2, RankIs
  <2>4. n # 0
    BY <2>3
  <2> QED
    BY <1>1, <2>3, <2>4, RankIs
<1> HIDE DEF n
<1>8. CASE n \in 1 .. Len(claims)
  BY <1>1, <1>4, <1>5, <1>7, <1>8
<1>9. CASE n \in Len(claims) + 1 .. Len(s)
  <2>1. rows[n - Len(claims)] \in Range(rows) /\ rows[n - Len(claims)].url = r.url
        /\ s[n].id = rows[n - Len(claims)].id
    BY <1>1, <1>5, <1>7, <1>9
  <2>2. rows[n - Len(claims)] = r
    BY <2>1 DEF ApartRows
  <2> QED
    BY <1>1, <1>4, <1>7, <2>1, <2>2
<1> QED
  BY <1>1, <1>5, <1>7, <1>8, <1>9

(* A claim that is cited by its place.                                     *)
LEMMA ClaimCited ==
  ASSUME NEW claims, Listing(claims), NEW rows, Listing(rows), NEW i \in DOMAIN claims,
         NEW c, c = Resolve(CiteRank(i, claims[i]), rows \o claims, Sources(claims, rows))
  PROVE  c.quotes = claims[i].id /\ c.source = claims[i].id
<1> DEFINE s == Sources(claims, rows)
<1>1. DOMAIN claims = 1 .. Len(claims) /\ Len(claims) \in Nat /\ Len(rows) \in Nat
  BY ListingHas
<1>2. i \in DOMAIN s /\ s[i].id = claims[i].id
  BY <1>1, SourcesAre
<1> HIDE DEF s
<1>3. c = [rank |-> i, quotes |-> claims[i].id, source |-> IF i \in DOMAIN s THEN s[i].id ELSE None]
  BY DEF Resolve, Resolved, CiteRank, s
<1> QED
  BY <1>2, <1>3

(* What holds of a reply that is made of these claims and pages.           *)
ListedSources(y, claims, rows) ==
  \A id \in Range(y.sources) : \E x \in Range(claims) \cup Range(rows) : x.id = id

LeadsToQuoted(y, claims, rows) ==
  y.kind \notin {"generated", "tacit_municipality"} =>
    \A c \in y.citations :
      \/ c.source = c.quotes
      \/ \E r \in Range(rows), k \in Range(claims) : r.id = c.quotes /\ r.url = k.url

ClaimsQuoted(y, claims) ==
  /\ y.kind = "tacit_municipality"
  /\ \A i \in DOMAIN claims : claims[i].rank = i /\ claims[i].id # None
  => y.citations # {} /\ \A c \in y.citations : c.source = c.quotes

Tells(y, claims, rows) ==
  /\ ~y.foreign
  /\ \A c \in y.citations : c.rank \in 0 .. Len(y.sources)
  /\ ListedSources(y, claims, rows) /\ LeadsToQuoted(y, claims, rows) /\ ClaimsQuoted(y, claims)

(* A reply that cites nothing.                                             *)
LEMMA PlainIs ==
  ASSUME NEW kind, NEW asked
  PROVE  /\ Plain(kind, asked).kind = kind /\ Plain(kind, asked).asked = asked
         /\ Plain(kind, asked).sources = <<>> /\ Plain(kind, asked).citations = {}
         /\ ~Plain(kind, asked).foreign /\ Plain(kind, asked).planner = None
  BY DEF Plain, NoReply

(* It has nothing to get wrong.                                            *)
LEMMA PlainTells ==
  ASSUME NEW kind, NEW asked, kind # "tacit_municipality", NEW claims, NEW rows
  PROVE  Tells(Plain(kind, asked), claims, rows)
<1> DEFINE y == Plain(kind, asked)
<1>1. y.kind = kind /\ y.sources = <<>> /\ y.citations = {} /\ ~y.foreign
  BY PlainIs
<1> HIDE DEF y
<1>2. Range(y.sources) = {}
  BY <1>1 DEF Range
<1>3. Tells(y, claims, rows)
  BY <1>1, <1>2 DEF Tells, ListedSources, LeadsToQuoted, ClaimsQuoted
<1> QED
  BY <1>3 DEF y

(* A reply with its citations resolved: those of the answer, no others.    *)
LEMMA WithIs ==
  ASSUME NEW x, NEW claims, NEW rows
  PROVE  LET y == With(x, claims, rows)
             s == Sources(claims, rows)
         IN  /\ y.kind = x.kind /\ y.asked = {} /\ ~y.foreign /\ y.planner = None
             /\ y.sources = [i \in DOMAIN s |-> s[i].id]
             /\ \A c \in y.citations : \E d \in x.cites : Resolves(c, d, claims, rows)
             /\ \A d \in x.cites : \A c : Resolves(c, d, claims, rows) => c \in y.citations
<1> DEFINE s == Sources(claims, rows)
           known == rows \o claims
           r == Response(x, claims, rows)
           cited == UNION {{c \in {Resolve(d, known, s)} : Listed(d, c)} : d \in x.cites}
<1>1. r = [kind |-> x.kind, asked |-> {}, sources |-> [i \in DOMAIN s |-> s[i].id], citations |-> cited]
  BY DEF Response, ResponseOver
<1>2. \A c \in cited : \E d \in x.cites : Resolves(c, d, claims, rows)
  <2>1. SUFFICES ASSUME NEW c \in cited PROVE \E d \in x.cites : Resolves(c, d, claims, rows)
    OBVIOUS
  <2>2. PICK d \in x.cites : c \in {e \in {Resolve(d, known, s)} : Listed(d, e)}
    OBVIOUS
  <2> QED
    BY <2>2 DEF Resolves
<1>3. \A d \in x.cites : \A c : Resolves(c, d, claims, rows) => c \in cited
  <2>1. SUFFICES ASSUME NEW d \in x.cites, NEW c, Resolves(c, d, claims, rows) PROVE c \in cited
    OBVIOUS
  <2>2. c \in {e \in {Resolve(d, known, s)} : Listed(d, e)}
    BY <2>1 DEF Resolves
  <2> QED
    BY <2>2
<1> HIDE DEF s, cited, r
<1>4. With(x, claims, rows) = [kind |-> x.kind, asked |-> {}, sources |-> [i \in DOMAIN s |-> s[i].id],
                               citations |-> cited, foreign |-> FALSE, planner |-> None]
  BY <1>1 DEF With, Unplanned, r
<1> QED
  BY <1>2, <1>3, <1>4 DEF s

(* Its kind, and that nothing is asked.                                    *)
LEMMA WithHas ==
  ASSUME NEW x, NEW claims, NEW rows
  PROVE  /\ With(x, claims, rows).kind = x.kind /\ With(x, claims, rows).asked = {}
         /\ With(x, claims, rows).planner = None
<1>1. Response(x, claims, rows).kind = x.kind /\ Response(x, claims, rows).asked = {}
  BY DEF Response, ResponseOver
<1> QED
  BY <1>1 DEF With, Unplanned

(* The citations of an answer that quotes what was found lead there.       *)
LEMMA WithTells ==
  ASSUME NEW claims, Listing(claims), NEW rows, Listing(rows), ApartRows(rows), NEW x,
         \/ Stands(x, claims, rows)
         \/ x.kind = "generated"
         \/ x.kind # "tacit_municipality" /\ x.cites = {}
  PROVE  Tells(With(x, claims, rows), claims, rows)
<1> DEFINE y == With(x, claims, rows)
           s == Sources(claims, rows)
<1>1. /\ y.kind = x.kind /\ ~y.foreign /\ y.sources = [i \in DOMAIN s |-> s[i].id]
      /\ \A c \in y.citations : \E d \in x.cites : Resolves(c, d, claims, rows)
      /\ \A d \in x.cites : \A c : Resolves(c, d, claims, rows) => c \in y.citations
  BY WithIs
<1>2. /\ Len(s) = Len(claims) + Len(rows) /\ DOMAIN s = 1 .. Len(s) /\ Len(s) \in Nat
      /\ \A i \in 1 .. Len(claims) : s[i].id = claims[i].id
      /\ \A i \in Len(claims) + 1 .. Len(s) :
            i - Len(claims) \in 1 .. Len(rows) /\ s[i].id = rows[i - Len(claims)].id
  <2>1. /\ Len(s) = Len(claims) + Len(rows) /\ DOMAIN s = 1 .. Len(s) /\ Len(s) \in Nat
        /\ \A i \in 1 .. Len(claims) : s[i].id = claims[i].id /\ s[i].url = claims[i].url
        /\ \A i \in Len(claims) + 1 .. Len(s) :
              /\ i - Len(claims) \in 1 .. Len(rows)
              /\ s[i].id = rows[i - Len(claims)].id /\ s[i].url = rows[i - Len(claims)].url
    BY SourcesAre
  <2> HIDE DEF s
  <2> QED
    BY <2>1
<1>3. /\ Len(claims) \in Nat /\ Len(rows) \in Nat /\ DOMAIN claims = 1 .. Len(claims)
      /\ \A i \in 1 .. Len(claims) : claims[i] \in Range(claims)
      /\ \A i \in 1 .. Len(rows) : rows[i] \in Range(rows)
  BY ListingHas
<1> HIDE DEF y, s
<1>4. Len(y.sources) = Len(s) /\ DOMAIN y.sources = 1 .. Len(s) /\ \A i \in 1 .. Len(s) : y.sources[i] = s[i].id
  BY <1>1, <1>2
<1>5. ASSUME NEW c \in y.citations PROVE c.rank \in 0 .. Len(y.sources)
  BY <1>1, <1>4, CitationRank DEF s
<1>6. ListedSources(y, claims, rows)
  <2>1. SUFFICES ASSUME NEW id \in Range(y.sources)
                 PROVE  \E e \in Range(claims) \cup Range(rows) : e.id = id
    BY DEF ListedSources
  <2>2. PICK i \in 1 .. Len(s) : s[i].id = id
    BY <1>4 DEF Range
  <2>3. i \in 1 .. Len(claims) \/ i \in Len(claims) + 1 .. Len(s)
    BY <1>2, <1>3
  <2> QED
    BY <1>2, <1>3, <2>2, <2>3
<1>7. LeadsToQuoted(y, claims, rows)
  <2>1. SUFFICES ASSUME x.kind \notin {"generated", "tacit_municipality"}, NEW c \in y.citations
                 PROVE  \/ c.source = c.quotes
                        \/ \E r \in Range(rows), k \in Range(claims) : r.id = c.quotes /\ r.url = k.url
    BY <1>1 DEF LeadsToQuoted
  <2>2. PICK d \in x.cites : Resolves(c, d, claims, rows)
    BY <1>1
  <2>3. CASE PageAnswer(x, rows)
    <3>1. PICK r \in Range(rows) : d = CiteUrl(r)
      BY <2>3 DEF PageAnswer, Quoting
    <3>2. Resolves(c, CiteUrl(r), claims, rows)
      BY <2>2, <3>1
    <3> QED
      BY <3>2, PageCited
  <2>4. CASE Practical(x, claims)
    <3>1. PICK i \in DOMAIN claims : d = CiteRank(i, claims[i])
      BY <2>4 DEF Practical
    <3>2. c = Resolve(CiteRank(i, claims[i]), rows \o claims, Sources(claims, rows))
      BY <2>2, <3>1 DEF Resolves
    <3> QED
      BY <3>2, ClaimCited
  <2> QED
    BY <2>1, <2>3, <2>4 DEF Stands, Tacit
<1>8. ClaimsQuoted(y, claims)
  <2>1. SUFFICES ASSUME x.kind = "tacit_municipality",
                        \A i \in DOMAIN claims : claims[i].rank = i /\ claims[i].id # None
                 PROVE  y.citations # {} /\ \A c \in y.citations : c.source = c.quotes
    BY <1>1 DEF ClaimsQuoted
  <2>2. Tacit(x, claims)
    BY <2>1 DEF Stands, PageAnswer, Practical, RuleKinds, None
  <2>3. \A d \in x.cites : \E i \in DOMAIN claims : d = CiteRank(i, claims[i])
    BY <2>1, <2>2 DEF Tacit
  <2>4. ASSUME NEW c \in y.citations PROVE c.source = c.quotes
    <3>1. PICK d \in x.cites : Resolves(c, d, claims, rows)
      BY <1>1
    <3>2. PICK i \in DOMAIN claims : d = CiteRank(i, claims[i])
      BY <2>3
    <3>3. c = Resolve(CiteRank(i, claims[i]), rows \o claims, Sources(claims, rows))
      BY <3>1, <3>2 DEF Resolves
    <3> QED
      BY <3>3, ClaimCited
  <2>5. y.citations # {}
    <3>1. PICK d \in x.cites : TRUE
      BY <2>2 DEF Tacit
    <3>2. PICK i \in DOMAIN claims : d = CiteRank(i, claims[i])
      BY <2>3
    <3> DEFINE c == Resolve(d, rows \o claims, Sources(claims, rows))
    <3>3. c.source = claims[i].id
      BY <3>2, ClaimCited
    <3>4. Listed(d, c)
      BY <2>1, <3>3 DEF Listed
    <3>5. Resolves(c, d, claims, rows)
      BY <3>4 DEF Resolves
    <3> QED
      BY <1>1, <3>5
  <2> QED
    BY <2>4, <2>5
<1>9. Tells(y, claims, rows)
  BY <1>1, <1>5, <1>6, <1>7, <1>8 DEF Tells
<1> QED
  BY <1>9 DEF y

(* A reply has its fields; setting one leaves the others.                  *)
Fields == {"kind", "asked", "sources", "citations", "foreign", "planner"}
IsReply(y) == DOMAIN y = Fields /\ y = [x \in Fields |-> y[x]]

(* Both ways of making a reply give all its fields.                        *)
LEMMA RepliesAre ==
  /\ \A kind, asked : IsReply(Plain(kind, asked))
  /\ \A x, claims, rows : IsReply(With(x, claims, rows))
<1>1. ASSUME NEW kind, NEW asked PROVE IsReply(Plain(kind, asked))
  BY DEF IsReply, Plain, NoReply, Fields
<1>2. ASSUME NEW x, NEW claims, NEW rows PROVE IsReply(With(x, claims, rows))
  BY DEF IsReply, With, Unplanned, Fields
<1> QED
  BY <1>1, <1>2

(* Setting one field leaves the others.                                    *)
LEMMA Setting ==
  ASSUME NEW y, IsReply(y), NEW v
  PROVE  /\ LET z == [y EXCEPT !.planner = v]
            IN  /\ IsReply(z) /\ z.planner = v
                /\ z.kind = y.kind /\ z.asked = y.asked /\ z.sources = y.sources
                /\ z.citations = y.citations /\ (z.foreign <=> y.foreign)
         /\ LET z == [y EXCEPT !.asked = v]
            IN  /\ IsReply(z) /\ z.asked = v /\ z.planner = y.planner
                /\ z.kind = y.kind /\ z.sources = y.sources
                /\ z.citations = y.citations /\ (z.foreign <=> y.foreign)
         /\ LET z == [y EXCEPT !.foreign = v]
            IN  /\ IsReply(z) /\ (z.foreign <=> v) /\ z.planner = y.planner
                /\ z.kind = y.kind /\ z.asked = y.asked /\ z.sources = y.sources
                /\ z.citations = y.citations
<1>1. IsReply([y EXCEPT !.planner = v]) /\ IsReply([y EXCEPT !.asked = v]) /\ IsReply([y EXCEPT !.foreign = v])
  BY DEF IsReply, Fields
<1> QED
  BY <1>1 DEF IsReply, Fields

(* Setting what is asked, for a reply that is named.                       *)
LEMMA AskedSet ==
  ASSUME NEW y, IsReply(y), NEW v, NEW z, z = [y EXCEPT !.asked = v]
  PROVE  /\ IsReply(z) /\ z.asked = v /\ z.kind = y.kind /\ z.sources = y.sources
         /\ z.citations = y.citations /\ (z.foreign <=> y.foreign)
  BY DEF IsReply, Fields

(* What was settled before the model is called, for either endpoint.       *)
KnownFacts(f) ==
  /\ Listing(f.claims) /\ Listing(f.rows) /\ ApartRows(f.rows)
  /\ f.followup = FollowupAnswer(f.frame) /\ f.planner = PlannerContract(f.frame)

Early(f) == f.frame.memoryOnly \/ "service" \in f.planner.missing

Settled(D, f, p, r) ==
  \/ D = Plain("identity", {}) \/ D = Plain("unavailable", {})
  \/ f.frame.offDomain /\ D = Plain("off_domain", {})
  \/ /\ ~f.frame.offDomain
     /\ \/ f.followup.kind # None /\ Early(f) /\ D = Plain(f.followup.kind, f.followup.asked)
        \/ (f.followup.kind # None => ~Early(f)) /\ D = With(NoPlace, f.claims, <<>>)
        \/ f.followup.kind # None /\ ~Early(f) /\ D = Asking(f.frame, f.claims, f.rows)
        \/ /\ f.followup.kind = None
           /\ \/ D = With(p, f.claims, f.rows) \/ D = With(NoSource, f.claims, f.rows)
              \/ D = With(r, f.claims, f.rows) \/ D = Plain("generate", {})

(* The order of /query comes to one of the cases.                          *)
LEMMA OrderSettles ==
  ASSUME NEW msg, NEW f, NEW p, NEW r
  PROVE  Settled(QueryOrder(msg, f, f.claims, f.rows, p, r), f, p, r)
  BY DEF Settled, QueryOrder, Early

(* What follows up: a note of the place, questions, or nothing.            *)
LEMMA FollowupIs ==
  ASSUME NEW frame
  PROVE  /\ FollowupAnswer(frame).kind \in {None, "memory", "followup"}
         /\ FollowupAnswer(frame).asked \subseteq Slots
         /\ FollowupAnswer(frame).asked \subseteq PlannerMissingSlots(frame)
         /\ FollowupAnswer(frame).kind = "memory" <=> frame.memoryOnly
         /\ FollowupAnswer(frame).kind = "followup" <=> ~frame.memoryOnly /\ PlannerMissingSlots(frame) # {}
         /\ PlannerContract(frame).decision = PlannerDecision(frame)
  BY DEF FollowupAnswer, None, PlannerContract

(* /query/stream answers early or late what /query answers in one order.   *)
LEMMA OrdersAgree ==
  ASSUME NEW msg, NEW f, KnownFacts(f), NEW p, NEW r
  PROVE  StreamOrder(msg, f, f.claims, f.rows, StreamEarly(msg, f), p, r)
           = QueryOrder(msg, f, f.claims, f.rows, p, r)
<1> DEFINE e == StreamEarly(msg, f)
<1>1. f.followup.kind \in {None, "memory", "followup"}
  BY FollowupIs DEF KnownFacts
<1>2. \A kind, asked : Plain(kind, asked).kind = kind
  BY PlainIs
<1>3. CASE msg.identity
  <2>1. e = Plain("identity", {})
    BY <1>3 DEF StreamEarly
  <2>2. e.kind # None
    BY <1>2, <2>1 DEF None
  <2> QED
    BY <1>3, <2>1, <2>2 DEF StreamOrder, QueryOrder
<1>4. CASE ~msg.identity /\ f.frame.offDomain
  <2>1. e = Plain("off_domain", {})
    BY <1>4 DEF StreamEarly
  <2>2. e.kind # None
    BY <1>2, <2>1 DEF None
  <2> QED
    BY <1>4, <2>1, <2>2 DEF StreamOrder, QueryOrder
<1>5. CASE ~msg.identity /\ ~f.frame.offDomain /\ f.followup.kind # None /\ Early(f)
  <2>1. e = Plain(f.followup.kind, f.followup.asked)
    BY <1>5 DEF StreamEarly, Early
  <2>2. e.kind # None
    BY <1>2, <1>5, <2>1
  <2> QED
    BY <1>5, <2>1, <2>2 DEF StreamOrder, QueryOrder, Early
<1>6. CASE ~msg.identity /\ ~f.frame.offDomain /\ ~(f.followup.kind # None /\ Early(f))
  <2>1. e = Plain(None, {})
    BY <1>6 DEF StreamEarly, Early
  <2>2. e.kind = None
    BY <1>2, <2>1
  <2> QED
    BY <1>6, <2>2 DEF StreamOrder, QueryOrder, Early
<1> QED
  BY <1>3, <1>4, <1>5, <1>6

(* The script of a draft that went through the guard.                      *)
IsDraft(d) == d = [script |-> d.script, cites |-> d.cites, second |-> d.second, fails |-> d.fails]

(* No draft leaves the guard in the wrong script.                          *)
LEMMA GuardKeeps ==
  ASSUME NEW d, IsDraft(d), NEW lang, NEW claims, NEW rows
  PROVE  ~Mismatch(Guard(Repaired(d, lang), lang, claims, rows), lang)
<1> DEFINE e == Repaired(d, lang)
<1>1. DOMAIN e = {"script", "cites", "second", "fails"}
  <2>1. DOMAIN d = {"script", "cites", "second", "fails"}
    BY DEF IsDraft
  <2> QED
    BY <2>1 DEF Repaired
<1> HIDE DEF e
<1>2. \A v : [e EXCEPT !.script = "latin"].script = "latin"
             /\ [e EXCEPT !.script = "latin", !.cites = v].script = "latin"
  BY <1>1
<1>3. ASSUME Mismatch(e, lang) PROVE Guard(e, lang, claims, rows).script = "latin"
  BY <1>2, <1>3 DEF Guard
<1>4. ~Mismatch(Guard(e, lang, claims, rows), lang)
  <2>1. CASE Mismatch(e, lang)
    BY <1>3, <2>1 DEF Mismatch
  <2>2. CASE ~Mismatch(e, lang)
    BY <2>2 DEF Guard
  <2> QED
    BY <2>1, <2>2
<1> QED
  BY <1>4 DEF e

(* The two endpoints finish a turn alike.                                  *)
LEMMA FinishAgrees ==
  ASSUME NEW D, NEW f, NEW d
  PROVE  Finish(D, f, d) = StreamFinish(D, f, d)
<1> DEFINE e == Guard(Repaired(d, f.lang), f.lang, f.claims, f.rows)
           g == Generated(d, f.lang, f.claims, f.rows)
<1>1. CASE D.kind \in {"identity", "unavailable"}
  BY <1>1 DEF Finish, StreamFinish
<1>2. CASE D.kind = "generate"
  <2>1. CASE d.fails
    BY <1>2, <2>1 DEF Finish, StreamFinish, Generated
  <2>2. CASE ~d.fails
    <3>1. g = [kind |-> "generated", cites |-> e.cites, foreign |-> Mismatch(e, f.lang)]
      BY <2>2 DEF Generated
    <3> HIDE DEF g, e
    <3>2. /\ g.kind = "generated" /\ g.cites = e.cites /\ g.kind # "error"
          /\ g.foreign = Mismatch(e, f.lang)
      BY <3>1
    <3>3. With(g, f.claims, f.rows) = With([kind |-> "generated", cites |-> e.cites], f.claims, f.rows)
      BY <3>2 DEF With, Response, ResponseOver
    <3>4. Finish(D, f, d) = [With(g, f.claims, f.rows) EXCEPT !.foreign = g.foreign,
                                               !.planner = f.planner.decision]
      BY <1>2, <3>2 DEF Finish, g
    <3>5. StreamFinish(D, f, d) = [With([kind |-> "generated", cites |-> e.cites], f.claims, f.rows)
                 EXCEPT !.foreign = Mismatch(e, f.lang), !.planner = f.planner.decision]
      BY <1>2, <2>2 DEF StreamFinish, e
    <3> QED
      BY <3>2, <3>3, <3>4, <3>5
  <2> QED
    BY <2>1, <2>2
<1>3. CASE D.kind \notin {"identity", "unavailable", "generate"}
  BY <1>3 DEF Finish, StreamFinish
<1> QED
  BY <1>1, <1>2, <1>3

(* The decision that is reported is what was done.                         *)
Planned(y) ==
  /\ y.kind = "followup" => y.planner = "partial_answer_plus_followup"
  /\ y.planner = "partial_answer_plus_followup" => y.kind \in {"followup", "no_place"}
  /\ y.planner \in {"off_domain_light_answer", "ack_memory"} => y.sources = <<>>

Sound(y, f) == Tells(y, f.claims, f.rows) /\ y.asked \subseteq f.followup.asked /\ Planned(y)

(* The planner's decision, from what the frame misses.                     *)
LEMMA DecisionIs ==
  ASSUME NEW frame
  PROVE  /\ frame.offDomain => PlannerDecision(frame) = "off_domain_light_answer"
         /\ ~frame.offDomain /\ frame.memoryOnly => PlannerDecision(frame) = "ack_memory"
         /\ ~frame.offDomain /\ ~frame.memoryOnly /\ PlannerMissingSlots(frame) # {} =>
               PlannerDecision(frame) = "partial_answer_plus_followup"
         /\ ~frame.offDomain /\ ~frame.memoryOnly /\ PlannerMissingSlots(frame) = {} =>
               PlannerDecision(frame) \notin {"off_domain_light_answer", "ack_memory",
                                             "partial_answer_plus_followup"}
  BY DEF PlannerDecision

(* A reply without a model's draft gets the decision.                      *)
LEMMA DecidedIsSound ==
  ASSUME NEW f, NEW D, IsReply(D), Tells(D, f.claims, f.rows), D.asked \subseteq f.followup.asked,
         NEW dec, NEW y, y = [D EXCEPT !.planner = dec],
         D.kind = "followup" => dec = "partial_answer_plus_followup",
         dec = "partial_answer_plus_followup" => D.kind \in {"followup", "no_place"},
         dec \in {"off_domain_light_answer", "ack_memory"} => D.sources = <<>>
  PROVE  Sound(y, f)
<1>1. /\ y.planner = dec /\ y.kind = D.kind /\ y.asked = D.asked /\ y.sources = D.sources
      /\ y.citations = D.citations /\ (y.foreign <=> D.foreign)
  BY Setting
<1>2. Tells(y, f.claims, f.rows)
  BY <1>1 DEF Tells, ListedSources, LeadsToQuoted, ClaimsQuoted
<1>3. Planned(y)
  BY <1>1 DEF Planned
<1> QED
  BY <1>1, <1>2, <1>3 DEF Sound

(* What was settled before the model is called: what it tells and asks,    *)
(* and how the plan and the kind of the reply go together.                 *)
LEMMA SettledData ==
  ASSUME NEW f, KnownFacts(f), NEW p, Stands(p, f.claims, f.rows), NEW r, Stands(r, f.claims, f.rows),
         NEW D, Settled(D, f, p, r)
  PROVE  /\ IsReply(D) /\ Tells(D, f.claims, f.rows) /\ D.asked \subseteq f.followup.asked
         /\ D.kind = "followup" => /\ PlannerMissingSlots(f.frame) # {} /\ ~f.frame.offDomain
                                   /\ ~f.frame.memoryOnly
         /\ D.kind \in {"identity", "unavailable"} => D.planner = None
         /\ \/ D.kind \in {"identity", "unavailable"}
            \/ f.frame.offDomain /\ D.sources = <<>> /\ D.kind = "off_domain"
            \/ ~f.frame.offDomain /\ f.frame.memoryOnly /\ D.sources = <<>> /\ D.kind = "memory"
            \/ /\ ~f.frame.offDomain /\ ~f.frame.memoryOnly
               /\ PlannerMissingSlots(f.frame) # {} => D.kind \in {"followup", "no_place"}
<1>1. /\ f.followup.kind \in {None, "memory", "followup"}
      /\ f.followup.kind = "memory" <=> f.frame.memoryOnly
      /\ f.followup.kind = "followup" <=> ~f.frame.memoryOnly /\ PlannerMissingSlots(f.frame) # {}
  BY FollowupIs DEF KnownFacts
<1>2. f.frame.memoryOnly => Early(f)
  BY DEF Early
<1>3. /\ \A kind, asked : IsReply(Plain(kind, asked))
      /\ \A x, claims, rows : IsReply(With(x, claims, rows))
  BY RepliesAre
<1>4. Listing(f.claims) /\ Listing(f.rows) /\ ApartRows(f.rows)
  BY DEF KnownFacts
<1>5. CASE D = Plain("identity", {}) \/ D = Plain("unavailable", {})
  BY <1>3, <1>5, PlainIs, PlainTells
<1>6. CASE f.frame.offDomain /\ D = Plain("off_domain", {})
  BY <1>3, <1>6, PlainIs, PlainTells
<1>7. CASE ~f.frame.offDomain /\ f.followup.kind # None /\ Early(f) /\ D = Plain(f.followup.kind, f.followup.asked)
  <2>1. /\ D.kind = f.followup.kind /\ D.asked = f.followup.asked /\ D.sources = <<>>
    BY <1>7, PlainIs
  <2>2. f.followup.kind # "tacit_municipality"
    BY <1>1 DEF None
  <2>3. IsReply(D) /\ Tells(D, f.claims, f.rows)
    BY <1>3, <1>7, <2>2, PlainTells
  <2>4. D.kind \in {"memory", "followup"}
    BY <1>1, <1>7, <2>1
  <2> QED
    BY <1>1, <1>7, <2>1, <2>3, <2>4
<1>8. CASE ~f.frame.offDomain /\ (f.followup.kind # None => ~Early(f)) /\ D = With(NoPlace, f.claims, <<>>)
  <2>1. Range(<<>>) = {} /\ Listing(<<>>) /\ ApartRows(<<>>)
    BY DEF Range, Listing, ApartRows
  <2>2. NoPlace.kind = "no_place" /\ NoPlace.cites = {}
    BY DEF NoPlace
  <2>3. Tells(D, f.claims, <<>>)
    BY <1>4, <1>8, <2>1, <2>2, WithTells
  <2>4. D.kind = "no_place" /\ D.asked = {}
    BY <1>8, <2>2, WithHas
  <2>5. Tells(D, f.claims, f.rows)
    BY <2>1, <2>3, <2>4 DEF Tells, ListedSources, LeadsToQuoted, ClaimsQuoted
  <2>6. IsReply(D)
    BY <1>3, <1>8
  <2>7. ~f.frame.memoryOnly
    BY <1>1, <1>2, <1>8 DEF None
  <2> QED
    BY <1>8, <2>4, <2>5, <2>6, <2>7
<1>9. CASE ~f.frame.offDomain /\ f.followup.kind # None /\ ~Early(f) /\ D = Asking(f.frame, f.claims, f.rows)
  <2> DEFINE x == [kind |-> "followup", cites |-> {}]
             w == With(x, f.claims, f.rows)
  <2>1. x.kind = "followup" /\ x.cites = {}
    OBVIOUS
  <2>2. D = [w EXCEPT !.asked = FollowupAnswer(f.frame).asked]
    BY <1>9 DEF Asking
  <2> HIDE DEF x
  <2>3. Tells(w, f.claims, f.rows) /\ w.kind = "followup" /\ IsReply(w)
    <3>1. w.kind = "followup" /\ IsReply(w)
      BY <1>3, <2>1, WithHas
    <3>2. x.kind # "tacit_municipality" /\ x.cites = {}
      BY <2>1
    <3>3. Tells(w, f.claims, f.rows)
      BY <1>4, <3>2, WithTells
    <3> QED
      BY <3>1, <3>3
  <2> HIDE DEF w
  <2>4. /\ D.kind = w.kind /\ D.asked = FollowupAnswer(f.frame).asked /\ D.sources = w.sources
        /\ D.citations = w.citations /\ (D.foreign <=> w.foreign) /\ IsReply(D)
    <3>1. IsReply(w)
      BY <2>3
    <3> QED
      BY <2>2, <3>1, AskedSet
  <2>5. Tells(D, f.claims, f.rows)
    BY <2>3, <2>4 DEF Tells, ListedSources, LeadsToQuoted, ClaimsQuoted
  <2>6. f.followup.asked = FollowupAnswer(f.frame).asked
    BY DEF KnownFacts
  <2> QED
    BY <1>1, <1>2, <1>9, <2>3, <2>4, <2>5, <2>6
<1>10. CASE /\ ~f.frame.offDomain /\ f.followup.kind = None
            /\ \/ D = With(p, f.claims, f.rows) \/ D = With(NoSource, f.claims, f.rows)
               \/ D = With(r, f.claims, f.rows) \/ D = Plain("generate", {})
  <2>1. ~f.frame.memoryOnly /\ PlannerMissingSlots(f.frame) = {}
    BY <1>1, <1>10 DEF None
  <2>2. NoSource.kind = "no_source" /\ NoSource.cites = {}
    BY DEF NoSource
  <2>3. \A x : Stands(x, f.claims, f.rows) => x.kind # "followup" /\ x.kind \notin {"identity", "unavailable"}
    BY DEF Stands, PageAnswer, Practical, Tacit, RuleKinds, None
  <2>4. ASSUME NEW x, x = p \/ x = r \/ x = NoSource
        PROVE  /\ Tells(With(x, f.claims, f.rows), f.claims, f.rows)
               /\ With(x, f.claims, f.rows).asked = {} /\ With(x, f.claims, f.rows).kind = x.kind
               /\ x.kind # "followup" /\ x.kind \notin {"identity", "unavailable"}
    <3>1. Stands(x, f.claims, f.rows) \/ (x.kind = "no_source" /\ x.cites = {})
      <4>1. x = p => Stands(x, f.claims, f.rows)
        OBVIOUS
      <4>2. x = r => Stands(x, f.claims, f.rows)
        OBVIOUS
      <4>3. CASE x = NoSource
        BY <2>2, <4>3
      <4> QED
        BY <2>4, <4>1, <4>2, <4>3
    <3>2. Tells(With(x, f.claims, f.rows), f.claims, f.rows)
      BY <1>4, <3>1, WithTells
    <3>3. With(x, f.claims, f.rows).asked = {} /\ With(x, f.claims, f.rows).kind = x.kind
      BY WithHas
    <3> QED
      BY <2>3, <3>1, <3>2, <3>3
  <2>5. CASE D = Plain("generate", {})
    BY <1>3, <1>10, <2>1, <2>5, PlainIs, PlainTells
  <2>6. CASE \E x : (x = p \/ x = r \/ x = NoSource) /\ D = With(x, f.claims, f.rows)
    <3>1. PICK x : (x = p \/ x = r \/ x = NoSource) /\ D = With(x, f.claims, f.rows)
      BY <2>6
    <3>2. /\ Tells(D, f.claims, f.rows) /\ D.asked = {} /\ D.kind # "followup"
          /\ D.kind \notin {"identity", "unavailable"}
      BY <2>4, <3>1
    <3>3. IsReply(D)
      BY <1>3, <3>1
    <3> QED
      BY <1>10, <2>1, <3>2, <3>3
  <2> QED
    BY <1>10, <2>5, <2>6
<1> QED
  BY <1>5, <1>6, <1>7, <1>8, <1>9, <1>10 DEF Settled

(* A draft that went through the guard, with its decision.                 *)
LEMMA DraftIsSound ==
  ASSUME NEW f, NEW w, IsReply(w), Tells(w, f.claims, f.rows), w.asked = {}, w.kind = "generated",
         NEW foreign, ~foreign, NEW y,
         NEW dec, dec \notin {"partial_answer_plus_followup", "off_domain_light_answer", "ack_memory"},
         y = [w EXCEPT !.foreign = foreign, !.planner = dec]
  PROVE  Sound(y, f)
<1>1. /\ y.planner = dec /\ y.kind = w.kind /\ y.asked = w.asked /\ y.sources = w.sources
      /\ y.citations = w.citations /\ ~y.foreign
  BY DEF IsReply, Fields
<1>2. Tells(y, f.claims, f.rows)
  BY <1>1 DEF Tells, ListedSources, LeadsToQuoted, ClaimsQuoted
<1>3. Planned(y)
  BY <1>1 DEF Planned
<1> QED
  BY <1>1, <1>2, <1>3 DEF Sound

(* What a turn ends with is sound, whatever the model writes.              *)
LEMMA FinishSound ==
  ASSUME NEW f, KnownFacts(f), NEW p, Stands(p, f.claims, f.rows), NEW r, Stands(r, f.claims, f.rows),
         NEW D, Settled(D, f, p, r), NEW d, IsDraft(d)
  PROVE  Sound(Finish(D, f, d), f)
<1> DEFINE dec == f.planner.decision
<1>1. /\ IsReply(D) /\ Tells(D, f.claims, f.rows) /\ D.asked \subseteq f.followup.asked
      /\ D.kind = "followup" => /\ PlannerMissingSlots(f.frame) # {} /\ ~f.frame.offDomain
                                /\ ~f.frame.memoryOnly
      /\ D.kind \in {"identity", "unavailable"} => D.planner = None
      /\ \/ D.kind \in {"identity", "unavailable"}
         \/ f.frame.offDomain /\ D.sources = <<>> /\ D.kind = "off_domain"
         \/ ~f.frame.offDomain /\ f.frame.memoryOnly /\ D.sources = <<>> /\ D.kind = "memory"
         \/ /\ ~f.frame.offDomain /\ ~f.frame.memoryOnly
            /\ PlannerMissingSlots(f.frame) # {} => D.kind \in {"followup", "no_place"}
  BY SettledData
<1>2. dec = PlannerDecision(f.frame)
  BY FollowupIs DEF KnownFacts
<1> HIDE DEF dec
<1>3. CASE D.kind \in {"identity", "unavailable"}
  <2>1. Finish(D, f, d) = D
    BY <1>3 DEF Finish
  <2>2. Planned(D)
    BY <1>1, <1>3 DEF Planned, None
  <2> QED
    BY <1>1, <2>1, <2>2 DEF Sound
<1>4. CASE D.kind = "generate"
  <2> DEFINE g == Generated(d, f.lang, f.claims, f.rows)
             e == Guard(Repaired(d, f.lang), f.lang, f.claims, f.rows)
             w == With(g, f.claims, f.rows)
  <2>1. dec \notin {"partial_answer_plus_followup", "off_domain_light_answer", "ack_memory"}
    BY <1>1, <1>2, <1>4, DecisionIs
  <2>2. CASE d.fails
    <3>1. g.kind = "error"
      BY <2>2 DEF Generated
    <3>2. Finish(D, f, d) = Plain("error", {})
      BY <1>4, <3>1 DEF Finish
    <3>3. Tells(Plain("error", {}), f.claims, f.rows)
      BY PlainTells
    <3>4. Planned(Plain("error", {}))
      BY PlainIs DEF Planned, None
    <3>5. Plain("error", {}).asked = {}
      BY PlainIs
    <3> QED
      BY <3>2, <3>3, <3>4, <3>5 DEF Sound
  <2>3. CASE ~d.fails
    <3>1. g = [kind |-> "generated", cites |-> e.cites, foreign |-> Mismatch(e, f.lang)]
      BY <2>3 DEF Generated
    <3>2. ~Mismatch(e, f.lang)
      BY GuardKeeps
    <3> HIDE DEF e
    <3>3. g.kind = "generated" /\ ~g.foreign
      BY <3>1, <3>2
    <3> HIDE DEF g
    <3>4. Finish(D, f, d) = [w EXCEPT !.foreign = g.foreign, !.planner = dec]
      BY <1>4, <3>3 DEF Finish, g, dec
    <3>5. Tells(w, f.claims, f.rows)
      BY <3>3, WithTells DEF KnownFacts
    <3>6. w.asked = {} /\ w.kind = "generated" /\ IsReply(w)
      BY <3>3, WithHas, RepliesAre
    <3> HIDE DEF w
    <3> QED
      BY <2>1, <3>3, <3>4, <3>5, <3>6, DraftIsSound
  <2> QED
    BY <2>2, <2>3
<1>5. CASE D.kind \notin {"identity", "unavailable", "generate"}
  <2>1. Finish(D, f, d) = [D EXCEPT !.planner = dec]
    BY <1>5 DEF Finish, dec
  <2>2. /\ D.kind = "followup" => dec = "partial_answer_plus_followup"
        /\ dec = "partial_answer_plus_followup" => D.kind \in {"followup", "no_place"}
        /\ dec \in {"off_domain_light_answer", "ack_memory"} => D.sources = <<>>
    BY <1>1, <1>2, <1>5, DecisionIs
  <2> QED
    BY <1>1, <2>1, <2>2, DecidedIsSound
<1> QED
  BY <1>3, <1>4, <1>5

(* What a filter keeps of a list.                                          *)
LEMMA KeptOf ==
  ASSUME NEW s, Listing(s), NEW K, K \subseteq DOMAIN s
  PROVE  /\ Listing(Picked(s, K))
         /\ \A x \in Range(Picked(s, K)) : x \in Range(s) /\ \E i \in K : s[i] = x
         /\ \A i \in K : s[i] \in Range(Picked(s, K))
         /\ K = DOMAIN s => Picked(s, K) = s
<1> DEFINE y == Picked(s, K)
<1>1. s \in Seq(Range(s)) /\ DOMAIN s = 1 .. Len(s) /\ Len(s) \in Nat
  BY ListingHas DEF Listing
<1>2. y \in Seq(Range(s)) /\ \E pos : PlacesOf(pos, y, s, K \cap (1 .. Len(s)))
  BY <1>1, PickedPlaces
<1>3. K \cap (1 .. Len(s)) = K
  BY <1>1
<1>4. PICK pos : PlacesOf(pos, y, s, K)
  BY <1>2, <1>3
<1>5. K = DOMAIN s => y = s
  BY <1>1, PickedAll
<1> HIDE DEF y
<1>6. /\ Len(y) \in Nat /\ DOMAIN y = 1 .. Len(y) /\ \A i \in 1 .. Len(y) : pos[i] \in K /\ y[i] = s[pos[i]]
      /\ \A k \in K : \E i \in 1 .. Len(y) : pos[i] = k
  <2>1. Len(y) \in Nat /\ DOMAIN y = 1 .. Len(y)
    BY <1>2
  <2>2. pos \in [1 .. Len(y) -> K]
    BY <1>4 DEF PlacesOf
  <2>3. \A i \in 1 .. Len(y) : pos[i] \in K
    BY <2>2
  <2>4. \A i \in 1 .. Len(y) : y[i] = s[pos[i]]
    BY <1>4 DEF PlacesOf
  <2>5. \A k \in K : \E i \in 1 .. Len(y) : pos[i] = k
    BY <1>4 DEF PlacesOf
  <2> QED
    BY <2>1, <2>3, <2>4, <2>5
<1>7. \A x \in Range(y) : x \in Range(s) /\ \E i \in K : s[i] = x
  BY <1>1, <1>6 DEF Range
<1>8. \A i \in K : s[i] \in Range(y)
  BY <1>6 DEF Range
<1>9. Listing(y)
  <2>1. \A i \in 1 .. Len(y) : y[i] \in Range(y)
    BY <1>6 DEF Range
  <2> QED
    BY <1>2, <2>1 DEF Listing
<1>10. /\ Listing(y)
       /\ \A x \in Range(y) : x \in Range(s) /\ \E i \in K : s[i] = x
       /\ \A i \in K : s[i] \in Range(y)
       /\ K = DOMAIN s => y = s
  BY <1>5, <1>7, <1>8, <1>9
<1> QED
  BY <1>10 DEF y

(* What a turn knows of a search: lists without repeats, kept apart.       *)
Searched(r) ==
  /\ Listing(r.claims) /\ Listing(r.rows) /\ ApartRows(r.rows)
  /\ \A i \in DOMAIN r.claims : r.claims[i].rank = i /\ r.claims[i].id # None
  /\ \A i, j \in DOMAIN r.claims : r.claims[i].id = r.claims[j].id => i = j
  /\ \A a \in Range(r.rows), c \in Range(r.claims) : a.id # c.id

Abroad(x, frame) == IsLocalHost(x.host) => x.host \in AllowedLocal(frame)

(* A host of a place that is allowed is one of the allowed.                *)
LEMMA AllowedAre ==
  ASSUME NEW frame, NEW host, HostMatches(host, AllowedLocal(frame)),
         "moha.gov.np" \notin AllowedLocal(frame)
  PROVE  host \in AllowedLocal(frame)
  BY DEF HostMatches

(* The filters keep lists, drop what is of other places and, when nothing  *)
(* was dropped, leave the claims as the search numbered them.              *)
LEMMA FilteredAre ==
  ASSUME NEW r, Searched(r), NEW frame, "moha.gov.np" \notin AllowedLocal(frame),
         NEW claims, claims = FilterTacitResults(frame, r.claims),
         NEW rows, rows = FilterGovResults(frame, r.rows)
  PROVE  /\ Listing(claims) /\ Listing(rows) /\ ApartRows(rows)
         /\ Range(claims) \subseteq Range(r.claims) /\ Range(rows) \subseteq Range(r.rows)
         /\ AllowedLocal(frame) # {} => \A x \in Range(claims) \cup Range(rows) : Abroad(x, frame)
         /\ Range(r.claims) \subseteq Range(claims) => claims = r.claims
<1> DEFINE I == {i \in DOMAIN r.claims :
                   IsLocalHost(r.claims[i].host) => HostMatches(r.claims[i].host, AllowedLocal(frame))}
           J == {i \in DOMAIN r.rows :
                   \/ HostMatches(r.rows[i].host, AllowedLocal(frame))
                   \/ frame.action # "contact" /\ ~IsLocalHost(r.rows[i].host)}
<1>1. Listing(r.claims) /\ Listing(r.rows) /\ ApartRows(r.rows)
  BY DEF Searched
<1>2. I \subseteq DOMAIN r.claims /\ J \subseteq DOMAIN r.rows
  OBVIOUS
<1>3. /\ \A i \in I : Abroad(r.claims[i], frame)
      /\ \A i \in J : Abroad(r.rows[i], frame)
  BY AllowedAre DEF Abroad
<1>4. CASE AllowedLocal(frame) = {}
  BY <1>1, <1>4 DEF FilterTacitResults, FilterGovResults
<1>5. CASE AllowedLocal(frame) # {}
  <2>1. claims = Picked(r.claims, I) /\ rows = Picked(r.rows, J)
    BY <1>5 DEF FilterTacitResults, FilterGovResults
  <2> HIDE DEF I, J
  <2>2. /\ Listing(claims) /\ \A x \in Range(claims) : x \in Range(r.claims) /\ \E i \in I : r.claims[i] = x
        /\ I = DOMAIN r.claims => claims = r.claims
    BY <1>1, <1>2, <2>1, KeptOf
  <2>3. Listing(rows) /\ \A x \in Range(rows) : x \in Range(r.rows) /\ \E i \in J : r.rows[i] = x
    BY <1>1, <1>2, <2>1, KeptOf
  <2>4. ApartRows(rows)
    BY <1>1, <2>3 DEF ApartRows
  <2>5. \A x \in Range(claims) \cup Range(rows) : Abroad(x, frame)
    BY <1>3, <2>2, <2>3
  <2>6. ASSUME Range(r.claims) \subseteq Range(claims) PROVE claims = r.claims
    <3>1. ASSUME NEW i \in DOMAIN r.claims PROVE i \in I
      <4>1. r.claims[i] \in Range(claims)
        BY <2>6, <3>1 DEF Range
      <4>2. PICK j \in I : r.claims[j] = r.claims[i]
        BY <2>2, <4>1
      <4>3. i = j
        BY <1>2, <4>2 DEF Searched
      <4> QED
        BY <4>3
    <3>2. I = DOMAIN r.claims
      BY <1>2, <3>1
    <3> QED
      BY <2>2, <3>2
  <2> QED
    BY <2>2, <2>3, <2>4, <2>5, <2>6
<1> QED
  BY <1>4, <1>5

(* The first entry of an order that a text has.                            *)
LEMMA FirstPlaces ==
  ASSUME NEW t
  PROVE  /\ MunicipalityFromText(t) \in {None} \cup (Range(Municipalities) \cap t)
         /\ MunicipalityFromText(t) = None <=> Range(Municipalities) \cap t = {}
         /\ DistrictFromText(t) \in {None} \cup (Range(Districts) \cap t)
         /\ DistrictFromText(t) = None <=> Range(Districts) \cap t = {}
<1> DEFINE I == {i \in 1 .. Len(Municipalities) : Municipalities[i] \in t}
           J == {i \in 1 .. Len(Districts) : Districts[i] \in t}
<1>1. /\ Len(Municipalities) = 3 /\ Len(Districts) = 3
      /\ Municipalities[1] = "jiri" /\ Municipalities[2] = "khandbari" /\ Municipalities[3] = "dharmadevi"
      /\ Districts[1] = "dolakha" /\ Districts[2] = "sankhuwasabha" /\ Districts[3] = "tanahu"
  BY DEF Municipalities, Districts
<1>2. /\ Range(Municipalities) = {"jiri", "khandbari", "dharmadevi"}
      /\ Range(Districts) = {"dolakha", "sankhuwasabha", "tanahu"}
  BY DEF Municipalities, Districts, Range
<1>3. /\ I \subseteq 1 .. 3 /\ J \subseteq 1 .. 3
      /\ \A i \in 1 .. 3 : /\ Municipalities[i] # None /\ Districts[i] # None
                           /\ Municipalities[i] \in Range(Municipalities)
                           /\ Districts[i] \in Range(Districts)
      /\ \A i \in I : Municipalities[i] \in t
      /\ \A i \in J : Districts[i] \in t
      /\ I = {} <=> Range(Municipalities) \cap t = {}
      /\ J = {} <=> Range(Districts) \cap t = {}
  <2>1. I \subseteq 1 .. 3 /\ J \subseteq 1 .. 3
    BY <1>1
  <2>2. ASSUME NEW i \in 1 .. 3
        PROVE  /\ Municipalities[i] # None /\ Districts[i] # None
               /\ Municipalities[i] \in Range(Municipalities)
               /\ Districts[i] \in Range(Districts)
    <3>1. i = 1 \/ i = 2 \/ i = 3
      OBVIOUS
    <3> QED
      BY <1>1, <1>2, <3>1 DEF None
  <2>3. I = {} <=> Range(Municipalities) \cap t = {}
    BY <1>1, <1>2
  <2>4. J = {} <=> Range(Districts) \cap t = {}
    BY <1>1, <1>2
  <2> QED
    BY <2>1, <2>2, <2>3, <2>4
<1>4. MunicipalityFromText(t) = LET i == IF I # {} THEN Min(I) ELSE 0
                                IN  IF i = 0 THEN None ELSE Municipalities[i]
  BY DEF MunicipalityFromText, First, SelectInSeq
<1>5. DistrictFromText(t) = LET i == IF J # {} THEN Min(J) ELSE 0
                            IN  IF i = 0 THEN None ELSE Districts[i]
  BY DEF DistrictFromText, First, SelectInSeq
<1> HIDE DEF I, J
<1>6. I # {} => Min(I) \in I /\ Min(I) # 0
  <2>1. I \subseteq Nat
    BY <1>3
  <2>2. I # {} => Min(I) \in I
    BY <2>1, LeastPlace
  <2> QED
    BY <1>3, <2>2
<1>7. J # {} => Min(J) \in J /\ Min(J) # 0
  <2>1. J \subseteq Nat
    BY <1>3
  <2>2. J # {} => Min(J) \in J
    BY <2>1, LeastPlace
  <2> QED
    BY <1>3, <2>2
<1>8. /\ MunicipalityFromText(t) \in {None} \cup (Range(Municipalities) \cap t)
      /\ MunicipalityFromText(t) = None <=> Range(Municipalities) \cap t = {}
  BY <1>3, <1>4, <1>6
<1>9. /\ DistrictFromText(t) \in {None} \cup (Range(Districts) \cap t)
      /\ DistrictFromText(t) = None <=> Range(Districts) \cap t = {}
  BY <1>3, <1>5, <1>7
<1> QED
  BY <1>8, <1>9

(* The places of a frame are those of the text it was resolved from.       *)
LEMMA DetectedPlaces ==
  ASSUME NEW q, NEW past0, NEW both, q \subseteq both
  PROVE  LET d == Detected(q, past0, both)
         IN  /\ d.municipality \in {None} \cup (Range(Municipalities) \cap both)
             /\ d.municipality = None <=> Range(Municipalities) \cap both = {}
             /\ \/ d.district \in Range(Districts) \cap both
                \/ d.municipality # None /\ d.district = MunicipalityDistrict[d.municipality]
                \/ d.municipality = None /\ d.district = None
             /\ Range(Districts) \cap both # {} => d.district # None
             /\ d.municipality = None => MunicipalityFromText(q) = None
             /\ d.district = None => DistrictFromText(q) = None
             /\ d.ward = None => WardFromText(q) = None
<1> DEFINE d == Detected(q, past0, both)
<1>1. /\ d.municipality = Or(MunicipalityFromText(q), MunicipalityFromText(both))
      /\ d.district = Or(Or(DistrictFromText(q), DistrictFromText(both)),
                         MunicipalityDistrict[d.municipality])
      /\ d.ward = Or(WardFromText(q), WardFromText(both))
  BY DEF Detected
<1>2. MunicipalityDistrict[None] = None
  BY DEF MunicipalityDistrict, None
<1> HIDE DEF d
<1>3. /\ d.municipality \in {None} \cup (Range(Municipalities) \cap both)
      /\ d.municipality = None <=> Range(Municipalities) \cap both = {}
      /\ d.municipality = None => MunicipalityFromText(q) = None
  BY <1>1, FirstPlaces DEF Or
<1>4. /\ \/ d.district \in Range(Districts) \cap both
         \/ d.municipality # None /\ d.district = MunicipalityDistrict[d.municipality]
         \/ d.municipality = None /\ d.district = None
      /\ Range(Districts) \cap both # {} => d.district # None
      /\ d.district = None => DistrictFromText(q) = None
  BY <1>1, <1>2, FirstPlaces DEF Or
<1>5. d.ward = None => WardFromText(q) = None
  BY <1>1 DEF Or
<1> QED
  BY <1>3, <1>4, <1>5 DEF d

(* The case types a text has words for.                                    *)
LEMMA CaseTypeIs ==
  ASSUME NEW t
  PROVE  DetectCaseType("citizenship", t) = None
           <=> \A i \in 1 .. 4 : ~ContainsAny(t, CITIZENSHIP_CASE_ALIASES[CaseTypes[i]])
<1> DEFINE I == {i \in 1 .. Len(CaseTypes) : ContainsAny(t, CITIZENSHIP_CASE_ALIASES[CaseTypes[i]])}
<1>1. /\ Len(CaseTypes) = 4 /\ CaseTypes[1] = "first_time" /\ CaseTypes[2] = "duplicate_lost"
      /\ CaseTypes[3] = "correction" /\ CaseTypes[4] = "minor"
  BY DEF CaseTypes
<1>2. ASSUME NEW i \in 1 .. 4 PROVE CaseTypes[i] # None
  <2>1. i = 1 \/ i = 2 \/ i = 3 \/ i = 4
    OBVIOUS
  <2> QED
    BY <1>1, <2>1 DEF None
<1>3. DetectCaseType("citizenship", t) = LET i == IF I # {} THEN Min(I) ELSE 0
                                         IN  IF i = 0 THEN None ELSE CaseTypes[i]
  BY DEF DetectCaseType, First, SelectInSeq
<1>4. /\ I \subseteq 1 .. 4
      /\ I = {} <=> \A i \in 1 .. 4 : ~ContainsAny(t, CITIZENSHIP_CASE_ALIASES[CaseTypes[i]])
  BY <1>1
<1> HIDE DEF I
<1>5. I # {} => Min(I) \in I /\ Min(I) # 0
  <2>1. I \subseteq Nat
    BY <1>4
  <2>2. I # {} => Min(I) \in I
    BY <2>1, LeastPlace
  <2> QED
    BY <1>4, <2>2
<1>6. I # {} => DetectCaseType("citizenship", t) # None
  BY <1>2, <1>3, <1>4, <1>5
<1>7. I = {} => DetectCaseType("citizenship", t) = None
  BY <1>3
<1> QED
  BY <1>4, <1>6, <1>7

(* A text without a case type has no part with one.                        *)
LEMMA LessIsTold ==
  ASSUME NEW q, NEW both, q \subseteq both, DetectCaseType("citizenship", both) = None
  PROVE  DetectCaseType("citizenship", q) = None
  BY CaseTypeIs DEF ContainsAny

(* The frame of a turn: its places, and what it says of service and case.  *)
FrameSays(g, question, d) ==
  /\ DOMAIN g = {"service", "action", "caseType", "office", "district", "municipality", "ward",
                 "resolved", "expected", "offDomain", "contextual", "memoryOnly"}
  /\ g.municipality = d.municipality /\ g.district = d.district /\ g.ward = d.ward
  /\ g.service = None => DetectService(question.words) \in {None, "municipality_service"}
  /\ g.service = "citizenship" /\ g.caseType = None
       => DetectCaseType("citizenship", question.words) = None

(* A place told in answer keeps the service of the turns before.           *)
LEMMA ContextualSays ==
  ASSUME NEW question, NEW past0, NEW both, question.words \subseteq both, NEW d,
         d.before \notin {None, "municipality_service"}, d.asked \in {None, "municipality_service"},
         d.asked = DetectService(question.words)
  PROVE  FrameSays(ContextualFrame(question, past0, both, d), question, d)
<1> DEFINE action == Or(DetectAction(past0), DetectAction(both))
           office == Or(DetectOffice(past0), d.office)
           service == ServiceAsked(d.before, action, d, office)
           caseType == CaseTypeOf(d.before, past0, both)
<1>1. ContextualFrame(question, past0, both, d)
        = FrameOf(question, both, d, service, action, caseType, office, TRUE)
  BY DEF ContextualFrame
<1>2. service = d.before
  BY DEF ServiceAsked
<1>3. service = "citizenship" /\ caseType = None => DetectCaseType("citizenship", question.words) = None
  BY <1>2, LessIsTold DEF CaseTypeOf, Or
<1> HIDE DEF service, caseType, action, office
<1> DEFINE g == ContextualFrame(question, past0, both, d)
<1>4. /\ DOMAIN g = {"service", "action", "caseType", "office", "district", "municipality", "ward",
                     "resolved", "expected", "offDomain", "contextual", "memoryOnly"}
      /\ g.municipality = d.municipality /\ g.district = d.district /\ g.ward = d.ward
      /\ g.service = service /\ g.caseType = caseType
  BY <1>1 DEF FrameOf
<1> HIDE DEF g
<1>5. FrameSays(g, question, d)
  BY <1>2, <1>3, <1>4 DEF FrameSays
<1> QED
  BY <1>5 DEF g

(* Any other question has the service it names, or of what was said.       *)
LEMMA DirectSays ==
  ASSUME NEW question, NEW both, NEW d, NEW generic,
         d.service = Or(DetectService(question.words), DetectService(both))
  PROVE  FrameSays(DirectFrame(question, both, d, generic), question, d)
<1> DEFINE intake == generic /\ d.service \in {None, "municipality_service"}
           s0 == IF intake THEN None ELSE d.service
           action == IF intake THEN None ELSE d.action
           service == ServiceAsked(s0, action, d, d.office)
           caseType == CaseTypeOf(s0, question.words, both)
<1>1. DirectFrame(question, both, d, generic)
        = FrameOf(question, both, d, service, action, caseType, d.office, FALSE)
  BY DEF DirectFrame
<1>2. service = None => s0 = None
  BY DEF ServiceAsked
<1>3. s0 = None => DetectService(question.words) \in {None, "municipality_service"}
  BY DEF Or
<1>4. service = "citizenship" => s0 = "citizenship"
  BY DEF ServiceAsked, None
<1>5. s0 = "citizenship" /\ caseType = None => DetectCaseType("citizenship", question.words) = None
  BY DEF CaseTypeOf, Or
<1> HIDE DEF service, caseType, action, s0
<1> DEFINE g == DirectFrame(question, both, d, generic)
<1>6. /\ DOMAIN g = {"service", "action", "caseType", "office", "district", "municipality", "ward",
                     "resolved", "expected", "offDomain", "contextual", "memoryOnly"}
      /\ g.municipality = d.municipality /\ g.district = d.district /\ g.ward = d.ward
      /\ g.service = service /\ g.caseType = caseType
  BY <1>1 DEF FrameOf
<1> HIDE DEF g
<1>7. FrameSays(g, question, d)
  BY <1>2, <1>3, <1>4, <1>5, <1>6 DEF FrameSays
<1> QED
  BY <1>7 DEF g

(* resolve_case as a whole.                                                *)
LEMMA ResolvedSays ==
  ASSUME NEW question, NEW history
  PROVE  LET both == HistoryText(history) \cup question.words
             d == Detected(question.words, HistoryText(history), both)
         IN  \E g : /\ FrameSays(g, question, d)
                    /\ ResolveCase(question, history) = WithMissing(g, question)
<1> DEFINE past0 == HistoryText(history)
           both == past0 \cup question.words
           d == Detected(question.words, past0, both)
<1>1. ResolveCase(question, history) = CaseOf(question, past0, both, d)
  BY DEF ResolveCase
<1>2. /\ d.asked = DetectService(question.words)
      /\ d.service = Or(DetectService(question.words), DetectService(both))
  BY DEF Detected
<1>3. question.words \subseteq both
  OBVIOUS
<1> HIDE DEF d, both, past0
<1>4. CASE Contextual(question, d)
  <2>1. d.before \notin {None, "municipality_service"} /\ d.asked \in {None, "municipality_service"}
    BY <1>4 DEF Contextual
  <2>2. FrameSays(ContextualFrame(question, past0, both, d), question, d)
    BY <1>2, <1>3, <2>1, ContextualSays
  <2>3. ResolveCase(question, history) = WithMissing(ContextualFrame(question, past0, both, d), question)
    BY <1>1, <1>4 DEF CaseOf
  <2> QED
    BY <2>2, <2>3 DEF d, both, past0
<1>5. CASE ~Contextual(question, d)
  <2> DEFINE g == DirectFrame(question, both, d, IsGenericIntakeRequest(question.words))
  <2>1. FrameSays(g, question, d)
    BY <1>2, DirectSays
  <2>2. ResolveCase(question, history) = WithMissing(g, question)
    BY <1>1, <1>5 DEF CaseOf
  <2> QED
    BY <2>1, <2>2 DEF d, both, past0
<1> QED
  BY <1>4, <1>5

(* What a frame still misses has not been said.                            *)
LEMMA MissingIs ==
  ASSUME NEW g, NEW question, NEW d, FrameSays(g, question, d),
         NEW frame, frame = WithMissing(g, question)
  PROVE  /\ frame.municipality = d.municipality /\ frame.district = d.district /\ frame.ward = d.ward
         /\ "service" \in frame.missing => DetectService(question.words) \in {None, "municipality_service"}
         /\ "municipality_or_district" \in frame.missing => d.district = None /\ d.municipality = None
         /\ "municipality_or_ward" \in frame.missing => d.municipality = None /\ d.ward = None
         /\ "citizenship_case_type" \in frame.missing => DetectCaseType("citizenship", question.words) = None
<1> DEFINE M == MissingSlots(g, IsGenericIntakeRequest(question.words), question)
<1>1. /\ g.municipality = d.municipality /\ g.district = d.district /\ g.ward = d.ward
      /\ g.service = None => DetectService(question.words) \in {None, "municipality_service"}
      /\ g.service = "citizenship" /\ g.caseType = None
           => DetectCaseType("citizenship", question.words) = None
  BY DEF FrameSays
<1>2. /\ frame.municipality = g.municipality /\ frame.district = g.district /\ frame.ward = g.ward
      /\ frame.missing = M
  BY DEF WithMissing, FrameSays
<1>3. /\ "service" \in M => g.service = None
      /\ "municipality_or_district" \in M => g.district = None /\ g.municipality = None
      /\ "municipality_or_ward" \in M => g.municipality = None /\ g.ward = None
      /\ "citizenship_case_type" \in M => g.service = "citizenship" /\ g.caseType = None
  <2>1. "service" \in M => g.service = None
    BY DEF MissingSlots
  <2>2. "municipality_or_district" \in M => g.district = None /\ g.municipality = None
    BY DEF MissingSlots
  <2>3. "municipality_or_ward" \in M => g.municipality = None /\ g.ward = None
    BY DEF MissingSlots
  <2>4. "citizenship_case_type" \in M => g.service = "citizenship" /\ g.caseType = None
    BY DEF MissingSlots
  <2> QED
    BY <2>1, <2>2, <2>3, <2>4
<1> HIDE DEF M
<1> QED
  BY <1>1, <1>2, <1>3

(* No slot that the message fills is asked for.                            *)
LEMMA NotAskedAgain ==
  ASSUME NEW question, NEW history, NEW frame, frame = ResolveCase(question, history),
         NEW s \in PlannerMissingSlots(frame)
  PROVE  ~Says(question.words, s)
<1> DEFINE past0 == HistoryText(history)
           both == past0 \cup question.words
           d == Detected(question.words, past0, both)
           q == question.words
<1>1. PICK g : FrameSays(g, question, d) /\ frame = WithMissing(g, question)
  BY ResolvedSays
<1>2. /\ frame.municipality = d.municipality /\ frame.district = d.district /\ frame.ward = d.ward
      /\ "service" \in frame.missing => DetectService(q) \in {None, "municipality_service"}
      /\ "municipality_or_district" \in frame.missing => d.district = None /\ d.municipality = None
      /\ "municipality_or_ward" \in frame.missing => d.municipality = None /\ d.ward = None
      /\ "citizenship_case_type" \in frame.missing => DetectCaseType("citizenship", q) = None
  BY <1>1, MissingIs
<1>3. /\ d.municipality = None => MunicipalityFromText(q) = None
      /\ d.district = None => DistrictFromText(q) = None
      /\ d.ward = None => WardFromText(q) = None
  BY DetectedPlaces
<1> HIDE DEF d, both, past0
<1>4. s \in frame.missing \/ s \in ExtraMissingSlots(frame)
  BY DEF PlannerMissingSlots
<1>5. s \in ExtraMissingSlots(frame) =>
        \/ s = "applicant_age_or_minor_context"
        \/ s = "municipality_or_district" /\ {frame.district, frame.municipality, frame.ward} = {None}
  BY DEF ExtraMissingSlots, HasLocation
<1>6. CASE s = "service"
  BY <1>2, <1>4, <1>5, <1>6 DEF Says
<1>7. CASE s = "municipality_or_district"
  <2>1. d.district = None /\ d.municipality = None
    BY <1>2, <1>4, <1>5, <1>7
  <2>2. DistrictFromText(q) = None /\ MunicipalityFromText(q) = None
    BY <1>3, <2>1
  <2> QED
    BY <1>7, <2>2 DEF Says
<1>8. CASE s = "municipality_or_ward"
  <2>1. d.municipality = None /\ d.ward = None
    BY <1>2, <1>4, <1>5, <1>8
  <2>2. MunicipalityFromText(q) = None /\ WardFromText(q) = None
    BY <1>3, <2>1
  <2> QED
    BY <1>8, <2>2 DEF Says
<1>9. CASE s = "citizenship_case_type"
  BY <1>2, <1>4, <1>5, <1>9 DEF Says
<1>10. CASE s \notin {"service", "municipality_or_district", "municipality_or_ward", "citizenship_case_type"}
  BY <1>10 DEF Says
<1> QED
  BY <1>6, <1>7, <1>8, <1>9, <1>10

(* The places of the tables and their hosts.                               *)
LEMMA HostsAre ==
  /\ \A m \in Range(Municipalities) :
       /\ MunicipalityDomain[m] \notin {None, "moha.gov.np"}
       /\ MunicipalityDistrict[m] \in Range(Districts)
  /\ \A d \in Range(Districts) : DaoDomain[d] \notin {None, "moha.gov.np"}
  /\ MunicipalityDomain[None] = None /\ DaoDomain[None] = None
<1>1. /\ Range(Municipalities) = {"jiri", "khandbari", "dharmadevi"}
      /\ Range(Districts) = {"dolakha", "sankhuwasabha", "tanahu"}
  BY DEF Municipalities, Districts, Range
<1>2. /\ MunicipalityDomain["jiri"] = "jirimun.gov.np"
      /\ MunicipalityDomain["khandbari"] = "khandbarimun.gov.np"
      /\ MunicipalityDomain["dharmadevi"] = "dharmadevimun.gov.np"
      /\ MunicipalityDomain["none"] = "none"
  BY DEF MunicipalityDomain, None
<1>3. /\ MunicipalityDistrict["jiri"] = "dolakha"
      /\ MunicipalityDistrict["khandbari"] = "sankhuwasabha"
      /\ MunicipalityDistrict["dharmadevi"] = "sankhuwasabha"
  BY DEF MunicipalityDistrict
<1>4. /\ DaoDomain["dolakha"] = "daodolakha.moha.gov.np"
      /\ DaoDomain["sankhuwasabha"] = "daosankhuwasabha.moha.gov.np"
      /\ DaoDomain["tanahu"] = "daotanahu.moha.gov.np"
      /\ DaoDomain["none"] = "none"
  BY DEF DaoDomain, None
<1> QED
  BY <1>1, <1>2, <1>3, <1>4 DEF None

(* The local hosts of a frame are those of the places in its turns.        *)
LEMMA AllowedFor ==
  ASSUME NEW question, NEW history, NEW frame, frame = ResolveCase(question, history),
         NEW text, text = HistoryText(history) \cup question.words
  PROVE  /\ AllowedLocal(frame) \subseteq HostsOf(text)
         /\ HostsOf(text) # {} => AllowedLocal(frame) # {}
         /\ "moha.gov.np" \notin AllowedLocal(frame)
<1> DEFINE d == Detected(question.words, HistoryText(history), text)
           munis == {m \in Range(Municipalities) : m \in text}
           districts == {x \in Range(Districts) : x \in text} \cup {MunicipalityDistrict[m] : m \in munis}
<1>1. PICK g : FrameSays(g, question, d) /\ frame = WithMissing(g, question)
  BY ResolvedSays
<1>2. frame.municipality = d.municipality /\ frame.district = d.district
  BY <1>1, MissingIs
<1>3. /\ d.municipality \in {None} \cup (Range(Municipalities) \cap text)
      /\ d.municipality = None <=> Range(Municipalities) \cap text = {}
      /\ \/ d.district \in Range(Districts) \cap text
         \/ d.municipality # None /\ d.district = MunicipalityDistrict[d.municipality]
         \/ d.municipality = None /\ d.district = None
      /\ Range(Districts) \cap text # {} => d.district # None
  BY DetectedPlaces
<1> HIDE DEF d
<1>4. HostsOf(text) = {MunicipalityDomain[m] : m \in munis} \cup {DaoDomain[x] : x \in districts}
  BY DEF HostsOf
<1>5. /\ \A m : m \in munis <=> m \in Range(Municipalities) \cap text
      /\ \A x : x \in Range(Districts) \cap text => x \in districts
      /\ \A m \in munis : MunicipalityDistrict[m] \in districts
      /\ munis = {} => \A x \in districts : x \in Range(Districts) \cap text
  OBVIOUS
<1>6. AllowedLocal(frame) = ({MunicipalityDomain[frame.municipality], DaoDomain[frame.district]}) \ {None}
  BY DEF AllowedLocal, LocalDomains
<1> HIDE DEF munis, districts
<1>7. d.municipality # None => d.municipality \in munis
  BY <1>3, <1>5
<1>8. d.district # None => d.district \in districts /\ d.district \in Range(Districts)
  BY <1>3, <1>5, <1>7, HostsAre
<1>9. AllowedLocal(frame) \subseteq HostsOf(text)
  BY <1>2, <1>4, <1>6, <1>7, <1>8, HostsAre
<1>10. ASSUME HostsOf(text) # {} PROVE AllowedLocal(frame) # {}
  <2>1. munis # {} \/ districts # {}
    BY <1>4, <1>10
  <2>2. CASE d.municipality # None
    BY <1>2, <1>3, <1>6, <2>2, HostsAre
  <2>3. CASE d.municipality = None
    <3>1. munis = {}
      BY <1>3, <1>5, <2>3
    <3>2. d.district # None
      BY <1>3, <1>5, <2>1, <3>1
    <3> QED
      BY <1>2, <1>6, <1>8, <3>2, HostsAre
  <2> QED
    BY <2>2, <2>3
<1>11. "moha.gov.np" \notin AllowedLocal(frame)
  <2>1. MunicipalityDomain[frame.municipality] # "moha.gov.np"
    BY <1>2, <1>3, HostsAre DEF None
  <2>2. DaoDomain[frame.district] # "moha.gov.np"
    BY <1>2, <1>8, HostsAre DEF None
  <2> QED
    BY <1>6, <2>1, <2>2
<1> QED
  BY <1>9, <1>10, <1>11

(* The beginning of a list.                                                *)
LEMMA StartOf ==
  ASSUME NEW S, NEW s \in Seq(S), NEW m \in Nat, m <= Len(s)
  PROVE  /\ SubSeq(s, 1, m) \in Seq(S) /\ DOMAIN SubSeq(s, 1, m) = 1 .. m
         /\ \A i \in 1 .. m : SubSeq(s, 1, m)[i] = s[i]
<1>1. Len(SubSeq(s, 1, m)) = m
  OBVIOUS
<1>2. \A i \in 1 .. m : SubSeq(s, 1, m)[i] = s[i]
  OBVIOUS
<1>3. \A i \in 1 .. m : SubSeq(s, 1, m)[i] \in S
  BY <1>2
<1>4. DOMAIN SubSeq(s, 1, m) = 1 .. m
  BY <1>1
<1>5. SubSeq(s, 1, m) \in Seq(S)
  OBVIOUS
<1> QED
  BY <1>2, <1>4, <1>5

(* The turns that count are the same whether or not the client has sent    *)
(* the question along.                                                     *)
LEMMA TurnText ==
  ASSUME NEW history, Listing(history), NEW bare, NEW msg
  PROVE  HistoryText(HistoryWithoutCurrentTurn(history, bare, msg)) \cup msg.words
           = HistoryText(history) \cup msg.words
<1>1. CASE ~(bare /\ history # <<>> /\ Last(history) = msg)
  BY <1>1 DEF HistoryWithoutCurrentTurn
<1>2. CASE bare /\ history # <<>> /\ Last(history) = msg
  <2> DEFINE n == Len(history)
             short == Front(history)
  <2>1. n \in Nat /\ n > 0 /\ history[n] = msg /\ history \in Seq(Range(history))
    BY <1>2, ListingHas DEF Last, Listing
  <2>2. short = SubSeq(history, 1, n - 1)
    BY DEF Front
  <2>3. DOMAIN short = 1 .. n - 1 /\ \A i \in 1 .. n - 1 : short[i] = history[i]
    <3> DEFINE m == n - 1
    <3>1. m \in Nat /\ m <= Len(history)
      BY <2>1
    <3>2. short = SubSeq(history, 1, m)
      BY <2>2
    <3> HIDE DEF m, short
    <3>3. DOMAIN short = 1 .. m /\ \A i \in 1 .. m : short[i] = history[i]
      BY <2>1, <3>1, <3>2, StartOf
    <3> QED
      BY <3>3 DEF m
  <2>4. DOMAIN history = 1 .. n
    BY <2>1
  <2> HIDE DEF short, n
  <2>5. Range(history) = Range(short) \cup {msg}
    <3>1. \A i \in 1 .. n : i = n \/ i \in 1 .. n - 1
      BY <2>1
    <3>2. 1 .. n - 1 \subseteq 1 .. n /\ n \in 1 .. n
      BY <2>1
    <3> QED
      BY <2>1, <2>3, <2>4, <3>1, <3>2 DEF Range
  <2>6. HistoryText(history) = HistoryText(short) \cup msg.words
    BY <2>5 DEF HistoryText
  <2>7. HistoryWithoutCurrentTurn(history, bare, msg) = short
    BY <1>2 DEF HistoryWithoutCurrentTurn, short
  <2> QED
    BY <2>6, <2>7
<1> QED
  BY <1>1, <1>2

(* What both endpoints know once the searches are back.                    *)
LEMMA FactsAre ==
  ASSUME NEW msg, NEW h, NEW c, c = CaseAfter(msg, h), NEW r, Searched(r), NEW f, f = Facts(c, r)
  PROVE  /\ f.frame = ResolveCase(msg, h)
         /\ f.claims = FilterTacitResults(f.frame, r.claims)
         /\ f.rows = FilterGovResults(f.frame, r.rows)
         /\ KnownFacts(f)
<1> DEFINE frame == ResolveCase(msg, h)
           text == HistoryText(h) \cup msg.words
<1>1. c.frame = frame /\ c.followup = FollowupAnswer(frame) /\ c.planner = PlannerContract(frame)
  BY DEF CaseAfter, InFrame, Understood
<1>2. /\ f.frame = c.frame /\ f.followup = c.followup /\ f.planner = c.planner
      /\ f.claims = FilterTacitResults(c.frame, r.claims)
      /\ f.rows = FilterGovResults(c.frame, r.rows)
  BY DEF Facts, FactsOver
<1>3. "moha.gov.np" \notin AllowedLocal(frame)
  BY AllowedFor
<1> HIDE DEF frame
<1>4. Listing(f.claims) /\ Listing(f.rows) /\ ApartRows(f.rows)
  BY <1>1, <1>2, <1>3, FilteredAre
<1>5. KnownFacts(f)
  BY <1>1, <1>2, <1>4 DEF KnownFacts
<1> QED
  BY <1>1, <1>2, <1>5 DEF frame

(* A turn, whichever endpoint serves it.                                   *)
LEMMA ServedIs ==
  ASSUME NEW msg, NEW f, KnownFacts(f), NEW d, IsDraft(d)
  PROVE  /\ Sound(Finish(Query(msg, f), f, d), f)
         /\ StreamFinish(Stream(msg, f), f, d) = Finish(Query(msg, f), f, d)
<1> DEFINE p == CitizenshipPracticalRule(f.q, f.topic, f.claims, f.rows)
           rule == QueryRules(f.q, f.topic, f.claims, f.rows, f.lang)
           D == QueryOrder(msg, f, f.claims, f.rows, p, rule)
<1>1. /\ Stands(rule, f.claims, f.rows) /\ Stands(p, f.claims, f.rows)
      /\ StreamRules(f.q, f.topic, f.claims, f.rows, f.lang) = rule
  BY ChainStands DEF KnownFacts
<1>2. Query(msg, f) = D
  BY DEF Query
<1>3. Stream(msg, f) = StreamOrder(msg, f, f.claims, f.rows, StreamEarly(msg, f), p, rule)
  BY <1>1 DEF Stream
<1> HIDE DEF p, rule
<1>4. Stream(msg, f) = D
  BY <1>3, OrdersAgree
<1>5. Settled(D, f, p, rule)
  BY OrderSettles
<1> HIDE DEF D
<1>6. Sound(Finish(D, f, d), f)
  BY <1>1, <1>5, FinishSound
<1>7. StreamFinish(D, f, d) = Finish(D, f, d)
  BY FinishAgrees
<1> QED
  BY <1>2, <1>4, <1>6, <1>7
-----------------------------------------------------------------------------
(* The turns that are kept.                                                *)
LEMMA WindowFrom ==
  ASSUME NEW n \in Nat, n > 0
  PROVE  LET m == Max({1, n - Window + 1}) IN m \in 1 .. n /\ n - m + 1 <= Window
<1> DEFINE k == n - Window + 1
           T == {1, k}
<1>1. Window \in Nat /\ Window > 0
  BY WindowAssumption
<1>2. k \in Int /\ k <= n
  BY <1>1
<1>3. \E x \in T : \A y \in T : x >= y
  <2>1. CASE 1 >= k
    BY <1>2, <2>1
  <2>2. CASE ~(1 >= k)
    BY <1>2, <2>2
  <2> QED
    BY <2>1, <2>2
<1>4. Max(T) \in T /\ \A y \in T : Max(T) >= y
  BY <1>3 DEF Max
<1>5. Max(T) \in {1, k} /\ Max(T) >= 1 /\ Max(T) >= k
  BY <1>4
<1>6. Max(T) \in Int
  BY <1>2, <1>5
<1>7. Max(T) \in 1 .. n
  BY <1>2, <1>5, <1>6
<1>8. n - Max(T) + 1 <= Window
  BY <1>1, <1>5, <1>6
<1> QED
  BY <1>7, <1>8

(* The client keeps a list no longer than the window.                      *)
LEMMA Remembered ==
  ASSUME NEW history, Listing(history), Len(history) <= Window, NEW msg
  PROVE  Listing(Remember(history, msg)) /\ Len(Remember(history, msg)) <= Window
<1>1. CASE msg = Silence
  BY <1>1 DEF Remember
<1>2. CASE msg # Silence
  <2> DEFINE S == Range(history) \cup {msg}
             all == Append(history, msg)
             n == Len(all)
             m == Max({1, Len(all) - Window + 1})
             y == SubSeq(all, m, Len(all))
  <2>1. history \in Seq(S) /\ msg \in S
    BY DEF Listing
  <2>2. all \in Seq(S) /\ n \in Nat /\ n > 0
    BY <2>1
  <2>3. Remember(history, msg) = y
    BY <1>2 DEF Remember
  <2> HIDE DEF all, S
  <2>4. m \in 1 .. n /\ n - m + 1 <= Window
    BY <2>2, WindowFrom
  <2> HIDE DEF m
  <2>5. y \in Seq(S) /\ Len(y) = n - m + 1
    BY <2>2, <2>4
  <2>6. Len(y) <= Window
    BY <2>4, <2>5
  <2> HIDE DEF y
  <2>7. Listing(y)
    BY <2>5 DEF Listing, Range
  <2> QED
    BY <2>3, <2>6, <2>7
<1> QED
  BY <1>1, <1>2

(* The inductive invariant.                                                *)
ConvInv ==
  /\ Listing(past) /\ Len(past) <= Window /\ unreplied \in BOOLEAN /\ citizen.style \in {"free", "all", "one"}
  /\ streamed = reply /\ ~reply.foreign
  /\ reply.asked \subseteq Slots /\ \A c \in reply.citations : c.rank \in 0 .. Len(reply.sources)
  /\ CitationsNameTheirSource /\ TacitCitationsNameTheirSource /\ OnlyNamedPlaces
  /\ Planned(reply) /\ SaidIsNotAsked

(* A reply that says nothing yet.                                          *)
Unsaid ==
  /\ Listing(past) /\ Len(past) <= Window /\ unreplied \in BOOLEAN /\ citizen.style \in {"free", "all", "one"}
  /\ streamed = reply /\ (reply = NoReply \/ reply = Pending)

(* It holds the invariant.                                                 *)
LEMMA UnsaidIsSound == Unsaid => ConvInv
<1> SUFFICES ASSUME Unsaid PROVE ConvInv
  OBVIOUS
<1>1. /\ reply.kind # "tacit_municipality" /\ reply.kind # "followup" /\ reply.asked = {}
      /\ reply.sources = <<>> /\ reply.citations = {} /\ ~reply.foreign
      /\ reply.planner = None
  BY DEF Unsaid, NoReply, Pending
<1>2. Range(reply.sources) = {}
  BY <1>1 DEF Range
<1>3. CitationsNameTheirSource /\ TacitCitationsNameTheirSource /\ OnlyNamedPlaces
  BY <1>1, <1>2 DEF CitationsNameTheirSource, TacitCitationsNameTheirSource, OnlyNamedPlaces
<1>4. Planned(reply) /\ SaidIsNotAsked
  BY <1>1 DEF Planned, SaidIsNotAsked, None
<1> QED
  BY <1>1, <1>3, <1>4 DEF ConvInv, Unsaid

(* The page or claim that an id stands for.                                *)
LEMMA HostIs ==
  ASSUME NEW r, Searched(r), NEW x \in Range(r.rows) \cup Range(r.claims)
  PROVE  HostIn(r, x.id) = x.host
<1>1. ASSUME NEW a \in Range(r.claims), NEW b \in Range(r.claims), a.id = b.id PROVE a = b
  <2>1. PICK i \in DOMAIN r.claims, j \in DOMAIN r.claims : r.claims[i] = a /\ r.claims[j] = b
    BY DEF Range
  <2> QED
    BY <1>1, <2>1 DEF Searched
<1>2. \A a, b \in Range(r.rows) : a.id = b.id => a = b
  BY DEF Searched, ApartRows
<1>3. \A a \in Range(r.rows), c \in Range(r.claims) : a.id # c.id
  BY DEF Searched
<1>4. \A z \in Range(r.rows) \cup Range(r.claims) : z.id = x.id => z = x
  BY <1>1, <1>2, <1>3
<1>5. (CHOOSE z \in Range(r.rows) \cup Range(r.claims) : z.id = x.id) = x
  BY <1>4
<1> QED
  BY <1>5 DEF HostIn

(* What was filtered out shows, unless nothing was.                        *)
LEMMA NothingDropped ==
  ASSUME NEW r, Searched(r), NEW claims, NEW rows, Range(claims) \subseteq Range(r.claims),
         Range(rows) \subseteq Range(r.rows), NEW y, ListedSources(y, claims, rows),
         \A c \in Range(r.claims) : c.id \in Range(y.sources)
  PROVE  Range(r.claims) \subseteq Range(claims)
<1>1. ASSUME NEW c \in Range(r.claims) PROVE c \in Range(claims)
  <2>1. PICK x \in Range(claims) \cup Range(rows) : x.id = c.id
    BY DEF ListedSources
  <2>2. x \notin Range(rows)
    BY <2>1 DEF Searched
  <2>3. PICK i \in DOMAIN r.claims, j \in DOMAIN r.claims : r.claims[i] = x /\ r.claims[j] = c
    BY <2>1, <2>2 DEF Range
  <2>4. x = c
    BY <2>1, <2>3 DEF Searched
  <2> QED
    BY <2>1, <2>2, <2>4
<1> QED
  BY <1>1

(* A turn that is served, whatever was found and whatever the model wrote. *)
LEMMA ServeKeeps ==
  ASSUME ConvInv, Serve
  PROVE  ConvInv'
<1>1. PICK c \in {Case(last, past, unreplied)}, r \in Retrievals : \E f \in {Facts(c, r)} :
        \E atOnce \in {Query(last, f)}, inEvents \in {Stream(last, f)}, d \in Completions :
          found' = r /\ reply' = Finish(atOnce, f, d) /\ streamed' = StreamFinish(inEvents, f, d)
  BY DEF Serve
<1>2. PICK f \in {Facts(c, r)}, d \in Completions :
        /\ found' = r /\ reply' = Finish(Query(last, f), f, d)
        /\ streamed' = StreamFinish(Stream(last, f), f, d)
  BY <1>1
<1>3. citizen' = citizen /\ past' = past /\ unreplied' = unreplied /\ last' = last
  BY DEF Serve
<1> DEFINE h == HistoryWithoutCurrentTurn(past, unreplied, last)
           text == HistoryText(h) \cup last.words
<1>4. Searched(r)
  BY RetrievalsAssumption DEF Searched, Listing, ApartRows
<1>5. c = CaseAfter(last, h) /\ f = Facts(c, r)
  BY DEF Case
<1>6. IsDraft(d)
  BY CompletionsAssumption DEF IsDraft
<1>7. text = Spoken'
  BY <1>3, TurnText DEF Spoken, ConvInv
<1> HIDE DEF h
<1>8. /\ f.frame = ResolveCase(last, h)
      /\ f.claims = FilterTacitResults(f.frame, r.claims)
      /\ f.rows = FilterGovResults(f.frame, r.rows)
      /\ KnownFacts(f)
  BY <1>4, <1>5, FactsAre
<1>9. /\ AllowedLocal(f.frame) \subseteq HostsOf(text)
      /\ HostsOf(text) # {} => AllowedLocal(f.frame) # {}
      /\ "moha.gov.np" \notin AllowedLocal(f.frame)
  BY <1>8, AllowedFor
<1> HIDE DEF text
<1>10. /\ Range(f.claims) \subseteq Range(r.claims) /\ Range(f.rows) \subseteq Range(r.rows)
       /\ AllowedLocal(f.frame) # {} => \A x \in Range(f.claims) \cup Range(f.rows) : Abroad(x, f.frame)
       /\ Range(r.claims) \subseteq Range(f.claims) => f.claims = r.claims
  BY <1>4, <1>8, <1>9, FilteredAre
<1>11. Sound(reply', f) /\ streamed' = reply'
  BY <1>2, <1>6, <1>8, ServedIs
<1>12. /\ ~reply'.foreign /\ \A k \in reply'.citations : k.rank \in 0 .. Len(reply'.sources)
       /\ ListedSources(reply', f.claims, f.rows) /\ LeadsToQuoted(reply', f.claims, f.rows)
       /\ ClaimsQuoted(reply', f.claims)
       /\ reply'.asked \subseteq f.followup.asked /\ Planned(reply')
  BY <1>11 DEF Sound, Tells
<1>13. reply'.asked \subseteq Slots /\ reply'.asked \subseteq PlannerMissingSlots(f.frame)
  BY <1>8, <1>12, FollowupIs DEF KnownFacts
<1>14. SaidIsNotAsked'
  BY <1>3, <1>8, <1>13, NotAskedAgain DEF SaidIsNotAsked
<1>15. CitationsNameTheirSource'
  BY <1>2, <1>10, <1>12 DEF CitationsNameTheirSource, LeadsToQuoted, SharedUrl
<1>16. TacitCitationsNameTheirSource'
  <2> SUFFICES ASSUME reply'.kind = "tacit_municipality", ~ClaimDropped'
               PROVE  reply'.citations # {} /\ \A k \in reply'.citations : k.source = k.quotes
    BY DEF TacitCitationsNameTheirSource
  <2>1. \A k \in Range(r.claims) : k.id \in Range(reply'.sources)
    BY <1>2 DEF ClaimDropped
  <2>2. f.claims = r.claims
    BY <1>4, <1>10, <1>12, <2>1, NothingDropped
  <2>3. \A i \in DOMAIN f.claims : f.claims[i].rank = i /\ f.claims[i].id # None
    BY <1>4, <2>2 DEF Searched
  <2> QED
    BY <1>12, <2>3 DEF ClaimsQuoted
<1>17. OnlyNamedPlaces'
  <2> SUFFICES ASSUME PlaceHosts' # {}, NEW id \in Range(reply'.sources), IsLocalHost(HostIn(r, id))
               PROVE  HostIn(r, id) \in PlaceHosts'
    BY <1>2 DEF OnlyNamedPlaces
  <2>1. PlaceHosts' = HostsOf(text)
    BY <1>7 DEF PlaceHosts
  <2>2. PICK x \in Range(f.claims) \cup Range(f.rows) : x.id = id
    BY <1>12 DEF ListedSources
  <2>3. HostIn(r, id) = x.host
    BY <1>4, <1>10, <2>2, HostIs
  <2>4. Abroad(x, f.frame)
    BY <1>9, <1>10, <2>1, <2>2
  <2> QED
    BY <1>9, <2>1, <2>3, <2>4 DEF Abroad
<1> QED
  BY <1>3, <1>11, <1>12, <1>13, <1>14, <1>15, <1>16, <1>17 DEF ConvInv

(* Every step keeps the invariant.                                         *)
LEMMA ConvStep ==
  ASSUME ConvInv, [ConversationNext]_convVars
  PROVE  ConvInv'
<1>1. ASSUME NEW msg, Post(msg) PROVE ConvInv'
  <2>1. /\ past' = Remember(past, last) /\ citizen' = citizen
        /\ reply' = Pending /\ streamed' = reply'
    BY <1>1 DEF Post
  <2>2. Listing(past') /\ Len(past') <= Window /\ unreplied' \in BOOLEAN
    <3>1. unreplied' \in BOOLEAN
      BY <1>1 DEF Post
    <3> QED
      BY <2>1, <3>1, Remembered DEF ConvInv
  <2>3. citizen'.style \in {"free", "all", "one"}
    BY <2>1 DEF ConvInv
  <2>4. Unsaid'
    BY <2>1, <2>2, <2>3 DEF Unsaid
  <2>5. Unsaid' => ConvInv'
    BY UnsaidIsSound, PTL
  <2> QED
    BY <2>4, <2>5
<1>2. CASE \E msg \in Messages \cup FollowUps : Say(msg)
  BY <1>1, <1>2 DEF Say
<1>3. CASE Serve
  BY <1>3, ServeKeeps
<1>4. CASE Cooperate
  BY <1>1, <1>4 DEF Cooperate
<1>5. CASE UNCHANGED convVars
  BY <1>5 DEF convVars, ConvInv, CitationsNameTheirSource, TacitCitationsNameTheirSource, OnlyNamedPlaces,
              SharedUrl, ClaimDropped, PlaceHosts, Spoken, Planned, SaidIsNotAsked
<1> QED
  BY <1>2, <1>3, <1>4, <1>5 DEF ConversationNext

(* So does the beginning.                                                  *)
LEMMA ConvFirst ==
  ASSUME ConversationInit
  PROVE  ConvInv
<1>1. Listing(past) /\ Len(past) = 0
  BY DEF ConversationInit, Listing
<1>2. 0 <= Window
  BY WindowAssumption
<1>3. /\ citizen.style \in {"free", "all", "one"} /\ unreplied \in BOOLEAN
      /\ streamed = reply /\ reply = NoReply
  BY DEF ConversationInit
<1> QED
  BY <1>1, <1>2, <1>3, UnsaidIsSound DEF Unsaid

(* The invariant of the conversation.                                      *)
LEMMA ConvAlways == ConversationSpec => []ConvInv
<1>1. ConversationInit => ConvInv
  BY ConvFirst
<1>2. ConvInv /\ [ConversationNext]_convVars => ConvInv'
  BY ConvStep
<1> QED
  BY <1>1, <1>2, PTL DEF ConversationSpec

(* An answer stands on what is shown with it (main.py 5607 to 5728, 4221): *)
(* both endpoints give the same reply, every citation that a rule makes    *)
(* leads to what it quotes, no page of another place is shown once one was *)
(* named, and the script is the citizen's.  For any messages, search       *)
(* results that are lists without repeats, and drafts of the model.        *)
THEOREM AnswersGrounded == ConversationSpec => []AnswersAreGrounded
<1>1. ConvInv => AnswersAreGrounded
  BY DEF ConvInv, AnswersAreGrounded, ConversationTypeOK, EndpointsAgree, ScriptIsKept
<1> QED
  BY <1>1, ConvAlways, PTL

(* The reported decision is what was done, and what the message said is    *)
(* not asked for (navigator.py: planner_contract, planner_missing_slots).  *)
THEOREM PlansFollowed == ConversationSpec => [](AnswerFollowsPlan /\ SaidIsNotAsked)
<1>1. ConvInv => AnswerFollowsPlan /\ SaidIsNotAsked
  BY DEF ConvInv, AnswerFollowsPlan, Planned
<1> QED
  BY <1>1, ConvAlways, PTL

(***************************************************************************)
(* The case of a citizen who answers what is asked (CaseFollowed): the     *)
(* words of a case in the tables of the navigator and of the topics, the   *)
(* frame they give, what the plan asks for, what passes the gate, and what *)
(* the citizen has said by then.                                           *)
(***************************************************************************)
(* The score of a word list that no entry, or one entry, of a table gives. *)
LEMMA WordScore ==
  ASSUME NEW table, NEW x, NEW text
  PROVE  /\ (\A e \in table : ~(e[1] = x /\ e[2] \in text)) => Score(table, x, text) = 0
         /\ \A e \in table :
              /\ e[1] = x /\ e[2] \in text /\ e[3] \in Nat
              /\ \A d \in table : d[1] = x /\ d[2] \in text => d = e
              => Score(table, x, text) = e[3]
<1> DEFINE E == {e \in table : e[1] = x /\ e[2] \in text}
           iter == CHOOSE iter : iter = [S \in SUBSET E |->
                      IF S = {} THEN 0
                      ELSE (CHOOSE y \in S : TRUE)[3] + iter[S \ {CHOOSE y \in S : TRUE}]]
<1>1. Score(table, x, text) = iter[E]
  BY Zenon DEF Score, MapThenSumSet, MapThenFoldSet
<1>2. ASSUME E = {} PROVE Score(table, x, text) = 0
  <2> DEFINE f == [S \in SUBSET E |-> 0]
  <2>1. f = [S \in SUBSET E |->
                      IF S = {} THEN 0
                      ELSE (CHOOSE y \in S : TRUE)[3] + f[S \ {CHOOSE y \in S : TRUE}]]
    BY <1>2
  <2>2. iter = [S \in SUBSET E |->
                      IF S = {} THEN 0
                      ELSE (CHOOSE y \in S : TRUE)[3] + iter[S \ {CHOOSE y \in S : TRUE}]]
    BY <2>1, Zenon
  <2> HIDE DEF iter
  <2>3. iter[E] = 0
    BY <1>2, <2>2
  <2> QED
    BY <1>1, <2>3
<1>3. ASSUME NEW e, E = {e}, e[3] \in Nat PROVE Score(table, x, text) = e[3]
  <2> DEFINE f == [S \in SUBSET E |-> IF S = {} THEN 0 ELSE e[3]]
  <2>0. \A S \in SUBSET E : S # {} => S = {e} /\ (CHOOSE y \in S : TRUE) = e /\ S \ {e} = {}
    BY <1>3
  <2>1. f = [S \in SUBSET E |->
                      IF S = {} THEN 0
                      ELSE (CHOOSE y \in S : TRUE)[3] + f[S \ {CHOOSE y \in S : TRUE}]]
    BY <1>3, <2>0
  <2>2. iter = [S \in SUBSET E |->
                      IF S = {} THEN 0
                      ELSE (CHOOSE y \in S : TRUE)[3] + iter[S \ {CHOOSE y \in S : TRUE}]]
    BY <2>1, Zenon
  <2> HIDE DEF iter
  <2>3. iter[{}] = 0 /\ iter[E] = e[3] + iter[{}]
    <3> DEFINE h == [S \in SUBSET E |->
                      IF S = {} THEN 0
                      ELSE (CHOOSE y \in S : TRUE)[3] + iter[S \ {CHOOSE y \in S : TRUE}]]
    <3>0. ASSUME NEW S \in SUBSET E, S # {} PROVE h[S] = e[3] + iter[S \ {e}]
      <4> DEFINE y == CHOOSE y \in S : TRUE
      <4>1. h[S] = IF S = {} THEN 0 ELSE y[3] + iter[S \ {y}]
        OBVIOUS
      <4>2. y = e
        BY <2>0, <3>0
      <4> HIDE DEF y, h
      <4> QED
        BY <3>0, <4>1, <4>2
    <3>1. h[{}] = 0 /\ \A S \in SUBSET E : S # {} => h[S] = e[3] + iter[S \ {e}]
      BY <3>0
    <3>2. iter = h
      BY <2>2
    <3> HIDE DEF h
    <3>3. E # {} /\ E \ {e} = {}
      BY <1>3
    <3> QED
      BY <3>1, <3>2, <3>3
  <2> QED
    BY <1>1, <1>3, <2>3
<1>4. ASSUME \A e \in table : ~(e[1] = x /\ e[2] \in text) PROVE E = {}
  BY <1>4
<1>5. ASSUME NEW e \in table, e[1] = x, e[2] \in text,
             \A d \in table : d[1] = x /\ d[2] \in text => d = e
      PROVE  E = {e}
  BY <1>5
<1> HIDE DEF E, iter
<1> QED
  BY <1>2, <1>3, <1>4, <1>5

(* The best entry of a table, when one is better than every other, and     *)
(* when none has a score.                                                  *)
LEMMA BestScored ==
  ASSUME NEW order, NEW table, NEW text, NEW n \in Nat, DOMAIN order = 1 .. n, NEW sc,
         \A i \in 1 .. n : sc[i] \in Nat /\ sc[i] = Score(table, order[i], text)
  PROVE  /\ \A k \in 1 .. n : sc[k] > 0 /\ (\A j \in 1 .. n : j # k => sc[j] < sc[k])
                                => BestOf(order, table, text) = order[k]
         /\ (\A i \in 1 .. n : sc[i] = 0) => BestOf(order, table, text) = None
<1> DEFINE scores == [i \in DOMAIN order |-> Score(table, order[i], text)]
           top == {i \in DOMAIN order : scores[i] > 0 /\ \A j \in DOMAIN order : scores[j] <= scores[i]}
<1>1. BestOf(order, table, text) = IF top = {} THEN None ELSE order[Min(top)]
  BY DEF BestOf
<1>2. \A i \in DOMAIN order : scores[i] = sc[i]
  OBVIOUS
<1> HIDE DEF scores
<1>3. ASSUME NEW k \in 1 .. n, sc[k] > 0, \A j \in 1 .. n : j # k => sc[j] < sc[k]
      PROVE  BestOf(order, table, text) = order[k]
  <2>1. top = {k}
    <3>1. k \in top
      BY <1>2, <1>3
    <3>2. ASSUME NEW i \in top PROVE i = k
      BY <1>2, <1>3
    <3> QED
      BY <3>1, <3>2
  <2>2. Min({k}) = k
    <3>1. {k} \subseteq Nat /\ {k} # {}
      BY <1>3
    <3> QED
      BY <3>1, LeastPlace
  <2> QED
    BY <1>1, <2>1, <2>2
<1>4. ASSUME \A i \in 1 .. n : sc[i] = 0 PROVE BestOf(order, table, text) = None
  BY <1>1, <1>2, <1>4
<1> QED
  BY <1>3, <1>4

(* The words with which a citizen tells the details of a case.             *)
Ward5 == "ward 5"
Details == {"jiri", "tanahu", Ward5, "naya", "child"}
CaseWords == {"nagarikta", "birth"}
ServiceFor(s) == IF s = "birth" THEN "vital_registration" ELSE "citizenship"
TopicFor(s) == IF s = "birth" THEN "birth_registration" ELSE "citizenship"

(* The ward is none of the other words.                                    *)
LEMMA WardWord == Ward5 \notin {"jiri", "tanahu", "naya", "child", "nagarikta", "birth", "dolakha"}
  BY Zenon DEF Ward5

(* Of the words of a case, which entries of the tables know.               *)
LEMMA ServiceEntries ==
  /\ <<"citizenship", "nagarikta", 2>> \in SERVICE_ALIASES
  /\ <<"vital_registration", "birth", 4>> \in SERVICE_ALIASES
  /\ <<"municipality_service", Ward5, 1>> \in SERVICE_ALIASES
  /\ \A e \in SERVICE_ALIASES : e[2] \in Details \cup CaseWords =>
       e \in {<<"citizenship", "nagarikta", 2>>, <<"vital_registration", "birth", 4>>,
              <<"municipality_service", Ward5, 1>>}
<1> DEFINE w1 == "national id"
           w2 == "municipality office"
<1>1. SERVICE_ALIASES =
        {<<"citizenship", "nagarikta", 2>>, <<"passport", "passport", 2>>,
         <<"national_id", w1, 4>>, <<"vital_registration", "birth", 4>>,
         <<"vital_registration", "marriage", 4>>, <<"pan_tax", "pan", 1>>,
         <<"driving_license", "license", 6>>, <<"police_clearance", "police", 4>>,
         <<"foreign_employment", "manpower", 2>>, <<"land", "malpot", 2>>,
         <<"municipality_service", "municipality", 2>>,
         <<"municipality_service", w2, 2>>, <<"municipality_service", Ward5, 1>>}
  BY Zenon DEF SERVICE_ALIASES, Ward5
<1>2. w1 \notin Details \cup CaseWords /\ w2 \notin Details \cup CaseWords
  BY Zenon DEF Details, CaseWords, Ward5
<1> HIDE DEF w1, w2
<1>3. /\ <<"citizenship", "nagarikta", 2>> \in SERVICE_ALIASES
      /\ <<"vital_registration", "birth", 4>> \in SERVICE_ALIASES
      /\ <<"municipality_service", Ward5, 1>> \in SERVICE_ALIASES
  BY <1>1, Zenon
<1>4. ASSUME NEW e \in SERVICE_ALIASES, e[2] \in Details \cup CaseWords
      PROVE  e \in {<<"citizenship", "nagarikta", 2>>, <<"vital_registration", "birth", 4>>,
                    <<"municipality_service", Ward5, 1>>}
  <2> DEFINE others == {<<"passport", "passport", 2>>, <<"national_id", w1, 4>>,
         <<"vital_registration", "marriage", 4>>, <<"pan_tax", "pan", 1>>,
         <<"driving_license", "license", 6>>, <<"police_clearance", "police", 4>>,
         <<"foreign_employment", "manpower", 2>>, <<"land", "malpot", 2>>,
         <<"municipality_service", "municipality", 2>>, <<"municipality_service", w2, 2>>}
  <2>1. \/ e \in {<<"citizenship", "nagarikta", 2>>, <<"vital_registration", "birth", 4>>,
                  <<"municipality_service", Ward5, 1>>}
        \/ e \in others
    BY <1>1, Zenon
  <2>2. e \in others => e[2] \in {"passport", w1, "marriage", "pan", "license", "police", "manpower",
                                  "malpot", "municipality", w2}
    OBVIOUS
  <2>3. {"passport", w1, "marriage", "pan", "license", "police", "manpower", "malpot",
         "municipality", w2} \cap (Details \cup CaseWords) = {}
    <3>1. \A w \in {"passport", "marriage", "pan", "license", "police", "manpower", "malpot", "municipality"} :
             w \notin Details \cup CaseWords
      BY Zenon DEF Details, CaseWords, Ward5
    <3> QED
      BY <1>2, <3>1
  <2> HIDE DEF others
  <2> QED
    BY <1>4, <2>1, <2>2, <2>3
<1> QED
  BY <1>3, <1>4

(* The same for the topics.                                                *)
LEMMA TopicEntries ==
  /\ <<"citizenship", "nagarikta", 2>> \in TOPIC_RULES
  /\ <<"birth_registration", "birth", 2>> \in TOPIC_RULES
  /\ \A e \in TOPIC_RULES : e[2] \in Details \cup CaseWords =>
       e \in {<<"citizenship", "nagarikta", 2>>, <<"birth_registration", "birth", 2>>}
<1> DEFINE w1 == "national id"
           w2 == "event registration"
           w3 == "information officer"
           w4 == "office hours"
           w5 == "municipality office"
           w6 == "what services"
<1>1. TOPIC_RULES =
        {<<"passport", "passport", 2>>, <<"citizenship", "nagarikta", 2>>,
         <<"pan_tax", "pan", 1>>, <<"driving_license", "license", 4>>,
         <<"birth_registration", "birth", 2>>, <<"national_id", w1, 6>>,
         <<"vital_registration", "marriage", 2>>, <<"vital_registration", w2, 4>>,
         <<"company_registration", "company", 2>>,
         <<"foreign_employment", "manpower", 2>>, <<"foreign_employment", "ujuri", 2>>,
         <<"consular", "embassy", 2>>, <<"land", "malpot", 2>>, <<"voter", "voter", 2>>,
         <<"police", "police", 4>>, <<"banking", "bank", 1>>,
         <<"municipality_contact", "phone", 2>>, <<"municipality_contact", "mayor", 2>>,
         <<"municipality_contact", "officer", 2>>,
         <<"municipality_contact", w3, 6>>, <<"municipality_hours", w4, 4>>,
         <<"municipality_location", w5, 4>>, <<"municipality_services", w6, 4>>}
  BY Zenon DEF TOPIC_RULES
<1>2. {w1, w2, w3, w4, w5, w6} \cap (Details \cup CaseWords) = {}
  <2>1. w1 \notin Details \cup CaseWords /\ w2 \notin Details \cup CaseWords
    BY Zenon DEF Details, CaseWords, Ward5
  <2>2. w3 \notin Details \cup CaseWords /\ w4 \notin Details \cup CaseWords
    BY Zenon DEF Details, CaseWords, Ward5
  <2>3. w5 \notin Details \cup CaseWords /\ w6 \notin Details \cup CaseWords
    BY Zenon DEF Details, CaseWords, Ward5
  <2> HIDE DEF w1, w2, w3, w4, w5, w6
  <2> QED
    BY <2>1, <2>2, <2>3
<1> HIDE DEF w1, w2, w3, w4, w5, w6
<1>3. /\ <<"citizenship", "nagarikta", 2>> \in TOPIC_RULES
      /\ <<"birth_registration", "birth", 2>> \in TOPIC_RULES
  BY <1>1, Zenon
<1>4. ASSUME NEW e \in TOPIC_RULES, e[2] \in Details \cup CaseWords
      PROVE  e \in {<<"citizenship", "nagarikta", 2>>, <<"birth_registration", "birth", 2>>}
  <2> DEFINE others ==
        {<<"passport", "passport", 2>>, <<"pan_tax", "pan", 1>>, <<"driving_license", "license", 4>>,
         <<"national_id", w1, 6>>, <<"vital_registration", "marriage", 2>>,
         <<"vital_registration", w2, 4>>, <<"company_registration", "company", 2>>,
         <<"foreign_employment", "manpower", 2>>, <<"foreign_employment", "ujuri", 2>>,
         <<"consular", "embassy", 2>>, <<"land", "malpot", 2>>, <<"voter", "voter", 2>>,
         <<"police", "police", 4>>, <<"banking", "bank", 1>>,
         <<"municipality_contact", "phone", 2>>, <<"municipality_contact", "mayor", 2>>,
         <<"municipality_contact", "officer", 2>>,
         <<"municipality_contact", w3, 6>>, <<"municipality_hours", w4, 4>>,
         <<"municipality_location", w5, 4>>, <<"municipality_services", w6, 4>>}
  <2>1. \/ e \in {<<"citizenship", "nagarikta", 2>>, <<"birth_registration", "birth", 2>>}
        \/ e \in others
    BY <1>1, Zenon
  <2>2. e \in others => e[2] \in {"passport", "pan", "license", w1, "marriage", w2, "company",
                                  "manpower", "ujuri", "embassy", "malpot", "voter", "police", "bank", "phone",
                                  "mayor", "officer", w3, w4, w5, w6}
    OBVIOUS
  <2>3. {"passport", "pan", "license", w1, "marriage", w2, "company",
         "manpower", "ujuri", "embassy", "malpot", "voter", "police", "bank", "phone",
         "mayor", "officer", w3, w4, w5, w6} \cap (Details \cup CaseWords) = {}
    <3>1. \A w \in {"passport", "pan", "license", "marriage", "company", "manpower", "ujuri",
                    "embassy", "malpot", "voter", "police", "bank", "phone", "mayor", "officer"} :
             w \notin Details \cup CaseWords
      BY Zenon DEF Details, CaseWords, Ward5
    <3> QED
      BY <1>2, <3>1
  <2> HIDE DEF others
  <2> QED
    BY <1>4, <2>1, <2>2, <2>3
<1> QED
  BY <1>3, <1>4

(* The scores that services and topics get from the words of a case.       *)
LEMMA ServiceScores ==
  ASSUME NEW text, text \subseteq Details \cup CaseWords, NEW x
  PROVE  Score(SERVICE_ALIASES, x, text)
           = IF x = "citizenship" /\ "nagarikta" \in text THEN 2
             ELSE IF x = "vital_registration" /\ "birth" \in text THEN 4
             ELSE IF x = "municipality_service" /\ Ward5 \in text THEN 1 ELSE 0
<1> DEFINE E == {e \in SERVICE_ALIASES : e[1] = x /\ e[2] \in text}
           c == <<"citizenship", "nagarikta", 2>>
           v == <<"vital_registration", "birth", 4>>
           m == <<"municipality_service", Ward5, 1>>
<1>1. E \subseteq {c, v, m}
  BY ServiceEntries, SMTT(30)
<1>2. /\ c \in SERVICE_ALIASES /\ c[1] = "citizenship" /\ c[2] = "nagarikta" /\ c[3] = 2
      /\ v \in SERVICE_ALIASES /\ v[1] = "vital_registration" /\ v[2] = "birth" /\ v[3] = 4
      /\ m \in SERVICE_ALIASES /\ m[1] = "municipality_service" /\ m[2] = Ward5 /\ m[3] = 1
  BY ServiceEntries
<1> HIDE DEF c, v, m
<1>3. /\ c \in E <=> x = "citizenship" /\ "nagarikta" \in text
      /\ v \in E <=> x = "vital_registration" /\ "birth" \in text
      /\ m \in E <=> x = "municipality_service" /\ Ward5 \in text
  BY <1>2
<1>0. E = {e \in SERVICE_ALIASES : e[1] = x /\ e[2] \in text}
  OBVIOUS
<1> HIDE DEF E
<1>4. /\ E = {} => Score(SERVICE_ALIASES, x, text) = 0
      /\ \A e \in {c, v, m} : E = {e} /\ e[3] \in Nat => Score(SERVICE_ALIASES, x, text) = e[3]
  <2>1. \A e \in SERVICE_ALIASES : e[1] = x /\ e[2] \in text <=> e \in E
    BY <1>0
  <2>2. ASSUME NEW e \in {c, v, m}, E = {e}, e[3] \in Nat PROVE Score(SERVICE_ALIASES, x, text) = e[3]
    BY <1>2, <2>1, <2>2, WordScore
  <2> QED
    BY <2>1, <2>2, WordScore
<1>5. CASE c \in E
  <2>1. E = {c}
    BY <1>1, <1>3, <1>5
  <2> QED
    BY <1>2, <1>3, <1>4, <1>5, <2>1
<1>6. CASE v \in E
  <2>1. E = {v}
    BY <1>1, <1>3, <1>6
  <2> QED
    BY <1>2, <1>3, <1>4, <1>6, <2>1
<1>7. CASE m \in E
  <2>1. E = {m}
    BY <1>1, <1>3, <1>7
  <2> QED
    BY <1>2, <1>3, <1>4, <1>7, <2>1
<1>8. CASE {c, v, m} \cap E = {}
  BY <1>1, <1>3, <1>4, <1>8
<1> QED
  BY <1>5, <1>6, <1>7, <1>8

(* The scores of the topics.                                               *)
LEMMA TopicScores ==
  ASSUME NEW text, text \subseteq Details \cup CaseWords, NEW x
  PROVE  Score(TOPIC_RULES, x, text)
           = IF \/ x = "citizenship" /\ "nagarikta" \in text
                \/ x = "birth_registration" /\ "birth" \in text THEN 2 ELSE 0
<1> DEFINE E == {e \in TOPIC_RULES : e[1] = x /\ e[2] \in text}
           c == <<"citizenship", "nagarikta", 2>>
           v == <<"birth_registration", "birth", 2>>
<1>1. E \subseteq {c, v}
  BY TopicEntries, SMTT(30)
<1>2. /\ c \in TOPIC_RULES /\ c[1] = "citizenship" /\ c[2] = "nagarikta" /\ c[3] = 2
      /\ v \in TOPIC_RULES /\ v[1] = "birth_registration" /\ v[2] = "birth" /\ v[3] = 2
  BY TopicEntries
<1> HIDE DEF c, v
<1>3. /\ c \in E <=> x = "citizenship" /\ "nagarikta" \in text
      /\ v \in E <=> x = "birth_registration" /\ "birth" \in text
  BY <1>2
<1>0. E = {e \in TOPIC_RULES : e[1] = x /\ e[2] \in text}
  OBVIOUS
<1> HIDE DEF E
<1>4. /\ E = {} => Score(TOPIC_RULES, x, text) = 0
      /\ \A e \in {c, v} : E = {e} /\ e[3] \in Nat => Score(TOPIC_RULES, x, text) = e[3]
  <2>1. \A e \in TOPIC_RULES : e[1] = x /\ e[2] \in text <=> e \in E
    BY <1>0
  <2>2. ASSUME NEW e \in {c, v}, E = {e}, e[3] \in Nat PROVE Score(TOPIC_RULES, x, text) = e[3]
    BY <1>2, <2>1, <2>2, WordScore
  <2> QED
    BY <2>1, <2>2, WordScore
<1>5. CASE c \in E
  <2>1. E = {c}
    BY <1>1, <1>3, <1>5
  <2> QED
    BY <1>2, <1>3, <1>4, <1>5, <2>1
<1>6. CASE v \in E
  <2>1. E = {v}
    BY <1>1, <1>3, <1>6
  <2> QED
    BY <1>2, <1>3, <1>4, <1>6, <2>1
<1>8. CASE {c, v} \cap E = {}
  BY <1>1, <1>3, <1>4, <1>8
<1> QED
  BY <1>5, <1>6, <1>8

(* The service that the words of one case stand for, and the topic.        *)
LEMMA ServiceOfCase ==
  ASSUME NEW s \in CaseWords, NEW text, text \subseteq Details \cup {s}
  PROVE  DetectService(text) = IF s \in text THEN ServiceFor(s)
                               ELSE IF Ward5 \in text THEN "municipality_service" ELSE None
<1> DEFINE sc == [i \in 1 .. 10 |-> Score(SERVICE_ALIASES, Services[i], text)]
<1>1. /\ Len(Services) = 10 /\ DOMAIN Services = 1 .. 10
      /\ Services[1] = "citizenship" /\ Services[2] = "passport" /\ Services[3] = "national_id"
      /\ Services[4] = "vital_registration" /\ Services[5] = "pan_tax" /\ Services[6] = "driving_license"
      /\ Services[7] = "police_clearance" /\ Services[8] = "foreign_employment" /\ Services[9] = "land"
      /\ Services[10] = "municipality_service"
  BY DEF Services
<1>2. \A x : Score(SERVICE_ALIASES, x, text)
           = IF x = "citizenship" /\ "nagarikta" \in text THEN 2
             ELSE IF x = "vital_registration" /\ "birth" \in text THEN 4
             ELSE IF x = "municipality_service" /\ Ward5 \in text THEN 1 ELSE 0
  <2>1. text \subseteq Details \cup CaseWords
    OBVIOUS
  <2> QED
    BY <2>1, ServiceScores
<1>3. \A i \in 1 .. 10 : i = 1 \/ i = 2 \/ i = 3 \/ i = 4 \/ i = 5 \/ i = 6 \/ i = 7 \/ i = 8 \/ i = 9 \/ i = 10
  OBVIOUS
<1>4. /\ sc[1] = IF "nagarikta" \in text THEN 2 ELSE 0
      /\ sc[4] = IF "birth" \in text THEN 4 ELSE 0
      /\ sc[10] = IF Ward5 \in text THEN 1 ELSE 0
      /\ \A i \in 1 .. 10 : i \notin {1, 4, 10} => sc[i] = 0
  <2>1. /\ sc[1] = IF "nagarikta" \in text THEN 2 ELSE 0
        /\ sc[4] = IF "birth" \in text THEN 4 ELSE 0
        /\ sc[10] = IF Ward5 \in text THEN 1 ELSE 0
    BY <1>1, <1>2
  <2>2. ASSUME NEW i \in 1 .. 10, i \notin {1, 4, 10} PROVE sc[i] = 0
    <3>1. Services[i] \notin {"citizenship", "vital_registration", "municipality_service"}
      BY <1>1, <1>3, <2>2
    <3> QED
      BY <1>2, <3>1
  <2> QED
    BY <2>1, <2>2
<1> DEFINE best == BestOf(Services, SERVICE_ALIASES, text)
<1>5. /\ \A k \in 1 .. 10 : sc[k] > 0 /\ (\A j \in 1 .. 10 : j # k => sc[j] < sc[k]) => best = Services[k]
      /\ (\A i \in 1 .. 10 : sc[i] = 0) => best = None
  <2>1. \A i \in 1 .. 10 : sc[i] \in Nat /\ sc[i] = Score(SERVICE_ALIASES, Services[i], text)
    BY <1>2
  <2>2. 10 \in Nat /\ DOMAIN Services = 1 .. 10
    BY <1>1
  <2> HIDE DEF best, sc
  <2> QED
    BY <2>1, <2>2, BestScored DEF best
<1>6. Concrete(text) = {} \/ s \in text
  <2> SUFFICES ASSUME NEW e \in Concrete(text), s \notin text PROVE FALSE
    OBVIOUS
  <2>1. e[1] # "municipality_service" /\ Score(SERVICE_ALIASES, e[1], text) >= 3
    BY DEF Concrete
  <2>2. "nagarikta" \notin text /\ "birth" \notin text
    BY WardWord DEF Details, CaseWords
  <2> QED
    BY <1>2, <2>1, <2>2
<1>7. DetectService(text) = ServiceOf(best, Concrete(text), text)
  BY DEF DetectService
<1> HIDE DEF best, sc
<1>8. CASE "nagarikta" \in text
  <2>1. s = "nagarikta" /\ "birth" \notin text
    BY <1>8, WardWord DEF Details, CaseWords
  <2>2. best = "citizenship"
    BY <1>1, <1>4, <1>5, <1>8, <2>1
  <2> QED
    BY <1>7, <1>8, <2>1, <2>2 DEF ServiceOf, ServiceFor, None
<1>9. CASE "birth" \in text
  <2>1. s = "birth" /\ "nagarikta" \notin text
    BY <1>9, WardWord DEF Details, CaseWords
  <2>2. best = "vital_registration"
    BY <1>1, <1>4, <1>5, <1>9, <2>1
  <2> QED
    BY <1>7, <1>9, <2>1, <2>2 DEF ServiceOf, ServiceFor, None
<1>10. CASE s \notin text /\ Ward5 \in text
  <2>1. "birth" \notin text /\ "nagarikta" \notin text
    BY <1>10, WardWord DEF Details, CaseWords
  <2>2. best = "municipality_service"
    BY <1>1, <1>4, <1>5, <1>10, <2>1
  <2> QED
    BY <1>6, <1>7, <1>10, <2>2 DEF ServiceOf, None
<1>11. CASE s \notin text /\ Ward5 \notin text
  <2>1. "birth" \notin text /\ "nagarikta" \notin text
    BY <1>11, WardWord DEF Details, CaseWords
  <2>2. best = None
    <3>1. \A i \in 1 .. 10 : sc[i] = 0
      BY <1>4, <1>11, <2>1
    <3> QED
      BY <1>5, <3>1
  <2>3. ~ContainsAny(text, GOV_DOMAIN_HINTS)
    <3>1. text \subseteq {"jiri", "tanahu", "naya", "child"}
      BY <1>11, <2>1 DEF Details, CaseWords
    <3>2. \A x \in {"jiri", "tanahu", "naya", "child"} : x \notin GOV_DOMAIN_HINTS
      BY Zenon DEF GOV_DOMAIN_HINTS
    <3> QED
      BY <3>1, <3>2 DEF ContainsAny
  <2> QED
    BY <1>7, <1>11, <2>2, <2>3 DEF ServiceOf, None
<1> QED
  BY <1>8, <1>9, <1>10, <1>11 DEF CaseWords

(* The topic of a case.                                                    *)
LEMMA TopicOfCase ==
  ASSUME NEW s \in CaseWords, NEW text, text \subseteq Details \cup {s}
  PROVE  DetectRetrievalTopic(text) = IF s \in text THEN TopicFor(s) ELSE None
<1> DEFINE sc == [i \in 1 .. 18 |-> Score(TOPIC_RULES, Topics[i], text)]
<1>1. /\ Len(Topics) = 18 /\ DOMAIN Topics = 1 .. 18
      /\ Topics[2] = "citizenship" /\ Topics[5] = "birth_registration"
      /\ \A i \in 1 .. 18 : i \notin {2, 5} => Topics[i] \notin {"citizenship", "birth_registration"}
  <2>1. /\ Len(Topics) = 18 /\ DOMAIN Topics = 1 .. 18
        /\ Topics[2] = "citizenship" /\ Topics[5] = "birth_registration"
    BY DEF Topics
  <2>2. ASSUME NEW i \in 1 .. 18, i \notin {2, 5}
        PROVE  Topics[i] \notin {"citizenship", "birth_registration"}
    <3>1. \/ i = 1 \/ i = 3 \/ i = 4 \/ i = 6 \/ i = 7 \/ i = 8 \/ i = 9 \/ i = 10
          \/ i = 11 \/ i = 12 \/ i = 13 \/ i = 14 \/ i = 15 \/ i = 16 \/ i = 17 \/ i = 18
      BY <2>2
    <3> QED
      BY <3>1 DEF Topics
  <2> QED
    BY <2>1, <2>2
<1>2. \A x : Score(TOPIC_RULES, x, text)
           = IF \/ x = "citizenship" /\ "nagarikta" \in text
                \/ x = "birth_registration" /\ "birth" \in text THEN 2 ELSE 0
  <2>1. text \subseteq Details \cup CaseWords
    OBVIOUS
  <2> QED
    BY <2>1, TopicScores
<1>4. /\ sc[2] = IF "nagarikta" \in text THEN 2 ELSE 0
      /\ sc[5] = IF "birth" \in text THEN 2 ELSE 0
      /\ \A i \in 1 .. 18 : i \notin {2, 5} => sc[i] = 0
  BY <1>1, <1>2
<1> DEFINE best == BestOf(Topics, TOPIC_RULES, text)
<1>5. /\ \A k \in 1 .. 18 : sc[k] > 0 /\ (\A j \in 1 .. 18 : j # k => sc[j] < sc[k]) => best = Topics[k]
      /\ (\A i \in 1 .. 18 : sc[i] = 0) => best = None
  <2>1. \A i \in 1 .. 18 : sc[i] \in Nat /\ sc[i] = Score(TOPIC_RULES, Topics[i], text)
    BY <1>2
  <2>2. 18 \in Nat /\ DOMAIN Topics = 1 .. 18
    BY <1>1
  <2> HIDE DEF best, sc
  <2> QED
    BY <2>1, <2>2, BestScored DEF best
<1>7. DetectRetrievalTopic(text) = best
  BY DEF DetectRetrievalTopic
<1> HIDE DEF best, sc
<1>8. CASE "nagarikta" \in text
  <2>1. s = "nagarikta" /\ "birth" \notin text
    BY <1>8, WardWord DEF Details, CaseWords
  <2>2. best = "citizenship"
    BY <1>1, <1>4, <1>5, <1>8, <2>1
  <2> QED
    BY <1>7, <1>8, <2>1, <2>2 DEF TopicFor
<1>9. CASE "birth" \in text
  <2>1. s = "birth" /\ "nagarikta" \notin text
    BY <1>9, WardWord DEF Details, CaseWords
  <2>2. best = "birth_registration"
    BY <1>1, <1>4, <1>5, <1>9, <2>1
  <2> QED
    BY <1>7, <1>9, <2>1, <2>2 DEF TopicFor
<1>11. CASE s \notin text
  <2>1. "birth" \notin text /\ "nagarikta" \notin text
    BY <1>11, WardWord DEF Details, CaseWords
  <2>2. \A i \in 1 .. 18 : sc[i] = 0
    BY <1>4, <2>1
  <2> QED
    BY <1>5, <1>7, <1>11, <2>2
<1> QED
  BY <1>8, <1>9, <1>11 DEF CaseWords

(* A turn of a citizen who answers with the words of a need, and the slots *)
(* that the words of a case leave open.                                    *)
ToldWith(m, s) ==
  /\ m = [Silence EXCEPT !.words = m.words, !.asks = m.asks]
  /\ m.words \subseteq Details \cup {s} /\ (m.asks => s \in m.words)

Misses(x, s, text) ==
  /\ s \in text
  /\ \/ x = "municipality_or_district" /\ text \cap {"jiri", "tanahu"} = {}
     \/ x = "citizenship_case_type" /\ s = "nagarikta" /\ text \cap {"naya", "child"} = {}
     \/ x = "municipality_or_ward" /\ s = "nagarikta" /\ "tanahu" \in text /\ text \cap {"jiri", Ward5} = {}

(* The words of a case ask for no action, office or way in.                *)
LEMMA WordsOfCase ==
  ASSUME NEW s \in CaseWords, NEW t, t \subseteq Details \cup {s}
  PROVE  /\ DetectAction(t) = None /\ DetectOffice(t) = None /\ ~IsGenericIntakeRequest(t)
         /\ DetectCaseType("citizenship", t) = None <=> t \cap {"naya", "child"} = {}
         /\ MunicipalityFromText(t) = None <=> "jiri" \notin t
         /\ DistrictFromText(t) = None <=> "tanahu" \notin t
         /\ WardFromText(t) = None <=> Ward5 \notin t
         /\ s \notin t /\ Ward5 \notin t => ~ContainsAny(t, GOV_DOMAIN_HINTS)
<1> DEFINE w1 == "information officer"
           w2 == "how to"
<1>1. ACTION_ALIASES =
        [complaint |-> {"ujuri"}, contact |-> {"phone", "mayor", w1},
         apply |-> {w2}, replace |-> {"lost"}, correct |-> {"correct"},
         fee |-> {"fee"}, status |-> {"status"}]
  BY Zenon DEF ACTION_ALIASES
<1>2. \A x \in Details \cup CaseWords : x \notin {"ujuri", "phone", "mayor", w1, w2, "lost", "correct", "fee", "status"}
  BY Zenon DEF Details, CaseWords, Ward5
<1> HIDE DEF w1, w2
<1>3. t \subseteq Details \cup CaseWords
  OBVIOUS
<1>4. DetectAction(t) = None
  <2> DEFINE I == {i \in 1 .. Len(Actions) : ContainsAny(t, ACTION_ALIASES[Actions[i]])}
  <2>1. /\ Len(Actions) = 7 /\ Actions[1] = "complaint" /\ Actions[2] = "contact" /\ Actions[3] = "apply"
        /\ Actions[4] = "replace" /\ Actions[5] = "correct" /\ Actions[6] = "fee" /\ Actions[7] = "status"
    BY DEF Actions
  <2>2. ASSUME NEW i \in 1 .. 7 PROVE ~ContainsAny(t, ACTION_ALIASES[Actions[i]])
    <3>1. i = 1 \/ i = 2 \/ i = 3 \/ i = 4 \/ i = 5 \/ i = 6 \/ i = 7
      OBVIOUS
    <3>2. ACTION_ALIASES[Actions[i]] \subseteq
            {"ujuri", "phone", "mayor", w1, w2, "lost", "correct", "fee", "status"}
      BY <1>1, <2>1, <3>1
    <3> QED
      BY <1>2, <1>3, <3>2 DEF ContainsAny
  <2>3. I = {}
    BY <2>1, <2>2
  <2>4. DetectAction(t) = LET i == IF I # {} THEN Min(I) ELSE 0 IN IF i = 0 THEN None ELSE Actions[i]
    BY DEF DetectAction, First, SelectInSeq
  <2> HIDE DEF I
  <2> QED
    BY <2>3, <2>4
<1>5. DetectOffice(t) = None
  <2>1. "cdo" \notin Details \cup CaseWords
    BY Zenon DEF Details, CaseWords, Ward5
  <2> QED
    BY <1>3, <2>1 DEF DetectOffice
<1>6. ~IsGenericIntakeRequest(t)
  <2>1. \A x \in Details \cup CaseWords : x \notin GenericIntakeGov
    BY Zenon DEF Details, CaseWords, Ward5, GenericIntakeGov
  <2> QED
    BY <1>3, <2>1 DEF IsGenericIntakeRequest, ContainsAny
<1>7. DetectCaseType("citizenship", t) = None <=> t \cap {"naya", "child"} = {}
  <2>1. /\ CaseTypes[1] = "first_time" /\ CaseTypes[2] = "duplicate_lost"
        /\ CaseTypes[3] = "correction" /\ CaseTypes[4] = "minor"
    BY DEF CaseTypes
  <2>2. /\ ACTION_ALIASES.replace = {"lost"} /\ ACTION_ALIASES.correct = {"correct"}
    BY <1>1
  <2>3. /\ CITIZENSHIP_CASE_ALIASES["first_time"] = {"naya"}
        /\ CITIZENSHIP_CASE_ALIASES["duplicate_lost"] = {"lost"}
        /\ CITIZENSHIP_CASE_ALIASES["correction"] = {"correct"}
        /\ CITIZENSHIP_CASE_ALIASES["minor"] = {"child"}
    BY <2>2 DEF CITIZENSHIP_CASE_ALIASES
  <2>4. (\A i \in 1 .. 4 : ~ContainsAny(t, CITIZENSHIP_CASE_ALIASES[CaseTypes[i]]))
          <=> t \cap {"naya", "child"} = {}
    <3>1. \A i \in 1 .. 4 : i = 1 \/ i = 2 \/ i = 3 \/ i = 4
      OBVIOUS
    <3>2. "lost" \notin t /\ "correct" \notin t
      BY <1>2, <1>3
    <3>3. 1 \in 1 .. 4 /\ 4 \in 1 .. 4
      OBVIOUS
    <3> QED
      BY <2>1, <2>3, <3>1, <3>2, <3>3 DEF ContainsAny
  <2> QED
    BY <2>4, CaseTypeIs
<1>8. /\ MunicipalityFromText(t) = None <=> "jiri" \notin t
      /\ DistrictFromText(t) = None <=> "tanahu" \notin t
  <2>1. /\ Range(Municipalities) = {"jiri", "khandbari", "dharmadevi"}
        /\ Range(Districts) = {"dolakha", "sankhuwasabha", "tanahu"}
    BY DEF Municipalities, Districts, Range
  <2>2. \A x \in Details \cup CaseWords : x \notin {"khandbari", "dharmadevi", "dolakha", "sankhuwasabha"}
    BY Zenon DEF Details, CaseWords, Ward5
  <2> QED
    BY <1>3, <2>1, <2>2, FirstPlaces
<1>9. WardFromText(t) = None <=> Ward5 \notin t
  <2>1. WardFromText(t) = IF Ward5 \in t THEN "5" ELSE None
    BY Zenon DEF WardFromText, Ward5
  <2> QED
    BY <2>1 DEF None
<1>10. ASSUME s \notin t, Ward5 \notin t PROVE ~ContainsAny(t, GOV_DOMAIN_HINTS)
  <2>1. t \subseteq {"jiri", "tanahu", "naya", "child"}
    BY <1>10 DEF Details
  <2>2. \A x \in {"jiri", "tanahu", "naya", "child"} : x \notin GOV_DOMAIN_HINTS
    BY Zenon DEF GOV_DOMAIN_HINTS
  <2> QED
    BY <2>1, <2>2 DEF ContainsAny
<1> QED
  BY <1>4, <1>5, <1>6, <1>7, <1>8, <1>9, <1>10

(* When such a turn is read as the answer to a question for the place.     *)
LEMMA PlaceTold ==
  ASSUME NEW s \in CaseWords, NEW msg, ToldWith(msg, s), NEW district, NEW muni, NEW ward
  PROVE  IsLocationAnswer(msg, district, muni, ward)
           <=> /\ ~msg.asks /\ {district, muni, ward} # {None}
               /\ muni # None => DetectService(msg.words) \in {None, "municipality_service"}
<1> DEFINE w1 == "information officer"
           w2 == "how to"
           w3 == "what services"
           W == {"phone", "mayor", w1, w2, "fee", "documents", w3}
<1>1. IsLocationAnswer(msg, district, muni, ward)
        <=> /\ ~msg.asks /\ {district, muni, ward} # {None}
            /\ ~ContainsAny(msg.words, W)
            /\ \/ msg.locationOnly
               \/ /\ msg.compact
                  /\ muni # None => /\ DetectService(msg.words) \in {None, "municipality_service"}
                                    /\ DetectAction(msg.words) = None
  BY Zenon DEF IsLocationAnswer
<1>2. \A x \in Details \cup CaseWords : x \notin W
  BY Zenon DEF Details, CaseWords, Ward5
<1> HIDE DEF W, w1, w2, w3
<1>3. msg.words \subseteq Details \cup CaseWords /\ ~msg.locationOnly /\ msg.compact
  BY DEF ToldWith, Silence
<1>4. ~ContainsAny(msg.words, W)
  BY <1>2, <1>3 DEF ContainsAny
<1>5. DetectAction(msg.words) = None
  BY WordsOfCase DEF ToldWith
<1> QED
  BY <1>1, <1>3, <1>4, <1>5

(* What is read off such a turn and the turns before.                      *)
LEMMA CaseDetected ==
  ASSUME NEW s \in CaseWords, NEW q, NEW past0, NEW both, both = past0 \cup q, both \subseteq Details \cup {s}
  PROVE  LET d == Detected(q, past0, both)
         IN  /\ d.asked = DetectService(q) /\ d.asksFor = None /\ d.before = DetectService(past0)
             /\ d.service = Or(DetectService(q), DetectService(both))
             /\ d.action = None /\ d.office = None
             /\ d.municipality = None <=> "jiri" \notin both
             /\ d.district = None <=> both \cap {"jiri", "tanahu"} = {}
             /\ d.ward = None <=> Ward5 \notin both
<1> DEFINE d == Detected(q, past0, both)
<1>1. /\ d.asked = DetectService(q) /\ d.asksFor = DetectAction(q) /\ d.before = DetectService(past0)
      /\ d.service = Or(DetectService(q), DetectService(both))
      /\ d.action = Or(DetectAction(q), IF DetectService(q) # None THEN None ELSE DetectAction(both))
      /\ d.office = Or(DetectOffice(q), DetectOffice(both))
      /\ d.municipality = Or(MunicipalityFromText(q), MunicipalityFromText(both))
      /\ d.ward = Or(WardFromText(q), WardFromText(both))
  BY DEF Detected
<1>2. q \subseteq both /\ q \subseteq Details \cup {s}
  OBVIOUS
<1>3. /\ d.municipality \in {None} \cup (Range(Municipalities) \cap both)
      /\ d.municipality = None <=> Range(Municipalities) \cap both = {}
      /\ \/ d.district \in Range(Districts) \cap both
         \/ d.municipality # None /\ d.district = MunicipalityDistrict[d.municipality]
         \/ d.municipality = None /\ d.district = None
      /\ Range(Districts) \cap both # {} => d.district # None
  BY <1>2, DetectedPlaces
<1> HIDE DEF d
<1>4. /\ DetectAction(q) = None /\ DetectAction(both) = None
      /\ DetectOffice(q) = None /\ DetectOffice(both) = None
  BY <1>2, WordsOfCase
<1>5. /\ MunicipalityFromText(q) = None <=> "jiri" \notin q
      /\ MunicipalityFromText(both) = None <=> "jiri" \notin both
      /\ WardFromText(q) = None <=> Ward5 \notin q
      /\ WardFromText(both) = None <=> Ward5 \notin both
      /\ DistrictFromText(both) = None <=> "tanahu" \notin both
  BY <1>2, WordsOfCase
<1>6. d.municipality = None <=> "jiri" \notin both
  BY <1>1, <1>2, <1>5 DEF Or
<1>7. d.ward = None <=> Ward5 \notin both
  BY <1>1, <1>2, <1>5 DEF Or
<1>8. d.district = None <=> both \cap {"jiri", "tanahu"} = {}
  <2>1. None \notin Range(Districts) /\ \A m \in Range(Municipalities) : MunicipalityDistrict[m] \in Range(Districts)
    <3>1. Range(Districts) = {"dolakha", "sankhuwasabha", "tanahu"}
      BY DEF Districts, Range
    <3> QED
      BY <3>1, HostsAre DEF None
  <2>2. Range(Districts) \cap both = {} <=> "tanahu" \notin both
    BY <1>5, FirstPlaces
  <2> QED
    BY <1>3, <1>6, <2>1, <2>2
<1> QED
  BY <1>1, <1>4, <1>6, <1>7, <1>8 DEF Or, d

(* The service of such a turn, and whether it is read as the answer to the *)
(* question for the place.                                                 *)
LEMMA ContextOfCase ==
  ASSUME NEW s \in CaseWords, NEW msg, ToldWith(msg, s), NEW past0, NEW both, both = past0 \cup msg.words,
         past0 \subseteq Details \cup {s}, NEW d, d = Detected(msg.words, past0, both)
  PROVE  /\ Contextual(msg, d) => s \in past0 /\ d.before = ServiceFor(s)
         /\ s \in past0 /\ s \notin msg.words /\ both \cap {"jiri", "tanahu", Ward5} # {} => Contextual(msg, d)
         /\ ~Contextual(msg, d) =>
              /\ s \in both => d.service = ServiceFor(s)
              /\ s \notin both => d.service \in {None, "municipality_service"}
              /\ d.service = None => s \notin both /\ Ward5 \notin both
<1> DEFINE q == msg.words
<1>1. both \subseteq Details \cup {s} /\ q \subseteq Details \cup {s}
  BY DEF ToldWith
<1>2. /\ d.asked = DetectService(q) /\ d.asksFor = None /\ d.before = DetectService(past0)
      /\ d.service = Or(DetectService(q), DetectService(both))
      /\ d.municipality = None <=> "jiri" \notin both
      /\ d.district = None <=> both \cap {"jiri", "tanahu"} = {}
      /\ d.ward = None <=> Ward5 \notin both
  BY <1>1, CaseDetected
<1>3. /\ DetectService(q) = IF s \in q THEN ServiceFor(s)
                            ELSE IF Ward5 \in q THEN "municipality_service" ELSE None
      /\ DetectService(past0) = IF s \in past0 THEN ServiceFor(s)
                                ELSE IF Ward5 \in past0 THEN "municipality_service" ELSE None
      /\ DetectService(both) = IF s \in both THEN ServiceFor(s)
                               ELSE IF Ward5 \in both THEN "municipality_service" ELSE None
  BY <1>1, ServiceOfCase
<1>4. ServiceFor(s) \notin {None, "municipality_service"}
  BY DEF ServiceFor, None, CaseWords
<1>5. "municipality_service" # None
  BY DEF None
<1>6. msg.asks => s \in q
  BY DEF ToldWith
<1>7. Contextual(msg, d) <=>
        /\ d.before \notin {None, "municipality_service"}
        /\ d.asked \in {None, "municipality_service"}
        /\ ~msg.asks /\ {d.district, d.municipality, d.ward} # {None}
  <2>1. IsLocationAnswer(msg, d.district, d.municipality, d.ward)
          <=> /\ ~msg.asks /\ {d.district, d.municipality, d.ward} # {None}
              /\ d.municipality # None => DetectService(msg.words) \in {None, "municipality_service"}
    BY PlaceTold
  <2> QED
    BY <1>2, <2>1 DEF Contextual
<1>8. {d.district, d.municipality, d.ward} # {None} <=> both \cap {"jiri", "tanahu", Ward5} # {}
  <2>1. {d.district, d.municipality, d.ward} # {None}
          <=> d.district # None \/ d.municipality # None \/ d.ward # None
    OBVIOUS
  <2> QED
    BY <1>2, <2>1
<1>9. Contextual(msg, d) => s \in past0 /\ d.before = ServiceFor(s)
  BY <1>2, <1>3, <1>7
<1>10. ASSUME s \in past0, s \notin msg.words, both \cap {"jiri", "tanahu", Ward5} # {}
       PROVE  Contextual(msg, d)
  <2>1. d.before = ServiceFor(s) /\ d.asked \in {None, "municipality_service"} /\ ~msg.asks
    BY <1>2, <1>3, <1>6, <1>10
  <2> QED
    BY <1>4, <1>7, <1>8, <1>10, <2>1
<1>11. ASSUME ~Contextual(msg, d)
       PROVE  /\ s \in both => d.service = ServiceFor(s)
              /\ s \notin both => d.service \in {None, "municipality_service"}
              /\ d.service = None => s \notin both /\ Ward5 \notin both
  <2>1. CASE s \in q
    BY <1>2, <1>3, <1>4, <2>1 DEF Or
  <2>2. CASE s \notin q /\ s \in past0
    <3>1. Ward5 \notin q
      BY <1>10, <1>11, <2>2
    <3> QED
      BY <1>2, <1>3, <1>4, <2>2, <3>1 DEF Or
  <2>3. CASE s \notin both
    <3>1. Ward5 \notin both => Ward5 \notin q
      OBVIOUS
    <3> QED
      BY <1>2, <1>3, <1>5, <2>3, <3>1 DEF Or
  <2> QED
    BY <2>1, <2>2, <2>3
<1> QED
  BY <1>9, <1>10, <1>11

(* The frame of such a turn.                                               *)
FrameTells(g, s, both) ==
  /\ DOMAIN g = {"service", "action", "caseType", "office", "district", "municipality", "ward",
                 "resolved", "expected", "offDomain", "contextual", "memoryOnly"}
  /\ g.action = None /\ ~g.offDomain /\ ~g.memoryOnly
  /\ s \in both => g.service = ServiceFor(s)
  /\ s \notin both => g.service \in {None, "municipality_service"}
  /\ g.service = None => s \notin both /\ Ward5 \notin both
  /\ g.service = "citizenship" => (g.caseType = None <=> both \cap {"naya", "child"} = {})
  /\ g.municipality = None <=> "jiri" \notin both
  /\ g.district = None <=> both \cap {"jiri", "tanahu"} = {}
  /\ g.ward = None <=> Ward5 \notin both

(* The frame is that of the case, however the turn is read.                *)
LEMMA FrameOfCase ==
  ASSUME NEW s \in CaseWords, NEW msg, ToldWith(msg, s), NEW past0, NEW both, both = past0 \cup msg.words,
         past0 \subseteq Details \cup {s}, NEW d, d = Detected(msg.words, past0, both)
  PROVE  \E g : /\ CaseOf(msg, past0, both, d) = WithMissing(g, msg) /\ FrameTells(g, s, both)
                /\ g.contextual <=> Contextual(msg, d)
<1> DEFINE q == msg.words
           Has(g, service, contextual) ==
             /\ DOMAIN g = {"service", "action", "caseType", "office", "district", "municipality", "ward",
                            "resolved", "expected", "offDomain", "contextual", "memoryOnly"}
             /\ g.action = None /\ ~g.offDomain /\ ~g.memoryOnly /\ g.contextual = contextual
             /\ g.service = service
             /\ g.service = "citizenship" => (g.caseType = None <=> both \cap {"naya", "child"} = {})
             /\ g.municipality = d.municipality /\ g.district = d.district /\ g.ward = d.ward
<1>1. both \subseteq Details \cup {s} /\ q \subseteq Details \cup {s} /\ past0 \subseteq both /\ q \subseteq both
  BY DEF ToldWith
<1>2. /\ d.action = None /\ d.office = None
      /\ d.municipality = None <=> "jiri" \notin both
      /\ d.district = None <=> both \cap {"jiri", "tanahu"} = {}
      /\ d.ward = None <=> Ward5 \notin both
  BY <1>1, CaseDetected
<1>3. /\ Contextual(msg, d) => s \in past0 /\ d.before = ServiceFor(s)
      /\ ~Contextual(msg, d) =>
           /\ s \in both => d.service = ServiceFor(s)
           /\ s \notin both => d.service \in {None, "municipality_service"}
           /\ d.service = None => s \notin both /\ Ward5 \notin both
  BY ContextOfCase
<1>4. /\ DetectAction(past0) = None /\ DetectAction(both) = None /\ DetectOffice(past0) = None
      /\ ~IsGenericIntakeRequest(q)
      /\ DetectCaseType("citizenship", both) = None <=> both \cap {"naya", "child"} = {}
  BY <1>1, WordsOfCase
<1>5. ~msg.sum /\ ~msg.locationOnly
  BY DEF ToldWith, Silence
<1>6. ASSUME NEW first, first \subseteq both, NEW service, NEW contextual
      PROVE  Has(FrameOf(msg, both, d, service, None, CaseTypeOf(service, first, both), None, contextual),
                 service, contextual)
  <2> DEFINE ct == CaseTypeOf(service, first, both)
             g == FrameOf(msg, both, d, service, None, ct, None, contextual)
  <2>1. service = "citizenship" => (ct = None <=> both \cap {"naya", "child"} = {})
    BY <1>4, <1>6, LessIsTold DEF CaseTypeOf, Or
  <2> HIDE DEF ct
  <2>2. /\ DOMAIN g = {"service", "action", "caseType", "office", "district", "municipality", "ward",
                       "resolved", "expected", "offDomain", "contextual", "memoryOnly"}
        /\ g.action = None /\ ~g.offDomain /\ ~g.memoryOnly /\ g.contextual = contextual
        /\ g.service = service /\ g.caseType = ct
        /\ g.municipality = d.municipality /\ g.district = d.district /\ g.ward = d.ward
    BY <1>5 DEF FrameOf
  <2> HIDE DEF g
  <2> QED
    BY <2>1, <2>2 DEF g, ct
<1> HIDE DEF Has
<1>7. CASE Contextual(msg, d)
  <2> DEFINE g == FrameOf(msg, both, d, d.before, None, CaseTypeOf(d.before, past0, both), None, TRUE)
  <2>1. ContextualFrame(msg, past0, both, d) = g
    <3>1. Or(DetectAction(past0), DetectAction(both)) = None /\ Or(DetectOffice(past0), d.office) = None
      BY <1>2, <1>4 DEF Or
    <3>2. ServiceAsked(d.before, None, d, None) = d.before
      BY DEF ServiceAsked, None
    <3> QED
      BY <3>1, <3>2 DEF ContextualFrame
  <2>2. CaseOf(msg, past0, both, d) = WithMissing(g, msg)
    BY <1>7, <2>1 DEF CaseOf
  <2>3. Has(g, d.before, TRUE)
    BY <1>1, <1>6, Zenon
  <2> HIDE DEF g
  <2>4. ServiceFor(s) # None
    BY DEF ServiceFor, None
  <2>5. FrameTells(g, s, both)
    BY <1>1, <1>2, <1>3, <1>7, <2>3, <2>4 DEF FrameTells, Has
  <2> QED
    BY <1>7, <2>2, <2>3, <2>5 DEF Has
<1>8. CASE ~Contextual(msg, d)
  <2> DEFINE g == FrameOf(msg, both, d, d.service, None, CaseTypeOf(d.service, q, both), None, FALSE)
  <2>1. DirectFrame(msg, both, d, IsGenericIntakeRequest(q)) = g
    <3>1. ServiceAsked(d.service, None, d, None) = d.service
      BY DEF ServiceAsked, None
    <3> QED
      BY <1>2, <1>4, <3>1 DEF DirectFrame
  <2>2. CaseOf(msg, past0, both, d) = WithMissing(g, msg)
    BY <1>8, <2>1 DEF CaseOf
  <2>3. Has(g, d.service, FALSE)
    BY <1>1, <1>6, Zenon
  <2> HIDE DEF g
  <2>4. FrameTells(g, s, both)
    BY <1>2, <1>3, <1>8, <2>3 DEF FrameTells, Has
  <2> QED
    BY <1>8, <2>2, <2>3, <2>4 DEF Has
<1> QED
  BY <1>7, <1>8

(* The slots that such a frame misses are those its words leave open.      *)
LEMMA MissesOfCase ==
  ASSUME NEW s \in CaseWords, NEW msg, ToldWith(msg, s), NEW both, msg.words \subseteq both,
         NEW g, FrameTells(g, s, both), NEW frame, frame = WithMissing(g, msg)
  PROVE  /\ PlannerMissingSlots(frame) = {x \in Slots : Misses(x, s, both)}
         /\ frame.action = None /\ ~frame.offDomain /\ ~frame.memoryOnly /\ (frame.contextual <=> g.contextual)
<1> DEFINE M == MissingSlots(g, IsGenericIntakeRequest(msg.words), msg)
<1>1. /\ frame.missing = M /\ frame.service = g.service /\ frame.action = None
      /\ ~frame.offDomain /\ ~frame.memoryOnly /\ frame.contextual = g.contextual
  BY DEF WithMissing, FrameTells
<1>2. ~IsGenericIntakeRequest(msg.words) /\ (g.service = None => ~ContainsAny(msg.words, GOV_DOMAIN_HINTS))
  BY WordsOfCase DEF FrameTells, ToldWith
<1>3. /\ g.service \in {"citizenship", "vital_registration"} <=> s \in both
      /\ g.service = "citizenship" <=> s = "nagarikta" /\ s \in both
  BY DEF FrameTells, ServiceFor, CaseWords, None
<1>4. g.service \notin {"passport", "land"}
  BY DEF FrameTells, ServiceFor, None
<1>5. ExtraMissingSlots(frame) = {}
  BY <1>1, <1>4 DEF ExtraMissingSlots, None
<1>6. /\ "service" \notin M
      /\ "municipality_or_district" \in M <=> Misses("municipality_or_district", s, both)
      /\ "citizenship_case_type" \in M <=> Misses("citizenship_case_type", s, both)
      /\ "municipality_or_ward" \in M <=> Misses("municipality_or_ward", s, both)
      /\ M \subseteq {"service", "municipality_or_district", "citizenship_case_type", "municipality_or_ward"}
  <2>1. "service" \notin M
    BY <1>2 DEF MissingSlots
  <2>2. "municipality_or_district" \in M <=> Misses("municipality_or_district", s, both)
    BY <1>3 DEF MissingSlots, FrameTells, Misses
  <2>3. "citizenship_case_type" \in M <=> Misses("citizenship_case_type", s, both)
    BY <1>3 DEF MissingSlots, FrameTells, Misses
  <2>4. "municipality_or_ward" \in M <=> Misses("municipality_or_ward", s, both)
    BY <1>3 DEF MissingSlots, FrameTells, Misses
  <2>5. M \subseteq {"service", "municipality_or_district", "citizenship_case_type", "municipality_or_ward"}
    BY DEF MissingSlots
  <2> QED
    BY <2>1, <2>2, <2>3, <2>4, <2>5
<1> HIDE DEF M
<1>7. \A x : Misses(x, s, both) =>
        x \in {"municipality_or_district", "citizenship_case_type", "municipality_or_ward"}
  BY DEF Misses
<1>8. M = {x \in Slots : Misses(x, s, both)}
  BY <1>6, <1>7 DEF Slots
<1> QED
  BY <1>1, <1>5, <1>8 DEF PlannerMissingSlots

(* A turn of a case, resolved with the turns before.                       *)
LEMMA CaseResolved ==
  ASSUME NEW s \in CaseWords, NEW msg, ToldWith(msg, s), NEW h, HistoryText(h) \subseteq Details \cup {s},
         NEW both, both = HistoryText(h) \cup msg.words, NEW frame, frame = ResolveCase(msg, h)
  PROVE  /\ PlannerMissingSlots(frame) = {x \in Slots : Misses(x, s, both)}
         /\ frame.action = None /\ ~frame.offDomain /\ ~frame.memoryOnly
         /\ frame.contextual => s \in HistoryText(h)
         /\ s \in HistoryText(h) /\ s \notin msg.words /\ both \cap {"jiri", "tanahu"} # {} => frame.contextual
<1> DEFINE past0 == HistoryText(h)
           d == Detected(msg.words, past0, both)
<1>1. frame = CaseOf(msg, past0, both, d)
  BY DEF ResolveCase
<1>2. PICK g : /\ CaseOf(msg, past0, both, d) = WithMissing(g, msg) /\ FrameTells(g, s, both)
               /\ g.contextual <=> Contextual(msg, d)
  BY FrameOfCase
<1>3. /\ Contextual(msg, d) => s \in past0
      /\ s \in past0 /\ s \notin msg.words /\ both \cap {"jiri", "tanahu", Ward5} # {} => Contextual(msg, d)
  BY ContextOfCase
<1>4. msg.words \subseteq both
  OBVIOUS
<1> HIDE DEF d, past0
<1>5. /\ PlannerMissingSlots(frame) = {x \in Slots : Misses(x, s, both)}
      /\ frame.action = None /\ ~frame.offDomain /\ ~frame.memoryOnly /\ (frame.contextual <=> g.contextual)
  BY <1>1, <1>2, <1>4, MissesOfCase
<1> QED
  BY <1>2, <1>3, <1>5 DEF past0

(* What a turn ends with: refusals and questions come from the settled     *)
(* order, not from the model.                                              *)
LEMMA FinishKinds ==
  ASSUME NEW f, NEW D, IsReply(D), NEW d, NEW y, y = Finish(D, f, d)
  PROVE  /\ y.kind = "no_source" => D.kind = "no_source"
         /\ y.kind = "followup" => D.kind = "followup" /\ y.asked = D.asked
<1> DEFINE g == Generated(d, f.lang, f.claims, f.rows)
           w == With(g, f.claims, f.rows)
<1>1. g.kind \in {"error", "generated"}
  BY DEF Generated
<1> HIDE DEF g
<1>2. w.kind = g.kind /\ IsReply(w)
  BY WithHas, RepliesAre
<1> HIDE DEF w
<1>3. CASE D.kind \in {"identity", "unavailable"}
  BY <1>3 DEF Finish
<1>4. CASE D.kind = "generate"
  <2>1. \/ y = Plain("error", {})
        \/ y = [w EXCEPT !.foreign = g.foreign, !.planner = f.planner.decision]
    BY <1>1, <1>4 DEF Finish, g, w
  <2>2. Plain("error", {}).kind = "error"
    BY PlainIs
  <2>3. [w EXCEPT !.foreign = g.foreign, !.planner = f.planner.decision].kind = w.kind
    BY <1>2 DEF IsReply, Fields
  <2> QED
    BY <1>1, <1>2, <2>1, <2>2, <2>3
<1>5. CASE D.kind \notin {"identity", "unavailable", "generate"}
  <2>1. y = [D EXCEPT !.planner = f.planner.decision]
    BY <1>5 DEF Finish
  <2> QED
    BY <2>1, Setting
<1> QED
  BY <1>3, <1>4, <1>5

(* What is settled before the model is called refuses or asks only for the *)
(* reasons it has to.                                                      *)
LEMMA OrderKinds ==
  ASSUME NEW msg, NEW f, KnownFacts(f), NEW p, Stands(p, f.claims, f.rows), NEW r, Stands(r, f.claims, f.rows),
         NEW D, D = QueryOrder(msg, f, f.claims, f.rows, p, r)
  PROVE  /\ D.kind = "no_source" => f.followup.kind = None /\ ~RetrievalPasses(f.q, f.topic, f.claims, f.rows)
         /\ D.kind = "followup" => D.asked = f.followup.asked
<1>1. \A kind, asked : Plain(kind, asked).kind = kind /\ Plain(kind, asked).asked = asked
  BY PlainIs
<1>2. \A x, claims, rows : With(x, claims, rows).kind = x.kind
  BY WithHas
<1>3. \A x \in {p, r} : x.kind # "no_source" /\ x.kind # "followup"
  BY DEF Stands, PageAnswer, Practical, Tacit, RuleKinds, None
<1>4. NoPlace.kind = "no_place" /\ NoSource.kind = "no_source"
  BY DEF NoPlace, NoSource
<1>5. /\ f.followup.kind \in {None, "memory", "followup"}
      /\ f.followup = FollowupAnswer(f.frame)
  BY FollowupIs DEF KnownFacts
<1>6. Asking(f.frame, f.claims, f.rows).kind = "followup" /\ Asking(f.frame, f.claims, f.rows).asked = f.followup.asked
  <2> DEFINE w == With([kind |-> "followup", cites |-> {}], f.claims, f.rows)
  <2>1. w.kind = "followup" /\ IsReply(w)
    BY <1>2, RepliesAre
  <2>2. Asking(f.frame, f.claims, f.rows) = [w EXCEPT !.asked = f.followup.asked]
    BY <1>5 DEF Asking
  <2> HIDE DEF w
  <2> QED
    BY <2>1, <2>2, AskedSet
<1> QED
  BY <1>1, <1>2, <1>3, <1>4, <1>5, <1>6 DEF QueryOrder, None

(* The authority of a case.                                                *)
AuthorityFor(s) == IF s = "birth" THEN "donidcr.gov.np" ELSE "moha.gov.np"

(* The hosts of the tables: none is a word of a case, and the authorities  *)
(* of a case are of no place.                                              *)
LEMMA HostsOfTables ==
  /\ (LocalHosts \cup DaoHosts \cup AuthorityHosts) \cap (Details \cup CaseWords) = {}
  /\ \A s : ~IsLocalHost(AuthorityFor(s))
<1> DEFINE H == {"daodolakha.moha.gov.np", "daosankhuwasabha.moha.gov.np", "daotanahu.moha.gov.np",
                 "jirimun.gov.np", "khandbarimun.gov.np", "dharmadevimun.gov.np"}
           A == {"moha.gov.np", "nepalpassport.gov.np", "donidcr.gov.np", "ird.gov.np", "dotm.gov.np",
                 "nepalpolice.gov.np", "dofe.gov.np", "feb.gov.np", "moless.gov.np", "dolma.gov.np"}
<1>1. DaoHosts \cup LocalHosts = H
  <2>1. /\ Range(Municipalities) = {"jiri", "khandbari", "dharmadevi"}
        /\ Range(Districts) = {"dolakha", "sankhuwasabha", "tanahu"}
    BY DEF Municipalities, Districts, Range
  <2>2. /\ MunicipalityDomain["jiri"] = "jirimun.gov.np"
        /\ MunicipalityDomain["khandbari"] = "khandbarimun.gov.np"
        /\ MunicipalityDomain["dharmadevi"] = "dharmadevimun.gov.np"
    BY DEF MunicipalityDomain
  <2>3. /\ DaoDomain["dolakha"] = "daodolakha.moha.gov.np"
        /\ DaoDomain["sankhuwasabha"] = "daosankhuwasabha.moha.gov.np"
        /\ DaoDomain["tanahu"] = "daotanahu.moha.gov.np"
    BY DEF DaoDomain
  <2> QED
    BY <2>1, <2>2, <2>3 DEF DaoHosts, LocalHosts
<1>2. AuthorityHosts \subseteq A
  <2>1. \A s \in DOMAIN SERVICE_AUTHORITY_DOMAINS : SERVICE_AUTHORITY_DOMAINS[s] \subseteq A
    BY DEF SERVICE_AUTHORITY_DOMAINS
  <2> QED
    BY <2>1 DEF AuthorityHosts
<1>3. \A x \in Details \cup CaseWords : x \notin H /\ x \notin A
  BY Zenon DEF Details, CaseWords, Ward5
<1>4. "moha.gov.np" \notin H /\ "donidcr.gov.np" \notin H
  OBVIOUS
<1> HIDE DEF H, A
<1> QED
  BY <1>1, <1>2, <1>3, <1>4 DEF IsLocalHost, AuthorityFor

(* The filter of a place keeps a page of a national authority among the    *)
(* first, if it was there.                                                 *)
LEMMA AuthorityKept ==
  ASSUME NEW s, NEW list, Listing(list), NEW frame, frame.action # "contact",
         NEW rows, rows = FilterGovResults(frame, list),
         NEW i \in DOMAIN list, i <= 3, list[i].host = AuthorityFor(s)
  PROVE  /\ Listing(rows) /\ Range(rows) \subseteq Range(list)
         /\ \E j \in DOMAIN rows : j <= 3 /\ rows[j].host = AuthorityFor(s)
<1> DEFINE K == {k \in DOMAIN list :
                   \/ HostMatches(list[k].host, AllowedLocal(frame))
                   \/ frame.action # "contact" /\ ~IsLocalHost(list[k].host)}
<1>1. CASE AllowedLocal(frame) = {}
  BY <1>1 DEF FilterGovResults
<1>2. CASE AllowedLocal(frame) # {}
  <2>1. rows = Picked(list, K)
    BY <1>2 DEF FilterGovResults
  <2>0. ~IsLocalHost(list[i].host)
    <3>1. ~IsLocalHost(AuthorityFor(s))
      BY HostsOfTables
    <3> QED
      BY <3>1
  <2>2. K \subseteq DOMAIN list /\ i \in K
    <3>1. K \subseteq DOMAIN list
      OBVIOUS
    <3>2. i \in K
      BY <2>0, Zenon
    <3> QED
      BY <3>1, <3>2
  <2> HIDE DEF K
  <2>3. Listing(rows) /\ \A x \in Range(rows) : x \in Range(list)
    BY <2>1, <2>2, KeptOf
  <2>4. list \in Seq(Range(list)) /\ i \in 1 .. Len(list)
    BY ListingHas DEF Listing
  <2>5. PICK j \in 1 .. Len(rows) : j <= i /\ rows[j] = list[i]
    <3> DEFINE S == Range(list)
    <3>1. list \in Seq(S)
      BY <2>4
    <3> HIDE DEF S
    <3>2. \E j \in 1 .. Len(Picked(list, K)) : j <= i /\ Picked(list, K)[j] = list[i]
      BY <2>2, <2>4, <3>1, PickedEarly
    <3> QED
      BY <2>1, <3>2
  <2>6. DOMAIN rows = 1 .. Len(rows) /\ Len(rows) \in Nat
    BY <2>3 DEF Listing
  <2>7. j \in DOMAIN rows /\ j <= 3 /\ rows[j].host = AuthorityFor(s)
    BY <2>4, <2>5, <2>6
  <2> QED
    BY <2>3, <2>7
<1> QED
  BY <1>1, <1>2

(* The gate lets such a page pass: for the topic of its service, and for   *)
(* no topic if all pages are of high authority.                            *)
LEMMA CasePasses ==
  ASSUME NEW s \in CaseWords, NEW q, q \subseteq Details \cup {s}, NEW topic, topic = DetectRetrievalTopic(q),
         NEW claims, NEW rows, Listing(rows),
         NEW j \in DOMAIN rows, j <= 3, rows[j].host = AuthorityFor(s)
  PROVE  /\ s \in q => RetrievalPasses(q, topic, claims, rows)
         /\ "jiri" \notin q /\ (\A x \in Range(rows) : x.high) => RetrievalPasses(q, topic, claims, rows)
<1>1. topic = IF s \in q THEN TopicFor(s) ELSE None
  BY TopicOfCase
<1>2. rows # <<>> /\ 1 \in DOMAIN rows /\ DOMAIN rows = 1 .. Len(rows)
  BY ListingHas DEF Listing
<1>3. TopicFor(s) # None /\ topic \notin LOCAL_TACIT_STRICT_TOPICS
  BY <1>1 DEF TopicFor, None, LOCAL_TACIT_STRICT_TOPICS
<1>4. CASE s \in q
  <2>1. AuthorityDomainsForQuery(topic, q) = <<AuthorityFor(s)>>
    <3>1. CASE s = "birth"
      BY <1>1, <1>4, <3>1 DEF AuthorityDomainsForQuery, TopicFor, AuthorityFor
    <3>2. CASE s # "birth"
      BY <1>1, <1>4, <3>2 DEF AuthorityDomainsForQuery, TopicFor, AuthorityFor
    <3> QED
      BY <3>1, <3>2
  <2>2. Range(AuthorityDomainsForQuery(topic, q)) = {AuthorityFor(s)}
    BY <2>1 DEF Range
  <2>3. HostMatches(rows[j].host, {AuthorityFor(s)})
    BY DEF HostMatches
  <2> QED
    BY <1>1, <1>2, <1>3, <1>4, <2>2, <2>3 DEF RetrievalPasses
<1>5. CASE s \notin q /\ "jiri" \notin q /\ \A x \in Range(rows) : x.high
  <2>1. topic = None
    BY <1>1, <1>5
  <2>2. Range(AuthorityDomainsForQuery(topic, q)) = {}
    BY <2>1 DEF AuthorityDomainsForQuery, None, Range
  <2>3. DetectLocalDomains(q) = {}
    <3>1. "dharmadevi" \notin Details \cup CaseWords
      BY Zenon DEF Details, CaseWords, Ward5
    <3>2. q \cap {"jiri", "dharmadevi"} = {}
      BY <1>5, <3>1
    <3>3. q \cap (LocalHosts \cup DaoHosts \cup AuthorityHosts) = {}
      BY HostsOfTables
    <3> QED
      BY <3>2, <3>3 DEF DetectLocalDomains
  <2>4. rows[1].high
    BY <1>2, <1>5 DEF Range
  <2> QED
    BY <1>2, <1>3, <2>1, <2>2, <2>3, <2>4 DEF RetrievalPasses
<1> QED
  BY <1>4, <1>5

(* The history without the current turn.                                   *)
LEMMA TurnsBefore ==
  ASSUME NEW history, Listing(history), NEW bare, NEW msg, NEW h, h = HistoryWithoutCurrentTurn(history, bare, msg)
  PROVE  /\ Range(h) \subseteq Range(history) /\ HistoryText(h) \subseteq HistoryText(history)
         /\ LastUserQuestion(h) \subseteq HistoryText(h)
         /\ LastUserQuestion(history) \subseteq msg.words \cup LastUserQuestion(h)
         /\ h # <<>> => history # <<>>
<1>1. \A k \in {history, h} : Range(k) \subseteq Range(history) /\ (k # <<>> => Last(k) \in Range(k))
  <2>1. history \in Seq(Range(history)) /\ DOMAIN history = 1 .. Len(history) /\ Len(history) \in Nat
    BY ListingHas DEF Listing
  <2>2. history # <<>> => Last(history) \in Range(history)
    <3>1. history # <<>> => Len(history) \in DOMAIN history
      BY <2>1
    <3> QED
      BY <3>1 DEF Last, Range
  <2>3. CASE h = history
    BY <2>2, <2>3
  <2>4. CASE h # history
    <3> DEFINE m == Len(history) - 1
    <3>1. history # <<>> /\ h = SubSeq(history, 1, m)
      BY <2>4 DEF HistoryWithoutCurrentTurn, Front
    <3>2. m \in Nat /\ m <= Len(history)
      BY <2>1, <3>1
    <3>3. h \in Seq(Range(history)) /\ DOMAIN h = 1 .. m /\ \A i \in 1 .. m : h[i] = history[i]
      BY <2>1, <3>1, <3>2, StartOf
    <3>4. Range(h) \subseteq Range(history)
      BY <2>1, <3>3 DEF Range
    <3>5. h # <<>> => Last(h) \in Range(h)
      <4>1. h # <<>> => Len(h) \in DOMAIN h
        BY <3>3
      <4> QED
        BY <4>1 DEF Last, Range
    <3> QED
      BY <2>2, <3>4, <3>5
  <2> QED
    BY <2>3, <2>4
<1>2. HistoryText(h) \subseteq HistoryText(history)
  BY <1>1 DEF HistoryText
<1>3. LastUserQuestion(h) \subseteq HistoryText(h)
  BY <1>1 DEF LastUserQuestion, HistoryText
<1>4. LastUserQuestion(history) \subseteq msg.words \cup LastUserQuestion(h)
  BY DEF LastUserQuestion, HistoryWithoutCurrentTurn
<1>5. h # <<>> => history # <<>>
  BY DEF HistoryWithoutCurrentTurn
<1> QED
  BY <1>1, <1>2, <1>3, <1>4, <1>5

(* A turn, read by the navigator after the turns before it.                *)
TurnRead(s, msg, history, both, frame, q, h) ==
  /\ s \in CaseWords /\ ToldWith(msg, s) /\ \A m \in Range(history) : ToldWith(m, s)
  /\ Listing(history) /\ both = HistoryText(history) \cup msg.words
  /\ frame = ResolveCase(msg, h) /\ q = PromptQuestion(msg, h, frame)

(* What is made of it: what is missing, and the question that topic and    *)
(* gate read.                                                              *)
ReadRight(s, msg, history, both, frame, q) ==
  /\ PlannerMissingSlots(frame) = {x \in Slots : Misses(x, s, both)}
  /\ frame.action = None /\ ~frame.offDomain /\ ~frame.memoryOnly
  /\ q \subseteq both /\ both \subseteq Details \cup {s}
  /\ \A x \in q : x \notin msg.words => s \in both /\ history # <<>>
  /\ PlannerMissingSlots(frame) = {} /\ s \in msg.words \cup LastUserQuestion(history) => s \in q

(* The last message adds to the one before it, if it only names the place. *)
LEMMA QuestionOfCase ==
  ASSUME NEW s, NEW msg, NEW history, NEW bare, NEW both, NEW frame, NEW q, NEW h,
         h = HistoryWithoutCurrentTurn(history, bare, msg),
         TurnRead(s, msg, history, both, frame, q, h)
  PROVE  ReadRight(s, msg, history, both, frame, q)
<1>0. /\ s \in CaseWords /\ ToldWith(msg, s) /\ \A m \in Range(history) : ToldWith(m, s)
      /\ Listing(history) /\ both = HistoryText(history) \cup msg.words
      /\ frame = ResolveCase(msg, h) /\ q = PromptQuestion(msg, h, frame)
  BY DEF TurnRead
<1> DEFINE previous == LastUserQuestion(h)
<1>1. /\ Range(h) \subseteq Range(history) /\ HistoryText(h) \subseteq HistoryText(history)
      /\ previous \subseteq HistoryText(h)
      /\ LastUserQuestion(history) \subseteq msg.words \cup previous
      /\ h # <<>> => history # <<>>
  BY <1>0, TurnsBefore
<1>2. HistoryText(history) \subseteq Details \cup {s} /\ msg.words \subseteq Details \cup {s}
  <2>1. msg.words \subseteq Details \cup {s} /\ \A m \in Range(history) : m.words \subseteq Details \cup {s}
    BY <1>0 DEF ToldWith
  <2> QED
    BY <2>1 DEF HistoryText
<1>3. both = HistoryText(h) \cup msg.words
  BY <1>0, TurnText
<1>4. /\ PlannerMissingSlots(frame) = {x \in Slots : Misses(x, s, both)}
      /\ frame.action = None /\ ~frame.offDomain /\ ~frame.memoryOnly
      /\ frame.contextual => s \in HistoryText(h)
      /\ s \in HistoryText(h) /\ s \notin msg.words /\ both \cap {"jiri", "tanahu"} # {} => frame.contextual
  <2>1. HistoryText(h) \subseteq Details \cup {s}
    BY <1>1, <1>2
  <2>2. s \in CaseWords /\ ToldWith(msg, s) /\ frame = ResolveCase(msg, h)
    BY <1>0
  <2> QED
    BY <1>3, <2>1, <2>2, CaseResolved
<1>5. ~msg.recheck /\ ~msg.refers
  BY <1>0 DEF ToldWith, Silence
<1>6. h = <<>> => previous = {}
  BY DEF LastUserQuestion
<1> HIDE DEF previous
<1>7. q = IF previous # {} /\ frame.contextual THEN previous \cup msg.words ELSE msg.words
  BY <1>0, <1>5 DEF PromptQuestion, NeedsHistoryForRetrieval, previous
<1>8. q \subseteq both /\ \A x \in q : x \notin msg.words => s \in both /\ history # <<>>
  BY <1>1, <1>3, <1>4, <1>6, <1>7
<1>9. ASSUME PlannerMissingSlots(frame) = {}, s \in msg.words \cup LastUserQuestion(history)
      PROVE  s \in q
  <2>1. CASE s \in msg.words
    BY <1>7, <2>1
  <2>2. CASE s \notin msg.words
    <3>1. s \in previous /\ s \in HistoryText(h) /\ s \in both
      BY <1>1, <1>3, <1>9, <2>2
    <3>2. both \cap {"jiri", "tanahu"} # {}
      <4>1. "municipality_or_district" \in Slots /\ ~Misses("municipality_or_district", s, both)
        BY <1>4, <1>9 DEF Slots
      <4> QED
        BY <1>0, <3>1, <4>1 DEF Misses
    <3> QED
      BY <1>4, <1>7, <2>2, <3>1, <3>2
  <2> QED
    BY <2>1, <2>2
<1> QED
  BY <1>0, <1>1, <1>2, <1>4, <1>8, <1>9 DEF ReadRight

(* A turn of a case that is served.                                        *)
CaseServed(s, msg, history, bare, both, r, f, d, y, open) ==
  /\ s \in CaseWords /\ ToldWith(msg, s) /\ \A m \in Range(history) : ToldWith(m, s)
  /\ Listing(history) /\ Searched(r)
  /\ both = HistoryText(history) \cup msg.words
  /\ open = {x \in Slots : Misses(x, s, both)}
  /\ f = Facts(Case(msg, history, bare), r) /\ y = Finish(Query(msg, f), f, d)

(* What is asked in it, and when it is refused although the authority's    *)
(* page was found.                                                         *)
LEMMA ServedCase ==
  ASSUME NEW s, NEW msg, NEW history, NEW bare, NEW both, NEW r, NEW f, NEW d, NEW y, NEW open,
         CaseServed(s, msg, history, bare, both, r, f, d, y, open)
  PROVE  /\ both \subseteq Details \cup {s}
         /\ y.kind = "followup" => y.asked = open
         /\ y.kind = "no_source" /\ (\E i \in DOMAIN r.rows : i <= 3 /\ r.rows[i].host = AuthorityFor(s)) =>
              /\ open = {} /\ s \notin msg.words \cup LastUserQuestion(history)
              /\ (\A x \in Range(r.rows) : x.high) =>
                    "jiri" \in both /\ ("jiri" \notin msg.words => s \in both /\ history # <<>>)
<1>0. /\ s \in CaseWords /\ ToldWith(msg, s) /\ \A m \in Range(history) : ToldWith(m, s)
      /\ Listing(history) /\ Searched(r)
      /\ both = HistoryText(history) \cup msg.words
      /\ open = {x \in Slots : Misses(x, s, both)}
      /\ f = Facts(Case(msg, history, bare), r) /\ y = Finish(Query(msg, f), f, d)
  BY DEF CaseServed
<1> DEFINE h == HistoryWithoutCurrentTurn(history, bare, msg)
           frame == ResolveCase(msg, h)
           q == PromptQuestion(msg, h, frame)
           c == Case(msg, history, bare)
<1>4. h = HistoryWithoutCurrentTurn(history, bare, msg) /\ frame = ResolveCase(msg, h)
       /\ q = PromptQuestion(msg, h, frame)
  OBVIOUS
<1>1. c = CaseAfter(msg, h) /\ c.frame = frame /\ c.q = q /\ c.topic = DetectRetrievalTopic(q)
  BY DEF Case, CaseAfter, InFrame, Understood
<1> HIDE DEF h, frame, q
<1>5. /\ PlannerMissingSlots(frame) = open
      /\ frame.action = None /\ ~frame.offDomain /\ ~frame.memoryOnly
      /\ q \subseteq both /\ both \subseteq Details \cup {s}
      /\ \A x \in q : x \notin msg.words => s \in both /\ history # <<>>
      /\ PlannerMissingSlots(frame) = {} /\ s \in msg.words \cup LastUserQuestion(history) => s \in q
  <2>1. TurnRead(s, msg, history, both, frame, q, h)
    BY <1>0, <1>4 DEF TurnRead
  <2>2. ReadRight(s, msg, history, both, frame, q)
    BY <2>1, <1>4, QuestionOfCase
  <2> QED
    BY <2>2, <1>0 DEF ReadRight
<1> USE <1>0
<1>2. /\ f.frame = frame /\ f.q = q /\ f.topic = DetectRetrievalTopic(q)
      /\ f.rows = FilterGovResults(frame, r.rows)
  BY <1>1 DEF Facts, FactsOver
<1>3. KnownFacts(f)
  BY <1>1, FactsAre
<1> HIDE DEF c
<1> DEFINE p == CitizenshipPracticalRule(f.q, f.topic, f.claims, f.rows)
           rule == QueryRules(f.q, f.topic, f.claims, f.rows, f.lang)
           D == QueryOrder(msg, f, f.claims, f.rows, p, rule)
<1>6. /\ Stands(rule, f.claims, f.rows) /\ Stands(p, f.claims, f.rows) /\ Listing(f.rows)
  BY <1>3, ChainStands DEF KnownFacts
<1>7. Query(msg, f) = D
  BY DEF Query
<1> HIDE DEF p, rule
<1>8. /\ D.kind = "no_source" => f.followup.kind = None /\ ~RetrievalPasses(f.q, f.topic, f.claims, f.rows)
      /\ D.kind = "followup" => D.asked = f.followup.asked
  BY <1>3, <1>6, OrderKinds
<1>9. IsReply(D)
  <2>1. Settled(D, f, p, rule)
    BY OrderSettles
  <2> HIDE DEF D
  <2> QED
    BY <1>3, <1>6, <2>1, SettledData
<1> HIDE DEF D
<1>10. /\ y.kind = "no_source" => D.kind = "no_source"
       /\ y.kind = "followup" => D.kind = "followup" /\ y.asked = D.asked
  BY <1>7, <1>9, FinishKinds
<1>11. /\ f.followup.asked = open
       /\ f.followup.kind = None => open = {}
  <2>1. f.followup = FollowupAnswer(frame)
    BY <1>2, <1>3 DEF KnownFacts
  <2>2. open \subseteq Slots
    OBVIOUS
  <2>3. f.followup = IF open # {} THEN [kind |-> "followup", asked |-> open \cap Slots]
                     ELSE [kind |-> None, asked |-> {}]
    BY <1>5, <2>1, Zenon DEF FollowupAnswer
  <2>4. open \cap Slots = open
    BY <2>2
  <2>5. CASE open = {}
    <3>1. f.followup = [kind |-> None, asked |-> {}]
      BY <2>3, <2>5
    <3> QED
      BY <2>5, <3>1
  <2>6. CASE open # {}
    <3>1. f.followup = [kind |-> "followup", asked |-> open]
      BY <2>3, <2>4, <2>6
    <3> QED
      BY <3>1 DEF None
  <2> QED
    BY <2>5, <2>6
<1>12. y.kind = "followup" => y.asked = open
  BY <1>8, <1>10, <1>11
<1>13. ASSUME y.kind = "no_source", NEW i \in DOMAIN r.rows, i <= 3, r.rows[i].host = AuthorityFor(s)
       PROVE  /\ open = {} /\ s \notin msg.words \cup LastUserQuestion(history)
              /\ (\A x \in Range(r.rows) : x.high) =>
                    "jiri" \in both /\ ("jiri" \notin msg.words => s \in both /\ history # <<>>)
  <2>1. open = {} /\ ~RetrievalPasses(q, DetectRetrievalTopic(q), f.claims, f.rows)
    <3>1. D.kind = "no_source"
      BY <1>10, <1>13
    <3>2. f.followup.kind = None /\ ~RetrievalPasses(f.q, f.topic, f.claims, f.rows)
      BY <1>8, <3>1
    <3>3. open = {}
      BY <1>11, <3>2
    <3>4. ~RetrievalPasses(q, DetectRetrievalTopic(q), f.claims, f.rows)
      BY <1>2, <3>2
    <3> QED
      BY <3>3, <3>4
  <2>2. /\ Listing(f.rows) /\ Range(f.rows) \subseteq Range(r.rows)
        /\ \E j \in DOMAIN f.rows : j <= 3 /\ f.rows[j].host = AuthorityFor(s)
    <3>1. frame.action # "contact" /\ Listing(r.rows)
      BY <1>5 DEF None, Searched
    <3> DEFINE list == r.rows
    <3>2. f.rows = FilterGovResults(frame, list) /\ i \in DOMAIN list /\ i <= 3
          /\ list[i].host = AuthorityFor(s) /\ Listing(list)
      BY <1>2, <1>13, <3>1
    <3> HIDE DEF list
    <3>3. /\ Listing(f.rows) /\ Range(f.rows) \subseteq Range(list)
          /\ \E j \in DOMAIN f.rows : j <= 3 /\ f.rows[j].host = AuthorityFor(s)
      BY <3>1, <3>2, AuthorityKept
    <3> QED
      BY <3>3 DEF list
  <2>3. PICK j \in DOMAIN f.rows : j <= 3 /\ f.rows[j].host = AuthorityFor(s)
    BY <2>2
  <2>4. /\ s \notin q
        /\ (\A x \in Range(f.rows) : x.high) => "jiri" \in q
    <3>1. q \subseteq Details \cup {s}
      BY <1>5
    <3> QED
      BY <2>1, <2>2, <2>3, <3>1, CasePasses
  <2> QED
    BY <1>5, <2>1, <2>2, <2>4
<1> QED
  BY <1>5, <1>12, <1>13

(* The turns that the client keeps.                                        *)
LEMMA TurnsKept ==
  ASSUME NEW history, Listing(history), NEW msg, NEW y, y = Remember(history, msg)
  PROVE  /\ msg = Silence => y = history
         /\ msg # Silence => y # <<>> /\ Last(y) = msg
         /\ \A m \in Range(y) : m \in Range(history) \/ (m = msg /\ msg # Silence)
<1>1. CASE msg = Silence
  <2>1. Remember(history, msg) = history
    BY <1>1 DEF Remember
  <2>2. y = history
    BY <2>1
  <2> QED
    BY <1>1, <2>2
<1>2. CASE msg # Silence
  <2> DEFINE S == Range(history) \cup {msg}
             all == Append(history, msg)
             n == Len(all)
             m == Max({1, Len(all) - Window + 1})
  <2>1. history \in Seq(S) /\ msg \in S
    BY DEF Listing
  <2>2. all \in Seq(S) /\ n \in Nat /\ n > 0 /\ all[n] = msg
    BY <2>1
  <2>3. y = SubSeq(all, m, n)
    BY <1>2 DEF Remember
  <2> HIDE DEF all, S
  <2>4. m \in 1 .. n
    BY <2>2, WindowFrom
  <2> HIDE DEF m, n
  <2>5. y \in Seq(S) /\ Len(y) = n - m + 1 /\ y[n - m + 1] = all[n]
    <3>1. all \in Seq(S) /\ Len(all) = n /\ m \in 1 .. Len(all) /\ n \in Nat
      BY <2>2, <2>4 DEF n
    <3>2. y = SubSeq(all, m, Len(all))
      BY <2>3 DEF n
    <3> HIDE DEF n
    <3>3. /\ SubSeq(all, m, Len(all)) \in Seq(S)
          /\ Len(SubSeq(all, m, Len(all))) = Len(all) - m + 1
      BY <3>1
    <3>4. SubSeq(all, m, Len(all))[Len(all) - m + 1] = all[Len(all)]
      BY <3>1
    <3> QED
      BY <3>1, <3>2, <3>3, <3>4
  <2>6. y # <<>> /\ Last(y) = msg
    <3>1. Len(y) > 0
      BY <2>2, <2>4, <2>5
    <3> QED
      BY <2>2, <2>5, <3>1 DEF Last
  <2>7. \A x \in Range(y) : x \in S
    BY <2>5 DEF Range
  <2> QED
    BY <1>2, <2>6, <2>7 DEF S
<1> QED
  BY <1>1, <1>2

(* What a citizen who answers has said and was asked: words of the need,   *)
(* and questions for what they leave open.                                 *)
FromNeed(m, s) == ToldWith(m, s) /\ m.asks \in BOOLEAN /\ m.words \subseteq citizen.need
Open(s, text) == {x \in Slots : Misses(x, s, text)}

\* Who answers all at once has nothing to add after the first answer.
InFull(s) == citizen.need \cap ({"jiri", "tanahu"} \cup IF s = "nagarikta" THEN {"naya", "child"} ELSE {})
AtOnce(s) ==
  /\ \A m \in Range(past) \cup {last} : m.words \in {{}, {s}, InFull(s)}
  /\ "jiri" \in last.words => s \in LastUserQuestion(past)
  /\ last.words = {} /\ past # <<>> => s = "nagarikta" /\ citizen.need \cap {"naya", "child"} = {}

Conversed(s) ==
  /\ \A m \in Range(past) \cup {last} : FromNeed(m, s)
  /\ \A m \in Range(past) : m.words # {}
  /\ citizen.style = "all" /\ "jiri" \in citizen.need => AtOnce(s)

CaseInv(s) == Conversed(s) /\ (reply.kind = "followup" => reply.asked = Open(s, Spoken))

CaseInvs ==
  citizen.style # "free" =>
    citizen.need \in Needs /\ \A s \in citizen.need \cap CaseWords : CaseInv(s)

(* A need names one service.                                               *)
LEMMA OneService ==
  ASSUME NEW need \in Needs, NEW s \in need \cap CaseWords
  PROVE  need \cap ServiceWords = {s} /\ AuthorityFor(s) = IF "birth" \in need THEN "donidcr.gov.np" ELSE "moha.gov.np"
<1>1. CaseWords \subseteq ServiceWords
  BY DEF CaseWords, ServiceWords
<1>2. \A v, w \in need \cap ServiceWords : v = w
  BY NeedsAssumption
<1>3. need \cap ServiceWords = {s}
  BY <1>1, <1>2
<1>4. "birth" \in need <=> s = "birth"
  BY <1>3 DEF ServiceWords
<1> QED
  BY <1>3, <1>4 DEF AuthorityFor

(* Serving asks for what is open, and refuses only out of sight.           *)
LEMMA ServeKeepsCases ==
  ASSUME ConvInv, CaseInvs, Serve
  PROVE  CaseInvs' /\ RefusedOutOfSight'
<1>1. PICK c \in {Case(last, past, unreplied)}, r \in Retrievals : \E f \in {Facts(c, r)} :
        \E atOnce \in {Query(last, f)}, inEvents \in {Stream(last, f)}, d \in Completions :
          found' = r /\ reply' = Finish(atOnce, f, d) /\ streamed' = StreamFinish(inEvents, f, d)
  BY DEF Serve
<1>2. PICK f \in {Facts(c, r)}, d \in Completions : found' = r /\ reply' = Finish(Query(last, f), f, d)
  BY <1>1
<1>3. citizen' = citizen /\ past' = past /\ unreplied' = unreplied /\ last' = last
  BY DEF Serve
<1>4. Searched(r)
  BY RetrievalsAssumption DEF Searched, Listing, ApartRows
<1>5. Listing(past)
  BY DEF ConvInv
<1>6. CASE citizen.style = "free"
  BY <1>3, <1>6 DEF CaseInvs, RefusedOutOfSight
<1>7. CASE citizen.style # "free" /\ citizen.need \cap CaseWords = {}
  <2>1. citizen.need \cap {"nagarikta", "birth"} = {}
    BY <1>7 DEF CaseWords
  <2> QED
    BY <1>3, <1>7, <2>1 DEF CaseInvs, RefusedOutOfSight
<1>8. CASE citizen.style # "free" /\ citizen.need \cap CaseWords # {}
  <2>1. PICK s \in citizen.need \cap CaseWords : TRUE
    BY <1>8
  <2>2. /\ citizen.need \in Needs /\ citizen.need \cap ServiceWords = {s}
        /\ AuthorityFor(s) = IF "birth" \in citizen.need THEN "donidcr.gov.np" ELSE "moha.gov.np"
        /\ citizen.need \cap CaseWords = {s} /\ s \in CaseWords
    <3>1. citizen.need \in Needs
      BY <1>8 DEF CaseInvs
    <3>2. CaseWords \subseteq ServiceWords
      BY DEF CaseWords, ServiceWords
    <3> QED
      BY <2>1, <3>1, <3>2, OneService
  <2>3. CaseInv(s)
    BY <1>8, <2>1 DEF CaseInvs
  <2>4. ToldWith(last, s) /\ \A m \in Range(past) : ToldWith(m, s)
    BY <2>3 DEF CaseInv, Conversed, FromNeed
  <2>5. Spoken = HistoryText(past) \cup last.words
    BY DEF Spoken
  <2>6. /\ Spoken \subseteq Details \cup {s}
        /\ reply'.kind = "followup" => reply'.asked = Open(s, Spoken)
        /\ reply'.kind = "no_source" /\ (\E i \in DOMAIN r.rows : i <= 3 /\ r.rows[i].host = AuthorityFor(s)) =>
             /\ Open(s, Spoken) = {} /\ s \notin last.words \cup LastUserQuestion(past)
             /\ (\A x \in Range(r.rows) : x.high) =>
                   "jiri" \in Spoken /\ ("jiri" \notin last.words => s \in Spoken /\ past # <<>>)
    <3> DEFINE y == reply'
               both == Spoken
               open == Open(s, Spoken)
    <3>1. /\ Listing(past) /\ Searched(r) /\ f = Facts(Case(last, past, unreplied), r)
          /\ ToldWith(last, s) /\ \A m \in Range(past) : ToldWith(m, s)
      BY <1>4, <1>5, <2>4
    <3>2. both = HistoryText(past) \cup last.words
      BY <2>5
    <3>3. open = {x \in Slots : Misses(x, s, both)}
      BY DEF Open
    <3>4. y = Finish(Query(last, f), f, d)
      BY <1>2
    <3>5. s \in CaseWords
      BY <2>2
    <3> HIDE DEF y, both, open
    <3>6. CaseServed(s, last, past, unreplied, both, r, f, d, y, open)
      BY <3>1, <3>2, <3>3, <3>4, <3>5 DEF CaseServed
    <3>7. /\ both \subseteq Details \cup {s}
          /\ y.kind = "followup" => y.asked = open
          /\ y.kind = "no_source" /\ (\E i \in DOMAIN r.rows : i <= 3 /\ r.rows[i].host = AuthorityFor(s)) =>
               /\ open = {} /\ s \notin last.words \cup LastUserQuestion(past)
               /\ (\A x \in Range(r.rows) : x.high) =>
                     "jiri" \in both /\ ("jiri" \notin last.words => s \in both /\ past # <<>>)
      BY <3>6, ServedCase
    <3> QED
      BY <3>7 DEF y, both, open
  <2>7. CaseInv(s)'
    <3>1. Spoken' = Spoken /\ Open(s, Spoken)' = Open(s, Spoken)
      BY <1>3 DEF Spoken, Open
    <3>2. Conversed(s)'
      BY <1>3, <2>3 DEF CaseInv, Conversed, FromNeed, AtOnce, InFull
    <3> QED
      BY <2>6, <3>1, <3>2 DEF CaseInv
  <2>8. CaseInvs'
    BY <1>3, <2>2, <2>7 DEF CaseInvs
  <2>9. ASSUME AuthorityFound', reply'.kind = "no_source"
        PROVE  /\ ~ServiceInSight'
               /\ citizen.style = "all" => \E x \in Range(r.rows) : ~x.high
    <3>1. \E i \in DOMAIN r.rows : i <= 3 /\ r.rows[i].host = AuthorityFor(s)
      BY <1>2, <1>3, <2>2, <2>9 DEF AuthorityFound
    <3>2. /\ Open(s, Spoken) = {} /\ s \notin last.words \cup LastUserQuestion(past)
          /\ (\A x \in Range(r.rows) : x.high) =>
                "jiri" \in Spoken /\ ("jiri" \notin last.words => s \in Spoken /\ past # <<>>)
      BY <2>6, <2>9, <3>1
    <3>3. ~ServiceInSight'
      BY <1>3, <2>2, <3>2 DEF ServiceInSight
    <3>4. ASSUME citizen.style = "all", \A x \in Range(r.rows) : x.high PROVE FALSE
      <4>1. "jiri" \in Spoken /\ ("jiri" \notin last.words => s \in Spoken /\ past # <<>>)
        BY <3>2, <3>4
      <4>2. Spoken \subseteq citizen.need
        <5>1. \A m \in Range(past) \cup {last} : m.words \subseteq citizen.need
          BY <2>3 DEF CaseInv, Conversed, FromNeed
        <5> QED
          BY <2>5, <5>1 DEF HistoryText
      <4>3. AtOnce(s)
        BY <2>3, <3>4, <4>1, <4>2 DEF CaseInv, Conversed
      <4>4. "jiri" \notin last.words
        BY <3>2, <4>3 DEF AtOnce
      <4>5. last.words = {}
        <5>1. last.words \in {{}, {s}, InFull(s)} /\ "jiri" \in InFull(s)
          BY <4>1, <4>2, <4>3 DEF AtOnce, InFull
        <5> QED
          BY <3>2, <4>4, <5>1
      <4>6. s = "nagarikta" /\ citizen.need \cap {"naya", "child"} = {}
        BY <4>1, <4>3, <4>4, <4>5 DEF AtOnce
      <4>7. Misses("citizenship_case_type", s, Spoken)
        BY <4>1, <4>2, <4>4, <4>6 DEF Misses
      <4> QED
        BY <3>2, <4>7 DEF Open, Slots
    <3> QED
      BY <3>3, <3>4
  <2>10. RefusedOutOfSight'
    BY <1>2, <1>3, <2>9 DEF RefusedOutOfSight
  <2> QED
    BY <2>8, <2>10
<1> QED
  BY <1>6, <1>7, <1>8

(* A citizen with a need posts: what the client keeps are turns that were  *)
(* already told, the last one with a word to it.                           *)
LEMMA PostKeepsTurns ==
  ASSUME ConvInv, NEW s, Conversed(s), NEW msg, Post(msg)
  PROVE  /\ citizen' = citizen /\ last' = msg /\ reply'.kind = "pending"
         /\ \A m \in Range(past') : m \in Range(past) \cup {last} /\ m.words # {}
         /\ HistoryText(past') \subseteq Spoken
         /\ past' # <<>> => Last(past') \in Range(past) \cup {last} /\ Last(past').words # {}
         /\ Spoken # {} => past' # <<>>
<1>1. citizen' = citizen /\ last' = msg /\ reply'.kind = "pending" /\ past' = Remember(past, last)
  BY DEF Post, Pending, NoReply
<1>2. Listing(past)
  BY DEF ConvInv
<1> DEFINE y == past'
<1>3. y = Remember(past, last)
  BY <1>1
<1> HIDE DEF y
<1>4. /\ last = Silence => y = past
      /\ last # Silence => y # <<>> /\ Last(y) = last
      /\ \A m \in Range(y) : m \in Range(past) \/ (m = last /\ last # Silence)
  BY <1>2, <1>3, TurnsKept
<1>5. last.words = {} => last = Silence
  <2>1. last = [Silence EXCEPT !.words = last.words, !.asks = last.asks] /\ last.asks \in BOOLEAN
        /\ (last.words = {} => ~last.asks)
    BY DEF Conversed, FromNeed, ToldWith
  <2>2. ASSUME last.words = {} PROVE last = Silence
    <3>1. last = [Silence EXCEPT !.words = {}, !.asks = FALSE]
      BY <2>1, <2>2
    <3> QED
      BY <3>1 DEF Silence
  <2> QED
    BY <2>2
<1>6. \A m \in Range(past) : m.words # {}
  BY DEF Conversed
<1>7. \A m \in Range(y) : m \in Range(past) \cup {last} /\ m.words # {}
  BY <1>4, <1>5, <1>6
<1>8. HistoryText(y) \subseteq Spoken
  BY <1>7 DEF HistoryText, Spoken
<1>9. past # <<>> => Last(past) \in Range(past)
  <2>1. DOMAIN past = 1 .. Len(past) /\ Len(past) \in Nat /\ past \in Seq(Range(past))
    BY <1>2, ListingHas DEF Listing
  <2>2. past # <<>> => Len(past) \in DOMAIN past
    BY <2>1
  <2> QED
    BY <2>2 DEF Last, Range
<1>10. y # <<>> => Last(y) \in Range(past) \cup {last} /\ Last(y).words # {}
  BY <1>4, <1>5, <1>6, <1>9
<1>11. Spoken # {} => y # <<>>
  <2>1. last = Silence /\ past = <<>> => Spoken = {}
    BY DEF Spoken, HistoryText, Silence, Range
  <2> QED
    BY <1>4, <2>1
<1> QED
  BY <1>1, <1>7, <1>8, <1>10, <1>11 DEF y

(* The citizen opens with the service of the need.                         *)
LEMMA OpeningKeeps ==
  ASSUME ConvInv, CaseInvs, citizen.style # "free", last = Silence, Post(Opening)
  PROVE  CaseInvs'
<1>1. citizen' = citizen /\ citizen.need \in Needs
  BY DEF Post, CaseInvs
<1>2. SUFFICES ASSUME NEW s \in citizen.need \cap CaseWords
               PROVE  CaseInv(s)'
  BY <1>1 DEF CaseInvs
<1>3. Conversed(s)
  BY <1>2 DEF CaseInvs, CaseInv
<1>4. /\ last' = Opening /\ reply'.kind = "pending"
      /\ \A m \in Range(past') : m \in Range(past) \cup {last} /\ m.words # {}
  BY <1>3, PostKeepsTurns
<1>5. SlotWords("service") = ServiceWords
  BY DEF SlotWords
<1>6. Opening = [Silence EXCEPT !.words = {s}, !.asks = TRUE] /\ Opening.words = {s} /\ Opening.asks = TRUE
  <2>1. citizen.need \cap SlotWords("service") = {s}
    BY <1>1, <1>2, <1>5, OneService
  <2> QED
    BY <2>1 DEF Opening, Silence
<1>7. FromNeed(Opening, s)
  BY <1>2, <1>6 DEF FromNeed, ToldWith
<1>8. \A m \in Range(past') \cup {last'} : FromNeed(m, s)
  BY <1>3, <1>4, <1>7 DEF Conversed
<1>9. ASSUME citizen.style = "all" /\ "jiri" \in citizen.need PROVE AtOnce(s)'
  <2>1. \A m \in Range(past') \cup {last'} : m.words \in {{}, {s}, InFull(s)}
    BY <1>3, <1>4, <1>6, <1>9 DEF Conversed, AtOnce
  <2>2. s # "jiri"
    BY <1>2 DEF CaseWords
  <2> QED
    BY <1>1, <1>4, <1>6, <2>1, <2>2 DEF AtOnce, InFull
<1>10. Conversed(s)'
  BY <1>1, <1>4, <1>8, <1>9 DEF Conversed, FromNeed
<1> QED
  BY <1>4, <1>10 DEF CaseInv

(* What answers an open question is a word of the need that is not the     *)
(* service.                                                                *)
LEMMA AnswerWords ==
  ASSUME NEW s \in CaseWords, NEW text, NEW slots, slots \subseteq Open(s, text), NEW words,
         words = citizen.need \cap UNION {SlotWords(x) : x \in slots}
  PROVE  /\ words \subseteq Details \cap citizen.need
         /\ \A x \in slots : x \in {"municipality_or_district", "municipality_or_ward",
                                    "citizenship_case_type"}
         /\ SlotWords("municipality_or_district") = {"jiri", "tanahu"}
         /\ SlotWords("municipality_or_ward") = {"jiri", Ward5}
         /\ SlotWords("citizenship_case_type") = {"naya", "child"}
<1>1. SlotWords("municipality_or_district") = {"jiri", "tanahu"}
  BY Zenon DEF SlotWords
<1>2. SlotWords("municipality_or_ward") = {"jiri", Ward5}
  BY Zenon DEF SlotWords, Ward5
<1>3. SlotWords("citizenship_case_type") = {"naya", "child"}
  BY Zenon DEF SlotWords
<1>4. \A x \in slots : x \in {"municipality_or_district", "municipality_or_ward", "citizenship_case_type"}
  BY DEF Open, Misses
<1>5. \A x \in slots : SlotWords(x) \subseteq Details
  BY <1>1, <1>2, <1>3, <1>4 DEF Details
<1> QED
  BY <1>1, <1>2, <1>3, <1>4, <1>5

(* The words of the need that answer a set of questions.                   *)
WordsFor(slots) == citizen.need \cap UNION {SlotWords(x) : x \in slots}

(* Who answers all at once: the first answer is all that is left of the    *)
(* need, and the second, where the case type was asked once more, nothing. *)
LEMMA AllAtOnce ==
  ASSUME NEW s \in CaseWords, NEW text, text \subseteq Details \cup {s},
         "jiri" \notin text => text \subseteq {s}, "jiri" \in text => InFull(s) \subseteq text,
         "jiri" \in citizen.need, Open(s, text) # {}
  PROVE  \/ "jiri" \notin text /\ text = {s} /\ WordsFor(Open(s, text)) = InFull(s)
         \/ /\ "jiri" \in text /\ WordsFor(Open(s, text)) = {} /\ s = "nagarikta"
            /\ citizen.need \cap {"naya", "child"} = {}
<1> DEFINE words == WordsFor(Open(s, text))
<1>0. words = citizen.need \cap UNION {SlotWords(x) : x \in Open(s, text)}
  BY DEF WordsFor
<1> HIDE DEF words
<1>1. s \in text
  BY DEF Open, Misses
<1>2. /\ SlotWords("municipality_or_district") = {"jiri", "tanahu"}
      /\ SlotWords("citizenship_case_type") = {"naya", "child"}
      /\ "jiri" \in InFull(s) /\ s # "jiri" /\ s # "tanahu" /\ "naya" # s /\ "child" # s
  BY AnswerWords DEF InFull, CaseWords
<1>3. CASE "jiri" \notin text
  <2>1. text = {s}
    BY <1>1, <1>3
  <2>2. Open(s, text) = {"municipality_or_district"}
                        \cup IF s = "nagarikta" THEN {"citizenship_case_type"} ELSE {}
    BY <1>2, <2>1 DEF Open, Misses, Slots
  <2>3. words = InFull(s)
    <3>1. CASE s = "nagarikta"
      <4>1. Open(s, text) = {"municipality_or_district", "citizenship_case_type"}
        BY <2>2, <3>1
      <4>2. {SlotWords(x) : x \in Open(s, text)} = {{"jiri", "tanahu"}, {"naya", "child"}}
        BY <1>2, <4>1
      <4>3. UNION {{"jiri", "tanahu"}, {"naya", "child"}} = {"jiri", "tanahu"} \cup {"naya", "child"}
        OBVIOUS
      <4>4. words = citizen.need \cap ({"jiri", "tanahu"} \cup {"naya", "child"})
        BY <1>0, <4>2, <4>3
      <4> QED
        BY <3>1, <4>4 DEF InFull
    <3>2. CASE s # "nagarikta"
      <4>1. Open(s, text) = {"municipality_or_district"}
        BY <2>2, <3>2
      <4>2. {SlotWords(x) : x \in Open(s, text)} = {{"jiri", "tanahu"}}
        BY <1>2, <4>1
      <4>3. UNION {{"jiri", "tanahu"}} = {"jiri", "tanahu"}
        OBVIOUS
      <4>4. words = citizen.need \cap {"jiri", "tanahu"}
        BY <1>0, <4>2, <4>3
      <4>5. InFull(s) = citizen.need \cap ({"jiri", "tanahu"} \cup {})
        BY <3>2 DEF InFull
      <4> QED
        BY <4>4, <4>5
    <3> QED
      BY <3>1, <3>2
  <2> QED
    BY <1>3, <2>1, <2>3 DEF words
<1>4. CASE "jiri" \in text
  <2>1. InFull(s) \subseteq text
    BY <1>4
  <2>2. Open(s, text) = {"citizenship_case_type"} /\ s = "nagarikta" /\ text \cap {"naya", "child"} = {}
    BY <1>4 DEF Open, Misses, Slots
  <2>3. citizen.need \cap {"naya", "child"} = {}
    BY <2>1, <2>2 DEF InFull
  <2>4. {SlotWords(x) : x \in Open(s, text)} = {{"naya", "child"}}
    BY <1>2, <2>2
  <2>5. UNION {{"naya", "child"}} = {"naya", "child"}
    OBVIOUS
  <2>6. words = citizen.need \cap {"naya", "child"}
    BY <1>0, <2>4, <2>5
  <2> QED
    BY <1>4, <2>2, <2>3, <2>6 DEF words
<1> QED
  BY <1>3, <1>4

(* The citizen answers what is asked.                                      *)
LEMMA AnsweringKeeps ==
  ASSUME ConvInv, CaseInvs, citizen.style # "free", reply.kind = "followup", reply.asked # {},
         NEW slots \in SUBSET reply.asked, citizen.style = "all" => slots = reply.asked,
         Post(AnswerTo(slots))
  PROVE  CaseInvs'
<1>1. citizen' = citizen /\ citizen.need \in Needs
  BY DEF Post, CaseInvs
<1>2. SUFFICES ASSUME NEW s \in citizen.need \cap CaseWords
               PROVE  CaseInv(s)'
  BY <1>1 DEF CaseInvs
<1>3. Conversed(s) /\ reply.asked = Open(s, Spoken)
  BY <1>2 DEF CaseInvs, CaseInv
<1> DEFINE msg == AnswerTo(slots)
           words == citizen.need \cap UNION {SlotWords(x) : x \in slots}
           text == Spoken
<1>4. msg = [Silence EXCEPT !.words = words] /\ msg.words = words /\ msg.asks = FALSE
  BY DEF AnswerTo, Silence
<1>5. Post(msg)
  OBVIOUS
<1>6. slots \subseteq Open(s, text) /\ words = citizen.need \cap UNION {SlotWords(x) : x \in slots}
  BY <1>3
<1> HIDE DEF msg, words
<1>7. /\ last' = msg /\ reply'.kind = "pending"
      /\ \A m \in Range(past') : m \in Range(past) \cup {last} /\ m.words # {}
      /\ HistoryText(past') \subseteq text
      /\ past' # <<>> => Last(past') \in Range(past) \cup {last} /\ Last(past').words # {}
      /\ text # {} => past' # <<>>
  BY <1>3, <1>5, PostKeepsTurns
<1>8. words \subseteq Details \cap citizen.need
  <2> HIDE DEF text
  <2>1. s \in CaseWords
    BY <1>2
  <2> QED
    BY <1>6, <2>1, AnswerWords
<1>9. FromNeed(msg, s)
  <2>1. msg = [Silence EXCEPT !.words = msg.words, !.asks = msg.asks]
    BY <1>4 DEF Silence
  <2> QED
    BY <1>4, <1>8, <2>1 DEF FromNeed, ToldWith
<1>10. \A m \in Range(past') \cup {last'} : FromNeed(m, s)
  BY <1>3, <1>7, <1>9 DEF Conversed
<1>11. ASSUME citizen.style = "all" /\ "jiri" \in citizen.need PROVE AtOnce(s)'
  <2> DEFINE parts == {m.words : m \in Range(past) \cup {last}}
  <2>1. /\ text = UNION parts
        /\ \A p \in parts : p \in {{}, {s}, InFull(s)}
    <3>1. text = UNION parts
      BY DEF Spoken, HistoryText
    <3>2. AtOnce(s)
      BY <1>3, <1>11 DEF Conversed
    <3> QED
      BY <3>1, <3>2 DEF AtOnce
  <2>2. text \subseteq Details \cup {s}
    <3>1. \A m \in Range(past) \cup {last} : m.words \subseteq Details \cup {s}
      BY <1>3 DEF Conversed, FromNeed, ToldWith
    <3> QED
      BY <2>1, <3>1
  <2>3. Open(s, text) # {} /\ slots = Open(s, text)
    BY <1>3, <1>11
  <2>4. \A m \in Range(past) \cup {last} : m.words \in parts /\ m.words \subseteq text
    BY <2>1
  <2>5. s \in CaseWords /\ "jiri" \in InFull(s) /\ s # "jiri"
    BY <1>2, <1>11 DEF InFull, CaseWords
  <2> HIDE DEF parts, text
  <2>6. /\ "jiri" \notin text => text \subseteq {s}
        /\ "jiri" \in text => InFull(s) \subseteq text
    BY <2>1, <2>5
  <2>7. words = WordsFor(Open(s, text))
    BY <1>6, <2>3 DEF WordsFor
  <2>8. \/ "jiri" \notin text /\ text = {s} /\ words = InFull(s)
        \/ /\ "jiri" \in text /\ words = {} /\ s = "nagarikta"
           /\ citizen.need \cap {"naya", "child"} = {}
    <3>1. \/ "jiri" \notin text /\ text = {s} /\ WordsFor(Open(s, text)) = InFull(s)
          \/ /\ "jiri" \in text /\ WordsFor(Open(s, text)) = {} /\ s = "nagarikta"
             /\ citizen.need \cap {"naya", "child"} = {}
      <4>1. s \in CaseWords /\ "jiri" \in citizen.need /\ Open(s, text) # {}
        BY <1>11, <2>3, <2>5
      <4> QED
        BY <2>2, <2>6, <4>1, AllAtOnce
    <3> QED
      BY <2>7, <3>1
  <2>9. \A m \in Range(past') \cup {last'} : m.words \in {{}, {s}, InFull(s)}
    BY <1>4, <1>7, <2>1, <2>4, <2>8
  <2>10. "jiri" \in words => s \in LastUserQuestion(past')
    <3>1. ASSUME "jiri" \in words PROVE text = {s}
      BY <2>8, <3>1
    <3>2. ASSUME "jiri" \in words PROVE past' # <<>> /\ Last(past').words = {s}
      BY <1>7, <2>4, <3>1, <3>2
    <3> QED
      BY <3>2 DEF LastUserQuestion
  <2>11. words = {} => s = "nagarikta" /\ citizen.need \cap {"naya", "child"} = {}
    BY <1>11, <2>8 DEF InFull
  <2> QED
    BY <1>1, <1>4, <1>7, <2>9, <2>10, <2>11 DEF AtOnce, InFull
<1>12. Conversed(s)'
  BY <1>1, <1>7, <1>10, <1>11 DEF Conversed, FromNeed
<1> QED
  BY <1>7, <1>12 DEF CaseInv

(* What a citizen has said and was asked, in every state.                  *)
LEMMA CasesStep ==
  ASSUME ConvInv, CaseInvs, RefusedOutOfSight, [ConversationNext]_convVars
  PROVE  CaseInvs' /\ RefusedOutOfSight'
<1>1. ASSUME NEW msg, Post(msg) PROVE RefusedOutOfSight'
  BY <1>1 DEF Post, Pending, NoReply, RefusedOutOfSight
<1>2. ASSUME NEW msg, Say(msg) PROVE CaseInvs' /\ RefusedOutOfSight'
  <2>1. Post(msg) /\ citizen'.style = "free"
    BY <1>2 DEF Say, Post
  <2> QED
    BY <1>1, <2>1 DEF CaseInvs
<1>3. CASE Serve
  BY <1>3, ServeKeepsCases
<1>4. CASE Cooperate
  <2>1. CASE last = Silence /\ Post(Opening)
    BY <1>1, <1>4, <2>1, OpeningKeeps DEF Cooperate
  <2>2. ASSUME reply.kind = "followup", reply.asked # {},
               NEW slots \in IF citizen.style = "all" THEN {reply.asked} ELSE {{s} : s \in reply.asked},
               Post(AnswerTo(slots))
        PROVE  CaseInvs' /\ RefusedOutOfSight'
    <3>1. slots \in SUBSET reply.asked /\ (citizen.style = "all" => slots = reply.asked)
      BY <2>2
    <3>2. citizen.style # "free"
      BY <1>4 DEF Cooperate
    <3> QED
      BY <1>1, <2>2, <3>1, <3>2, AnsweringKeeps
  <2> QED
    BY <1>4, <2>1, <2>2 DEF Cooperate
<1>5. CASE UNCHANGED convVars
  <2>1. citizen' = citizen /\ past' = past /\ last' = last /\ found' = found /\ reply' = reply
    BY <1>5 DEF convVars
  <2>2. CaseInvs'
    BY <2>1 DEF CaseInvs, CaseInv, Conversed, FromNeed, AtOnce, InFull, Open, Spoken
  <2>3. RefusedOutOfSight'
    BY <2>1 DEF RefusedOutOfSight, AuthorityFound, ServiceInSight
  <2> QED
    BY <2>2, <2>3
<1> QED
  BY <1>2, <1>3, <1>4, <1>5 DEF ConversationNext

(* Nothing is said before the first turn.                                  *)
LEMMA CasesFirst ==
  ASSUME ConversationInit
  PROVE  CaseInvs /\ RefusedOutOfSight
<1>1. /\ past = <<>> /\ last = Silence /\ reply.kind = "silence"
      /\ citizen.style # "free" => citizen.need \in Needs
  BY DEF ConversationInit, NoReply
<1>2. Silence.words = {} /\ Silence.asks = FALSE
      /\ Silence = [Silence EXCEPT !.words = Silence.words, !.asks = Silence.asks]
  <2>1. Silence.words = {} /\ Silence.asks = FALSE
    BY DEF Silence
  <2>2. ASSUME NEW m, m = [Silence EXCEPT !.words = {}, !.asks = FALSE] PROVE m = Silence
    BY <2>2 DEF Silence
  <2> QED
    BY <2>1, <2>2
<1>3. Range(past) = {}
  BY <1>1 DEF Range
<1>4. ASSUME NEW s \in citizen.need \cap CaseWords PROVE CaseInv(s)
  <2>1. FromNeed(last, s)
    BY <1>1, <1>2 DEF FromNeed, ToldWith
  <2>2. AtOnce(s)
    BY <1>1, <1>2, <1>3 DEF AtOnce
  <2> QED
    BY <1>1, <1>3, <2>1, <2>2 DEF CaseInv, Conversed
<1>5. CaseInvs
  BY <1>1, <1>4 DEF CaseInvs
<1> QED
  BY <1>1, <1>5 DEF RefusedOutOfSight

(* Together they are an invariant.                                         *)
LEMMA CasesAlways == ConversationSpec => [](ConvInv /\ CaseInvs /\ RefusedOutOfSight)
<1> DEFINE I == ConvInv /\ CaseInvs /\ RefusedOutOfSight
<1>1. ConversationInit => I
  BY ConvFirst, CasesFirst
<1>2. I /\ [ConversationNext]_convVars => I'
  BY ConvStep, CasesStep
<1> QED
  BY <1>1, <1>2, PTL DEF ConversationSpec

(* The case is followed through its turns: the answer is what the plan     *)
(* says, what was said is not asked again, and a citizen who answers what  *)
(* is asked, and whose topic's authority was found, is refused only when   *)
(* the service is out of sight (main.py: query, _retrieval_passes; and     *)
(* navigator.py: resolve_case, planner_missing_slots).                     *)
THEOREM CaseFollowed == ConversationSpec => []CaseIsFollowed
<1>1. AnswerFollowsPlan /\ SaidIsNotAsked /\ RefusedOutOfSight => CaseIsFollowed
  BY DEF CaseIsFollowed
<1> QED
  BY <1>1, PlansFollowed, CasesAlways, PTL
=============================================================================
