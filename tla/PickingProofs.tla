--------------------------- MODULE PickingProofs ---------------------------
(***************************************************************************)
(* What Picked picks, for every sequence and every set of places.  What a  *)
(* recursive function computes is proved by a smallest counterexample.     *)
(***************************************************************************)
EXTENDS Picking, WellFoundedInduction, TLAPS

(* A set of naturals has a least member: there is no infinite descent.     *)
LEMMA Least ==
  ASSUME NEW T, T \subseteq Nat, T # {}
  PROVE  \E n \in T : \A m \in T : n <= m
<1> DEFINE R == {ss \in Nat \X Nat : ss[1] < ss[2]}
<1>1. IsWellFoundedOn(R, Nat)
  BY NatLessThanWellFounded DEF OpToRel
<1>2. PICK n \in T : \A m \in T : <<m, n>> \notin R
  <2> HIDE DEF R
  <2> QED
    BY <1>1, WFMin
<1>3. \A m \in T : ~ m < n
  BY <1>2
<1> QED
  BY <1>3

(* Induction up to N, over a set: a member that is missing would have a    *)
(* least one before it.                                                    *)
LEMMA UpTo ==
  ASSUME NEW N \in Nat, NEW G, 0 \in G, \A n \in 1 .. N : n - 1 \in G => n \in G
  PROVE  0 .. N \subseteq G
<1> DEFINE T == (0 .. N) \ G
<1>1. SUFFICES ASSUME T # {} PROVE FALSE
  OBVIOUS
<1>2. PICK n \in T : \A m \in T : n <= m
  <2>1. T \subseteq Nat
    OBVIOUS
  <2> HIDE DEF T
  <2> QED
    BY <1>1, <2>1, Least
<1>3. n # 0 /\ n \in 1 .. N /\ n - 1 \in 0 .. N /\ n - 1 \notin T
  BY <1>2
<1> QED
  BY <1>3, <1>2

(* f is built from base by the steps of step; such a function exists, since*)
(* an initial part of it can be continued.                                 *)
Follows(f, N, base, step) == f[0] = base /\ \A n \in 1 .. N : f[n] = step[<<f[n - 1], n>>]

LEMMA Defined ==
  ASSUME NEW N \in Nat, NEW S, NEW base \in S, NEW step \in [S \X (1 .. N) -> S]
  PROVE  \E f \in [0 .. N -> S] : Follows(f, N, base, step)
<1> DEFINE G == {m \in 0 .. N : \E f \in [0 .. m -> S] :
                   f[0] = base /\ \A n \in 1 .. m : f[n] = step[<<f[n - 1], n>>]}
<1>1. 0 \in G
  <2> DEFINE f == [n \in 0 .. 0 |-> base]
  <2>1. f \in [0 .. 0 -> S] /\ f[0] = base /\ \A n \in 1 .. 0 : f[n] = step[<<f[n - 1], n>>]
    OBVIOUS
  <2> HIDE DEF f
  <2> QED
    BY <2>1
<1>2. ASSUME NEW m \in 1 .. N, m - 1 \in G PROVE m \in G
  <2>1. PICK f \in [0 .. m - 1 -> S] :
          f[0] = base /\ \A n \in 1 .. m - 1 : f[n] = step[<<f[n - 1], n>>]
    BY <1>2
  <2> DEFINE g == [n \in 0 .. m |-> IF n = m THEN step[<<f[m - 1], m>>] ELSE f[n]]
  <2>2. step[<<f[m - 1], m>>] \in S
    OBVIOUS
  <2>3. g \in [0 .. m -> S] /\ g[0] = base
    BY <2>1, <2>2
  <2>4. ASSUME NEW n \in 1 .. m PROVE g[n] = step[<<g[n - 1], n>>]
    <3>1. g[n - 1] = f[n - 1] /\ n - 1 \in 0 .. m - 1
      OBVIOUS
    <3>2. CASE n = m
      BY <3>1, <3>2, SMTT(30)
    <3>3. CASE n # m
      <4>1. n \in 1 .. m - 1 /\ g[n] = f[n]
        BY <3>3
      <4> QED
        BY <2>1, <3>1, <4>1
    <3> QED
      BY <3>2, <3>3
  <2> HIDE DEF g
  <2> QED
    BY <2>3, <2>4
<1>3. 0 .. N \subseteq G
  <2> HIDE DEF G
  <2> QED
    BY <1>1, <1>2, UpTo
<1> QED
  BY <1>3 DEF Follows

(* to[n] is what Picked has after n sentences.                             *)
Picks(to, text, K) ==
  /\ Picked(text, K) = to[Len(text)]
  /\ to[0] = <<>>
  /\ \A n \in 1 .. Len(text) :
       to[n] = IF n \in K THEN Append(to[n - 1], text[n]) ELSE to[n - 1]

(* The recursive definition of Picked means what it says.                  *)
LEMMA PickedSteps ==
  ASSUME NEW S, NEW text \in Seq(S), NEW K
  PROVE  \E to \in [0 .. Len(text) -> Seq(S)] : Picks(to, text, K)
<1> DEFINE N == Len(text)
           T == Seq(S)
           step == [p \in T \X (1 .. N) |->
                      IF p[2] \in K THEN Append(p[1], text[p[2]]) ELSE p[1]]
           chosen == CHOOSE f : f = [n \in 0 .. Len(text) |->
                        IF n = 0 THEN <<>>
                        ELSE IF n \in K THEN Append(f[n - 1], text[n]) ELSE f[n - 1]]
<1>1. N \in Nat /\ <<>> \in T /\ \A n \in 1 .. N : text[n] \in S
  OBVIOUS
<1>2. \A t \in T, n \in 1 .. N : Append(t, text[n]) \in T
  BY <1>1
<1> HIDE DEF T
<1>3. step \in [T \X (1 .. N) -> T]
  BY <1>2
<1>4. PICK f \in [0 .. N -> T] : f[0] = <<>> /\ \A n \in 1 .. N : f[n] = step[<<f[n - 1], n>>]
  <2> DEFINE base == <<>>
  <2>1. N \in Nat /\ base \in T
    BY <1>1
  <2> HIDE DEF step, N, chosen, base
  <2>2. \E f \in [0 .. N -> T] : Follows(f, N, base, step)
    BY <1>3, <2>1, Defined
  <2> QED
    BY <2>2 DEF base, Follows
<1>5. \A n \in 1 .. N : f[n - 1] \in T
  BY <1>1
<1>6. \A n \in 1 .. N : f[n] = IF n \in K THEN Append(f[n - 1], text[n]) ELSE f[n - 1]
  BY <1>4, <1>5
<1>7. f = [n \in 0 .. N |-> IF n = 0 THEN <<>>
                         ELSE IF n \in K THEN Append(f[n - 1], text[n]) ELSE f[n - 1]]
  <2>1. \A n \in 0 .. N : f[n] = IF n = 0 THEN <<>>
                 ELSE IF n \in K THEN Append(f[n - 1], text[n]) ELSE f[n - 1]
    <3> HIDE DEF step
    <3>1. \A n \in 0 .. N : n = 0 \/ n \in 1 .. N
      BY <1>1
    <3> HIDE DEF N
    <3> QED
      BY <1>4, <1>6, <3>1
  <2> HIDE DEF N
  <2> QED
    BY <2>1
<1>8. chosen = [n \in 0 .. N |-> IF n = 0 THEN <<>>
                 ELSE IF n \in K THEN Append(chosen[n - 1], text[n]) ELSE chosen[n - 1]]
  BY <1>7, Zenon
<1>9. Picked(text, K) = chosen[N]
  BY Zenon DEF Picked
<1> HIDE DEF chosen, N, step
<1>10. /\ chosen = [n \in 0 .. N |-> chosen[n]] /\ chosen[0] = <<>>
       /\ \A n \in 1 .. N : chosen[n] = IF n \in K THEN Append(chosen[n - 1], text[n]) ELSE chosen[n - 1]
  <2> DEFINE h == [n \in 0 .. N |-> IF n = 0 THEN <<>>
                 ELSE IF n \in K THEN Append(chosen[n - 1], text[n]) ELSE chosen[n - 1]]
  <2>1. /\ h = [n \in 0 .. N |-> h[n]] /\ h[0] = <<>>
        /\ \A n \in 1 .. N : h[n] = IF n \in K THEN Append(chosen[n - 1], text[n]) ELSE chosen[n - 1]
    BY <1>1
  <2>2. chosen = h
    BY <1>8
  <2> HIDE DEF h
  <2> QED
    BY <2>1, <2>2
<1> DEFINE G == {n \in 0 .. N : chosen[n] \in T}
<1>11. 0 .. N \subseteq G
  <2>1. 0 \in G
    BY <1>1, <1>10
  <2>2. ASSUME NEW n \in 1 .. N, n - 1 \in G PROVE n \in G
    <3>1. chosen[n - 1] \in T
      BY <2>2
    <3>2. chosen[n] \in T
      BY <1>2, <1>10, <3>1
    <3> QED
      BY <3>2
  <2> HIDE DEF G
  <2> QED
    BY <1>1, <2>1, <2>2, UpTo
<1>12. chosen \in [0 .. N -> T]
  <2>1. \A n \in 0 .. N : chosen[n] \in T
    BY <1>11
  <2> QED
    BY <1>10, <2>1
<1> QED
  BY <1>9, <1>10, <1>12 DEF N, T, Picks

(* y is what text says at the places L, each of them once.                 *)
PlacesOf(pos, y, text, L) ==
  /\ pos \in [1 .. Len(y) -> L]
  /\ \A i, j \in 1 .. Len(y) : pos[i] = pos[j] => i = j
  /\ \A i \in 1 .. Len(y) : y[i] = text[pos[i]]
  /\ \A k \in L : \E i \in 1 .. Len(y) : pos[i] = k

LEMMA PlaceAdded ==
  ASSUME NEW S, NEW y \in Seq(S), NEW text, NEW n, text[n] \in S, NEW L, n \notin L, NEW pos,
         PlacesOf(pos, y, text, L)
  PROVE  \E p : PlacesOf(p, Append(y, text[n]), text, L \cup {n})
<1> DEFINE m == Len(y)
           z == Append(y, text[n])
           p == [i \in 1 .. m + 1 |-> IF i = m + 1 THEN n ELSE pos[i]]
<1>1. m \in Nat /\ Len(z) = m + 1 /\ z[m + 1] = text[n] /\ \A i \in 1 .. m : z[i] = y[i]
  OBVIOUS
<1>2. pos \in [1 .. m -> L] /\ \A i \in 1 .. m : y[i] = text[pos[i]] /\ pos[i] \in L
  BY DEF PlacesOf
<1>3. \A i \in 1 .. m + 1 : i = m + 1 \/ i \in 1 .. m
  BY <1>1
<1>4. p[m + 1] = n /\ \A i \in 1 .. m : p[i] = pos[i] /\ i # m + 1 /\ i \in 1 .. m + 1
  BY <1>1
<1>5. m + 1 \in 1 .. m + 1 /\ DOMAIN p = 1 .. m + 1 /\ p = [i \in 1 .. m + 1 |-> p[i]]
  BY <1>1
<1> HIDE DEF p, m, z
<1>6. p \in [1 .. m + 1 -> L \cup {n}]
  BY <1>2, <1>3, <1>4, <1>5
<1>7. \A i \in 1 .. m + 1 : z[i] = text[p[i]]
  BY <1>1, <1>2, <1>3, <1>4
<1>8. \A i, j \in 1 .. m + 1 : p[i] = p[j] => i = j
  <2>1. \A i, j \in 1 .. m : pos[i] = pos[j] => i = j
    BY DEF PlacesOf, m
  <2> QED
    BY <1>2, <1>3, <1>4, <2>1
<1>9. ASSUME NEW k \in L \cup {n} PROVE \E i \in 1 .. m + 1 : p[i] = k
  <2>1. CASE k = n
    BY <1>4, <1>5, <2>1
  <2>2. CASE k # n
    <3>1. PICK i \in 1 .. m : pos[i] = k
      BY <2>2 DEF PlacesOf, m
    <3> QED
      BY <1>4, <3>1
  <2> QED
    BY <2>1, <2>2
<1>10. PlacesOf(p, z, text, L \cup {n})
  BY <1>1, <1>6, <1>7, <1>8, <1>9 DEF PlacesOf
<1> QED
  BY <1>10 DEF z

(* What is picked are the sentences at K.                                  *)
LEMMA PickedPlaces ==
  ASSUME NEW S, NEW text \in Seq(S), NEW K
  PROVE  /\ Picked(text, K) \in Seq(S)
         /\ \E pos : PlacesOf(pos, Picked(text, K), text, K \cap (1 .. Len(text)))
<1> DEFINE N == Len(text)
<1>1. N \in Nat /\ \A n \in 1 .. N : text[n] \in S
  OBVIOUS
<1>2. PICK to \in [0 .. N -> Seq(S)] : Picks(to, text, K)
  BY PickedSteps
<1> HIDE DEF N
<1> DEFINE G == {n \in 0 .. N : \E pos : PlacesOf(pos, to[n], text, K \cap (1 .. n))}
<1>3. 0 \in G
  <2> DEFINE pos == [i \in 1 .. 0 |-> 0]
  <2>1. to[0] = <<>> /\ K \cap (1 .. 0) = {} /\ 0 \in 0 .. N
    BY <1>1, <1>2 DEF Picks
  <2>2. PlacesOf(pos, <<>>, text, {})
    BY DEF PlacesOf
  <2> HIDE DEF pos
  <2> QED
    BY <2>1, <2>2
<1>4. ASSUME NEW n \in 1 .. N, n - 1 \in G PROVE n \in G
  <2>1. PICK pos : PlacesOf(pos, to[n - 1], text, K \cap (1 .. n - 1))
    BY <1>4
  <2>2. to[n - 1] \in Seq(S) /\ n \notin 1 .. n - 1 /\ n \in 0 .. N /\ text[n] \in S
    BY <1>1
  <2>3. CASE n \in K
    <3>1. to[n] = Append(to[n - 1], text[n])
      BY <1>2, <2>3 DEF Picks, N
    <3>2. K \cap (1 .. n) = (K \cap (1 .. n - 1)) \cup {n}
      BY <1>1, <2>3
    <3>3. \E p : PlacesOf(p, Append(to[n - 1], text[n]), text, (K \cap (1 .. n - 1)) \cup {n})
      <4> DEFINE L == K \cap (1 .. n - 1)
      <4>1. n \notin L /\ PlacesOf(pos, to[n - 1], text, L)
        BY <2>1, <2>2
      <4> HIDE DEF L
      <4>2. \E p : PlacesOf(p, Append(to[n - 1], text[n]), text, L \cup {n})
        BY <2>2, <4>1, PlaceAdded
      <4> QED
        BY <4>2 DEF L
    <3> QED
      BY <2>2, <3>1, <3>2, <3>3
  <2>4. CASE n \notin K
    <3>1. to[n] = to[n - 1]
      BY <1>2, <2>4 DEF Picks, N
    <3>2. K \cap (1 .. n) = K \cap (1 .. n - 1)
      BY <1>1, <2>4
    <3> QED
      BY <2>1, <2>2, <3>1, <3>2
  <2> QED
    BY <2>3, <2>4
<1>5. N \in G
  <2> HIDE DEF G
  <2>1. 0 .. N \subseteq G
    BY <1>1, <1>3, <1>4, UpTo
  <2> QED
    BY <1>1, <2>1
<1>6. Picked(text, K) = to[N] /\ to[N] \in Seq(S)
  BY <1>1, <1>2 DEF Picks, N
<1> QED
  BY <1>5, <1>6 DEF N

(* All of a text is the text.                                              *)
LEMMA PickedAll ==
  ASSUME NEW S, NEW text \in Seq(S), NEW K, 1 .. Len(text) \subseteq K
  PROVE  Picked(text, K) = text
<1> DEFINE N == Len(text)
<1>1. N \in Nat /\ \A n \in 1 .. N : text[n] \in S
  OBVIOUS
<1>2. PICK to \in [0 .. N -> Seq(S)] : Picks(to, text, K)
  BY PickedSteps
<1> HIDE DEF N
<1> DEFINE G == {n \in 0 .. N : Len(to[n]) = n /\ \A i \in 1 .. n : to[n][i] = text[i]}
<1>3. 0 \in G
  BY <1>1, <1>2 DEF Picks
<1>4. ASSUME NEW n \in 1 .. N, n - 1 \in G PROVE n \in G
  <2>1. /\ to[n - 1] \in Seq(S) /\ Len(to[n - 1]) = n - 1
        /\ \A i \in 1 .. n - 1 : to[n - 1][i] = text[i]
    BY <1>1, <1>4
  <2>2. to[n] = Append(to[n - 1], text[n])
    BY <1>2 DEF Picks, N
  <2>3. Len(to[n]) = n /\ to[n][n] = text[n] /\ \A i \in 1 .. n - 1 : to[n][i] = to[n - 1][i]
    BY <1>1, <2>1, <2>2
  <2>4. ASSUME NEW i \in 1 .. n PROVE to[n][i] = text[i]
    <3>1. i = n \/ i \in 1 .. n - 1
      BY <1>1
    <3> QED
      BY <2>1, <2>3, <3>1
  <2> QED
    BY <2>3, <2>4
<1>5. N \in G
  <2> HIDE DEF G
  <2>1. 0 .. N \subseteq G
    BY <1>1, <1>3, <1>4, UpTo
  <2> QED
    BY <1>1, <2>1
<1>6. Picked(text, K) = to[N] /\ to[N] \in Seq(S) /\ Len(to[N]) = N /\ \A i \in 1 .. N : to[N][i] = text[i]
  BY <1>1, <1>2, <1>5 DEF Picks, N
<1> QED
  BY <1>6 DEF N

(* A member that is picked does not move back.                             *)
LEMMA PickedEarly ==
  ASSUME NEW S, NEW text \in Seq(S), NEW K, NEW k \in 1 .. Len(text), k \in K
  PROVE  /\ Picked(text, K) \in Seq(S)
         /\ \E i \in 1 .. Len(Picked(text, K)) : i <= k /\ Picked(text, K)[i] = text[k]
<1> DEFINE N == Len(text)
<1>1. N \in Nat /\ k \in 1 .. N /\ \A n \in 1 .. N : text[n] \in S
  OBVIOUS
<1>2. PICK to \in [0 .. N -> Seq(S)] : Picks(to, text, K)
  BY PickedSteps
<1>3. to[0] = <<>> /\ \A n \in 1 .. N : to[n] = IF n \in K THEN Append(to[n - 1], text[n]) ELSE to[n - 1]
  BY <1>2 DEF Picks
<1>4. Picked(text, K) = to[N]
  BY <1>2 DEF Picks
<1> HIDE DEF N
<1> DEFINE Held(n) == \E i \in 1 .. Len(to[n]) : i <= k /\ to[n][i] = text[k]
           G == {n \in 0 .. N : Len(to[n]) <= n /\ (n >= k => Held(n))}
<1>5. 0 \in G
  BY <1>1, <1>3
<1>6. ASSUME NEW n \in 1 .. N, n - 1 \in G PROVE n \in G
  <2>1. to[n - 1] \in Seq(S) /\ Len(to[n - 1]) \in Nat /\ Len(to[n - 1]) <= n - 1 /\ (n - 1 >= k => Held(n - 1))
    BY <1>1, <1>6
  <2>2. CASE n \in K
    <3> DEFINE a == to[n - 1]
               b == to[n]
    <3>1. b = Append(a, text[n]) /\ text[n] \in S
      BY <1>1, <1>3, <2>2
    <3>2. /\ Len(b) = Len(a) + 1 /\ b[Len(a) + 1] = text[n]
          /\ \A i \in 1 .. Len(a) : b[i] = a[i]
      BY <2>1, <3>1
    <3> HIDE DEF a, b
    <3>3. Len(b) <= n /\ Len(a) \in Nat /\ Len(a) <= n - 1
      BY <2>1, <3>2 DEF a
    <3>4. ASSUME n >= k PROVE \E i \in 1 .. Len(b) : i <= k /\ b[i] = text[k]
      <4>1. CASE n = k
        <5>1. Len(a) + 1 \in 1 .. Len(b) /\ Len(a) + 1 <= k /\ b[Len(a) + 1] = text[k]
          BY <1>1, <3>2, <3>3, <4>1
        <5> QED
          BY <5>1
      <4>2. CASE n - 1 >= k
        <5>1. PICK i \in 1 .. Len(a) : i <= k /\ a[i] = text[k]
          BY <2>1, <4>2 DEF a
        <5> QED
          BY <3>2, <3>3, <5>1
      <4> QED
        BY <1>1, <3>4, <4>1, <4>2
    <3> QED
      BY <1>1, <3>3, <3>4 DEF b
  <2>3. CASE n \notin K
    <3>1. to[n] = to[n - 1] /\ n # k
      BY <1>3, <2>3
    <3> QED
      BY <1>1, <2>1, <3>1
  <2> QED
    BY <2>2, <2>3
<1>7. N \in G
  <2> HIDE DEF G
  <2>1. 0 .. N \subseteq G
    BY <1>1, <1>5, <1>6, UpTo
  <2> QED
    BY <1>1, <2>1
<1> QED
  BY <1>1, <1>2, <1>4, <1>7

(* a is the beginning of b; so are its sentences at the same places.       *)
IsStart(a, b) == Len(a) <= Len(b) /\ \A i \in 1 .. Len(a) : a[i] = b[i]

LEMMA PickedPrefix ==
  ASSUME NEW S, NEW a \in Seq(S), NEW b \in Seq(S), NEW K, NEW L, IsStart(a, b),
         \A i \in 1 .. Len(a) : i \in K <=> i \in L
  PROVE  IsStart(Picked(a, K), Picked(b, L))
<1> DEFINE M == Len(a)
           N == Len(b)
<1>1. M \in Nat /\ N \in Nat /\ M <= N /\ \A i \in 1 .. M : a[i] = b[i]
  BY DEF IsStart
<1>2. \A n \in 1 .. N : b[n] \in S
  OBVIOUS
<1>3. PICK s \in [0 .. M -> Seq(S)] : Picks(s, a, K)
  BY PickedSteps
<1>4. PICK t \in [0 .. N -> Seq(S)] : Picks(t, b, L)
  BY PickedSteps
<1>5. /\ Picked(a, K) = s[M] /\ Picked(b, L) = t[N] /\ s[0] = <<>> /\ t[0] = <<>>
      /\ \A n \in 1 .. M : s[n] = IF n \in K THEN Append(s[n - 1], a[n]) ELSE s[n - 1]
      /\ \A n \in 1 .. N : t[n] = IF n \in L THEN Append(t[n - 1], b[n]) ELSE t[n - 1]
  BY <1>3, <1>4 DEF Picks
<1>6. \A i \in 1 .. M : i \in K <=> i \in L
  OBVIOUS
<1> HIDE DEF M, N
<1> DEFINE G == {n \in 0 .. M : s[n] = t[n]}
<1>7. M \in G
  <2>1. 0 \in G
    BY <1>1, <1>5
  <2>2. ASSUME NEW n \in 1 .. M, n - 1 \in G PROVE n \in G
    <3>1. n \in 1 .. N /\ n \in 0 .. M /\ s[n - 1] = t[n - 1]
      BY <1>1, <2>2
    <3> QED
      BY <1>1, <1>5, <1>6, <3>1
  <2> HIDE DEF G
  <2>3. 0 .. M \subseteq G
    BY <1>1, <2>1, <2>2, UpTo
  <2> QED
    BY <1>1, <2>3
<1> DEFINE H == {n \in 0 .. N : n >= M => IsStart(t[M], t[n])}
<1>8. t[M] \in Seq(S) /\ Len(t[M]) \in Nat
  BY <1>1
<1>9. IsStart(t[M], t[M])
  BY <1>8 DEF IsStart
<1>10. N \in H
  <2>1. 0 \in H
    BY <1>1, <1>9
  <2>2. ASSUME NEW n \in 1 .. N, n - 1 \in H PROVE n \in H
    <3>1. n \in 0 .. N /\ t[n - 1] \in Seq(S) /\ b[n] \in S
      BY <1>1, <1>2
    <3>2. CASE n = M
      BY <1>9, <3>1, <3>2
    <3>3. CASE n > M
      <4>1. IsStart(t[M], t[n - 1])
        BY <1>1, <2>2, <3>3
      <4>2. IsStart(t[M], Append(t[n - 1], b[n]))
        BY <1>8, <3>1, <4>1 DEF IsStart
      <4> QED
        BY <1>5, <3>1, <4>1, <4>2
    <3>4. CASE n < M
      BY <1>1, <3>1, <3>4
    <3> QED
      BY <1>1, <3>2, <3>3, <3>4
  <2> HIDE DEF H
  <2>3. 0 .. N \subseteq H
    BY <1>1, <2>1, <2>2, UpTo
  <2> QED
    BY <1>1, <2>3
<1> QED
  BY <1>1, <1>5, <1>7, <1>10

(* What is built by steps within S stays within S.                         *)
LEMMA StaysIn ==
  ASSUME NEW N \in Nat, NEW S, NEW h, h[0] \in S, \A n \in 1 .. N : h[n - 1] \in S => h[n] \in S
  PROVE  \A n \in 0 .. N : h[n] \in S
<1> DEFINE G == {n \in 0 .. N : h[n] \in S}
<1>1. 0 \in G
  OBVIOUS
<1>2. ASSUME NEW n \in 1 .. N, n - 1 \in G PROVE n \in G
  BY <1>2
<1> HIDE DEF G
<1>3. 0 .. N \subseteq G
  BY <1>1, <1>2, UpTo
<1> QED
  BY <1>3 DEF G

(* The lists that are joined one by one.                                   *)
Joins(to, lists) ==
  /\ Concat(lists) = to[Len(lists)]
  /\ to[0] = <<>>
  /\ \A n \in 1 .. Len(lists) : to[n] = to[n - 1] \o lists[n]

(* The recursive definition of Concat means what it says.                  *)
LEMMA ConcatSteps ==
  ASSUME NEW S, NEW lists \in Seq(Seq(S))
  PROVE  \E to : Joins(to, lists) /\ \A n \in 0 .. Len(lists) : to[n] \in Seq(S)
<1> DEFINE N == Len(lists)
           T == Seq(S)
           step == [p \in T \X (1 .. N) |-> p[1] \o lists[p[2]]]
           chosen == CHOOSE f : f = [n \in 0 .. Len(lists) |->
                        IF n = 0 THEN <<>> ELSE f[n - 1] \o lists[n]]
<1>1. N \in Nat /\ <<>> \in T /\ \A n \in 1 .. N : lists[n] \in T
  OBVIOUS
<1>2. \A t \in T, u \in T : t \o u \in T
  OBVIOUS
<1> HIDE DEF T
<1>3. step \in [T \X (1 .. N) -> T]
  BY <1>1, <1>2
<1>4. PICK f \in [0 .. N -> T] : f[0] = <<>> /\ \A n \in 1 .. N : f[n] = step[<<f[n - 1], n>>]
  <2> DEFINE base == <<>>
  <2>1. N \in Nat /\ base \in T
    BY <1>1
  <2> HIDE DEF step, N, chosen, base
  <2>2. \E f \in [0 .. N -> T] : Follows(f, N, base, step)
    BY <1>3, <2>1, Defined
  <2> QED
    BY <2>2 DEF base, Follows
<1>5. \A n \in 1 .. N : f[n - 1] \in T
  BY <1>1
<1>6. \A n \in 1 .. N : f[n] = f[n - 1] \o lists[n]
  BY <1>4, <1>5
<1>7. f = [n \in 0 .. N |-> IF n = 0 THEN <<>> ELSE f[n - 1] \o lists[n]]
  <2>1. \A n \in 0 .. N : f[n] = IF n = 0 THEN <<>> ELSE f[n - 1] \o lists[n]
    <3> HIDE DEF step
    <3>1. \A n \in 0 .. N : n = 0 \/ n \in 1 .. N
      BY <1>1
    <3> HIDE DEF N
    <3> QED
      BY <1>4, <1>6, <3>1
  <2> HIDE DEF N
  <2> QED
    BY <2>1
<1>8. chosen = [n \in 0 .. N |-> IF n = 0 THEN <<>> ELSE chosen[n - 1] \o lists[n]]
  BY <1>7, Zenon
<1>9. Concat(lists) = chosen[N]
  BY Zenon DEF Concat
<1> HIDE DEF chosen, N, step
<1>10. chosen[0] = <<>> /\ \A n \in 1 .. N : chosen[n] = chosen[n - 1] \o lists[n]
  <2> DEFINE h == [n \in 0 .. N |-> IF n = 0 THEN <<>> ELSE chosen[n - 1] \o lists[n]]
  <2>1. h[0] = <<>> /\ \A n \in 1 .. N : h[n] = chosen[n - 1] \o lists[n]
    BY <1>1
  <2>2. chosen = h
    BY <1>8
  <2> HIDE DEF h
  <2> QED
    BY <2>1, <2>2
<1>11. \A n \in 0 .. N : chosen[n] \in T
  <2>1. chosen[0] \in T /\ \A n \in 1 .. N : chosen[n - 1] \in T => chosen[n] \in T
    BY <1>1, <1>2, <1>10
  <2> QED
    BY <1>1, <2>1, StaysIn
<1>12. Joins(chosen, lists)
  BY <1>9, <1>10 DEF Joins, N
<1> QED
  BY <1>11, <1>12 DEF N, T

(* Lists of members of S, joined, are one.                                 *)
LEMMA ConcatType ==
  ASSUME NEW S, NEW lists \in Seq(Seq(S))
  PROVE  Concat(lists) \in Seq(S)
<1>1. PICK to : Joins(to, lists) /\ \A n \in 0 .. Len(lists) : to[n] \in Seq(S)
  BY ConcatSteps
<1>2. Len(lists) \in 0 .. Len(lists)
  OBVIOUS
<1> QED
  BY <1>1, <1>2 DEF Joins
=============================================================================
